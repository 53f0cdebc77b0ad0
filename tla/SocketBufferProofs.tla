------------------------- MODULE SocketBufferProofs -------------------------
(***************************************************************************)
(* Theorems about SocketBuffer for any set of processes, any switch tables *)
(* and any sizes: what the lock of the buffer guarantees although a macro  *)
(* loses its errors; that the counters follow the chain and when select    *)
(* may trust them; and what domaininit, the timers and if_down guarantee   *)
(* the protocols.  The invariant has four parts that no action ties to     *)
(* one another: the switch, the counters and those in the middle of        *)
(* changing them, the lock, the bound of the chain.                        *)
(***************************************************************************)
EXTENDS SocketBuffer, SequenceFacts, FiniteSetTheorems

\* As long as nobody passed without the lock, those inside are one, who
\* holds it.
HolderAlone ==
  ~intruded => /\ \A p, q \in inside : p = q
               /\ inside # {} => "LOCK" \in sb_flags

\* Only a locked buffer has sleepers, and the one who unlocks it knows.
SleepersFlagged == asleep # {} => {"LOCK", "WANT"} \subseteq sb_flags

\* The inductive invariant of the lock.  An intruder that unlocks the
\* buffer of another is harmless to those asleep, because SB_WANT stands for
\* all of them, but leaves the other inside an unlocked buffer: that is why
\* HolderAlone is said only of buffers without intruders, and why intruded
\* may be reset no earlier than when everybody has left.
LockInv == LockReleased /\ HolderAlone /\ SleepersFlagged

-----------------------------------------------------------------------------
(* The operations on the lock.                                             *)

LEMMA SblockStep ==
  ASSUME LockInv, NEW p \in Procs, NEW wf, sblock(p, wf)
  PROVE  LockInv'
<1>1. CASE "LOCK" \notin sb_flags
  <2>1. /\ sb_flags' = sb_flags \cup {"LOCK"} /\ inside' = inside \cup {p}
        /\ asleep' = asleep /\ intruded' = intruded
    BY <1>1 DEF sblock, Passes
  <2>2. asleep = {} /\ (~intruded => inside = {})
    BY <1>1 DEF LockInv, SleepersFlagged, HolderAlone
  <2>3. QED BY <2>1, <2>2 DEF LockInv, LockReleased, HolderAlone, SleepersFlagged
<1>2. CASE "LOCK" \in sb_flags /\ wf = "WAITOK"
  <2>1. /\ sb_flags' = sb_flags \cup {"WANT"} /\ asleep' = asleep \cup {p}
        /\ inside' = inside /\ intruded' = intruded
    BY <1>2 DEF sblock, Sleeps
  <2>2. QED BY <1>2, <2>1 DEF LockInv, LockReleased, HolderAlone, SleepersFlagged
<1>3. CASE "LOCK" \in sb_flags /\ wf # "WAITOK"
  <2>1. /\ inside' = inside \cup {p} /\ intruded' = TRUE
        /\ sb_flags' = sb_flags /\ asleep' = asleep
    BY <1>3 DEF sblock, Passes
  <2>2. QED BY <2>1 DEF LockInv, LockReleased, HolderAlone, SleepersFlagged
<1>4. QED BY <1>1, <1>2, <1>3

LEMMA SbLockStep ==
  ASSUME LockInv, NEW p \in Procs, sb_lock(p)
  PROVE  LockInv'
<1>1. CASE "LOCK" \notin sb_flags
  <2>1. /\ sb_flags' = sb_flags \cup {"LOCK"} /\ inside' = inside \cup {p}
        /\ asleep' = asleep /\ intruded' = intruded
    BY <1>1 DEF sb_lock, Passes
  <2>2. asleep = {} /\ (~intruded => inside = {})
    BY <1>1 DEF LockInv, SleepersFlagged, HolderAlone
  <2>3. QED BY <2>1, <2>2 DEF LockInv, LockReleased, HolderAlone, SleepersFlagged
<1>2. CASE "LOCK" \in sb_flags
  <2>1. /\ sb_flags' = sb_flags \cup {"WANT"} /\ asleep' = asleep \cup {p}
        /\ inside' = inside /\ intruded' = intruded
    BY <1>2 DEF sb_lock, Sleeps
  <2>2. QED BY <1>2, <2>1 DEF LockInv, LockReleased, HolderAlone, SleepersFlagged
<1>3. QED BY <1>1, <1>2

LEMMA InterruptedStep ==
  ASSUME LockInv, NEW p \in Procs, Interrupted(p)
  PROVE  LockInv'
<1>1. /\ asleep' = asleep \ {p} /\ inside' = inside \cup {p} /\ intruded' = TRUE
      /\ sb_flags' = sb_flags
  BY DEF Interrupted, Passes
<1>2. QED BY <1>1 DEF LockInv, LockReleased, HolderAlone, SleepersFlagged

LEMMA SbunlockStep ==
  ASSUME LockInv, NEW p \in Procs, sbunlock(p)
  PROVE  LockInv'
<1>1. /\ p \in inside /\ sb_flags' = {} /\ inside' = inside \ {p}
      /\ asleep' = (IF "WANT" \in sb_flags THEN {} ELSE asleep)
      /\ intruded' = (intruded /\ inside' # {})
  BY DEF sbunlock
<1>2. asleep' = {}
  BY <1>1 DEF LockInv, SleepersFlagged
<1>3. ~intruded' => inside' = {}
  BY <1>1 DEF LockInv, HolderAlone
<1>4. QED BY <1>1, <1>2, <1>3 DEF LockInv, LockReleased, HolderAlone, SleepersFlagged

\* The protocol switch and the counters leave the lock alone.
LEMMA LockKept ==
  ASSUME LockInv, UNCHANGED lock
  PROVE  LockInv'
BY DEF LockInv, LockReleased, HolderAlone, SleepersFlagged, lock

-----------------------------------------------------------------------------
(* The invariants.                                                         *)

LEMMA InitLockInv == Init => LockInv
BY DEF Init, LockInv, LockReleased, HolderAlone, SleepersFlagged

LEMMA StepLockInv == LockInv /\ [Next]_vars => LockInv'
<1> SUFFICES ASSUME LockInv, [Next]_vars PROVE LockInv'
  OBVIOUS
<1>1. CASE UNCHANGED sbvars
  BY <1>1, LockKept DEF sbvars, lock
<1>2. CASE UNCHANGED lock
  BY <1>2, LockKept
<1>3. ASSUME NEW p \in Procs, Locking(p) PROVE LockInv'
  BY <1>3, SblockStep, SbLockStep, InterruptedStep DEF Locking
<1>4. ASSUME NEW p \in Procs, Unlocking(p) PROVE LockInv'
  BY <1>4, SbunlockStep DEF Unlocking
<1>5. QED BY <1>1, <1>2, <1>3, <1>4 DEF Next, vars, Counting, Links, Takes, Begins

\* Whatever the table entries are, the headers fit once domaininit has run.
LEMMA StepHeaders == HeadersFit /\ [Next]_vars => HeadersFit'
<1> SUFFICES ASSUME HeadersFit, [Next]_vars PROVE HeadersFit'
  OBVIOUS
<1>1. CASE UNCHANGED <<domains, room>>
  BY <1>1 DEF HeadersFit
<1>2. ASSUME NEW ds, domaininit(ds) PROVE HeadersFit'
  <2> DEFINE linkhdr == Max({LINKHDR, 16})
             hdr == linkhdr + PROTOHDR
  <2>1. room' = [linkhdr |-> linkhdr, hdr |-> hdr, datalen |-> MHLEN - hdr]
    BY <1>2 DEF domaininit
  <2>2. linkhdr \in Nat /\ linkhdr >= 16
    <3>1. \E x \in {LINKHDR, 16} : \A y \in {LINKHDR, 16} : x >= y
      <4>1. LINKHDR \in Nat
        BY ProtocolSwitchAssumption
      <4>2. CASE LINKHDR >= 16
        BY <4>1, <4>2
      <4>3. CASE ~(LINKHDR >= 16)
        BY <4>1, <4>3
      <4>4. QED BY <4>2, <4>3
    <3>2. linkhdr \in {LINKHDR, 16} /\ \A y \in {LINKHDR, 16} : linkhdr >= y
      BY <3>1, Zenon DEF Max
    <3> HIDE DEF linkhdr
    <3>3. QED BY <3>2, ProtocolSwitchAssumption
  <2> HIDE DEF linkhdr
  <2>3. MHLEN \in Nat /\ PROTOHDR \in Nat
    BY ProtocolSwitchAssumption
  <2>4. QED BY <2>1, <2>2, <2>3 DEF HeadersFit
<1>3. CASE UNCHANGED psvars
  BY <1>1, <1>3 DEF psvars
<1>4. QED BY <1>1, <1>2, <1>3 DEF Next, vars, pfslowtimo, pffasttimo, if_down

-----------------------------------------------------------------------------
(* The theorems about the lock and the headers.                            *)

\* The inductive invariant of the lock holds in every reachable state.
THEOREM LockInvariance == Spec => []LockInv
<1>1. QED BY InitLockInv, StepLockInv, PTL DEF Spec

\* Callers that can wait exclude one another, whatever number of others
\* passed without the lock before.
THEOREM Exclusion == Spec => []AloneUnlessIntruded
<1>1. LockInv => AloneUnlessIntruded
  <2> SUFFICES ASSUME LockInv, ~intruded
               PROVE  Cardinality(inside) <= 1 /\ ("LOCK" \in sb_flags <=> inside # {})
    BY DEF AloneUnlessIntruded
  <2>1. Cardinality(inside) <= 1
    <3>1. CASE inside = {}
      BY <3>1, FS_EmptySet
    <3>2. CASE inside # {}
      <4>1. PICK p : inside = {p}
        BY <3>2 DEF LockInv, HolderAlone
      <4>2. Cardinality(inside) = 1
        BY <4>1, FS_Singleton
      <4>3. QED BY <4>2
    <3>3. QED BY <3>1, <3>2
  <2>2. QED BY <2>1 DEF LockInv, HolderAlone, LockReleased
<1>2. QED BY <1>1, LockInvariance, PTL

\* The lock is not left set by a buffer that nobody uses.
THEOREM LockNotLeftSet == Spec => []LockReleased
<1>1. LockInv => LockReleased
  BY DEF LockInv
<1>2. QED BY <1>1, LockInvariance, PTL

\* Whoever sleeps will be woken by the next one that unlocks the buffer, and
\* there is one.
THEOREM NobodySleepsUnknown == Spec => []SleepersKnown
<1>1. LockInv => SleepersKnown
  BY DEF LockInv, LockReleased, SleepersFlagged, SleepersKnown
<1>2. QED BY <1>1, LockInvariance, PTL

\* The three together, for any number of processes.
THEOREM LockSound == Spec => []LockDiscipline
<1>1. AloneUnlessIntruded /\ LockReleased /\ SleepersKnown => LockDiscipline
  BY DEF LockDiscipline
<1>2. QED BY <1>1, Exclusion, LockNotLeftSet, NobodySleepsUnknown, PTL

\* The headers fit, for any sizes and tables.
THEOREM HeadersAlwaysFit == Spec => []HeadersFit
<1>1. Init => HeadersFit
  BY DEF Init, PsInit, HeadersFit
<1>2. QED BY <1>1, StepHeaders, PTL DEF Spec

-----------------------------------------------------------------------------
(* Sums over the chain and over the steps that are not counted yet.        *)

Weights(size, s) == [k \in 1..Len(s) |-> size[s[k]]]

LEMMA WeightsFacts ==
  ASSUME NEW S, NEW s \in Seq(S), NEW size \in [S -> Nat]
  PROVE  /\ Len(s) \in Nat /\ DOMAIN s = 1..Len(s)
         /\ Weights(size, s) \in [1..Len(s) -> Nat]
         /\ \A k \in 1..Len(s) : s[k] \in S /\ Weights(size, s)[k] = size[s[k]]
<1>1. Len(s) \in Nat /\ DOMAIN s = 1..Len(s) /\ \A k \in 1..Len(s) : s[k] \in S
  BY LenProperties, ElementOfSeq
<1>2. QED BY <1>1 DEF Weights

LEMMA TotalsAreSums ==
  ASSUME NEW S, NEW s \in Seq(S), NEW size \in [S -> Nat]
  PROVE  \E f : IsSum(f, Len(s), Weights(size, s)) /\ Total(size, s) = f[Len(s)]
<1> DEFINE n == Len(s)
           w == Weights(size, s)
           Q(it) == it = [t \in SUBSET DOMAIN s |->
                            IF t = {} THEN 0 ELSE it[t \ {Max(t)}] + size[s[Max(t)]]]
<1>1. n \in Nat /\ DOMAIN s = 1..n /\ w \in [1..n -> Nat]
  BY WeightsFacts
<1>2. ASSUME NEW it PROVE Q(it) <=> it = SumStep(it, n, w)
  <2>1. ASSUME NEW t \in SUBSET (1..n), t # {}
        PROVE  w[Max(t)] = size[s[Max(t)]]
    <3>1. t \in SUBSET (0..n)
      OBVIOUS
    <3>2. Max(t) \in 1..n
      BY <1>1, <2>1, <3>1, MaxFacts
    <3>3. QED BY <3>2, WeightsFacts
  <2> HIDE DEF w, n
  <2> DEFINE a == [t \in SUBSET (1..n) |->
                     IF t = {} THEN 0 ELSE it[t \ {Max(t)}] + size[s[Max(t)]]]
             b == [t \in SUBSET (1..n) |-> IF t = {} THEN 0 ELSE it[t \ {Max(t)}] + w[Max(t)]]
  <2>2. a = b
    <3>1. \A t \in SUBSET (1..n) : a[t] = b[t]
      BY <2>1
    <3>2. QED BY <3>1
  <2>3. QED BY <1>1, <2>2 DEF SumStep
<1>3. Total(size, s) = (CHOOSE it : Q(it))[DOMAIN s]
  BY DEF Total, FoldLeft, MapThenFoldSet
<1>4. PICK it : it = SumStep(it, n, w)
  BY <1>1, SumExists
<1> DEFINE j == CHOOSE x : Q(x)
<1>5. Q(j)
  BY <1>2, <1>4
<1>6. j = SumStep(j, n, w)
  BY <1>2, <1>5
<1> HIDE DEF j
<1>7. PICK f : IsSum(f, n, w) /\ j[1..n] = f[n]
  BY <1>1, <1>6, SumValue
<1>8. QED BY <1>1, <1>3, <1>7 DEF j

LEMMA TotalOfNone ==
  ASSUME NEW S, NEW size \in [S -> Nat]
  PROVE  Total(size, <<>>) = 0
<1> DEFINE e == <<>>
<1>1. e \in Seq(S) /\ Len(e) = 0
  BY EmptySeq
<1> HIDE DEF e
<1>2. Total(size, e) = 0
  BY <1>1, TotalsAreSums DEF IsSum
<1>3. QED BY <1>2 DEF e

LEMMA TotalOfAppend ==
  ASSUME NEW S, NEW s \in Seq(S), NEW m \in S, NEW size \in [S -> Nat]
  PROVE  Total(size, Append(s, m)) = Total(size, s) + size[m] /\ Total(size, s) \in Nat
<1> DEFINE t == Append(s, m)
           n == Len(s)
<1>1. /\ t \in Seq(S) /\ Len(t) = n + 1 /\ n \in Nat
      /\ \A k \in 1..n : t[k] = s[k] /\ k \in 1..n + 1
      /\ t[n + 1] = m /\ n + 1 \in 1..n + 1 /\ n \in 0..n
  BY WeightsFacts, AppendProperties
<1> DEFINE u == Weights(size, t)
           w == Weights(size, s)
<1> HIDE DEF t
<1>2. (\A k \in 1..n : u[k] = w[k]) /\ u[n + 1] = size[m]
  BY <1>1, WeightsFacts
<1>3. PICK f : IsSum(f, n + 1, u) /\ Total(size, t) = f[n + 1]
  BY <1>1, TotalsAreSums
<1>4. PICK g : IsSum(g, n, w) /\ Total(size, s) = g[n]
  BY TotalsAreSums
<1>5. f[n + 1] = g[n] + u[n + 1]
  <2> HIDE DEF n, u, w
  <2>1. n \in Nat /\ IsSum(g, n, w) /\ IsSum(f, n + 1, u)
    BY <1>1, <1>3, <1>4
  <2>2. \A k \in 1..n : u[k] = w[k]
    BY <1>2
  <2>3. QED BY <2>1, <2>2, SumLast
<1>6. g[n] \in Nat
  BY <1>1, <1>4 DEF IsSum
<1>7. QED BY <1>2, <1>3, <1>4, <1>5, <1>6 DEF t

\* t is s with x before it.
Begun(x, s, t) ==
  /\ Len(t) = Len(s) + 1 /\ t[1] = x
  /\ \A k \in 1..Len(s) : s[k] = t[k + 1]

LEMMA TotalOfBegun ==
  ASSUME NEW S, NEW s \in Seq(S), NEW t \in Seq(S), NEW x \in S,
         Begun(x, s, t), NEW size \in [S -> Nat]
  PROVE  Total(size, t) = size[x] + Total(size, s) /\ Total(size, s) \in Nat
<1> DEFINE n == Len(s)
           m == Len(t)
           w == Weights(size, s)
           u == Weights(size, t)
<1>1. /\ n \in Nat /\ m \in Nat /\ m = n + 1
      /\ \A k \in 1..n : k + 1 \in 1..m
      /\ 1 \in 1..m /\ n \in 0..n
  BY WeightsFacts DEF Begun
<1>2. u \in [1..m -> Nat] /\ \A k \in 1..m : u[k] = size[t[k]]
  BY WeightsFacts
<1>3. \A k \in 1..n : w[k] = size[s[k]]
  BY WeightsFacts
<1>4. PICK f : IsSum(f, m, u) /\ Total(size, t) = f[m]
  BY TotalsAreSums
<1>5. PICK g : IsSum(g, n, w) /\ Total(size, s) = g[n]
  BY TotalsAreSums
<1>6. u[1] = size[x] /\ \A k \in 1..n : w[k] = u[k + 1]
  BY <1>1, <1>2, <1>3 DEF Begun
<1> HIDE DEF n, m, w, u
<1>7. WithoutFirst(w, u, n)
  BY <1>1, <1>2, <1>6 DEF WithoutFirst
<1>8. f[m] = u[1] + g[n]
  BY <1>1, <1>4, <1>5, <1>7, SumFirst
<1>9. g[n] \in Nat
  BY <1>1, <1>5 DEF IsSum
<1>10. QED BY <1>4, <1>5, <1>6, <1>8, <1>9

LEMMA TailBegins ==
  ASSUME NEW S, NEW t \in Seq(S), t # <<>>
  PROVE  Head(t) \in S /\ Tail(t) \in Seq(S) /\ Begun(Head(t), Tail(t), t)
<1>1. Len(t) \in Nat \ {0}
  BY EmptySeq
<1>2. /\ Head(t) \in S /\ Tail(t) \in Seq(S) /\ Len(Tail(t)) = Len(t) - 1
      /\ \A k \in 1..Len(Tail(t)) : Tail(t)[k] = t[k + 1]
  BY HeadTailProperties
<1>3. Head(t) = t[1]
  OBVIOUS
<1>4. Len(t) = Len(Tail(t)) + 1
  BY <1>1, <1>2
<1>5. QED BY <1>2, <1>3, <1>4 DEF Begun

LEMMA PushBegins ==
  ASSUME NEW S, NEW s \in Seq(S), NEW x \in S
  PROVE  (<<x>> \o s) \in Seq(S) /\ Begun(x, s, <<x>> \o s)
<1> DEFINE o == <<x>>
           t == o \o s
<1>1. o \in Seq(S) /\ Len(o) = 1 /\ o[1] = x /\ Len(s) \in Nat
  BY LenProperties
<1> HIDE DEF o
<1>2. /\ t \in Seq(S) /\ Len(t) = 1 + Len(s)
      /\ \A i \in 1..1 + Len(s) : t[i] = IF i <= 1 THEN o[i] ELSE s[i - 1]
  <2>1. /\ t \in Seq(S) /\ Len(t) = Len(o) + Len(s)
        /\ \A i \in 1..Len(o) + Len(s) : t[i] = IF i <= Len(o) THEN o[i] ELSE s[i - Len(o)]
    BY <1>1, ConcatProperties
  <2>2. QED BY <1>1, <2>1
<1> HIDE DEF t
<1>3. t[1] = x
  BY <1>1, <1>2
<1>4. \A k \in 1..Len(s) : s[k] = t[k + 1]
  <2> SUFFICES ASSUME NEW k \in 1..Len(s) PROVE s[k] = t[k + 1]
    OBVIOUS
  <2>1. k + 1 \in 1..1 + Len(s) /\ ~(k + 1 <= 1) /\ (k + 1) - 1 = k
    BY <1>1
  <2>2. QED BY <1>2, <2>1
<1>5. t \in Seq(S) /\ Begun(x, s, t)
  BY <1>1, <1>2, <1>3, <1>4 DEF Begun
<1>6. QED BY <1>5 DEF t, o

-----------------------------------------------------------------------------
(* The counters.                                                           *)

CountTypes ==
  /\ sb_mb \in Seq(Sizes) /\ middle \in Seq(Steps)
  /\ sb_cc \in 0..WORD - 1 /\ sb_mbcnt \in 0..WORD - 1

CountInv == CountTypes /\ CountsMatchChain

\* What a step in the middle of an op weighs, and what a counter should say
\* of a chain that was changed by steps that are not counted yet.
Weight(op, size) == [s \in Steps |-> IF s.op = op THEN size[s.m] ELSE 0]
Should(size, mb, mid) ==
  Total(size, mb) - Total(Weight("link", size), mid) + Total(Weight("take", size), mid)
ShouldBe(cc, mbcnt, mb, mid) ==
  cc = Should(Chars, mb, mid) % WORD /\ mbcnt = Should(Charged, mb, mid) % WORD

LEMMA CountsByName == CountsMatchChain <=> ShouldBe(sb_cc, sb_mbcnt, sb_mb, middle)
BY DEF CountsMatchChain, ShouldBe, Should, Due, Weight

LEMMA CountsByNameLater ==
  CountsMatchChain' <=> ShouldBe(sb_cc', sb_mbcnt', sb_mb', middle')
<1>1. (CountsMatchChain <=> ShouldBe(sb_cc, sb_mbcnt, sb_mb, middle))'
  BY CountsByName, PTL
<1>2. CountsMatchChain' <=> ShouldBe(sb_cc, sb_mbcnt, sb_mb, middle)'
  BY <1>1
<1>3. QED BY <1>2 DEF ShouldBe

LEMMA SizeFacts == Chars \in [Sizes -> Nat] /\ Charged \in [Sizes -> Nat]
<1>1. ASSUME NEW m \in Sizes PROVE m.len \in Nat /\ Cost(m) \in Nat
  <2>1. m \in [len : Nat, ext : Nat] /\ MSIZE \in Nat
    BY SocketBufferAssumption
  <2>2. QED BY <2>1 DEF Cost
<1>2. QED BY <1>1 DEF Chars, Charged

LEMMA WeightFacts ==
  ASSUME NEW size \in [Sizes -> Nat], NEW op
  PROVE  /\ Weight(op, size) \in [Steps -> Nat]
         /\ \A s \in Steps : /\ s.m \in Sizes
                             /\ Weight(op, size)[s] = IF s.op = op THEN size[s.m] ELSE 0
<1>1. \A s \in Steps : s.m \in Sizes
  BY DEF Steps
<1>2. QED BY <1>1 DEF Weight

\* Linking and taking change what is on the chain and what is due by the
\* same, counting what is due by what is counted.
LEMMA ShouldWhenLinked ==
  ASSUME NEW size \in [Sizes -> Nat], NEW mb \in Seq(Sizes), NEW mid \in Seq(Steps),
         NEW x \in Steps, x.op = "link"
  PROVE  Should(size, Append(mb, x.m), <<x>> \o mid) = Should(size, mb, mid)
<1> DEFINE t == <<x>> \o mid
           l == Weight("link", size)
           k == Weight("take", size)
<1>1. l \in [Steps -> Nat] /\ k \in [Steps -> Nat] /\ l[x] = size[x.m] /\ k[x] = 0 /\ x.m \in Sizes
  BY WeightFacts
<1>2. t \in Seq(Steps) /\ Begun(x, mid, t)
  BY PushBegins
<1> HIDE DEF t, l, k
<1>3. /\ Total(l, t) = l[x] + Total(l, mid) /\ Total(l, mid) \in Nat
      /\ Total(k, t) = k[x] + Total(k, mid) /\ Total(k, mid) \in Nat
  BY <1>1, <1>2, TotalOfBegun
<1>4. Total(size, Append(mb, x.m)) = Total(size, mb) + size[x.m] /\ Total(size, mb) \in Nat
  BY <1>1, TotalOfAppend
<1>5. Total(size, Append(mb, x.m)) - Total(l, t) + Total(k, t)
        = Total(size, mb) - Total(l, mid) + Total(k, mid)
  <2> DEFINE a == Total(size, mb)
             b == Total(l, mid)
             c == Total(k, mid)
             d == size[x.m]
  <2>1. a \in Nat /\ b \in Nat /\ c \in Nat /\ d \in Nat
    BY <1>1, <1>3, <1>4
  <2>2. Total(size, Append(mb, x.m)) = a + d /\ Total(l, t) = d + b /\ Total(k, t) = 0 + c
    BY <1>1, <1>3, <1>4
  <2> HIDE DEF a, b, c, d
  <2>3. (a + d) - (d + b) + (0 + c) = a - b + c
    BY <2>1
  <2>4. QED BY <2>2, <2>3 DEF a, b, c
<1>6. QED BY <1>5 DEF Should, t, l, k

LEMMA ShouldWhenTaken ==
  ASSUME NEW size \in [Sizes -> Nat], NEW mb \in Seq(Sizes), NEW mid \in Seq(Steps),
         mb # <<>>, NEW x \in Steps, x.op = "take", x.m = Head(mb)
  PROVE  Should(size, Tail(mb), <<x>> \o mid) = Should(size, mb, mid)
<1> DEFINE t == <<x>> \o mid
           r == Tail(mb)
           l == Weight("link", size)
           k == Weight("take", size)
<1>1. l \in [Steps -> Nat] /\ k \in [Steps -> Nat] /\ l[x] = 0 /\ k[x] = size[x.m] /\ x.m \in Sizes
  BY WeightFacts
<1>2. t \in Seq(Steps) /\ Begun(x, mid, t)
  BY PushBegins
<1>3. r \in Seq(Sizes) /\ Begun(x.m, r, mb)
  BY TailBegins
<1> HIDE DEF t, r, l, k
<1>4. /\ Total(l, t) = l[x] + Total(l, mid) /\ Total(l, mid) \in Nat
      /\ Total(k, t) = k[x] + Total(k, mid) /\ Total(k, mid) \in Nat
  BY <1>1, <1>2, TotalOfBegun
<1>5. Total(size, mb) = size[x.m] + Total(size, r) /\ Total(size, r) \in Nat
  BY <1>1, <1>3, TotalOfBegun
<1>6. Total(size, r) - Total(l, t) + Total(k, t) = Total(size, mb) - Total(l, mid) + Total(k, mid)
  <2> DEFINE a == Total(size, r)
             b == Total(l, mid)
             c == Total(k, mid)
             d == size[x.m]
  <2>1. a \in Nat /\ b \in Nat /\ c \in Nat /\ d \in Nat
    BY <1>1, <1>4, <1>5
  <2>2. Total(size, mb) = d + a /\ Total(l, t) = 0 + b /\ Total(k, t) = d + c
    BY <1>1, <1>4, <1>5
  <2> HIDE DEF a, b, c, d
  <2>3. a - (0 + b) + (d + c) = (d + a) - b + c
    BY <2>1
  <2>4. QED BY <2>2, <2>3 DEF a, b, c
<1>7. QED BY <1>6 DEF Should, t, r, l, k

LEMMA ShouldWhenCounted ==
  ASSUME NEW size \in [Sizes -> Nat], NEW mb \in Seq(Sizes), NEW mid \in Seq(Steps),
         mid # <<>>, NEW x, x = Head(mid)
  PROVE  /\ Should(size, mb, mid) \in Int /\ x.m \in Sizes
         /\ x.op = "link" => Should(size, mb, Tail(mid)) = Should(size, mb, mid) + size[x.m]
         /\ x.op = "take" => Should(size, mb, Tail(mid)) = Should(size, mb, mid) - size[x.m]
<1> DEFINE r == Tail(mid)
           l == Weight("link", size)
           k == Weight("take", size)
<1>1. x \in Steps /\ r \in Seq(Steps) /\ Begun(x, r, mid)
  BY TailBegins
<1>2. /\ l \in [Steps -> Nat] /\ k \in [Steps -> Nat] /\ x.m \in Sizes
      /\ l[x] = IF x.op = "link" THEN size[x.m] ELSE 0
      /\ k[x] = IF x.op = "take" THEN size[x.m] ELSE 0
  <2>1. l \in [Steps -> Nat] /\ x.m \in Sizes
        /\ l[x] = IF x.op = "link" THEN size[x.m] ELSE 0
    <3> HIDE DEF r, k
    <3>1. QED BY <1>1, WeightFacts DEF l
  <2>2. k \in [Steps -> Nat] /\ k[x] = IF x.op = "take" THEN size[x.m] ELSE 0
    <3> HIDE DEF r, l
    <3>1. QED BY <1>1, WeightFacts DEF k
  <2>3. QED BY <2>1, <2>2
<1> HIDE DEF r, l, k
<1>3. /\ Total(l, mid) = l[x] + Total(l, r) /\ Total(l, r) \in Nat
      /\ Total(k, mid) = k[x] + Total(k, r) /\ Total(k, r) \in Nat
  BY <1>1, <1>2, TotalOfBegun
<1>4. Total(size, mb) \in Nat
  BY <1>2, TotalOfAppend
<1> DEFINE a == Total(size, mb)
           b == Total(l, r)
           c == Total(k, r)
           d == size[x.m]
           e == Total(l, mid)
           f == Total(k, mid)
           y == Should(size, mb, mid)
           z == Should(size, mb, r)
<1>5. a \in Nat /\ b \in Nat /\ c \in Nat /\ d \in Nat
  BY <1>2, <1>3, <1>4
<1>6. /\ x.op = "link" => e = d + b /\ f = 0 + c
      /\ x.op = "take" => e = 0 + b /\ f = d + c
      /\ e \in Nat /\ f \in Nat
  BY <1>2, <1>3
<1>7. y = a - e + f /\ z = a - b + c
  BY DEF Should, l, k
<1> HIDE DEF a, b, c, d, e, f, y, z
<1>8. y \in Int
  BY <1>5, <1>6, <1>7
<1>9. ASSUME x.op = "link" PROVE z = y + d
  BY <1>5, <1>6, <1>7, <1>9
<1>10. ASSUME x.op = "take" PROVE z = y - d
  BY <1>5, <1>6, <1>7, <1>10
<1>11. QED BY <1>2, <1>8, <1>9, <1>10 DEF r, d, y, z

LEMMA InitCounts == Init => CountInv
<1> SUFFICES ASSUME Init PROVE CountInv
  OBVIOUS
<1>1. sb_mb = <<>> /\ sb_cc = 0 /\ sb_mbcnt = 0 /\ middle = <<>>
  BY DEF Init
<1>2. WORD \in Nat \ {0}
  BY SocketBufferAssumption
<1>3. 0 % WORD = 0
  BY <1>2
<1>4. ASSUME NEW size \in [Sizes -> Nat] PROVE Should(size, sb_mb, middle) = 0
  <2>1. Total(size, sb_mb) = 0
    BY <1>1, TotalOfNone
  <2>2. Total(Weight("link", size), middle) = 0 /\ Total(Weight("take", size), middle) = 0
    BY <1>1, TotalOfNone, WeightFacts
  <2>3. QED BY <2>1, <2>2 DEF Should
<1>5. CountsMatchChain
  BY <1>1, <1>3, <1>4, SizeFacts, CountsByName DEF ShouldBe
<1>6. CountTypes
  BY <1>1, <1>2, EmptySeq DEF CountTypes
<1>7. QED BY <1>5, <1>6 DEF CountInv

\* What the caller did to the chain, as a step.
StepBy(p, op, m) == [by |-> p, op |-> op, m |-> m]

LEMMA StepFacts ==
  ASSUME NEW p \in Procs, NEW op \in {"link", "take"}, NEW m \in Sizes
  PROVE  LET x == StepBy(p, op, m)
         IN x \in Steps /\ x.by = p /\ x.op = op /\ x.m = m
BY DEF Steps, StepBy

LEMMA LinksCounts ==
  ASSUME CountInv, NEW p \in Procs, NEW m \in Sizes, Links(p, m)
  PROVE  CountInv'
<1>1. /\ sb_mb' = Append(sb_mb, m) /\ sb_cc' = sb_cc /\ sb_mbcnt' = sb_mbcnt
      /\ Begins(p, "link", m)
  BY DEF Links, Begins
<1> DEFINE x == StepBy(p, "link", m)
<1>2. x \in Steps /\ x.op = "link" /\ x.m = m /\ middle' = <<x>> \o middle
  BY <1>1, StepFacts DEF Begins, StepBy
<1> HIDE DEF x
<1>3. sb_mb \in Seq(Sizes) /\ middle \in Seq(Steps) /\ ShouldBe(sb_cc, sb_mbcnt, sb_mb, middle)
  BY CountsByName DEF CountInv, CountTypes
<1>4. \A size \in [Sizes -> Nat] : Should(size, sb_mb', middle') = Should(size, sb_mb, middle)
  BY <1>1, <1>2, <1>3, ShouldWhenLinked
<1>5. ShouldBe(sb_cc', sb_mbcnt', sb_mb', middle')
  BY <1>1, <1>3, <1>4, SizeFacts DEF ShouldBe
<1>6. sb_mb' \in Seq(Sizes)
  BY <1>1, <1>3, AppendProperties
<1>7. middle' \in Seq(Steps)
  BY <1>2, <1>3, PushBegins
<1>8. CountTypes'
  BY <1>1, <1>6, <1>7 DEF CountInv, CountTypes
<1>9. QED BY <1>5, <1>8, CountsByNameLater DEF CountInv

LEMMA TakesCounts ==
  ASSUME CountInv, NEW p \in Procs, Takes(p)
  PROVE  CountInv'
<1> DEFINE m == Head(sb_mb)
<1>1. /\ sb_mb # <<>> /\ sb_mb' = Tail(sb_mb) /\ sb_cc' = sb_cc /\ sb_mbcnt' = sb_mbcnt
      /\ Begins(p, "take", m)
  BY DEF Takes, Begins
<1>2. sb_mb \in Seq(Sizes) /\ middle \in Seq(Steps) /\ ShouldBe(sb_cc, sb_mbcnt, sb_mb, middle)
  BY CountsByName DEF CountInv, CountTypes
<1>3. m \in Sizes /\ sb_mb' \in Seq(Sizes)
  BY <1>1, <1>2, HeadTailProperties
<1> DEFINE x == StepBy(p, "take", m)
<1>4. x \in Steps /\ x.op = "take" /\ x.m = m /\ middle' = <<x>> \o middle
  <2> HIDE DEF m
  <2>1. QED BY <1>1, <1>3, StepFacts DEF Begins, StepBy
<1> HIDE DEF x
<1>5. \A size \in [Sizes -> Nat] : Should(size, sb_mb', middle') = Should(size, sb_mb, middle)
  BY <1>1, <1>2, <1>4, ShouldWhenTaken
<1>6. ShouldBe(sb_cc', sb_mbcnt', sb_mb', middle')
  BY <1>1, <1>2, <1>5, SizeFacts DEF ShouldBe
<1>7. middle' \in Seq(Steps)
  BY <1>2, <1>4, PushBegins
<1>8. CountTypes'
  BY <1>1, <1>3, <1>7 DEF CountInv, CountTypes
<1>9. QED BY <1>6, <1>8, CountsByNameLater DEF CountInv

\* A counter that is changed by c, as a word.
LEMMA WordsAdd ==
  ASSUME NEW a \in Int, NEW c \in Nat
  PROVE  /\ ((a % WORD) + c) % WORD = (a + c) % WORD
         /\ ((a % WORD) - c) % WORD = (a - c) % WORD
         /\ (a + c) % WORD \in 0..WORD - 1 /\ (a - c) % WORD \in 0..WORD - 1
<1>1. WORD \in Nat \ {0} /\ c \in Int
  BY SocketBufferAssumption
<1>2. a + c \in Int /\ a - c \in Int
  BY <1>1
<1>3. (a + c) % WORD \in 0..WORD - 1 /\ (a - c) % WORD \in 0..WORD - 1
  <2> DEFINE s == a + c
             d == a - c
  <2>1. s \in Int /\ d \in Int
    BY <1>2
  <2> HIDE DEF s, d
  <2>2. s % WORD \in 0..WORD - 1 /\ d % WORD \in 0..WORD - 1
    BY <1>1, <2>1, ModDef
  <2>3. QED BY <2>2 DEF s, d
<1>4. QED BY <1>1, <1>3, ModAdd

LEMMA CountingCounts ==
  ASSUME CountInv, Counting
  PROVE  CountInv'
<1> DEFINE x == Head(middle)
           r == Tail(middle)
           a == Should(Chars, sb_mb, middle)
           b == Should(Charged, sb_mb, middle)
<1>1. middle # <<>> /\ middle' = r /\ sb_mb' = sb_mb
  BY DEF Counting
<1>2. sb_mb \in Seq(Sizes) /\ middle \in Seq(Steps) /\ sb_cc = a % WORD /\ sb_mbcnt = b % WORD
  BY CountsByName DEF CountInv, CountTypes, ShouldBe
<1>3. /\ a \in Int /\ x.m \in Sizes
      /\ x.op = "link" => Should(Chars, sb_mb, r) = a + Chars[x.m]
      /\ x.op = "take" => Should(Chars, sb_mb, r) = a - Chars[x.m]
  BY <1>1, <1>2, SizeFacts, ShouldWhenCounted
<1>4. /\ b \in Int
      /\ x.op = "link" => Should(Charged, sb_mb, r) = b + Charged[x.m]
      /\ x.op = "take" => Should(Charged, sb_mb, r) = b - Charged[x.m]
  BY <1>1, <1>2, SizeFacts, ShouldWhenCounted
<1> DEFINE c == Chars[x.m]
           d == Charged[x.m]
           m == x.m
<1>5. c \in Nat /\ d \in Nat /\ c = m.len /\ d = Cost(m)
  BY <1>3, SizeFacts DEF Chars, Charged
<1>6. \/ x.op = "link" /\ sb_cc' = (sb_cc + m.len) % WORD /\ sb_mbcnt' = (sb_mbcnt + Cost(m)) % WORD
      \/ x.op = "take" /\ sb_cc' = (sb_cc - m.len) % WORD /\ sb_mbcnt' = (sb_mbcnt - Cost(m)) % WORD
  BY DEF Counting, sballoc, sbfree
<1>7. r \in Seq(Steps)
  BY <1>1, <1>2, HeadTailProperties
<1> HIDE DEF a, b, c, d, m, r, x
<1>8. \/ x.op = "link" /\ sb_cc' = ((a % WORD) + c) % WORD /\ sb_mbcnt' = ((b % WORD) + d) % WORD
      \/ x.op = "take" /\ sb_cc' = ((a % WORD) - c) % WORD /\ sb_mbcnt' = ((b % WORD) - d) % WORD
  BY <1>2, <1>5, <1>6
<1>9. \/ /\ x.op = "link" /\ sb_cc' = (a + c) % WORD /\ sb_mbcnt' = (b + d) % WORD
         /\ sb_cc' \in 0..WORD - 1 /\ sb_mbcnt' \in 0..WORD - 1
      \/ /\ x.op = "take" /\ sb_cc' = (a - c) % WORD /\ sb_mbcnt' = (b - d) % WORD
         /\ sb_cc' \in 0..WORD - 1 /\ sb_mbcnt' \in 0..WORD - 1
  <2>1. /\ ((a % WORD) + c) % WORD = (a + c) % WORD
        /\ ((a % WORD) - c) % WORD = (a - c) % WORD
        /\ (a + c) % WORD \in 0..WORD - 1 /\ (a - c) % WORD \in 0..WORD - 1
    BY <1>3, <1>5, WordsAdd
  <2>2. /\ ((b % WORD) + d) % WORD = (b + d) % WORD
        /\ ((b % WORD) - d) % WORD = (b - d) % WORD
        /\ (b + d) % WORD \in 0..WORD - 1 /\ (b - d) % WORD \in 0..WORD - 1
    BY <1>4, <1>5, WordsAdd
  <2>3. QED BY <1>8, <2>1, <2>2, Zenon
<1>10. /\ sb_cc' = Should(Chars, sb_mb, r) % WORD
       /\ sb_mbcnt' = Should(Charged, sb_mb, r) % WORD
  <2>1. /\ x.op = "link" => Should(Chars, sb_mb, r) = a + c /\ Should(Charged, sb_mb, r) = b + d
        /\ x.op = "take" => Should(Chars, sb_mb, r) = a - c /\ Should(Charged, sb_mb, r) = b - d
    BY <1>3, <1>4 DEF c, d
  <2>2. QED BY <1>9, <2>1, Zenon
<1>11. ShouldBe(sb_cc', sb_mbcnt', sb_mb', middle')
  BY <1>1, <1>10 DEF ShouldBe
<1>12. CountTypes'
  BY <1>1, <1>2, <1>7, <1>9 DEF CountTypes
<1>13. QED BY <1>11, <1>12, CountsByNameLater DEF CountInv

LEMMA StepCounts == CountInv /\ [Next]_vars => CountInv'
<1> SUFFICES ASSUME CountInv, [Next]_vars PROVE CountInv'
  OBVIOUS
<1>1. CASE UNCHANGED counts
  BY <1>1, CountsByName, CountsByNameLater DEF counts, CountInv, CountTypes
<1>2. ASSUME NEW p \in Procs, NEW m \in Sizes, Links(p, m) PROVE CountInv'
  BY <1>2, LinksCounts
<1>3. ASSUME NEW p \in Procs, Takes(p) PROVE CountInv'
  BY <1>3, TakesCounts
<1>4. CASE Counting
  BY <1>4, CountingCounts
<1>5. QED BY <1>1, <1>2, <1>3, <1>4 DEF Next, vars, sbvars, counts, Locking, Unlocking

-----------------------------------------------------------------------------
(* Those in the middle.                                                    *)

\* They are inside, and no two steps are of the same one.
MiddleKnown ==
  /\ \A i \in 1..Len(middle) : middle[i].by \in inside
  /\ \A i, j \in 1..Len(middle) : middle[i].by = middle[j].by => i = j

LEMMA BegunMiddle ==
  ASSUME CountTypes, MiddleKnown, NEW p \in Procs, NEW op \in {"link", "take"}, NEW m \in Sizes,
         Begins(p, op, m)
  PROVE  MiddleKnown'
<1> DEFINE x == StepBy(p, op, m)
<1>1. x \in Steps /\ x.by = p /\ middle' = <<x>> \o middle
  BY StepFacts DEF Begins, StepBy
<1> HIDE DEF x
<1>2. p \in inside /\ inside' = inside /\ ~Between(p)
  BY DEF Begins, lock
<1> DEFINE t == middle'
<1>3. middle \in Seq(Steps) /\ Begun(x, middle, t)
  BY <1>1, PushBegins DEF CountTypes
<1>4. DOMAIN middle = 1..Len(middle) /\ Len(middle) \in Nat
  BY <1>3, LenProperties
<1>5. \A k \in 1..Len(middle) : middle[k].by # p
  BY <1>2, <1>4 DEF Between
<1> HIDE DEF t
<1>6. ASSUME NEW i \in 1..Len(t)
      PROVE  \/ i = 1 /\ t[i].by = p
             \/ i - 1 \in 1..Len(middle) /\ t[i] = middle[i - 1]
  <2>1. CASE i = 1
    BY <1>1, <1>3, <2>1 DEF Begun
  <2>2. CASE i # 1
    <3>1. i - 1 \in 1..Len(middle) /\ (i - 1) + 1 = i
      BY <1>3, <1>4, <2>2 DEF Begun
    <3>2. QED BY <1>3, <3>1 DEF Begun
  <2>3. QED BY <2>1, <2>2
<1>7. \A i \in 1..Len(t) : t[i].by \in inside
  BY <1>2, <1>6 DEF MiddleKnown
<1>8. \A i, j \in 1..Len(t) : t[i].by = t[j].by => i = j
  <2> SUFFICES ASSUME NEW i \in 1..Len(t), NEW j \in 1..Len(t), t[i].by = t[j].by PROVE i = j
    OBVIOUS
  <2>1. CASE i = 1 \/ j = 1
    BY <1>5, <1>6, <2>1
  <2>2. CASE i # 1 /\ j # 1
    <3>1. /\ i - 1 \in 1..Len(middle) /\ t[i] = middle[i - 1]
          /\ j - 1 \in 1..Len(middle) /\ t[j] = middle[j - 1]
      BY <1>6, <2>2
    <3>2. i - 1 = j - 1
      BY <3>1 DEF MiddleKnown
    <3>3. Len(t) \in Nat
      BY <1>3, <1>4 DEF Begun
    <3>4. QED BY <3>2, <3>3
  <2>3. QED BY <2>1, <2>2
<1>9. QED BY <1>2, <1>7, <1>8 DEF MiddleKnown, t

LEMMA CountingMiddle ==
  ASSUME CountTypes, MiddleKnown, Counting
  PROVE  MiddleKnown'
<1> DEFINE t == Tail(middle)
<1>1. middle # <<>> /\ middle' = t /\ inside' = inside
  BY DEF Counting, lock
<1>2. middle \in Seq(Steps) /\ t \in Seq(Steps) /\ Begun(Head(middle), t, middle)
  BY <1>1, TailBegins DEF CountTypes
<1> HIDE DEF t
<1>3. Len(t) \in Nat
  BY <1>2, LenProperties
<1>4. \A k \in 1..Len(t) : k + 1 \in 1..Len(middle) /\ t[k] = middle[k + 1]
  BY <1>2, <1>3 DEF Begun
<1>5. \A i, j \in 1..Len(t) : t[i].by = t[j].by => i = j
  <2> SUFFICES ASSUME NEW i \in 1..Len(t), NEW j \in 1..Len(t), t[i].by = t[j].by PROVE i = j
    OBVIOUS
  <2>1. i + 1 = j + 1
    BY <1>4 DEF MiddleKnown
  <2>2. QED BY <1>3, <2>1
<1>6. QED BY <1>1, <1>4, <1>5 DEF MiddleKnown

LEMMA StepMiddle == CountTypes /\ MiddleKnown /\ [Next]_vars => MiddleKnown'
<1> SUFFICES ASSUME CountTypes, MiddleKnown, [Next]_vars PROVE MiddleKnown'
  OBVIOUS
<1>1. CASE UNCHANGED middle /\ inside \subseteq inside'
  BY <1>1 DEF MiddleKnown
<1>2. ASSUME NEW p \in Procs, Unlocking(p) PROVE MiddleKnown'
  <2>1. middle' = middle /\ inside' = inside \ {p} /\ ~Between(p)
    BY <1>2 DEF Unlocking, sbunlock, counts
  <2>2. DOMAIN middle = 1..Len(middle)
    BY LenProperties DEF CountTypes
  <2>3. \A k \in 1..Len(middle) : middle[k].by # p
    BY <2>1, <2>2 DEF Between
  <2>4. QED BY <2>1, <2>3 DEF MiddleKnown
<1>3. ASSUME NEW p \in Procs, Locking(p) PROVE MiddleKnown'
  <2>1. middle' = middle
    BY <1>3 DEF Locking, counts
  <2>2. inside \subseteq inside'
    BY <1>3 DEF Locking, sblock, sb_lock, Interrupted, Passes
  <2>3. QED BY <1>1, <2>1, <2>2
<1>4. ASSUME NEW p \in Procs, NEW m \in Sizes, Links(p, m) PROVE MiddleKnown'
  BY <1>4, BegunMiddle DEF Links
<1>5. ASSUME NEW p \in Procs, Takes(p) PROVE MiddleKnown'
  <2>1. Head(sb_mb) \in Sizes
    BY <1>5, HeadTailProperties DEF Takes, CountTypes
  <2>2. QED BY <1>5, <2>1, BegunMiddle DEF Takes
<1>6. CASE Counting
  BY <1>6, CountingMiddle
<1>7. CASE UNCHANGED sbvars
  BY <1>1, <1>7 DEF sbvars
<1>8. QED BY <1>2, <1>3, <1>4, <1>5, <1>6, <1>7 DEF Next, vars

LEMMA BehindFollows ==
  ASSUME CountTypes, MiddleKnown, HolderAlone
  PROVE  BehindByOne
<1> SUFFICES ASSUME ~intruded PROVE Len(middle) <= 1
  BY DEF BehindByOne
<1>1. Len(middle) \in Nat
  BY LenProperties DEF CountTypes
<1>2. CASE Len(middle) > 1
  <2>1. 1 \in 1..Len(middle) /\ 2 \in 1..Len(middle)
    BY <1>1, <1>2
  <2>2. middle[1].by = middle[2].by
    BY <2>1 DEF MiddleKnown, HolderAlone
  <2>3. 1 = 2
    BY <2>1, <2>2 DEF MiddleKnown
  <2>4. QED BY <2>3
<1>3. QED BY <1>1, <1>2

-----------------------------------------------------------------------------
(* What select may conclude.                                               *)

\* The lengths stay below half of what a word holds, as do the limits, so
\* that no counter and no difference of two wraps; sb_lowat is not zero.
CountersSuffice ==
  /\ LOWAT > 0
  /\ 2 * HIWAT < WORD /\ 2 * MBMAX < WORD
  /\ \E c \in Nat : /\ \A m \in Sizes : m.len <= c /\ Cost(m) <= c
                    /\ 2 * (MaxChain * c) < WORD

\* The protocols a socket can have either need a connection or take a
\* message at once.
DatagramsAreAtomic ==
  \A d \in Domains : \A k \in DOMAIN Switch[d] :
    Switch[d][k].type # "none" \/ k = Len(Switch[d]) =>
      "ATOMIC" \in Switch[d][k].flags \/ "CONNREQUIRED" \in Switch[d][k].flags

LEMMA TotalBounded ==
  ASSUME NEW s \in Seq(Sizes), Len(s) <= MaxChain, NEW size \in [Sizes -> Nat],
         NEW c \in Nat, \A m \in Sizes : size[m] <= c, 2 * (MaxChain * c) < WORD
  PROVE  Total(size, s) \in Nat /\ 2 * Total(size, s) < WORD
<1> DEFINE n == Len(s)
           u == Weights(size, s)
<1>1. n \in Nat /\ u \in [1..n -> Nat] /\ n \in 0..n
  BY WeightsFacts
<1>2. \A k \in 1..n : u[k] <= c
  BY WeightsFacts
<1>3. PICK f : IsSum(f, n, u) /\ Total(size, s) = f[n]
  BY TotalsAreSums
<1>4. n <= MaxChain /\ MaxChain \in Nat /\ WORD \in Nat
  BY SocketBufferAssumption
<1> HIDE DEF n, u
<1>5. f[n] <= n * c
  BY <1>1, <1>2, <1>3, SumBounded
<1>6. f[n] \in Nat
  BY <1>1, <1>3 DEF IsSum
<1> DEFINE x == f[n]
           p == n * c
           q == MaxChain * c
           z == (MaxChain - n) * c
<1>7. p \in Nat /\ q \in Nat /\ z \in Nat /\ z = q - p
  <2>1. MaxChain - n \in Nat
    BY <1>1, <1>4
  <2>2. QED BY <1>1, <1>4, <2>1
<1>8. x \in Nat /\ x <= p /\ 2 * q < WORD
  BY <1>5, <1>6
<1> HIDE DEF x, p, q, z
<1>9. 2 * x < WORD
  BY <1>4, <1>7, <1>8
<1>10. QED BY <1>3, <1>8, <1>9 DEF x

LEMMA CountsBounded ==
  ASSUME NEW s \in Seq(Sizes), Len(s) <= MaxChain, CountersSuffice
  PROVE  /\ Total(Chars, s) \in Nat /\ 2 * Total(Chars, s) < WORD
         /\ Total(Charged, s) \in Nat /\ 2 * Total(Charged, s) < WORD
<1>1. PICK c \in Nat : /\ \A m \in Sizes : m.len <= c /\ Cost(m) <= c
                       /\ 2 * (MaxChain * c) < WORD
  BY DEF CountersSuffice
<1>2. \A m \in Sizes : Chars[m] <= c /\ Charged[m] <= c
  BY <1>1 DEF Chars, Charged
<1>3. QED BY <1>1, <1>2, SizeFacts, TotalBounded

\* A number below a half of the word is its own remainder, and a difference
\* of two is what it was after it was made a word and signed again.
LEMMA SmallWord ==
  ASSUME NEW a \in Nat, 2 * a < WORD
  PROVE  a % WORD = a
<1>1. WORD \in Nat \ {0}
  BY SocketBufferAssumption
<1>2. a \in 0..WORD - 1 /\ 0 \in Int /\ (0 * WORD) + a = a
  BY <1>1
<1>3. ((0 * WORD) + a) % WORD = a
  BY <1>1, <1>2, ModUnique
<1>4. QED BY <1>2, <1>3

LEMMA SignedDifference ==
  ASSUME NEW h \in Nat, 2 * h < WORD, NEW a \in Nat, 2 * a < WORD
  PROVE  Signed((h - a) % WORD) = h - a
<1>1. WORD \in Nat \ {0}
  BY SocketBufferAssumption
<1> DEFINE d == h - a
           r == d % WORD
<1>2. CASE a <= h
  <2>1. d \in Nat /\ 2 * d < WORD
    BY <1>1, <1>2
  <2>2. r = d
    <3> HIDE DEF d
    <3>1. QED BY <2>1, SmallWord
  <2>3. Signed(r) = d
    <3> HIDE DEF d, r
    <3>1. QED BY <2>1, <2>2 DEF Signed
  <2>4. QED BY <2>3
<1>3. CASE a > h
  <2> DEFINE e == d + WORD
             m == -1
  <2>1. e \in 0..WORD - 1 /\ ~(2 * e < WORD) /\ e - WORD = d /\ m \in Int
    BY <1>1, <1>3
  <2>2. (m * WORD) + e = d
    BY <1>1
  <2>3. ((m * WORD) + e) % WORD = e
    <3> HIDE DEF e, m, d
    <3>1. QED BY <1>1, <2>1, ModUnique
  <2>4. r = e
    <3> HIDE DEF e, m
    <3>1. QED BY <2>2, <2>3
  <2>5. Signed(r) = d
    <3> HIDE DEF e, r, d
    <3>1. QED BY <2>1, <2>4 DEF Signed
  <2>6. QED BY <2>5
<1>4. QED BY <1>2, <1>3

-----------------------------------------------------------------------------
(* Searching the switch.                                                   *)

LEMMA TableFacts ==
  ASSUME NEW d \in Domains
  PROVE  /\ Switch[d] \in Seq(Protosw) /\ Len(Switch[d]) \in Nat \ {0}
         /\ DOMAIN Switch[d] = 1..Len(Switch[d])
         /\ \A k \in 1..Len(Switch[d]) : Switch[d][k] \in Protosw
         /\ Len(Switch[d]) \in DOMAIN Switch[d]
<1> DEFINE s == Switch[d]
<1>1. s \in Seq(Protosw) /\ s # <<>>
  BY ProtocolSwitchAssumption
<1> HIDE DEF s
<1>2. Len(s) \in Nat \ {0}
  BY <1>1, EmptySeq
<1>3. DOMAIN s = 1..Len(s) /\ \A k \in 1..Len(s) : s[k] \in Protosw
  BY <1>1, LenProperties, ElementOfSeq
<1>4. QED BY <1>1, <1>2, <1>3 DEF s

\* What a search finds: the first entry of the type, or the last of a table
\* without a raw entry.
FirstOf(d, k, t) ==
  k \in DOMAIN Switch[d] /\ Switch[d][k].type = t
    /\ \A j \in 1..k - 1 : Switch[d][j].type # t

WildcardIn(d, k, p, t) ==
  /\ t = "raw" /\ p = 0 /\ k = Len(Switch[d])
  /\ \A j \in DOMAIN Switch[d] : Switch[d][j].type # "raw"

LEMMA TypeFound ==
  ASSUME NEW d \in Domains, NEW t
  PROVE  \/ /\ pffindtype(d, t) = NULL
            /\ d \in ToSet(domains) => \A k \in DOMAIN Switch[d] : Switch[d][k].type # t
         \/ \E k \in DOMAIN Switch[d] : pffindtype(d, t) = <<d, k>> /\ FirstOf(d, k, t)
<1> DEFINE found == IF d \in ToSet(domains)
                      THEN {k \in DOMAIN Switch[d] : Switch[d][k].type = t} ELSE {}
<1>1. pffindtype(d, t) = IF found = {} THEN NULL ELSE <<d, Min(found)>>
  BY DEF pffindtype
<1>2. CASE found = {}
  <2>1. d \in ToSet(domains) => \A k \in DOMAIN Switch[d] : Switch[d][k].type # t
    BY <1>2
  <2> HIDE DEF found
  <2>2. QED BY <1>1, <1>2, <2>1
<1>3. CASE found # {}
  <2>1. found \in SUBSET Nat /\ \A k \in found : k \in DOMAIN Switch[d] /\ Switch[d][k].type = t
    BY TableFacts
  <2>2. \A k \in DOMAIN Switch[d] : Switch[d][k].type = t => k \in found
    BY <1>3
  <2> HIDE DEF found
  <2> DEFINE m == Min(found)
  <2>3. m \in found /\ \A y \in found : m <= y
    BY <1>3, <2>1, MinFacts
  <2> HIDE DEF m
  <2>4. m \in 1..Len(Switch[d]) /\ Len(Switch[d]) \in Nat /\ DOMAIN Switch[d] = 1..Len(Switch[d])
    BY <2>1, <2>3, TableFacts
  <2>5. ASSUME NEW j \in 1..m - 1 PROVE Switch[d][j].type # t
    <3>1. j \in DOMAIN Switch[d] /\ ~(m <= j)
      BY <2>4
    <3>2. QED BY <2>2, <2>3, <3>1
  <2>6. FirstOf(d, m, t)
    BY <2>1, <2>3, <2>5 DEF FirstOf
  <2>7. pffindtype(d, t) = <<d, m>>
    BY <1>1, <1>3 DEF m
  <2>8. QED BY <2>1, <2>3, <2>6, <2>7
<1>4. QED BY <1>2, <1>3

LEMMA ProtoFound ==
  ASSUME NEW d \in Domains, NEW p, NEW t, pffindproto(d, p, t) # NULL
  PROVE  \E k \in DOMAIN Switch[d] :
           /\ pffindproto(d, p, t) = <<d, k>>
           /\ FirstOf(d, k, t) \/ WildcardIn(d, k, p, t)
<1>1. CASE pffindtype(d, t) # NULL
  <2>1. pffindproto(d, p, t) = pffindtype(d, t)
    BY <1>1 DEF pffindproto
  <2>2. QED BY <1>1, <2>1, TypeFound
<1>2. CASE pffindtype(d, t) = NULL
  <2>1. ASSUME NEW k \in DOMAIN Switch[d] PROVE <<d, k>> # NULL
    BY TableFacts, ProtocolSwitchAssumption
  <2>2. d \in ToSet(domains) => \A k \in DOMAIN Switch[d] : Switch[d][k].type # t
    BY <1>2, <2>1, TypeFound
  <2>3. /\ d \in ToSet(domains) /\ t = "raw" /\ p = 0
        /\ pffindproto(d, p, t) = <<d, Len(Switch[d])>>
    BY <1>2 DEF pffindproto
  <2>4. WildcardIn(d, Len(Switch[d]), p, t)
    BY <2>2, <2>3 DEF WildcardIn
  <2>5. QED BY <2>3, <2>4, TableFacts
<1>3. QED BY <1>1, <1>2

LEMMA FirstOfTypeAlways == FirstOfTypeOnly
<1> SUFFICES ASSUME NEW f \in Domains, NEW p \in {0} \cup {Entry(e).protocol : e \in Entries},
                    NEW t \in Types, pffindproto(f, p, t) # NULL
             PROVE  LET e == pffindproto(f, p, t)
                    IN \/ /\ Entry(e).type = t
                          /\ \A k \in 1..e[2] - 1 : Switch[f][k].type # t
                       \/ /\ t = "raw" /\ p = 0 /\ e[2] = Len(Switch[f])
                          /\ \A k \in DOMAIN Switch[f] : Switch[f][k].type # "raw"
  BY DEF FirstOfTypeOnly
<1>1. PICK k \in DOMAIN Switch[f] :
        /\ pffindproto(f, p, t) = <<f, k>>
        /\ FirstOf(f, k, t) \/ WildcardIn(f, k, p, t)
  BY ProtoFound
<1>2. Entry(<<f, k>>) = Switch[f][k] /\ <<f, k>>[2] = k
  BY DEF Entry
<1>3. QED BY <1>1, <1>2 DEF FirstOf, WildcardIn

-----------------------------------------------------------------------------
(* Select.                                                                 *)

\* A socket's protocol, if it needs no connection, takes messages at once.
LEMMA SocketProtocol ==
  ASSUME DatagramsAreAtomic, NEW so \in Sockets
  PROVE  "CONNREQUIRED" \in Entry(so.proto).flags \/ sosendallatonce(so)
<1>1. PICK f \in Domains, t \in Types \ {"none"} :
        so.proto = pffindproto(f, 0, t) /\ pffindproto(f, 0, t) # NULL
  BY DEF Sockets
<1>2. PICK k \in DOMAIN Switch[f] :
        /\ pffindproto(f, 0, t) = <<f, k>>
        /\ FirstOf(f, k, t) \/ WildcardIn(f, k, 0, t)
  <2> DEFINE z == 0
  <2> HIDE DEF z
  <2>1. pffindproto(f, z, t) # NULL
    BY <1>1 DEF z
  <2>2. PICK k \in DOMAIN Switch[f] :
          /\ pffindproto(f, z, t) = <<f, k>>
          /\ FirstOf(f, k, t) \/ WildcardIn(f, k, z, t)
    BY <2>1, ProtoFound
  <2>3. QED BY <2>2 DEF z
<1>3. Switch[f][k].type # "none" \/ k = Len(Switch[f])
  BY <1>2 DEF FirstOf, WildcardIn
<1>4. "ATOMIC" \in Switch[f][k].flags \/ "CONNREQUIRED" \in Switch[f][k].flags
  BY <1>2, <1>3 DEF DatagramsAreAtomic
<1>5. Entry(so.proto) = Switch[f][k]
  BY <1>1, <1>2 DEF Entry
<1>6. QED BY <1>4, <1>5 DEF sosendallatonce

LEMMA SelectFollows ==
  ASSUME CountersSuffice, DatagramsAreAtomic,
         CountInv, Len(sb_mb) <= MaxChain
  PROVE  SelectIsRight
<1> SUFFICES ASSUME middle = <<>> PROVE SelectIsRight
  BY DEF SelectIsRight
<1> DEFINE cc == Total(Chars, sb_mb)
           mbcnt == Total(Charged, sb_mb)
<1>1. cc \in Nat /\ 2 * cc < WORD /\ mbcnt \in Nat /\ 2 * mbcnt < WORD
  BY CountsBounded DEF CountInv, CountTypes
<1>2. sb_cc = cc /\ sb_mbcnt = mbcnt
  <2>0. ASSUME NEW size \in [Sizes -> Nat], Total(size, sb_mb) \in Nat
        PROVE  Should(size, sb_mb, middle) = Total(size, sb_mb)
    <3>1. Total(Weight("link", size), middle) = 0 /\ Total(Weight("take", size), middle) = 0
      BY TotalOfNone, WeightFacts
    <3> DEFINE a == Total(size, sb_mb)
    <3>2. a \in Nat /\ Should(size, sb_mb, middle) = a - 0 + 0
      BY <2>0, <3>1 DEF Should
    <3> HIDE DEF a
    <3>3. Should(size, sb_mb, middle) = a
      BY <3>2
    <3>4. QED BY <3>3 DEF a
  <2>1. sb_cc = cc % WORD /\ sb_mbcnt = mbcnt % WORD
    BY <1>1, <2>0, SizeFacts, CountsByName DEF CountInv, ShouldBe
  <2> HIDE DEF cc, mbcnt
  <2>2. QED BY <1>1, <2>1, SmallWord
<1>3. /\ HIWAT \in Nat /\ MBMAX \in Nat /\ LOWAT \in Nat /\ LOWAT > 0
      /\ 2 * HIWAT < WORD /\ 2 * MBMAX < WORD
  BY SocketBufferAssumption DEF CountersSuffice
<1>4. sbspace(sb_cc, sb_mbcnt) = Min({HIWAT - cc, MBMAX - mbcnt})
  <2> HIDE DEF cc, mbcnt
  <2>1. /\ Signed((HIWAT - cc) % WORD) = HIWAT - cc
        /\ Signed((MBMAX - mbcnt) % WORD) = MBMAX - mbcnt
    BY <1>1, <1>3, SignedDifference
  <2>2. QED BY <1>2, <2>1 DEF sbspace
<1>5. sbspace(sb_cc, sb_mbcnt) >= LOWAT => cc + LOWAT <= HIWAT /\ mbcnt + LOWAT <= MBMAX
  <2> DEFINE a == HIWAT - cc
             b == MBMAX - mbcnt
             m == Min({a, b})
  <2> HIDE DEF cc, mbcnt
  <2>1. a \in Int /\ b \in Int
    BY <1>1, <1>3
  <2>2. m = IF a <= b THEN a ELSE b
    <3> HIDE DEF a, b
    <3>1. QED BY <2>1, MinMaxOfTwo
  <2>3. sbspace(sb_cc, sb_mbcnt) = m
    BY <1>4
  <2> HIDE DEF m
  <2>4. m >= LOWAT => cc + LOWAT <= HIWAT /\ mbcnt + LOWAT <= MBMAX
    BY <1>1, <1>3, <2>2
  <2>5. QED BY <2>3, <2>4
<1>6. sb_cc >= LOWAT => sb_mb # <<>>
  <2>1. sb_mb = <<>> => cc = 0
    BY SizeFacts, TotalOfNone
  <2> HIDE DEF cc
  <2>2. QED BY <1>1, <1>2, <1>3, <2>1
<1>7. ASSUME NEW so \in Sockets
      PROVE  /\ sowriteable(so, sb_cc, sb_mbcnt) /\ "CANTSENDMORE" \notin so.state /\ ~so.error =>
                  /\ cc + LOWAT <= HIWAT /\ mbcnt + LOWAT <= MBMAX
                  /\ sosendallatonce(so) \/ "ISCONNECTED" \in so.state
             /\ soreadable(so, sb_cc) /\ "CANTRCVMORE" \notin so.state /\ ~so.error =>
                  sb_mb # <<>>
  BY <1>5, <1>6, SocketProtocol DEF sowriteable, soreadable
<1>8. QED BY <1>7 DEF SelectIsRight

-----------------------------------------------------------------------------
(* Walking the switch.                                                     *)

\* The tables of the domains ds, entry by entry.
TablesOf(ds) == [j \in DOMAIN ds |-> [k \in DOMAIN Switch[ds[j]] |-> <<ds[j], k>>]]

LEMMA EntriesBelong ==
  ASSUME NEW d \in Domains, NEW k \in DOMAIN Switch[d]
  PROVE  <<d, k>> \in Entries
BY DEF Entries

LEMMA TablesFacts ==
  ASSUME NEW ds \in Seq(Domains)
  PROVE  /\ TablesOf(ds) \in Seq(Seq(Entries)) /\ Len(TablesOf(ds)) = Len(ds)
         /\ \A j \in 1..Len(ds) :
              /\ ds[j] \in Domains
              /\ Len(TablesOf(ds)[j]) = Len(Switch[ds[j]])
              /\ \A k \in 1..Len(Switch[ds[j]]) : TablesOf(ds)[j][k] = <<ds[j], k>>
<1> DEFINE n == Len(ds)
           V == Seq(Entries)
           q == TablesOf(ds)
<1>1. n \in Nat /\ DOMAIN ds = 1..n /\ \A j \in 1..n : ds[j] \in Domains
  BY LenProperties, ElementOfSeq
<1> HIDE DEF n
<1>2. ASSUME NEW j \in 1..n
      PROVE  /\ q[j] \in V /\ Len(q[j]) = Len(Switch[ds[j]])
             /\ \A k \in 1..Len(Switch[ds[j]]) : q[j][k] = <<ds[j], k>>
  <2> DEFINE d == ds[j]
             m == Len(Switch[d])
             r == [k \in DOMAIN Switch[d] |-> <<d, k>>]
  <2>1. d \in Domains
    BY <1>1
  <2>2. q[j] = r
    BY <1>1 DEF TablesOf
  <2> HIDE DEF d, q
  <2>3. m \in Nat /\ DOMAIN Switch[d] = 1..m
    BY <2>1, TableFacts
  <2>4. \A k \in 1..m : <<d, k>> \in Entries
    BY <2>1, <2>3, EntriesBelong
  <2>5. r \in [1..m -> Entries] /\ \A k \in 1..m : r[k] = <<d, k>>
    BY <2>3, <2>4
  <2> HIDE DEF r, m
  <2>6. r \in Seq(Entries) /\ Len(r) = m
    BY <2>3, <2>5, SequenceFrom
  <2>7. QED BY <2>2, <2>5, <2>6 DEF d, m
<1>3. q \in [1..n -> V]
  <2>1. DOMAIN q = 1..n /\ q = [j \in DOMAIN q |-> q[j]]
    BY <1>1 DEF TablesOf
  <2> HIDE DEF q, V
  <2>2. QED BY <1>2, <2>1
<1> HIDE DEF q, V
<1>4. q \in Seq(V) /\ Len(q) = n
  BY <1>1, <1>3, SequenceFrom
<1>5. QED BY <1>1, <1>2, <1>4 DEF q, V, n

\* The entries of a list of domains are those of its domains, each once if
\* the domains are.
LEMMA EntriesOfFacts ==
  ASSUME NEW ds \in Seq(Domains), IsInjective(ds)
  PROVE  EntriesOf(ds) \in Seq(Entries) /\ IsInjective(EntriesOf(ds))
<1> DEFINE q == TablesOf(ds)
<1>1. EntriesOf(ds) = FlattenSeq(q)
  BY DEF EntriesOf, TablesOf
<1>2. q \in Seq(Seq(Entries)) /\ Len(q) = Len(ds)
  BY TablesFacts
<1>3. Distinct(q)
  <2>1. ASSUME NEW k \in 1..Len(q), NEW m \in 1..Len(q),
               NEW i \in 1..Len(q[k]), NEW j \in 1..Len(q[m]), q[k][i] = q[m][j]
        PROVE  k = m /\ i = j
    <3>1. k \in 1..Len(ds) /\ m \in 1..Len(ds)
      BY <1>2
    <3>2. q[k][i] = <<ds[k], i>> /\ q[m][j] = <<ds[m], j>>
      BY <3>1, TablesFacts
    <3>3. ds[k] = ds[m] /\ i = j
      <4> DEFINE a == ds[k]
                 b == ds[m]
      <4>1. <<a, i>> = <<b, j>>
        BY <2>1, <3>2
      <4> HIDE DEF a, b
      <4>2. a = b /\ i = j
        BY <4>1
      <4>3. QED BY <4>2 DEF a, b
    <3>4. DOMAIN ds = 1..Len(ds)
      BY LenProperties
    <3>5. QED BY <3>1, <3>3, <3>4 DEF IsInjective
  <2>2. QED BY <2>1 DEF Distinct
<1> HIDE DEF q
<1>4. QED BY <1>1, <1>2, <1>3, FlattenDistinct, FlattenElements

\* A piece for every entry, empty when the pointer is null.
Chosen(all, hook) ==
  [k \in DOMAIN all |-> IF hook \in Entry(all[k]).hooks THEN <<all[k]>> ELSE <<>>]

LEMMA HookedFacts ==
  ASSUME NEW ds \in Seq(Domains), IsInjective(ds), NEW hook
  PROVE  /\ Hooked(ds, hook) \in Seq(Entries) /\ IsInjective(Hooked(ds, hook))
         /\ \A i \in 1..Len(Hooked(ds, hook)) : Hooked(ds, hook)[i] \in ToSet(EntriesOf(ds))
         /\ \A e \in ToSet(EntriesOf(ds)) : hook \in Entry(e).hooks =>
              \E i \in 1..Len(Hooked(ds, hook)) : Hooked(ds, hook)[i] = e
<1> DEFINE all == EntriesOf(ds)
           n == Len(all)
           V == Seq(Entries)
           q == Chosen(all, hook)
           w == Hooked(ds, hook)
<1>1. w = FlattenSeq(q)
  BY DEF Hooked, Chosen
<1>2. all \in Seq(Entries) /\ IsInjective(all)
  BY EntriesOfFacts
<1> HIDE DEF all, w
<1>3. n \in Nat /\ DOMAIN all = 1..n /\ \A k \in 1..n : all[k] \in Entries
  BY <1>2, LenProperties, ElementOfSeq
<1> HIDE DEF n
<1>4. ASSUME NEW k \in 1..n
      PROVE  /\ q[k] \in V
             /\ \A i \in 1..Len(q[k]) : i = 1 /\ q[k][i] = all[k]
             /\ hook \in Entry(all[k]).hooks => 1 \in 1..Len(q[k])
  <2> DEFINE e == all[k]
             s == <<e>>
             z == <<>>
  <2>1. q[k] = IF hook \in Entry(e).hooks THEN s ELSE z
    BY <1>3 DEF Chosen
  <2>2. e \in Entries
    BY <1>3
  <2> HIDE DEF e
  <2>3. s \in V /\ Len(s) = 1 /\ s[1] = e
    BY <2>2, OneElement
  <2>4. z \in V /\ Len(z) = 0
    BY EmptySeq
  <2> HIDE DEF s, z, V, q
  <2>5. CASE hook \in Entry(e).hooks
    <3>1. q[k] = s
      BY <2>1, <2>5
    <3>2. 1 \in 1..Len(s) /\ \A i \in 1..Len(s) : i = 1
      BY <2>3
    <3>3. QED BY <2>3, <3>1, <3>2 DEF e
  <2>6. CASE hook \notin Entry(e).hooks
    <3>1. q[k] = z
      BY <2>1, <2>6
    <3>2. \A i \in 1..Len(z) : FALSE
      BY <2>4
    <3>3. QED BY <2>4, <2>6, <3>1, <3>2 DEF e
  <2>7. QED BY <2>5, <2>6
<1>5. q \in [1..n -> V]
  <2>1. DOMAIN q = 1..n /\ q = [k \in DOMAIN q |-> q[k]]
    BY <1>3 DEF Chosen
  <2> HIDE DEF q, V
  <2>2. QED BY <1>4, <2>1
<1> HIDE DEF q
<1>6. q \in Seq(V) /\ Len(q) = n
  <2> HIDE DEF V
  <2>1. QED BY <1>3, <1>5, SequenceFrom
<1>7. Distinct(q)
  <2>1. ASSUME NEW k \in 1..Len(q), NEW m \in 1..Len(q),
               NEW i \in 1..Len(q[k]), NEW j \in 1..Len(q[m]), q[k][i] = q[m][j]
        PROVE  k = m /\ i = j
    <3>1. k \in 1..n /\ m \in 1..n
      BY <1>6
    <3>2. i = 1 /\ j = 1 /\ all[k] = all[m]
      BY <1>4, <2>1, <3>1
    <3>3. QED BY <1>2, <1>3, <3>1, <3>2 DEF IsInjective
  <2>2. QED BY <2>1 DEF Distinct
<1>8. /\ w \in Seq(Entries)
      /\ \A k \in 1..Len(q) : \A i \in 1..Len(q[k]) : \E j \in 1..Len(w) : w[j] = q[k][i]
      /\ \A j \in 1..Len(w) : \E k \in 1..Len(q) : \E i \in 1..Len(q[k]) : w[j] = q[k][i]
  <2> DEFINE f == FlattenSeq(q)
  <2>1. q \in Seq(Seq(Entries))
    BY <1>6
  <2>2. /\ f \in Seq(Entries)
        /\ \A k \in 1..Len(q) : \A i \in 1..Len(q[k]) : \E j \in 1..Len(f) : f[j] = q[k][i]
        /\ \A j \in 1..Len(f) : \E k \in 1..Len(q) : \E i \in 1..Len(q[k]) : f[j] = q[k][i]
    BY <2>1, FlattenElements
  <2>3. f = w
    BY <1>1
  <2> HIDE DEF f
  <2>4. QED BY <2>2, <2>3
<1>9. IsInjective(w)
  BY <1>1, <1>6, <1>7, FlattenDistinct
<1>10. ToSet(all) = {all[k] : k \in 1..n}
  BY <1>3 DEF ToSet
<1>11. ASSUME NEW i \in 1..Len(w) PROVE w[i] \in ToSet(all)
  <2>1. PICK k \in 1..Len(q) : \E j \in 1..Len(q[k]) : w[i] = q[k][j]
    BY <1>8
  <2>2. w[i] = all[k] /\ k \in 1..n
    BY <1>4, <1>6, <2>1
  <2>3. QED BY <1>10, <2>2
<1>12. ASSUME NEW e \in ToSet(all), hook \in Entry(e).hooks
       PROVE  \E i \in 1..Len(w) : w[i] = e
  <2>1. PICK k \in 1..n : e = all[k]
    BY <1>10
  <2>2. 1 \in 1..Len(q[k]) /\ q[k][1] = all[k] /\ k \in 1..Len(q)
    BY <1>4, <1>6, <1>12, <2>1
  <2>3. QED BY <1>8, <2>1, <2>2
<1>13. QED BY <1>8, <1>9, <1>11, <1>12 DEF all, w

Called(e, hook, arg) == [entry |-> e, hook |-> hook, arg |-> arg]

LEMMA WalkFacts ==
  ASSUME NEW ds \in Seq(Domains), IsInjective(ds), NEW hook, NEW arg
  PROVE  /\ Walk(ds, hook, arg) \in Seq([entry : Entries, hook : {hook}, arg : {arg}])
         /\ Len(Walk(ds, hook, arg)) = Len(Hooked(ds, hook))
         /\ \A i \in 1..Len(Hooked(ds, hook)) :
              Walk(ds, hook, arg)[i] = Called(Hooked(ds, hook)[i], hook, arg)
<1> DEFINE w == Hooked(ds, hook)
           n == Len(w)
           C == [entry : Entries, hook : {hook}, arg : {arg}]
           r == Walk(ds, hook, arg)
<1>1. w \in Seq(Entries)
  BY HookedFacts
<1>2. r = [k \in DOMAIN w |-> [entry |-> w[k], hook |-> hook, arg |-> arg]]
  BY DEF Walk
<1> HIDE DEF w, r
<1>3. n \in Nat /\ DOMAIN w = 1..n /\ \A k \in 1..n : w[k] \in Entries
  BY <1>1, LenProperties, ElementOfSeq
<1>4. r \in [1..n -> C] /\ \A k \in 1..n : r[k] = Called(w[k], hook, arg)
  BY <1>2, <1>3 DEF Called
<1> HIDE DEF C, n
<1>5. r \in Seq(C) /\ Len(r) = n
  BY <1>3, <1>4, SequenceFrom
<1>6. QED BY <1>4, <1>5 DEF w, n, C, r

-----------------------------------------------------------------------------
(* Telling everyone.                                                       *)

\* The walks of an interface that goes down, address by address.
RoundsOf(ds, q) == [k \in DOMAIN q |-> Walk(ds, "ctlinput", q[k])]

Call(e, arg) == Called(e, "ctlinput", arg)

LEMMA RoundsFacts ==
  ASSUME NEW ds \in Seq(Domains), IsInjective(ds), NEW A, NEW q \in Seq(A)
  PROVE  /\ RoundsOf(ds, q) \in Seq(Seq([entry : Entries, hook : {"ctlinput"}, arg : A]))
         /\ Len(RoundsOf(ds, q)) = Len(q) /\ Len(q) \in Nat
         /\ \A k \in 1..Len(q) :
              /\ Len(RoundsOf(ds, q)[k]) = Len(Hooked(ds, "ctlinput"))
              /\ \A i \in 1..Len(Hooked(ds, "ctlinput")) :
                   RoundsOf(ds, q)[k][i] = Call(Hooked(ds, "ctlinput")[i], q[k])
<1> DEFINE w == Hooked(ds, "ctlinput")
           n == Len(q)
           m == Len(w)
           C == [entry : Entries, hook : {"ctlinput"}, arg : A]
           V == Seq(C)
           r == RoundsOf(ds, q)
<1>1. n \in Nat /\ DOMAIN q = 1..n /\ \A k \in 1..n : q[k] \in A
  BY LenProperties, ElementOfSeq
<1>2. r = [k \in 1..n |-> Walk(ds, "ctlinput", q[k])]
  BY <1>1 DEF RoundsOf
<1>3. m \in Nat /\ \A i \in 1..m : w[i] \in Entries
  BY HookedFacts, LenProperties, ElementOfSeq
<1>4. ASSUME NEW k \in 1..n
      PROVE  r[k] \in V /\ Len(r[k]) = m /\ \A i \in 1..m : r[k][i] = Call(w[i], q[k])
  <2> DEFINE x == Walk(ds, "ctlinput", q[k])
             B == [entry : Entries, hook : {"ctlinput"}, arg : {q[k]}]
  <2>1. x \in Seq(B) /\ Len(x) = m /\ \A i \in 1..m : x[i] = Call(w[i], q[k])
    <3>1. x \in Seq(B) /\ Len(x) = m
      BY WalkFacts
    <3>2. \A i \in 1..m : x[i] = Called(w[i], "ctlinput", q[k])
      <4> DEFINE h == "ctlinput"
                 y == q[k]
      <4>1. x = Walk(ds, h, y) /\ w = Hooked(ds, h) /\ m = Len(w)
        OBVIOUS
      <4> HIDE DEF h, y, x, w, m
      <4>2. \A i \in 1..Len(Hooked(ds, h)) : Walk(ds, h, y)[i] = Called(Hooked(ds, h)[i], h, y)
        BY WalkFacts
      <4>3. \A i \in 1..m : x[i] = Called(w[i], h, y)
        BY <4>1, <4>2
      <4>4. QED BY <4>3 DEF h, y
    <3>3. QED BY <3>1, <3>2 DEF Call
  <2>2. r[k] = x
    BY <1>2
  <2> HIDE DEF x, w, r, B
  <2>3. \A i \in 1..m : x[i] \in C
    <3>1. q[k] \in A
      BY <1>1
    <3>2. \A e \in Entries, y \in A : Call(e, y) \in C
      BY DEF Call, Called
    <3> HIDE DEF C, m
    <3>3. \A i \in 1..m : w[i] \in Entries
      BY <1>3
    <3>4. QED BY <2>1, <3>1, <3>2, <3>3
  <2>4. x \in [1..m -> C]
    <3>1. x \in [1..m -> B]
      BY <2>1, LenProperties
    <3>2. QED BY <2>3, <3>1
  <2> HIDE DEF C, m
  <2>5. x \in Seq(C)
    BY <1>3, <2>4, SequenceFrom
  <2>6. QED BY <2>1, <2>2, <2>5 DEF m
<1> HIDE DEF r, w, m
<1>5. r \in [1..n -> V]
  <2>1. DOMAIN r = 1..n /\ r = [k \in DOMAIN r |-> r[k]]
    BY <1>2
  <2> HIDE DEF V
  <2>2. QED BY <1>4, <2>1
<1>6. r \in Seq(V) /\ Len(r) = n
  <2> HIDE DEF V, n
  <2>1. QED BY <1>1, <1>5, SequenceFrom
<1>7. QED BY <1>1, <1>4, <1>6 DEF r, w, m

\* The places of a call in a sequence of calls.
Times(t, e, arg) == {j \in DOMAIN t : t[j] = Call(e, arg)}

LEMMA ToldAsOften ==
  ASSUME NEW ds \in Seq(Domains), IsInjective(ds), NEW A, NEW q \in Seq(A),
         NEW a \in 1..Len(Hooked(ds, "ctlinput")), NEW b \in 1..Len(Hooked(ds, "ctlinput")),
         NEW x
  PROVE  LET t == FlattenSeq(RoundsOf(ds, q))
         IN  Cardinality(Times(t, Hooked(ds, "ctlinput")[a], x))
               <= Cardinality(Times(t, Hooked(ds, "ctlinput")[b], x))
<1> DEFINE w == Hooked(ds, "ctlinput")
           r == RoundsOf(ds, q)
           t == FlattenSeq(r)
           C == [entry : Entries, hook : {"ctlinput"}, arg : A]
           P == Times(t, w[a], x)
           Q == Times(t, w[b], x)
<1>1. /\ r \in Seq(Seq(C)) /\ Len(r) = Len(q)
      /\ \A k \in 1..Len(q) : /\ Len(r[k]) = Len(w)
                              /\ \A i \in 1..Len(w) : r[k][i] = Call(w[i], q[k])
  BY RoundsFacts
<1>2. IsInjective(w) /\ DOMAIN w = 1..Len(w)
  BY HookedFacts, LenProperties
<1> HIDE DEF w, r, C
<1>3. t \in Seq(C) /\ \E p : PiecesOf(r, p, t)
  BY <1>1, FlattenPieces
<1> HIDE DEF t
<1>4. PICK p : PiecesOf(r, p, t)
  BY <1>3
<1>5. Len(t) \in Nat /\ DOMAIN t = 1..Len(t)
  BY <1>3, LenProperties
<1> DEFINE f == [j \in P |-> (j + b) - a]
<1>6. a \in Int /\ b \in Int /\ \A j \in P : j \in Nat
  BY <1>5 DEF Times
<1>7. ASSUME NEW j \in P PROVE (j + b) - a \in Q
  <2>1. j \in 1..Len(t) /\ t[j] = Call(w[a], x)
    BY <1>5 DEF Times
  <2>2. PlaceOf(r, p, t, j)
    BY <1>1, <1>3, <1>4, <2>1, PieceAt
  <2>3. PICK k \in 1..Len(r) : \E i \in 1..Len(r[k]) : j = p[k - 1] + i /\ t[j] = r[k][i]
    BY <2>2 DEF PlaceOf
  <2>4. PICK i \in 1..Len(r[k]) : j = p[k - 1] + i /\ t[j] = r[k][i]
    BY <2>3
  <2>5. k \in 1..Len(q) /\ i \in 1..Len(w) /\ b \in 1..Len(r[k])
    BY <1>1, <2>3, <2>4 DEF w
  <2>6. Call(w[i], q[k]) = Call(w[a], x)
    BY <1>1, <2>1, <2>4, <2>5
  <2>7. w[i] = w[a] /\ q[k] = x
    <3> DEFINE u == w[i]
               v == w[a]
               y == q[k]
    <3>1. Call(u, y) = Call(v, x)
      BY <2>6
    <3> HIDE DEF u, v, y
    <3>2. u = v /\ y = x
      <4>1. Call(u, y).entry = u /\ Call(v, x).entry = v /\ Call(u, y).arg = y /\ Call(v, x).arg = x
        BY DEF Call, Called
      <4>2. QED BY <3>1, <4>1
    <3>3. QED BY <3>2 DEF u, v, y
  <2>8. i = a
    BY <1>2, <2>5, <2>7 DEF IsInjective, w
  <2>9. /\ p[k - 1] \in Nat /\ p[k - 1] + b \in 1..Len(t)
        /\ t[p[k - 1] + b] = r[k][b]
    BY <1>1, <1>3, <1>4, <2>3, <2>5, PiecePlace
  <2>10. r[k][b] = Call(w[b], x)
    BY <1>1, <2>5, <2>7 DEF w
  <2>11. (j + b) - a = p[k - 1] + b
    <3> DEFINE z == p[k - 1]
    <3>1. z \in Nat /\ j = z + a
      BY <2>4, <2>8, <2>9
    <3> HIDE DEF z
    <3>2. (j + b) - a = z + b
      BY <1>6, <3>1
    <3>3. QED BY <3>2 DEF z
  <2>12. QED BY <1>5, <2>9, <2>10, <2>11 DEF Times
<1>8. f \in Injection(P, Q)
  <2>1. f \in [P -> Q]
    BY <1>7
  <2>2. ASSUME NEW i \in P, NEW j \in P, f[i] = f[j] PROVE i = j
    <3>1. (i + b) - a = (j + b) - a
      BY <2>2
    <3>2. i \in Nat /\ j \in Nat
      BY <1>6
    <3>3. QED BY <1>6, <3>1, <3>2
  <2>3. DOMAIN f = P
    OBVIOUS
  <2>4. IsInjective(f)
    BY <2>2, <2>3, Zenon DEF IsInjective
  <2>5. QED BY <2>1, <2>4 DEF Injection
<1>9. IsFiniteSet(Q)
  <2>1. Q \subseteq 1..Len(t)
    BY <1>5 DEF Times
  <2>2. IsFiniteSet(1..Len(t))
    BY <1>5, FS_Interval
  <2> HIDE DEF Q
  <2>3. QED BY <2>1, <2>2, FS_Subset
<1> HIDE DEF f, P, Q
<1>10. Cardinality(P) <= Cardinality(Q)
  BY <1>8, <1>9, FS_Injection
<1>11. QED BY <1>10 DEF P, Q, t, r, w

-----------------------------------------------------------------------------
(* The invariant of the protocol switch.                                   *)

\* What was called last are the hooks of one walk, other than pr_ctlinput,
\* or those of an interface that went down.
CallsAreWalks ==
  \/ calls = <<>>
  \/ \E h \in Hooks \ {"ctlinput"} : calls = Walk(domains, h, NULL)
  \/ \E q \in AddrLists : calls = FlattenSeq(RoundsOf(domains, q))

SwitchInv ==
  /\ domains \in Seq(Domains) /\ IsInjective(domains)
  /\ ready = ToSet(EntriesOf(domains))
  /\ CallsAreWalks
  /\ room \in [linkhdr : Nat, hdr : Nat, datalen : Int]

LEMMA NothingWalked ==
  /\ <<>> \in Seq(Domains) /\ IsInjective(<<>>) /\ ToSet(EntriesOf(<<>>)) = {}
<1> DEFINE e == <<>>
           q == TablesOf(e)
           t == EntriesOf(e)
<1>1. e \in Seq(Domains) /\ Len(e) = 0
  BY EmptySeq
<1> HIDE DEF e
<1>2. DOMAIN e = 1..0
  BY <1>1, LenProperties
<1>3. IsInjective(e)
  BY <1>2 DEF IsInjective
<1>4. q \in Seq(Seq(Entries)) /\ Len(q) = 0
  BY <1>1, TablesFacts
<1>5. t = FlattenSeq(q)
  BY DEF EntriesOf, TablesOf
<1> HIDE DEF t, q
<1>6. t \in Seq(Entries) /\ \A j \in 1..Len(t) : \E k \in 1..Len(q) : TRUE
  BY <1>4, <1>5, FlattenElements
<1>7. DOMAIN t = 1..Len(t)
  BY <1>6, LenProperties
<1>8. \A j \in DOMAIN t : FALSE
  BY <1>4, <1>6, <1>7
<1>9. ToSet(t) = {}
  BY <1>8 DEF ToSet
<1>10. QED BY <1>1, <1>3, <1>9 DEF e, t

LEMMA InitSwitch == Init => SwitchInv
<1> SUFFICES ASSUME Init PROVE SwitchInv
  OBVIOUS
<1>1. /\ domains = <<>> /\ ready = {} /\ calls = <<>>
      /\ room = [linkhdr |-> LINKHDR, hdr |-> 0, datalen |-> 0]
  BY DEF Init, PsInit
<1>2. LINKHDR \in Nat
  BY ProtocolSwitchAssumption
<1>3. QED BY <1>1, <1>2, NothingWalked DEF SwitchInv, CallsAreWalks

LEMMA DomaininitSwitch ==
  ASSUME SwitchInv, NEW ds \in Lists, domaininit(ds)
  PROVE  SwitchInv'
<1> DEFINE linkhdr == Max({LINKHDR, 16})
           hdr == linkhdr + PROTOHDR
<1>1. /\ domains' = Reverse(ds)
      /\ calls' = Walk(domains', "init", NULL)
      /\ ready' = ToSet(EntriesOf(domains'))
      /\ room' = [linkhdr |-> linkhdr, hdr |-> hdr, datalen |-> MHLEN - hdr]
  BY DEF domaininit
<1>2. linkhdr \in Nat
  <2>1. LINKHDR \in Int /\ 16 \in Int /\ LINKHDR \in Nat /\ 16 \in Nat
    BY ProtocolSwitchAssumption
  <2>2. linkhdr = IF LINKHDR >= 16 THEN LINKHDR ELSE 16
    <3> DEFINE b == 16
    <3>1. b \in Int
      OBVIOUS
    <3> HIDE DEF b
    <3>2. Max({LINKHDR, b}) = IF LINKHDR >= b THEN LINKHDR ELSE b
      BY <2>1, <3>1, MinMaxOfTwo
    <3>3. QED BY <3>2 DEF b
  <2> HIDE DEF linkhdr
  <2>3. QED BY <2>1, <2>2
<1>3. room' \in [linkhdr : Nat, hdr : Nat, datalen : Int]
  <2> HIDE DEF linkhdr
  <2>1. PROTOHDR \in Nat /\ MHLEN \in Nat
    BY ProtocolSwitchAssumption
  <2>2. hdr \in Nat /\ MHLEN - hdr \in Int
    BY <1>2, <2>1
  <2>3. QED BY <1>1, <1>2, <2>2
<1>4. domains' \in Seq(Domains) /\ IsInjective(domains')
  <2>1. ds \in Seq(Domains) /\ IsInjective(ds)
    BY ProtocolSwitchAssumption
  <2>2. Reverse(ds) \in Seq(Domains) /\ IsInjective(Reverse(ds))
    BY <2>1, ReverseFacts
  <2>3. QED BY <1>1, <2>2
<1>5. CallsAreWalks'
  <2>1. "init" \in Hooks \ {"ctlinput"}
    BY DEF Hooks
  <2>2. QED BY <1>1, <2>1 DEF CallsAreWalks
<1>6. QED BY <1>1, <1>3, <1>4, <1>5 DEF SwitchInv

LEMMA StepSwitch == SwitchInv /\ [Next]_vars => SwitchInv'
<1> SUFFICES ASSUME SwitchInv, [Next]_vars PROVE SwitchInv'
  OBVIOUS
<1>1. CASE UNCHANGED psvars
  BY <1>1 DEF psvars, SwitchInv, CallsAreWalks
<1>2. ASSUME NEW ds \in Lists, domaininit(ds) PROVE SwitchInv'
  BY <1>2, DomaininitSwitch
<1>3. ASSUME UNCHANGED <<domains, ready, room>>, CallsAreWalks' PROVE SwitchInv'
  BY <1>3 DEF SwitchInv
<1>4. CASE pfslowtimo
  <2>1. calls' = Walk(domains', "slowtimo", NULL) /\ "slowtimo" \in Hooks \ {"ctlinput"}
    BY <1>4 DEF pfslowtimo, Hooks
  <2>2. CallsAreWalks'
    BY <2>1 DEF CallsAreWalks
  <2>3. QED BY <1>3, <1>4, <2>2 DEF pfslowtimo
<1>5. CASE pffasttimo
  <2>1. calls' = Walk(domains', "fasttimo", NULL) /\ "fasttimo" \in Hooks \ {"ctlinput"}
    BY <1>5 DEF pffasttimo, Hooks
  <2>2. CallsAreWalks'
    BY <2>1 DEF CallsAreWalks
  <2>3. QED BY <1>3, <1>5, <2>2 DEF pffasttimo
<1>6. ASSUME NEW q \in AddrLists, if_down(q) PROVE SwitchInv'
  <2>1. calls' = FlattenSeq(RoundsOf(domains', q))
    BY <1>6 DEF if_down, pfctlinput, RoundsOf
  <2>2. CallsAreWalks'
    BY <2>1 DEF CallsAreWalks
  <2>3. QED BY <1>3, <1>6, <2>2 DEF if_down
<1>7. QED BY <1>1, <1>2, <1>4, <1>5, <1>6 DEF Next, vars

\* Every call is of an entry of the domains on the list.
LEMMA CallsKnown ==
  ASSUME SwitchInv
  PROVE  \A k \in DOMAIN calls : calls[k].entry \in ready
<1> DEFINE ds == domains
           E == ToSet(EntriesOf(ds))
<1>1. ds \in Seq(Domains) /\ IsInjective(ds) /\ ready = E
  BY DEF SwitchInv
<1> HIDE DEF E, ds
<1>2. CASE calls = <<>>
  <2>1. DOMAIN calls = {}
    BY <1>2
  <2>2. QED BY <2>1
<1>3. ASSUME NEW h \in Hooks, calls = Walk(ds, h, NULL), NEW k \in DOMAIN calls
      PROVE  calls[k].entry \in E
  <2> DEFINE w == Hooked(ds, h)
             r == Walk(ds, h, NULL)
  <2>1. /\ \E S : r \in Seq(S) 
        /\ Len(r) = Len(w) /\ \A i \in 1..Len(w) : r[i] = Called(w[i], h, NULL)
    BY <1>1, WalkFacts
  <2>2. \A i \in 1..Len(w) : w[i] \in E
    BY <1>1, HookedFacts DEF E
  <2>3. r = calls
    BY <1>3
  <2> HIDE DEF w, r
  <2>4. DOMAIN r = 1..Len(r)
    BY <2>1, LenProperties
  <2>5. r[k] = Called(w[k], h, NULL) /\ w[k] \in E
    BY <1>3, <2>1, <2>2, <2>3, <2>4
  <2>6. r[k].entry = w[k]
    BY <2>5 DEF Called
  <2>7. QED BY <2>3, <2>5, <2>6
<1>4. ASSUME NEW q \in AddrLists, calls = FlattenSeq(RoundsOf(ds, q)), NEW k \in DOMAIN calls
      PROVE  calls[k].entry \in E
  <2> DEFINE h == "ctlinput"
             w == Hooked(ds, h)
             r == RoundsOf(ds, q)
             A == ToSet(q)
             C == [entry : Entries, hook : {h}, arg : A]
  <2>1. q \in Seq(A)
    BY ProtocolSwitchAssumption
  <2> HIDE DEF A
  <2>2. /\ r \in Seq(Seq(C)) /\ Len(r) = Len(q)
        /\ \A m \in 1..Len(q) : /\ Len(r[m]) = Len(w)
                                /\ \A i \in 1..Len(w) : r[m][i] = Call(w[i], q[m])
    BY <1>1, <2>1, RoundsFacts
  <2>3. calls = FlattenSeq(r)
    BY <1>4
  <2>4. \A i \in 1..Len(w) : w[i] \in E
    <3> HIDE DEF h
    <3>1. QED BY <1>1, HookedFacts DEF E
  <2> HIDE DEF r, w, C
  <2> DEFINE t == FlattenSeq(r)
  <2>5. t \in Seq(C) /\ \A j \in 1..Len(t) : \E m \in 1..Len(r) : \E i \in 1..Len(r[m]) : t[j] = r[m][i]
    BY <2>2, FlattenElements
  <2> HIDE DEF t
  <2>6. k \in 1..Len(t)
    BY <1>4, <2>3, <2>5, LenProperties DEF t
  <2>7. PICK m \in 1..Len(r) : \E i \in 1..Len(r[m]) : t[k] = r[m][i]
    BY <2>5, <2>6
  <2>8. PICK i \in 1..Len(r[m]) : t[k] = r[m][i]
    BY <2>7
  <2>9. t[k] = Call(w[i], q[m]) /\ w[i] \in E
    BY <2>2, <2>4, <2>7, <2>8
  <2>10. t[k].entry = w[i]
    BY <2>9 DEF Call, Called
  <2>11. QED BY <2>3, <2>9, <2>10 DEF t
<1>5. QED BY <1>1, <1>2, <1>3, <1>4 DEF SwitchInv, CallsAreWalks, ds

\* protosw.h: no hook of an entry that was not initialised is called.
LEMMA SwitchInitialised == SwitchInv => InitBeforeOthers
BY CallsKnown DEF InitBeforeOthers

\* An entry with the hook is found.
LEMMA HookedFinds ==
  ASSUME NEW ds \in Seq(Domains), IsInjective(ds), NEW hook,
         NEW e \in ToSet(EntriesOf(ds)), hook \in Entry(e).hooks
  PROVE  \E i \in 1..Len(Hooked(ds, hook)) : Hooked(ds, hook)[i] = e
<1>1. \A x \in ToSet(EntriesOf(ds)) : hook \in Entry(x).hooks =>
        \E i \in 1..Len(Hooked(ds, hook)) : Hooked(ds, hook)[i] = x
  BY HookedFacts
<1>2. QED BY <1>1

\* A walk has one call for every entry with the hook.
LEMMA WalkOf ==
  ASSUME NEW ds \in Seq(Domains), IsInjective(ds), NEW hook, NEW arg, NEW r,
         r = Walk(ds, hook, arg)
  PROVE  /\ DOMAIN r = 1..Len(r) /\ Len(r) = Len(Hooked(ds, hook))
         /\ \A i \in 1..Len(r) : r[i] = Called(Hooked(ds, hook)[i], hook, arg)
<1> DEFINE C == [entry : Entries, hook : {hook}, arg : {arg}]
<1>1. r \in Seq(C)
  BY WalkFacts
<1>2. Len(r) = Len(Hooked(ds, hook))
  BY WalkFacts
<1>3. \A i \in 1..Len(Hooked(ds, hook)) : Walk(ds, hook, arg)[i] = Called(Hooked(ds, hook)[i], hook, arg)
  BY WalkFacts
<1> HIDE DEF C
<1>4. DOMAIN r = 1..Len(r)
  BY <1>1, LenProperties
<1>5. QED BY <1>2, <1>3, <1>4

LEMMA SwitchTells == SwitchInv => EveryoneTold
<1> SUFFICES ASSUME SwitchInv,
                    NEW e \in ToSet(EntriesOf(domains)), NEW k \in DOMAIN calls,
                    calls[k].hook = "ctlinput", "ctlinput" \in Entry(e).hooks
             PROVE  Cardinality({j \in DOMAIN calls : calls[j] = [calls[k] EXCEPT !.entry = e]})
                      = Cardinality({j \in DOMAIN calls : calls[j] = calls[k]})
  BY DEF EveryoneTold
<1>1. domains \in Seq(Domains) /\ IsInjective(domains)
  BY DEF SwitchInv
<1>2. calls # <<>>
  <2>1. DOMAIN (<<>>) = {}
    OBVIOUS
  <2>2. QED BY <2>1
<1>3. ASSUME NEW h \in Hooks \ {"ctlinput"}, calls = Walk(domains, h, NULL) PROVE FALSE
  <2> DEFINE w == Hooked(domains, h)
             r == Walk(domains, h, NULL)
  <2>1. DOMAIN r = 1..Len(r) /\ \A i \in 1..Len(r) : r[i] = Called(w[i], h, NULL)
    BY <1>1, WalkOf
  <2>2. r = calls
    BY <1>3
  <2> HIDE DEF w, r
  <2>4. r[k] = Called(w[k], h, NULL)
    BY <2>1, <2>2
  <2>5. r[k].hook = h
    BY <2>4 DEF Called
  <2>6. QED BY <1>3, <2>2, <2>5
<1>4. PICK q \in AddrLists : calls = FlattenSeq(RoundsOf(domains, q))
  BY <1>2, <1>3 DEF SwitchInv, CallsAreWalks
<1> DEFINE w == Hooked(domains, "ctlinput")
           r == RoundsOf(domains, q)
           A == ToSet(q)
           C == [entry : Entries, hook : {"ctlinput"}, arg : A]
           t == FlattenSeq(r)
<1>5. q \in Seq(A)
  BY ProtocolSwitchAssumption
<1> HIDE DEF A
<1>6. /\ r \in Seq(Seq(C)) /\ Len(r) = Len(q)
      /\ \A m \in 1..Len(q) : /\ Len(r[m]) = Len(w)
                              /\ \A i \in 1..Len(w) : r[m][i] = Call(w[i], q[m])
  BY <1>1, <1>5, RoundsFacts
<1>7. \E b \in 1..Len(w) : w[b] = e
  <2> DEFINE h == "ctlinput"
  <2>1. h \in Entry(e).hooks
    OBVIOUS
  <2> HIDE DEF h, w
  <2>2. \E i \in 1..Len(Hooked(domains, h)) : Hooked(domains, h)[i] = e
    BY <1>1, <2>1, HookedFinds
  <2>3. QED BY <2>2 DEF h, w
<1>8. PICK b \in 1..Len(w) : w[b] = e
  BY <1>7
<1>9. \A a, c \in 1..Len(w) : \A x : Cardinality(Times(t, w[a], x)) <= Cardinality(Times(t, w[c], x))
  BY <1>1, <1>5, ToldAsOften
<1> HIDE DEF w, r, C
<1>10. /\ t \in Seq(C)
       /\ \A j \in 1..Len(t) : \E m \in 1..Len(r) : \E i \in 1..Len(r[m]) : t[j] = r[m][i]
  BY <1>6, FlattenElements
<1>11. t = calls
  BY <1>4 DEF r
<1> HIDE DEF t
<1>12. DOMAIN t = 1..Len(t) /\ Len(t) \in Nat /\ k \in 1..Len(t)
  BY <1>10, <1>11, LenProperties
<1>13. PICK m \in 1..Len(r) : \E i \in 1..Len(r[m]) : t[k] = r[m][i]
  BY <1>10, <1>12
<1>14. PICK a \in 1..Len(r[m]) : t[k] = r[m][a]
  BY <1>13
<1> DEFINE x == q[m]
           y == w[a]
<1>15. a \in 1..Len(w) /\ t[k] = Call(y, x)
  BY <1>6, <1>13, <1>14
<1>16. Cardinality(Times(t, y, x)) = Cardinality(Times(t, e, x))
  <2> DEFINE P == Times(t, y, x)
             Q == Times(t, e, x)
  <2>1. Cardinality(P) <= Cardinality(Q) /\ Cardinality(Q) <= Cardinality(P)
    BY <1>8, <1>9, <1>15
  <2>2. P \subseteq 1..Len(t) /\ Q \subseteq 1..Len(t)
    BY <1>12 DEF Times
  <2>3. IsFiniteSet(1..Len(t))
    BY <1>12, FS_Interval
  <2> HIDE DEF P, Q
  <2>4. IsFiniteSet(P) /\ IsFiniteSet(Q)
    BY <2>2, <2>3, FS_Subset
  <2>5. Cardinality(P) \in Nat /\ Cardinality(Q) \in Nat
    BY <2>4, FS_CardinalityType
  <2>6. QED BY <2>1, <2>5 DEF P, Q
<1> HIDE DEF x, y
<1>17. [calls[k] EXCEPT !.entry = e] = Call(e, x) /\ calls[k] = Call(y, x)
  <2>1. calls[k] = Call(y, x)
    BY <1>11, <1>15
  <2>2. [Call(y, x) EXCEPT !.entry = e] = Call(e, x)
    BY DEF Call, Called
  <2>3. QED BY <2>1, <2>2
<1>18. /\ {j \in DOMAIN calls : calls[j] = [calls[k] EXCEPT !.entry = e]} = Times(t, e, x)
       /\ {j \in DOMAIN calls : calls[j] = calls[k]} = Times(t, y, x)
  <2> DEFINE c == [calls[k] EXCEPT !.entry = e]
             d == calls[k]
             f == Call(e, x)
             g == Call(y, x)
  <2>1. c = f /\ d = g
    BY <1>17
  <2>2. Times(t, e, x) = {j \in DOMAIN t : t[j] = f} /\ Times(t, y, x) = {j \in DOMAIN t : t[j] = g}
    BY DEF Times
  <2> HIDE DEF c, d, f, g
  <2>3. /\ {j \in DOMAIN calls : calls[j] = c} = Times(t, e, x)
        /\ {j \in DOMAIN calls : calls[j] = d} = Times(t, y, x)
    BY <1>11, <2>1, <2>2
  <2>4. QED BY <2>3 DEF c, d
<1>19. QED BY <1>16, <1>18

-----------------------------------------------------------------------------
(* Types.                                                                  *)

LockTypes ==
  /\ sb_flags \subseteq {"LOCK", "WANT"}
  /\ inside \subseteq Procs /\ asleep \subseteq Procs /\ awake \subseteq Procs
  /\ intruded \in BOOLEAN

LEMMA StepLockTypes == LockTypes /\ [Next]_vars => LockTypes'
<1> SUFFICES ASSUME LockTypes, [Next]_vars PROVE LockTypes'
  OBVIOUS
<1>1. CASE UNCHANGED lock
  BY <1>1 DEF lock, LockTypes
<1>2. ASSUME NEW p \in Procs, NEW wf, sblock(p, wf) PROVE LockTypes'
  BY <1>2 DEF sblock, Passes, Sleeps, LockTypes
<1>3. ASSUME NEW p \in Procs, sb_lock(p) PROVE LockTypes'
  BY <1>3 DEF sb_lock, Passes, Sleeps, LockTypes
<1>4. ASSUME NEW p \in Procs, Interrupted(p) PROVE LockTypes'
  BY <1>4 DEF Interrupted, Passes, LockTypes
<1>5. ASSUME NEW p \in Procs, sbunlock(p) PROVE LockTypes'
  BY <1>5 DEF sbunlock, LockTypes
<1>6. ASSUME NEW p \in Procs, Locking(p) PROVE LockTypes'
  BY <1>2, <1>3, <1>4, <1>6 DEF Locking
<1>7. CASE UNCHANGED sbvars
  BY <1>1, <1>7 DEF sbvars, lock
<1>8. QED BY <1>1, <1>5, <1>6, <1>7 DEF Next, vars, Unlocking, Counting, Links, Takes, Begins

\* The inductive invariant of the whole: of the switch, the counters, those
\* in the middle of changing them, the lock, and the bound on the chain.
IInv ==
  /\ SwitchInv
  /\ CountInv
  /\ MiddleKnown
  /\ LockTypes
  /\ Len(sb_mb) <= MaxChain

LEMMA StepBound == CountInv /\ Len(sb_mb) <= MaxChain /\ [Next]_vars => Len(sb_mb') <= MaxChain
<1> SUFFICES ASSUME CountInv, Len(sb_mb) <= MaxChain, [Next]_vars
             PROVE  Len(sb_mb') <= MaxChain
  OBVIOUS
<1>1. sb_mb \in Seq(Sizes) /\ Len(sb_mb) \in Nat /\ MaxChain \in Nat
  BY LenProperties, SocketBufferAssumption DEF CountInv, CountTypes
<1>3. ASSUME NEW p \in Procs, NEW m \in Sizes, Links(p, m) PROVE Len(sb_mb') <= MaxChain
  <2>1. Len(sb_mb) < MaxChain /\ Len(Append(sb_mb, m)) = Len(sb_mb) + 1
    BY <1>1, <1>3, AppendProperties DEF Links
  <2>2. sb_mb' = Append(sb_mb, m)
    BY <1>3 DEF Links
  <2>3. QED BY <1>1, <2>1, <2>2
<1>4. ASSUME NEW p \in Procs, Takes(p) PROVE Len(sb_mb') <= MaxChain
  <2>1. sb_mb' = Tail(sb_mb) /\ sb_mb # <<>>
    BY <1>4 DEF Takes
  <2>2. Len(Tail(sb_mb)) = Len(sb_mb) - 1
    BY <1>1, <2>1, HeadTailProperties
  <2>3. QED BY <1>1, <2>1, <2>2
<1>5. CASE UNCHANGED sb_mb
  BY <1>5
<1>6. QED BY <1>3, <1>4, <1>5 DEF Next, vars, sbvars, counts, Counting, Locking, Unlocking

LEMMA InitIInv == Init => IInv
<1> SUFFICES ASSUME Init PROVE IInv
  OBVIOUS
<1>1. LockTypes
  BY DEF Init, LockTypes
<1>2. Len(sb_mb) <= MaxChain
  <2> DEFINE e == <<>>
  <2>1. sb_mb = e /\ Len(e) = 0 /\ MaxChain \in Nat
    BY EmptySeq, SocketBufferAssumption DEF Init
  <2> HIDE DEF e
  <2>2. QED BY <2>1
<1>3. MiddleKnown
  <2>1. Len(middle) = 0
    BY EmptySeq DEF Init
  <2>2. QED BY <2>1 DEF MiddleKnown
<1>4. QED BY <1>1, <1>2, <1>3, InitSwitch, InitCounts DEF IInv

LEMMA StepIInv == IInv /\ [Next]_vars => IInv'
BY StepSwitch, StepCounts, StepMiddle, StepLockTypes, StepBound DEF IInv, CountInv

-----------------------------------------------------------------------------
(* The theorems about the counters and the switch.                         *)

\* The inductive invariant holds in every reachable state.
THEOREM Invariance == Spec => []IInv
<1>1. QED BY InitIInv, StepIInv, PTL DEF Spec

\* Every variable has a value of its type, whatever the tables and sizes.
THEOREM TypeCorrect == Spec => []TypeOK
<1>1. IInv => TypeOK
  <2> SUFFICES ASSUME IInv PROVE TypeOK
    OBVIOUS
  <2>1. domains \in Seq(Domains) /\ IsInjective(domains) /\ ready = ToSet(EntriesOf(domains))
    BY DEF IInv, SwitchInv
  <2>2. ready \subseteq Entries
    <3> DEFINE all == EntriesOf(domains)
    <3>1. all \in Seq(Entries)
      BY <2>1, EntriesOfFacts
    <3>2. ready = ToSet(all)
      BY <2>1
    <3> HIDE DEF all
    <3>3. DOMAIN all = 1..Len(all) /\ \A i \in 1..Len(all) : all[i] \in Entries
      BY <3>1, LenProperties, ElementOfSeq
    <3>4. QED BY <3>2, <3>3 DEF ToSet
  <2>3. QED BY <2>1, <2>2 DEF IInv, SwitchInv, CountInv, CountTypes, LockTypes, TypeOK
<1>2. QED BY <1>1, Invariance, PTL

\* The counters say what the chain says, modulo a word and but for what is
\* about to be counted, whatever the order in which processes that all
\* believe to be alone change the chain and count.
THEOREM CountersFollow == Spec => []CountsMatchChain
<1>1. IInv => CountsMatchChain
  BY DEF IInv, CountInv
<1>2. QED BY <1>1, Invariance, PTL

\* The lock is what keeps all but one mbuf counted: no two are in the middle
\* of a change before somebody passed without it.
THEOREM BehindByOneAtMost == Spec => []BehindByOne
<1>1. IInv /\ LockInv => BehindByOne
  BY BehindFollows DEF IInv, CountInv, LockInv
<1>2. QED BY <1>1, Invariance, LockInvariance, PTL

\* As long as no counter can wrap, and the protocols of the table that need
\* no connection are atomic, what select concludes from the counters is true
\* of the chain.
THEOREM SelectTrusted ==
  ASSUME CountersSuffice, DatagramsAreAtomic
  PROVE  Spec => []CountsTrusted
<1>1. IInv => CountsMatchChain /\ SelectIsRight
  BY SelectFollows DEF IInv, CountInv
<1>2. IInv /\ BehindByOne => CountsTrusted
  BY <1>1 DEF CountsTrusted
<1>3. QED BY <1>2, Invariance, BehindByOneAtMost, PTL

\* protosw.h: "A protocol is called through the pr_init entry before any
\* other."
THEOREM InitialisedFirst == Spec => []InitBeforeOthers
<1>1. IInv => InitBeforeOthers
  BY SwitchInitialised DEF IInv
<1>2. QED BY <1>1, Invariance, PTL

\* Everything a protocol may rely on, for any table without an empty domain.
THEOREM DomainsAlwaysReady == Spec => []DomainsReady
<1>1. IInv => InitBeforeOthers /\ EveryoneTold /\ FirstOfTypeOnly
  BY SwitchInitialised, SwitchTells, FirstOfTypeAlways DEF IInv
<1>2. IInv /\ HeadersFit => DomainsReady
  BY <1>1 DEF DomainsReady
<1>3. QED BY <1>2, Invariance, HeadersAlwaysFit, PTL
=============================================================================
