---------------------------- MODULE SocketBuffer ----------------------------
(***************************************************************************)
(* A buffer of a socket as the macros of sys/socketvar.h work on it, with  *)
(* the protocol switch that decides what kind of socket it is.             *)
(*                                                                         *)
(* The macros are all there is of the socket layer.  The processes that    *)
(* call them, and sb_lock, which sleeps, are those the comments of the     *)
(* macros describe: a process locks the buffer, adds mbufs to its chain or *)
(* takes them off the head, and unlocks it.  The macros only count, so a   *)
(* caller changes the chain in one step and counts the mbuf in a later     *)
(* one.  A call with M_NOWAIT comes from so_upcall, which sorwakeup calls  *)
(* with M_DONTWAIT.                                                        *)
(***************************************************************************)
EXTENDS ProtocolSwitch

CONSTANTS
  Procs,     \* those that use the buffer
  Sizes,     \* of an mbuf: m_len and the size of its cluster, 0 for none
  MSIZE,     \* sizeof(struct mbuf)
  HIWAT, MBMAX, LOWAT,  \* sb_hiwat, sb_mbmax, sb_lowat
  WORD,      \* 2^32, the values of a u_long
  MaxChain   \* bound on the mbufs in the buffer

ASSUME SocketBufferAssumption ==
  /\ Sizes \subseteq [len : Nat, ext : Nat]
  /\ MSIZE \in Nat /\ HIWAT \in Nat /\ MBMAX \in Nat /\ LOWAT \in Nat
  /\ WORD \in Nat \ {0} /\ WORD % 2 = 0 /\ MaxChain \in Nat

VARIABLES
  sb_mb,     \* the chain
  sb_cc, sb_mbcnt,
  middle,    \* the changes of the chain that are not counted yet, the last
             \* one first
  sb_flags,  \* SB_LOCK and SB_WANT
  inside,    \* the processes that sblock has let pass
  asleep,    \* those that sleep in sb_lock
  awake,     \* those that were woken and have not tested SB_LOCK again
  intruded   \* one of the processes inside, or that were with them, passed
             \* without the lock

sbvars == <<sb_mb, sb_cc, sb_mbcnt, middle, sb_flags, inside, asleep, awake, intruded>>
vars == <<psvars, sbvars>>

counts == <<sb_mb, sb_cc, sb_mbcnt, middle>>
lock == <<sb_flags, inside, asleep, awake, intruded>>

Init ==
  /\ PsInit
  /\ sb_mb = <<>> /\ sb_cc = 0 /\ sb_mbcnt = 0 /\ middle = <<>>
  /\ sb_flags = {}
  /\ inside = {} /\ asleep = {} /\ awake = {}
  /\ intruded = FALSE

-----------------------------------------------------------------------------
(* Locking.                                                                *)

\* p goes on as if it had the lock.
Passes(p) == inside' = inside \cup {p}

\* Mutant: SB_WAIT, the flag of those that wait for data, in place of SB_WANT.
Sleeps_WrongFlag(p) ==
  /\ sb_flags' = sb_flags \cup {"WAIT"}
  /\ asleep' = asleep \cup {p}

\* p sleeps until the lock is released.
Sleeps(p) ==
  /\ sb_flags' = sb_flags \cup {"WANT"}
  /\ asleep' = asleep \cup {p}

\* The macro is a comma expression whose value is 0, so that EWOULDBLOCK
\* does not reach the caller: it goes on without the lock.
sblock(p, wf) ==
  /\ p \notin inside \cup asleep \cup awake
  /\ IF "LOCK" \notin sb_flags
       THEN /\ sb_flags' = sb_flags \cup {"LOCK"} /\ Passes(p)
            /\ UNCHANGED <<asleep, intruded>>
     ELSE IF wf = "WAITOK"
       THEN Sleeps(p) /\ UNCHANGED <<inside, intruded>>
       ELSE /\ Passes(p) /\ intruded' = TRUE
            /\ UNCHANGED <<sb_flags, asleep>>
  /\ UNCHANGED awake

\* Mutant: a process that was woken does not test SB_LOCK again.
sb_lock_NoTest(p) ==
  /\ p \in awake
  /\ awake' = awake \ {p}
  /\ sb_flags' = sb_flags \cup {"LOCK"} /\ Passes(p)
  /\ UNCHANGED <<asleep, intruded>>

\* sb_lock, woken up, tests SB_LOCK again.
sb_lock(p) ==
  /\ p \in awake
  /\ awake' = awake \ {p}
  /\ IF "LOCK" \notin sb_flags
       THEN /\ sb_flags' = sb_flags \cup {"LOCK"} /\ Passes(p) /\ UNCHANGED asleep
       ELSE Sleeps(p) /\ UNCHANGED inside
  /\ UNCHANGED intruded

\* A signal interrupts the sleep.  The error is lost as EWOULDBLOCK is.
Interrupted(p) ==
  /\ p \in asleep
  /\ asleep' = asleep \ {p}
  /\ Passes(p) /\ intruded' = TRUE
  /\ UNCHANGED <<sb_flags, awake>>

\* Mutant: SB_WANT is cleared without a wakeup.
sbunlock_NoWakeup(p) ==
  /\ p \in inside
  /\ sb_flags' = {}
  /\ inside' = inside \ {p}
  /\ intruded' = (intruded /\ inside' # {})
  /\ UNCHANGED <<asleep, awake>>

\* Mutant: the lock bit stays.
sbunlock_KeepsLock(p) ==
  /\ p \in inside
  /\ sb_flags' = sb_flags \ {"WANT"}
  /\ inside' = inside \ {p}
  /\ awake' = (IF "WANT" \in sb_flags THEN awake \cup asleep ELSE awake)
  /\ asleep' = (IF "WANT" \in sb_flags THEN {} ELSE asleep)
  /\ intruded' = (intruded /\ inside' # {})

\* wakeup wakes every process that sleeps on sb_flags.
sbunlock(p) ==
  /\ p \in inside
  /\ sb_flags' = {}
  /\ inside' = inside \ {p}
  /\ awake' = (IF "WANT" \in sb_flags THEN awake \cup asleep ELSE awake)
  /\ asleep' = (IF "WANT" \in sb_flags THEN {} ELSE asleep)
  /\ intruded' = (intruded /\ inside' # {})

-----------------------------------------------------------------------------
(* Counting.  The counters are words without sign.                         *)

Cost(m) == MSIZE + m.ext

sballoc(m) ==
  /\ sb_cc' = (sb_cc + m.len) % WORD
  /\ sb_mbcnt' = (sb_mbcnt + Cost(m)) % WORD

\* Mutant: the cluster is not taken off the count.
sbfree_NoExt(m) ==
  /\ sb_cc' = (sb_cc - m.len) % WORD
  /\ sb_mbcnt' = (sb_mbcnt - MSIZE) % WORD

sbfree(m) ==
  /\ sb_cc' = (sb_cc - m.len) % WORD
  /\ sb_mbcnt' = (sb_mbcnt - Cost(m)) % WORD

\* The conversion of a word to int.
Signed(w) == IF 2 * w < WORD THEN w ELSE w - WORD

\* Mutant: the differences are taken without sign.
sbspace_Unsigned(cc, mbcnt) ==
  Min({(HIWAT - cc) % WORD, (MBMAX - mbcnt) % WORD})

sbspace(cc, mbcnt) ==
  Min({Signed((HIWAT - cc) % WORD), Signed((MBMAX - mbcnt) % WORD)})

\* The sockets whose buffer this may be: a protocol that the switch finds
\* for them, so_state, and whether so_error is set.
Sockets ==
  [proto : {pffindproto(f, 0, t) : f \in Domains, t \in Types \ {"none"}} \ {NULL},
   state : SUBSET {"ISCONNECTED", "CANTSENDMORE", "CANTRCVMORE"}, error : BOOLEAN]

sosendallatonce(so) == "ATOMIC" \in Entry(so.proto).flags

soreadable(so, cc) == cc >= LOWAT \/ "CANTRCVMORE" \in so.state \/ so.error

sowriteable(so, cc, mbcnt) ==
  \/ /\ sbspace(cc, mbcnt) >= LOWAT
     /\ "ISCONNECTED" \in so.state \/ "CONNREQUIRED" \notin Entry(so.proto).flags
  \/ "CANTSENDMORE" \in so.state \/ so.error

-----------------------------------------------------------------------------
(* The callers.  There is no socket before there are protocols.            *)

Locking(p) ==
  /\ domains # <<>>
  /\ (\E wf \in {"WAITOK", "NOWAIT"} : sblock(p, wf)) \/ sb_lock(p) \/ Interrupted(p)
  /\ UNCHANGED counts

\* What p did to the chain and did not count yet.
Steps == [by : Procs, op : {"link", "take"}, m : Sizes]

Between(p) == \E k \in DOMAIN middle : middle[k].by = p

Begins(p, op, m) ==
  /\ p \in inside /\ ~Between(p)
  /\ middle' = <<[by |-> p, op |-> op, m |-> m]>> \o middle
  /\ UNCHANGED <<sb_cc, sb_mbcnt, lock>>

\* A process inside appends m, or takes the first mbuf.
Links(p, m) ==
  /\ Len(sb_mb) < MaxChain
  /\ sb_mb' = Append(sb_mb, m)
  /\ Begins(p, "link", m)

Takes(p) ==
  /\ sb_mb # <<>>
  /\ sb_mb' = Tail(sb_mb)
  /\ Begins(p, "take", Head(sb_mb))

\* Nothing sleeps between the chain and its counters.  Only an interrupt
\* comes in between, and is done before what it interrupted goes on.
Counting ==
  /\ middle # <<>>
  /\ LET s == Head(middle) IN
       \/ s.op = "link" /\ sballoc(s.m)
       \/ s.op = "take" /\ sbfree(s.m)
  /\ middle' = Tail(middle)
  /\ UNCHANGED <<sb_mb, lock>>

Unlocking(p) == sbunlock(p) /\ ~Between(p) /\ UNCHANGED counts

Next ==
  \/ /\ \/ \E ds \in Lists : domaininit(ds)
        \/ pfslowtimo \/ pffasttimo
        \/ \E q \in AddrLists : if_down(q)
     /\ UNCHANGED sbvars
  \/ /\ \/ \E p \in Procs : Locking(p) \/ Unlocking(p) \/ Takes(p)
        \/ \E p \in Procs, m \in Sizes : Links(p, m)
        \/ Counting
     /\ UNCHANGED psvars

\* A process that passed counts what it did and, as its work has an end,
\* leaves at one of the moments when it can; one that was woken runs.
Fairness ==
  /\ WF_vars(Counting /\ UNCHANGED psvars)
  /\ \A p \in Procs : /\ SF_vars(Unlocking(p) /\ UNCHANGED psvars)
                      /\ WF_vars(sb_lock(p) /\ UNCHANGED <<counts, psvars>>)

Spec == Init /\ [][Next]_vars

FairSpec == Spec /\ Fairness

-----------------------------------------------------------------------------
(* Properties.                                                             *)

\* Every variable has a value of its type.
TypeOK ==
  /\ domains \in Seq(Domains) /\ ready \subseteq Entries
  /\ room \in [linkhdr : Nat, hdr : Nat, datalen : Int]
  /\ sb_mb \in Seq(Sizes)
  /\ sb_cc \in 0..WORD - 1 /\ sb_mbcnt \in 0..WORD - 1
  /\ middle \in Seq(Steps)
  /\ sb_flags \subseteq {"LOCK", "WANT"}
  /\ inside \subseteq Procs /\ asleep \subseteq Procs /\ awake \subseteq Procs
  /\ intruded \in BOOLEAN

\* A buffer that only waiting callers use is used by one at a time, and is
\* locked while it is used.  The claim of exclusion ends with the first
\* caller that cannot wait, or whose sleep is interrupted, and begins again
\* when all have left.
AloneUnlessIntruded ==
  ~intruded => /\ Cardinality(inside) <= 1
               /\ "LOCK" \in sb_flags <=> inside # {}

\* The lock is never left set by a buffer that nobody uses, intruders or not.
LockReleased == inside = {} => "LOCK" \notin sb_flags

\* Whoever sleeps is known to sleep, and somebody is inside who will wake
\* them: an intruder that clears the lock clears SB_WANT by waking all.
SleepersKnown ==
  asleep # {} => "WANT" \in sb_flags /\ "LOCK" \in sb_flags /\ inside # {}

\* What is left of a lock whose value the callers cannot see: exclusion until
\* the first intruder, and for good that it is not left set and that nobody
\* sleeps unknown.
LockDiscipline == AloneUnlessIntruded /\ LockReleased /\ SleepersKnown

\* The sum of the sizes of the elements of s.
Total(size, s) == FoldLeft(LAMBDA n, x : n + size[x], 0, s)

Chars == [m \in Sizes |-> m.len]
Charged == [m \in Sizes |-> Cost(m)]

\* What those in the middle of an op still have to count.
Due(op, size) ==
  Total([s \in Steps |-> IF s.op = op THEN size[s.m] ELSE 0], middle)

\* The counters repeat what the chain says, but for the mbufs that somebody
\* has linked or taken and is about to count, in whatever order processes
\* that all believe to be alone do it, one of them counting off an mbuf that
\* another has not counted yet.
CountsMatchChain ==
  /\ sb_cc = (Total(Chars, sb_mb) - Due("link", Chars) + Due("take", Chars)) % WORD
  /\ sb_mbcnt = (Total(Charged, sb_mb) - Due("link", Charged) + Due("take", Charged)) % WORD

\* As long as nobody passed without the lock, the counters are behind the
\* chain by one mbuf at most.
BehindByOne == ~intruded => Len(middle) <= 1

\* What select reports between two calls is true of the chain: a writeable
\* buffer has room for sb_lowat characters in both counts, although sbspace
\* subtracts words without sign, and a peer if it needs one; a readable one
\* has data to read, or an error, or its end.
SelectIsRight ==
  middle = <<>> =>
    \A so \in Sockets :
      /\ sowriteable(so, sb_cc, sb_mbcnt) /\ "CANTSENDMORE" \notin so.state /\ ~so.error =>
           /\ Total(Chars, sb_mb) + LOWAT <= HIWAT
           /\ Total(Charged, sb_mb) + LOWAT <= MBMAX
           /\ sosendallatonce(so) \/ "ISCONNECTED" \in so.state
      /\ soreadable(so, sb_cc) /\ "CANTRCVMORE" \notin so.state /\ ~so.error =>
           sb_mb # <<>>

\* Neither the counters nor what select concludes from them stays wrong,
\* although the lock may fail to protect them.
CountsTrusted == CountsMatchChain /\ BehindByOne /\ SelectIsRight

\* A process that sleeps in sb_lock is woken.  (That it gets the lock then
\* is not guaranteed: another may be faster.)
SleepersWake == \A p \in Procs : p \in asleep ~> p \notin asleep
=============================================================================
