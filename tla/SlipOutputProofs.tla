-------------------------- MODULE SlipOutputProofs --------------------------
(***************************************************************************)
(* Theorems about SlipOutput for any number of units, ttys and packets.    *)
(* Each handler is treated once per part of the inductive invariant.       *)
(***************************************************************************)
EXTENDS SlipOutput, SequenceTheorems, TLAPS

\* NoLostWakeup while slstart runs for one of the ttys: it holds for the
\* others at every moment.
AwakeOrServed ==
  \A tp \in Ttys :
    running # tp /\ t_sc[tp] # NULL /\ (\E p \in Waiting(t_sc[tp]) : line[p] = tp)
      => c_cc[tp] > 0

\* A packet waits on one unit only.
Apart ==
  \A u, v \in Units : u # v => Waiting(u) \cap Waiting(v) = {}

\* A packet that waits was accepted for the tty of its unit, or that tty is
\* gone.
LinesKnown ==
  \A u \in Units : \A p \in Waiting(u) : line[p] = sc_ttyp[u] \/ line[p] = NULL

\* A packet on if_snd was accepted for a tty, so a unit without a tty has
\* nothing on if_snd.
BulkHasALine == \A u \in Units : \A p \in Range(snd[u]) : line[p] \in Ttys

\* The inductive invariant.  slclose of one tty leaves the others awake only
\* because no two ttys feed one unit (LinkedBack); slopen gives a tty a unit
\* that may have an idle line only because nothing on that unit was accepted
\* for the tty, which LinesKnown says; and that slclose does not take a
\* packet of another unit for one of its own needs Apart.
IInv ==
  /\ TypeOK
  /\ LinkedBack
  /\ AwakeOrServed
  /\ Apart
  /\ LinesKnown
  /\ BulkHasALine
  /\ BulkKeepsItsLine

-----------------------------------------------------------------------------
(* Sequences.                                                              *)

\* What Append and Tail do to a queue and to its set of packets.
LEMMA AppendFacts ==
  ASSUME NEW S, NEW s \in Seq(S), NEW e \in S
  PROVE  /\ Append(s, e) \in Seq(S)
         /\ Len(Append(s, e)) = Len(s) + 1
         /\ Range(Append(s, e)) = Range(s) \cup {e}
<1>1. Append(s, e) \in Seq(S) /\ Len(Append(s, e)) = Len(s) + 1
  BY AppendProperties
<1>2. DOMAIN s = 1..Len(s) /\ DOMAIN Append(s, e) = 1..Len(s)+1
  BY <1>1, LenProperties
<1>3. /\ \A i \in 1..Len(s) : Append(s, e)[i] = s[i]
      /\ Append(s, e)[Len(s) + 1] = e
  BY AppendProperties
<1>4. Len(s) \in Nat
  BY LenProperties
<1>5. Range(Append(s, e)) = Range(s) \cup {e}
  BY <1>2, <1>3, <1>4 DEF Range
<1>6. QED BY <1>1, <1>5

LEMMA TailFacts ==
  ASSUME NEW S, NEW s \in Seq(S), s # <<>>
  PROVE  /\ Tail(s) \in Seq(S)
         /\ Len(Tail(s)) = Len(s) - 1
         /\ Range(Tail(s)) \subseteq Range(s)
<1>1. Tail(s) \in Seq(S) /\ Len(Tail(s)) = Len(s) - 1
  BY HeadTailProperties
<1>2. \A i \in 1..Len(Tail(s)) : Tail(s)[i] = s[i+1]
  BY HeadTailProperties
<1>3. DOMAIN s = 1..Len(s) /\ DOMAIN Tail(s) = 1..Len(s)-1 /\ Len(s) \in Nat
  BY <1>1, LenProperties
<1>4. \A i \in 1..Len(s)-1 : i+1 \in DOMAIN s /\ Tail(s)[i] = s[i+1]
  BY <1>1, <1>2, <1>3
<1>5. Range(Tail(s)) \subseteq Range(s)
  BY <1>3, <1>4 DEF Range
<1>6. QED BY <1>1, <1>5

\* A queue is empty exactly when no packet is on it.
LEMMA RangeEmpty ==
  ASSUME NEW S, NEW s \in Seq(S)
  PROVE  Range(s) = {} <=> s = <<>>
<1>1. DOMAIN s = 1..Len(s) /\ Len(s) \in Nat
  BY LenProperties
<1>2. s = <<>> <=> Len(s) = 0
  BY EmptySeq
<1>3. Range(s) = {} <=> DOMAIN s = {}
  BY Zenon DEF Range
<1>4. DOMAIN s = {} <=> Len(s) = 0
  <2>1. CASE Len(s) = 0
    BY <1>1, <2>1
  <2>2. CASE Len(s) # 0
    <3>1. 1 \in 1..Len(s)
      BY <1>1, <2>2
    <3>2. QED BY <1>1, <2>2, <3>1
  <2>3. QED BY <2>1, <2>2
<1>5. QED BY <1>2, <1>3, <1>4

-----------------------------------------------------------------------------
(* The initial states and the common parts of the steps.                   *)

LEMMA InitIInv == Init => IInv
<1> SUFFICES ASSUME Init PROVE IInv
  OBVIOUS
<1>1. \A u \in Units : Range(snd[u]) = {} /\ Range(fastq[u]) = {}
  <2>1. <<>> \in Seq(Packets)
    BY EmptySeq
  <2>2. Range(<<>>) = {}
    BY <2>1, RangeEmpty
  <2>3. \A u \in Units : snd[u] = <<>> /\ fastq[u] = <<>>
    BY DEF Init
  <2>4. QED BY <2>2, <2>3
<1>2. TypeOK
  <2>1. <<>> \in Seq(Packets) /\ Len(<<>>) = 0
    BY EmptySeq
  <2>2. QED BY <2>1, SlipOutputAssumption DEF Init, TypeOK
<1>3. LinkedBack /\ AwakeOrServed
  BY DEF Init, LinkedBack, AwakeOrServed
<1>4. \A u \in Units : Waiting(u) = {}
  BY <1>1 DEF Waiting
<1>5. BulkHasALine /\ BulkKeepsItsLine /\ Apart /\ LinesKnown
  BY <1>1, <1>4 DEF BulkHasALine, BulkKeepsItsLine, Apart, LinesKnown
<1>6. QED BY <1>2, <1>3, <1>5 DEF IInv

\* ForgetSent keeps the tty of every packet that still waits on if_snd of a
\* unit with a tty, and gives no packet another one.
LEMMA ForgetKeeps ==
  ASSUME ForgetSent, NEW u \in Units, NEW p \in Packets, p \in Range(snd'[u]),
         sc_ttyp'[u] # NULL
  PROVE  line'[p] = line[p]
<1>1. p \in Waiting(u)'
  BY DEF Waiting
<1>2. QED BY <1>1 DEF ForgetSent

LEMMA ForgetChoice ==
  ASSUME ForgetSent, NEW p \in Packets
  PROVE  \/ line'[p] = NULL
         \/ line'[p] = line[p] /\ \E v \in Units : p \in Waiting(v)' /\ sc_ttyp'[v] # NULL
BY DEF ForgetSent

LEMMA WaitingType ==
  ASSUME TypeOK, NEW u \in Units
  PROVE  Waiting(u) \subseteq Packets
<1>1. snd[u] \in [1..Len(snd[u]) -> Packets] /\ fastq[u] \in [1..Len(fastq[u]) -> Packets]
  BY LenProperties DEF TypeOK
<1>2. QED BY <1>1 DEF Waiting, Range

\* ForgetSent keeps the type of line.
LEMMA ForgetType ==
  ASSUME TypeOK, ForgetSent
  PROVE  line' \in [Packets -> Ttys \cup {NULL}]
BY DEF TypeOK, ForgetSent

\* Nothing waits on if_snd of a unit without a tty.
LEMMA FreeUnitEmpty ==
  ASSUME IInv, NEW u \in Units, sc_ttyp[u] = NULL
  PROVE  snd[u] = <<>>
<1>1. snd[u] \in Seq(Packets)
  BY DEF IInv, TypeOK
<1>2. \A p \in Range(snd[u]) : line[p] = NULL /\ line[p] \in Ttys
  BY DEF IInv, BulkHasALine, BulkKeepsItsLine
<1>3. Range(snd[u]) = {}
  BY <1>2, SlipOutputAssumption
<1>4. QED BY <1>1, <1>3, RangeEmpty

\* The queues have lost packets at most, and a unit that has lost its tty
\* has nothing left on if_snd.
Shrunk ==
  /\ ForgetSent
  /\ \A u \in Units : Range(snd'[u]) \subseteq Range(snd[u])
  /\ \A u \in Units : Range(fastq'[u]) \subseteq Range(fastq[u])
  /\ \A u \in Units :
       sc_ttyp'[u] = sc_ttyp[u] \/ (snd'[u] = <<>> /\ sc_ttyp'[u] = NULL)

LEMMA ShrinkLines ==
  ASSUME IInv, Shrunk, TypeOK'
  PROVE  BulkHasALine' /\ BulkKeepsItsLine' /\ Apart' /\ LinesKnown'
<1>0. ForgetSent
  BY DEF Shrunk
<1>1. ASSUME NEW u \in Units, NEW p \in Range(snd'[u])
      PROVE  /\ p \in Range(snd[u])
             /\ line'[p] = line[p]
             /\ sc_ttyp'[u] = sc_ttyp[u]
  <2>1. p \in Range(snd[u]) /\ p \in Packets
    BY <1>1, WaitingType DEF Shrunk, IInv, Waiting
  <2>2. snd'[u] # <<>>
    <3>1. Range(snd'[u]) # {} /\ snd'[u] \in Seq(Packets)
      BY <1>1 DEF TypeOK
    <3>2. QED BY <3>1, RangeEmpty
  <2>3. sc_ttyp'[u] = sc_ttyp[u] /\ sc_ttyp[u] # NULL
    BY <2>1, <2>2, SlipOutputAssumption DEF Shrunk, IInv, BulkHasALine, BulkKeepsItsLine
  <2>4. QED BY <1>0, <1>1, <2>1, <2>3, ForgetKeeps
<1>2. \A u \in Units : Waiting(u)' \subseteq Waiting(u)
  BY DEF Shrunk, Waiting
<1>3. BulkHasALine'
  BY <1>1 DEF IInv, BulkHasALine
<1>4. BulkKeepsItsLine'
  BY <1>1 DEF IInv, BulkKeepsItsLine
<1>5. Apart'
  BY <1>2 DEF IInv, Apart
<1>6. ASSUME NEW u \in Units, NEW p \in Waiting(u)', line'[p] # NULL
      PROVE  line'[p] = sc_ttyp'[u]
  <2>1. p \in Waiting(u) /\ p \in Packets
    BY <1>2, <1>6, WaitingType DEF IInv
  <2>2. PICK v \in Units : p \in Waiting(v)' /\ sc_ttyp'[v] # NULL /\ line'[p] = line[p]
    BY <1>0, <1>6, <2>1, ForgetChoice
  <2>3. v = u
    BY <1>2, <2>1, <2>2 DEF IInv, Apart
  <2>4. sc_ttyp'[u] = sc_ttyp[u]
    BY <2>2, <2>3 DEF Shrunk
  <2>5. QED BY <1>6, <2>1, <2>2, <2>4 DEF IInv, LinesKnown
<1>7. LinesKnown'
  BY <1>6 DEF LinesKnown
<1>8. QED BY <1>3, <1>4, <1>5, <1>7

\* A packet that waits for a tty after such a step waited for it before.
LEMMA ShrinkWaits ==
  ASSUME IInv, Shrunk, NEW u \in Units, NEW t \in Ttys,
         NEW p \in Range(fastq'[u]) \cup Range(snd'[u]), line'[p] = t
  PROVE  p \in Waiting(u) /\ line[p] = t
<1>1. p \in Waiting(u)
  BY DEF Shrunk, Waiting
<1>2. p \in Packets /\ t # NULL
  BY <1>1, WaitingType, SlipOutputAssumption DEF IInv
<1>3. line[p] = t
  BY <1>2, ForgetChoice DEF Shrunk
<1>4. QED BY <1>1, <1>3

-----------------------------------------------------------------------------
(* One lemma per handler.                                                  *)

\* slopen gives the tty a unit on which no bulk packet waits.
LEMMA OpenStep ==
  ASSUME IInv, NEW tp \in Ttys, slopen(tp)
  PROVE  IInv'
<1>1. PICK u \in Units :
        /\ sc_ttyp[u] = NULL
        /\ t_sc' = [t_sc EXCEPT ![tp] = u]
        /\ sc_ttyp' = [sc_ttyp EXCEPT ![u] = tp]
  BY DEF slopen, FreeUnits
<1>2. PICK cc \in 0..MaxChars : c_cc' = [c_cc EXCEPT ![tp] = cc]
  <2>1. c_cc[tp] \in 0..MaxChars /\ 0 \in 0..MaxChars
    BY SlipOutputAssumption DEF IInv, TypeOK
  <2>2. QED BY <2>1 DEF slopen
<1>3. UNCHANGED <<slipdisc, noicmp, fastq, snd, running, line>> /\ running = NULL
  BY DEF slopen
<1>4. snd[u] = <<>>
  BY <1>1, FreeUnitEmpty
<1>5. TypeOK'
  BY <1>1, <1>2, <1>3 DEF IInv, TypeOK
<1>6. LinkedBack'
  BY <1>1, <1>3, SlipOutputAssumption DEF IInv, TypeOK, LinkedBack
<1>7. AwakeOrServed'
  <2> SUFFICES ASSUME NEW t \in Ttys, t_sc'[t] # NULL,
                      NEW p \in Waiting(t_sc'[t]), line[p] = t
               PROVE  c_cc'[t] > 0
    BY <1>3 DEF AwakeOrServed, Waiting
  <2>1. t # tp
    <3> SUFFICES ASSUME t = tp PROVE FALSE
      OBVIOUS
    <3>1. t_sc'[t] = u
      BY <1>1 DEF IInv, TypeOK
    <3>2. line[p] = NULL
      BY <1>1, <3>1 DEF IInv, LinesKnown
    <3>3. QED BY <3>2, SlipOutputAssumption
  <2>2. t_sc'[t] = t_sc[t] /\ c_cc'[t] = c_cc[t]
    BY <1>1, <1>2, <2>1 DEF IInv, TypeOK
  <2>3. running # t
    BY <1>3, SlipOutputAssumption
  <2>4. QED BY <2>2, <2>3 DEF IInv, AwakeOrServed
<1>8. BulkHasALine'
  BY <1>3 DEF IInv, BulkHasALine
<1>9. BulkKeepsItsLine'
  <2> SUFFICES ASSUME NEW v \in Units, NEW p \in Range(snd[v])
               PROVE  line[p] = sc_ttyp'[v]
    BY <1>3 DEF BulkKeepsItsLine
  <2>1. v # u
    <3>1. Range(snd[u]) = {}
      BY <1>4, EmptySeq, RangeEmpty
    <3>2. QED BY <3>1
  <2>2. sc_ttyp'[v] = sc_ttyp[v]
    BY <1>1, <2>1 DEF IInv, TypeOK
  <2>3. QED BY <2>2 DEF IInv, BulkKeepsItsLine
<1>10. Apart'
  BY <1>3 DEF IInv, Apart, Waiting
<1>11. LinesKnown'
  <2> SUFFICES ASSUME NEW v \in Units, NEW p \in Waiting(v), line[p] # NULL
               PROVE  line[p] = sc_ttyp'[v]
    BY <1>3 DEF LinesKnown, Waiting
  <2>1. line[p] = sc_ttyp[v]
    BY DEF IInv, LinesKnown
  <2>2. v # u
    BY <1>1, <2>1
  <2>3. QED BY <1>1, <2>1, <2>2 DEF IInv, TypeOK
<1>12. QED BY <1>5, <1>6, <1>7, <1>8, <1>9, <1>10, <1>11 DEF IInv

\* SetLine touches t_line only.
LEMMA SetLineStep ==
  ASSUME IInv, NEW tp \in Ttys, SetLine(tp)
  PROVE  IInv'
<1>1. TypeOK'
  BY DEF IInv, TypeOK, SetLine
<1>2. /\ LinkedBack' /\ AwakeOrServed' /\ BulkHasALine' /\ BulkKeepsItsLine'
      /\ Apart' /\ LinesKnown'
  BY DEF IInv, SetLine, LinkedBack, AwakeOrServed, BulkHasALine,
         BulkKeepsItsLine, Apart, LinesKnown, Waiting
<1>3. QED BY <1>1, <1>2 DEF IInv

\* Flushing if_snd of one unit, as if_down does, keeps its type and leaves
\* no packet that was not there.
LEMMA FlushFacts ==
  ASSUME IInv, NEW u \in Units, if_down(u)
  PROVE  /\ snd' \in [Units -> Seq(Packets)]
         /\ snd'[u] = <<>>
         /\ \A v \in Units : v # u => snd'[v] = snd[v]
         /\ \A v \in Units : Len(snd'[v]) <= SndMaxlen
         /\ \A v \in Units : Range(snd'[v]) \subseteq Range(snd[v])
<1>1. snd \in [Units -> Seq(Packets)]
  BY DEF IInv, TypeOK
<1>2. <<>> \in Seq(Packets) /\ Len(<<>>) = 0
  BY EmptySeq
<1>3. snd'[u] = <<>> /\ \A v \in Units : v # u => snd'[v] = snd[v]
  BY <1>1 DEF if_down
<1>4. snd' \in [Units -> Seq(Packets)]
  BY <1>1, <1>2 DEF if_down
<1>5. Range(<<>>) = {}
  BY <1>2, RangeEmpty
<1>6. \A v \in Units : Range(snd'[v]) \subseteq Range(snd[v])
  BY <1>3, <1>5
<1>7. \A v \in Units : Len(snd'[v]) <= SndMaxlen
  BY <1>2, <1>3, SlipOutputAssumption DEF IInv, TypeOK
<1>8. QED BY <1>3, <1>4, <1>6, <1>7

\* slclose of a tty that feeds a unit: the unit loses its tty and what
\* waits on its if_snd.
LEMMA CloseStep ==
  ASSUME IInv, NEW tp \in Ttys, slclose(tp)
  PROVE  IInv'
<1>1. PICK cc \in 0..MaxChars : c_cc' = [c_cc EXCEPT ![tp] = cc]
  <2>1. c_cc[tp] \in 0..MaxChars /\ 0 \in 0..MaxChars
    BY SlipOutputAssumption DEF IInv, TypeOK
  <2>2. QED BY <2>1 DEF slclose
<1>2. /\ slipdisc' = [slipdisc EXCEPT ![tp] = FALSE]
      /\ UNCHANGED <<noicmp, fastq, running>>
      /\ running = NULL
      /\ ForgetSent
  BY DEF slclose
<1>3. line' \in [Packets -> Ttys \cup {NULL}]
  BY <1>2, ForgetType DEF IInv
<1>4. CASE t_sc[tp] = NULL
  <2>1. UNCHANGED <<t_sc, sc_ttyp, snd>>
    BY <1>4 DEF slclose
  <2>2. TypeOK'
    BY <1>1, <1>2, <1>3, <2>1 DEF IInv, TypeOK
  <2>3. LinkedBack'
    BY <2>1 DEF IInv, LinkedBack
  <2>4. Shrunk
    BY <1>2, <2>1 DEF Shrunk
  <2>5. AwakeOrServed'
    <3> SUFFICES ASSUME NEW t \in Ttys, t_sc[t] # NULL, running # t,
                        NEW p \in Range(fastq'[t_sc[t]]) \cup Range(snd'[t_sc[t]]),
                        line'[p] = t
                 PROVE  c_cc'[t] > 0
      BY <1>2, <2>1 DEF AwakeOrServed, Waiting
    <3>1. t_sc[t] \in Units /\ c_cc'[t] = c_cc[t]
      BY <1>1, <1>4 DEF IInv, TypeOK
    <3>2. p \in Waiting(t_sc[t]) /\ line[p] = t
      BY <2>4, <3>1, ShrinkWaits
    <3>3. QED BY <3>1, <3>2 DEF IInv, AwakeOrServed
  <2>6. BulkHasALine' /\ BulkKeepsItsLine' /\ Apart' /\ LinesKnown'
    BY <2>2, <2>4, ShrinkLines
  <2>7. QED BY <2>2, <2>3, <2>5, <2>6 DEF IInv
<1>5. CASE t_sc[tp] # NULL
  <2> DEFINE u == t_sc[tp]
  <2>1. u \in Units /\ sc_ttyp[u] = tp
    BY <1>5 DEF IInv, TypeOK, LinkedBack
  <2>2. /\ if_down(u)
        /\ sc_ttyp' = [sc_ttyp EXCEPT ![u] = NULL]
        /\ t_sc' = [t_sc EXCEPT ![tp] = NULL]
    BY <1>5 DEF slclose
  <2> HIDE DEF u
  <2>3. /\ snd' \in [Units -> Seq(Packets)]
        /\ snd'[u] = <<>>
        /\ \A v \in Units : v # u => snd'[v] = snd[v]
        /\ \A v \in Units : Len(snd'[v]) <= SndMaxlen
        /\ \A v \in Units : Range(snd'[v]) \subseteq Range(snd[v])
    BY <2>1, <2>2, FlushFacts
  <2>4. TypeOK'
    BY <1>1, <1>2, <1>3, <2>1, <2>2, <2>3 DEF IInv, TypeOK
  <2>5. ASSUME NEW t \in Ttys, t_sc'[t] # NULL
        PROVE  t # tp /\ t_sc'[t] = t_sc[t] /\ t_sc[t] # u /\ t_sc[t] \in Units
    <3>1. t # tp /\ t_sc'[t] = t_sc[t]
      BY <2>2, <2>5 DEF IInv, TypeOK
    <3>2. sc_ttyp[t_sc[t]] = t
      BY <3>1, <2>5 DEF IInv, LinkedBack
    <3>3. QED BY <2>1, <2>5, <3>1, <3>2 DEF IInv, TypeOK
  <2>6. LinkedBack'
    BY <2>1, <2>2, <2>5 DEF IInv, TypeOK, LinkedBack
  <2>8. Shrunk
    <3>1. \A v \in Units : (snd'[v] = <<>> /\ sc_ttyp'[v] = NULL) \/ sc_ttyp'[v] = sc_ttyp[v]
      BY <2>1, <2>2, <2>3 DEF IInv, TypeOK
    <3>2. QED BY <1>2, <2>3, <3>1 DEF Shrunk
  <2>7. AwakeOrServed'
    <3> SUFFICES ASSUME NEW t \in Ttys, t_sc'[t] # NULL,
                        NEW p \in Range(fastq'[t_sc'[t]]) \cup Range(snd'[t_sc'[t]]),
                        line'[p] = t
                 PROVE  c_cc'[t] > 0
      BY DEF AwakeOrServed, Waiting
    <3>1. t_sc[t] # NULL /\ t_sc'[t] = t_sc[t] /\ t_sc[t] \in Units /\ running # t
      BY <1>2, <2>5, SlipOutputAssumption
    <3>2. c_cc'[t] = c_cc[t]
      BY <1>1, <2>5 DEF IInv, TypeOK
    <3>3. p \in Waiting(t_sc[t]) /\ line[p] = t
      BY <2>8, <3>1, ShrinkWaits
    <3>4. QED BY <3>1, <3>2, <3>3 DEF IInv, AwakeOrServed
  <2>9. BulkHasALine' /\ BulkKeepsItsLine' /\ Apart' /\ LinesKnown'
    BY <2>4, <2>8, ShrinkLines
  <2>10. QED BY <2>4, <2>6, <2>7, <2>9 DEF IInv
<1>6. QED BY <1>4, <1>5

\* SIOCSIFFLAGS flushes if_snd of a unit or leaves it.
LEMMA FlagsStep ==
  ASSUME IInv, NEW u \in Units, SIOCSIFFLAGS(u)
  PROVE  IInv'
<1>1. /\ UNCHANGED <<slipdisc, t_sc, c_cc, sc_ttyp, fastq, running>>
      /\ ForgetSent
      /\ noicmp' \in [Units -> BOOLEAN]
  BY DEF SIOCSIFFLAGS, IInv, TypeOK
<1>2. /\ snd' \in [Units -> Seq(Packets)]
      /\ \A v \in Units : snd'[v] = <<>> \/ snd'[v] = snd[v]
      /\ \A v \in Units : Len(snd'[v]) <= SndMaxlen
      /\ \A v \in Units : Range(snd'[v]) \subseteq Range(snd[v])
  <2>1. CASE if_down(u)
    BY <2>1, FlushFacts
  <2>2. CASE UNCHANGED snd
    BY <2>2 DEF IInv, TypeOK
  <2>3. QED BY <2>1, <2>2 DEF SIOCSIFFLAGS
<1>3. TypeOK'
  BY <1>1, <1>2, ForgetType DEF IInv, TypeOK
<1>4. LinkedBack'
  BY <1>1 DEF IInv, LinkedBack
<1>5. Shrunk
  BY <1>1, <1>2 DEF Shrunk
<1>6. AwakeOrServed'
  <2> SUFFICES ASSUME NEW t \in Ttys, t_sc[t] # NULL, running # t,
                      NEW p \in Range(fastq'[t_sc[t]]) \cup Range(snd'[t_sc[t]]),
                      line'[p] = t
               PROVE  c_cc[t] > 0
    BY <1>1 DEF AwakeOrServed, Waiting
  <2>1. t_sc[t] \in Units
    BY DEF IInv, TypeOK
  <2>2. p \in Waiting(t_sc[t]) /\ line[p] = t
    BY <1>5, <2>1, ShrinkWaits
  <2>3. QED BY <2>2 DEF IInv, AwakeOrServed
<1>7. BulkHasALine' /\ BulkKeepsItsLine' /\ Apart' /\ LinesKnown'
  BY <1>3, <1>5, ShrinkLines
<1>8. QED BY <1>3, <1>4, <1>6, <1>7 DEF IInv

\* sloutput puts a packet that waits nowhere on one queue, and starts output
\* if the tty is idle.
LEMMA OutputStep ==
  ASSUME IInv, NEW u \in Units, NEW p \in Packets, sloutput(u, p)
  PROVE  IInv'
<1>1. /\ \A v \in Units : p \notin Waiting(v)
      /\ sc_ttyp[u] # NULL
      /\ line' = [line EXCEPT ![p] = sc_ttyp[u]]
      /\ running = NULL
      /\ running' = IF c_cc[sc_ttyp[u]] = 0 THEN sc_ttyp[u] ELSE NULL
      /\ UNCHANGED <<slipdisc, t_sc, c_cc, sc_ttyp, noicmp>>
  BY DEF sloutput
<1>2. sc_ttyp[u] \in Ttys
  BY <1>1 DEF IInv, TypeOK
<1>3. \A v \in Units : p \notin Range(snd[v])
  BY <1>1 DEF Waiting
<1>4. /\ fastq' \in [Units -> Seq(Packets)]
      /\ \A v \in Units : Len(fastq'[v]) <= FastMaxlen
      /\ \A v \in Units : v # u => fastq'[v] = fastq[v]
      /\ Range(fastq'[u]) \subseteq Range(fastq[u]) \cup {p}
  <2>1. CASE p \in LowDelay
    <3>1. fastq' = [fastq EXCEPT ![u] = Append(@, p)] /\ Len(fastq[u]) < FastMaxlen
      BY <2>1 DEF sloutput
    <3>2. fastq[u] \in Seq(Packets) /\ Len(fastq[u]) \in Nat
      BY LenProperties DEF IInv, TypeOK
    <3>3. /\ Append(fastq[u], p) \in Seq(Packets)
          /\ Len(Append(fastq[u], p)) = Len(fastq[u]) + 1
          /\ Range(Append(fastq[u], p)) = Range(fastq[u]) \cup {p}
      BY <3>2, AppendFacts
    <3>4. fastq'[u] = Append(fastq[u], p) /\ \A v \in Units : v # u => fastq'[v] = fastq[v]
      BY <3>1 DEF IInv, TypeOK
    <3>5. QED BY <3>1, <3>2, <3>3, <3>4, SlipOutputAssumption DEF IInv, TypeOK
  <2>2. CASE p \notin LowDelay
    BY <2>2 DEF sloutput, IInv, TypeOK
  <2>3. QED BY <2>1, <2>2
<1>5. /\ snd' \in [Units -> Seq(Packets)]
      /\ \A v \in Units : Len(snd'[v]) <= SndMaxlen
      /\ \A v \in Units : v # u => snd'[v] = snd[v]
      /\ Range(snd'[u]) \subseteq Range(snd[u]) \cup {p}
  <2>1. CASE p \in LowDelay
    BY <2>1 DEF sloutput, IInv, TypeOK
  <2>2. CASE p \notin LowDelay
    <3>1. snd' = [snd EXCEPT ![u] = Append(@, p)] /\ Len(snd[u]) < SndMaxlen
      BY <2>2 DEF sloutput
    <3>2. snd[u] \in Seq(Packets) /\ Len(snd[u]) \in Nat
      BY LenProperties DEF IInv, TypeOK
    <3>3. /\ Append(snd[u], p) \in Seq(Packets)
          /\ Len(Append(snd[u], p)) = Len(snd[u]) + 1
          /\ Range(Append(snd[u], p)) = Range(snd[u]) \cup {p}
      BY <3>2, AppendFacts
    <3>4. snd'[u] = Append(snd[u], p) /\ \A v \in Units : v # u => snd'[v] = snd[v]
      BY <3>1 DEF IInv, TypeOK
    <3>5. QED BY <3>1, <3>2, <3>3, <3>4, SlipOutputAssumption DEF IInv, TypeOK
  <2>3. QED BY <2>1, <2>2
<1>6. /\ line' \in [Packets -> Ttys \cup {NULL}]
      /\ line'[p] = sc_ttyp[u]
      /\ \A r \in Packets : r # p => line'[r] = line[r]
  BY <1>1, <1>2 DEF IInv, TypeOK
<1>7. running' \in Ttys \cup {NULL}
  BY <1>1, <1>2
<1>8. TypeOK'
  BY <1>1, <1>4, <1>5, <1>6, <1>7 DEF IInv, TypeOK
<1>9. LinkedBack'
  BY <1>1 DEF IInv, LinkedBack
<1>10. AwakeOrServed'
  <2> SUFFICES ASSUME NEW t \in Ttys, running' # t, t_sc[t] # NULL,
                      NEW q \in Waiting(t_sc[t])', line'[q] = t
               PROVE  c_cc[t] > 0
    BY <1>1 DEF AwakeOrServed, Waiting
  <2>1. CASE t_sc[t] = u
    <3>1. sc_ttyp[u] = t
      BY <2>1 DEF IInv, LinkedBack
    <3>2. c_cc[t] # 0
      BY <1>1, <3>1
    <3>3. QED BY <3>2, SlipOutputAssumption DEF IInv, TypeOK
  <2>2. CASE t_sc[t] # u
    <3>1. t_sc[t] \in Units
      BY DEF IInv, TypeOK
    <3>2. q \in Waiting(t_sc[t]) /\ q # p /\ q \in Packets
      BY <1>1, <1>4, <1>5, <2>2, <3>1, WaitingType DEF Waiting, IInv
    <3>3. running # t /\ line[q] = t
      BY <1>1, <1>6, <3>2, SlipOutputAssumption
    <3>4. QED BY <3>2, <3>3 DEF IInv, AwakeOrServed
  <2>3. QED BY <2>1, <2>2
<1>11. ASSUME NEW v \in Units, NEW r \in Range(snd'[v])
       PROVE  line'[r] \in Ttys /\ line'[r] = sc_ttyp'[v]
  <2>1. CASE r = p
    <3>1. v = u
      BY <1>3, <1>5, <1>11, <2>1
    <3>2. QED BY <1>1, <1>2, <1>6, <2>1, <3>1
  <2>2. CASE r # p
    <3>1. r \in Range(snd[v])
      BY <1>5, <1>11, <2>2
    <3>2. snd[v] \in [1..Len(snd[v]) -> Packets]
      BY LenProperties DEF IInv, TypeOK
    <3>3. r \in Packets
      BY <3>1, <3>2 DEF Range
    <3>4. line'[r] = line[r]
      BY <1>6, <2>2, <3>3
    <3>5. QED BY <1>1, <3>1, <3>4 DEF IInv, BulkHasALine, BulkKeepsItsLine
  <2>3. QED BY <2>1, <2>2
<1>12. BulkHasALine' /\ BulkKeepsItsLine'
  BY <1>11 DEF BulkHasALine, BulkKeepsItsLine
<1>13. \A v \in Units : Waiting(v)' \subseteq Waiting(v) \cup (IF v = u THEN {p} ELSE {})
  BY <1>4, <1>5 DEF Waiting
<1>14. Apart'
  BY <1>1, <1>13 DEF IInv, Apart
<1>15. LinesKnown'
  <2> SUFFICES ASSUME NEW v \in Units, NEW q \in Waiting(v)', line'[q] # NULL
               PROVE  line'[q] = sc_ttyp[v]
    BY <1>1 DEF LinesKnown
  <2>1. CASE q = p
    BY <1>1, <1>6, <1>13, <2>1
  <2>2. CASE q # p
    <3>1. q \in Waiting(v) /\ q \in Packets
      BY <1>13, <2>2, WaitingType DEF IInv
    <3>2. QED BY <1>6, <2>2, <3>1 DEF IInv, LinesKnown
  <2>3. QED BY <2>1, <2>2
<1>16. QED BY <1>8, <1>9, <1>10, <1>12, <1>14, <1>15 DEF IInv

\* The tty driver leaves an idle tty only to slstart.
LEMMA TtyStep ==
  ASSUME IInv, NEW tp \in Ttys, TtyOutput(tp)
  PROVE  IInv'
<1>1. PICK cc \in 0 .. c_cc[tp] - 1 :
        /\ c_cc' = [c_cc EXCEPT ![tp] = cc]
        /\ running' = IF cc = 0 THEN tp ELSE NULL
  BY DEF TtyOutput
<1>2. /\ UNCHANGED <<slipdisc, t_sc, sc_ttyp, noicmp, fastq, snd, line>>
      /\ running = NULL
  BY DEF TtyOutput
<1>3. cc \in 0..MaxChars
  <2>1. c_cc[tp] \in 0..MaxChars /\ MaxChars \in Nat
    BY SlipOutputAssumption DEF IInv, TypeOK
  <2>2. QED BY <1>1, <2>1
<1>4. TypeOK'
  BY <1>1, <1>2, <1>3 DEF IInv, TypeOK
<1>5. LinkedBack' /\ BulkHasALine' /\ BulkKeepsItsLine' /\ Apart' /\ LinesKnown'
  BY <1>2 DEF IInv, LinkedBack, BulkHasALine, BulkKeepsItsLine, Apart, LinesKnown, Waiting
<1>6. AwakeOrServed'
  <2> SUFFICES ASSUME NEW t \in Ttys, running' # t, t_sc[t] # NULL,
                      \E p \in Waiting(t_sc[t]) : line[p] = t
               PROVE  c_cc'[t] > 0
    BY <1>2 DEF AwakeOrServed, Waiting
  <2>1. CASE t = tp
    BY <1>1, <1>3, <2>1 DEF IInv, TypeOK
  <2>2. CASE t # tp
    <3>1. c_cc'[t] = c_cc[t] /\ running # t
      BY <1>1, <1>2, <2>2, SlipOutputAssumption DEF IInv, TypeOK
    <3>2. QED BY <3>1 DEF IInv, AwakeOrServed
  <2>3. QED BY <2>1, <2>2
<1>7. QED BY <1>4, <1>5, <1>6 DEF IInv

\* What NextPacket does when there is something to send: one of the two
\* queues of the unit loses its first packet.
LEMMA NextPacketFacts ==
  ASSUME TypeOK, NEW u \in Units, Waiting(u) # {}, NextPacket(u)
  PROVE  /\ fastq' \in [Units -> Seq(Packets)]
         /\ snd' \in [Units -> Seq(Packets)]
         /\ \A v \in Units : Len(fastq'[v]) <= FastMaxlen
         /\ \A v \in Units : Len(snd'[v]) <= SndMaxlen
         /\ \A v \in Units : v # u => snd'[v] = snd[v]
         /\ \A v \in Units : Range(snd'[v]) \subseteq Range(snd[v])
         /\ \A v \in Units : v # u => fastq'[v] = fastq[v]
         /\ \A v \in Units : Range(fastq'[v]) \subseteq Range(fastq[v])
<1>1. /\ fastq \in [Units -> Seq(Packets)]
      /\ snd \in [Units -> Seq(Packets)]
      /\ \A v \in Units : Len(fastq[v]) <= FastMaxlen /\ Len(snd[v]) <= SndMaxlen
      /\ \A v \in Units : Len(fastq[v]) \in Nat /\ Len(snd[v]) \in Nat
  BY LenProperties DEF TypeOK
<1>2. CASE fastq[u] # <<>>
  <2>1. fastq' = [fastq EXCEPT ![u] = Tail(@)] /\ UNCHANGED snd
    BY <1>2 DEF NextPacket
  <2>2. /\ Tail(fastq[u]) \in Seq(Packets) /\ Len(Tail(fastq[u])) = Len(fastq[u]) - 1
        /\ Range(Tail(fastq[u])) \subseteq Range(fastq[u])
    BY <1>1, <1>2, TailFacts
  <2>3. /\ fastq'[u] = Tail(fastq[u])
        /\ \A v \in Units : v # u => fastq'[v] = fastq[v]
    BY <1>1, <2>1
  <2>4. fastq' \in [Units -> Seq(Packets)]
    BY <1>1, <2>1, <2>2
  <2>5. QED BY <1>1, <2>1, <2>2, <2>3, <2>4, SlipOutputAssumption
<1>3. CASE fastq[u] = <<>>
  <2>1. snd' = [snd EXCEPT ![u] = Tail(@)] /\ UNCHANGED fastq
    BY <1>3 DEF NextPacket
  <2>2. snd[u] # <<>>
    <3>1. Range(fastq[u]) = {}
      BY <1>1, <1>3, RangeEmpty
    <3>2. Range(snd[u]) # {}
      BY <3>1 DEF Waiting
    <3>3. QED BY <1>1, <3>2, RangeEmpty
  <2>3. /\ Tail(snd[u]) \in Seq(Packets)
        /\ Len(Tail(snd[u])) = Len(snd[u]) - 1
        /\ Range(Tail(snd[u])) \subseteq Range(snd[u])
    BY <1>1, <2>2, TailFacts
  <2>4. /\ snd'[u] = Tail(snd[u])
        /\ \A v \in Units : v # u => snd'[v] = snd[v]
    BY <1>1, <2>1
  <2>5. snd' \in [Units -> Seq(Packets)]
    BY <1>1, <2>1, <2>3
  <2>6. QED BY <1>1, <1>3, <2>1, <2>3, <2>4, <2>5, SlipOutputAssumption
<1>4. QED BY <1>2, <1>3

\* The return of slstart: the tty has characters left above the high water
\* mark, or nothing waits for it.
LEMMA ReturnStep ==
  ASSUME IInv, NEW tp \in Ttys, slstart(tp),
         NEW cc \in 0 .. c_cc[tp], SlstartReturn(tp, cc)
  PROVE  IInv'
<1>1. /\ running = tp
      /\ running' = NULL
      /\ c_cc' = [c_cc EXCEPT ![tp] = cc]
      /\ UNCHANGED <<slipdisc, t_sc, sc_ttyp, noicmp, fastq, snd, line>>
  BY DEF slstart, SlstartReturn
<1>2. cc \in 0..MaxChars
  <2>1. c_cc[tp] \in 0..MaxChars /\ MaxChars \in Nat
    BY SlipOutputAssumption DEF IInv, TypeOK
  <2>2. QED BY <2>1
<1>3. TypeOK'
  BY <1>1, <1>2 DEF IInv, TypeOK
<1>4. LinkedBack' /\ BulkHasALine' /\ BulkKeepsItsLine' /\ Apart' /\ LinesKnown'
  BY <1>1 DEF IInv, LinkedBack, BulkHasALine, BulkKeepsItsLine, Apart, LinesKnown, Waiting
<1>5. AwakeOrServed'
  <2> SUFFICES ASSUME NEW t \in Ttys, t_sc[t] # NULL,
                      \E p \in Waiting(t_sc[t]) : line[p] = t
               PROVE  c_cc'[t] > 0
    BY <1>1 DEF AwakeOrServed, Waiting
  <2>1. CASE t = tp
    <3>2. ToSend(tp) # {}
      BY <2>1 DEF ToSend
    <3>3. cc > Hiwat
      BY <3>2 DEF SlstartReturn
    <3>4. cc > 0
      BY <1>2, <3>3, SlipOutputAssumption
    <3>5. QED BY <1>1, <2>1, <3>4 DEF IInv, TypeOK
  <2>2. CASE t # tp
    BY <1>1, <2>2 DEF IInv, TypeOK, AwakeOrServed
  <2>3. QED BY <2>1, <2>2
<1>6. QED BY <1>3, <1>4, <1>5 DEF IInv

\* A round of slstart that takes a packet changes the queues of one unit,
\* which no other tty feeds.
LEMMA PacketStep ==
  ASSUME IInv, NEW tp \in Ttys, slstart(tp),
         NEW cc \in 0 .. c_cc[tp], SlstartPacket(tp, cc)
  PROVE  IInv'
<1>1. /\ running = tp
      /\ ToSend(tp) # {}
      /\ NextPacket(t_sc[tp])
      /\ ForgetSent
      /\ UNCHANGED <<slipdisc, t_sc, sc_ttyp, noicmp, running>>
  BY DEF slstart, SlstartPacket
<1>2. t_sc[tp] \in Units /\ Waiting(t_sc[tp]) # {}
  BY <1>1 DEF IInv, TypeOK, ToSend
<1>3. PICK more \in cc .. MaxChars : c_cc' = [c_cc EXCEPT ![tp] = more]
  BY DEF SlstartPacket
<1>4. more \in 0..MaxChars
  <2>1. c_cc[tp] \in 0..MaxChars /\ MaxChars \in Nat
    BY SlipOutputAssumption DEF IInv, TypeOK
  <2>2. QED BY <1>3, <2>1
<1>5. /\ fastq' \in [Units -> Seq(Packets)]
      /\ snd' \in [Units -> Seq(Packets)]
      /\ \A v \in Units : Len(fastq'[v]) <= FastMaxlen
      /\ \A v \in Units : Len(snd'[v]) <= SndMaxlen
      /\ \A v \in Units : Range(snd'[v]) \subseteq Range(snd[v])
      /\ \A v \in Units : Range(fastq'[v]) \subseteq Range(fastq[v])
  BY <1>1, <1>2, NextPacketFacts DEF IInv
<1>6. TypeOK'
  BY <1>1, <1>3, <1>4, <1>5, ForgetType DEF IInv, TypeOK
<1>7. LinkedBack'
  BY <1>1 DEF IInv, LinkedBack
<1>8. Shrunk
  BY <1>1, <1>5 DEF Shrunk
<1>9. AwakeOrServed'
  <2> SUFFICES ASSUME NEW t \in Ttys, running # t, t_sc[t] # NULL,
                      NEW p \in Range(fastq'[t_sc[t]]) \cup Range(snd'[t_sc[t]]),
                      line'[p] = t
               PROVE  c_cc'[t] > 0
    BY <1>1 DEF AwakeOrServed, Waiting
  <2>1. t_sc[t] \in Units /\ c_cc'[t] = c_cc[t]
    BY <1>1, <1>3 DEF IInv, TypeOK
  <2>2. p \in Waiting(t_sc[t]) /\ line[p] = t
    BY <1>8, <2>1, ShrinkWaits
  <2>3. QED BY <2>1, <2>2 DEF IInv, AwakeOrServed
<1>10. BulkHasALine' /\ BulkKeepsItsLine' /\ Apart' /\ LinesKnown'
  BY <1>6, <1>8, ShrinkLines
<1>11. QED BY <1>6, <1>7, <1>9, <1>10 DEF IInv

LEMMA StartStep ==
  ASSUME IInv, NEW tp \in Ttys, slstart(tp)
  PROVE  IInv'
<1>1. PICK cc \in 0 .. c_cc[tp] : SlstartReturn(tp, cc) \/ SlstartPacket(tp, cc)
  BY DEF slstart
<1>2. QED BY <1>1, ReturnStep, PacketStep

\* The invariant is inductive.
LEMMA StepIInv == IInv /\ [Next]_vars => IInv'
<1> SUFFICES ASSUME IInv, [Next]_vars PROVE IInv'
  OBVIOUS
<1>1. ASSUME NEW tp \in Ttys, slopen(tp) PROVE IInv'
  BY <1>1, OpenStep
<1>2. ASSUME NEW tp \in Ttys, SetLine(tp) PROVE IInv'
  BY <1>2, SetLineStep
<1>3. ASSUME NEW tp \in Ttys, slclose(tp) PROVE IInv'
  BY <1>3, CloseStep
<1>4. ASSUME NEW tp \in Ttys, slstart(tp) PROVE IInv'
  BY <1>4, StartStep
<1>5. ASSUME NEW tp \in Ttys, TtyOutput(tp) PROVE IInv'
  BY <1>5, TtyStep
<1>6. ASSUME NEW u \in Units, SIOCSIFFLAGS(u) PROVE IInv'
  BY <1>6, FlagsStep
<1>7. ASSUME NEW u \in Units, NEW p \in Packets, sloutput(u, p) PROVE IInv'
  BY <1>7, OutputStep
<1>8. CASE UNCHANGED vars
  BY <1>8 DEF vars, IInv, TypeOK, LinkedBack, AwakeOrServed, BulkHasALine,
              BulkKeepsItsLine, Apart, LinesKnown, Waiting
<1>9. QED BY <1>1, <1>2, <1>3, <1>4, <1>5, <1>6, <1>7, <1>8 DEF Next

-----------------------------------------------------------------------------
(* The theorems.                                                           *)

\* The inductive invariant holds in every reachable state.
THEOREM Invariance == Spec => []IInv
<1>1. QED BY InitIInv, StepIInv, PTL DEF Spec

\* Types, and the limits of both queues of every unit.
THEOREM TypeCorrect == Spec => []TypeOK
<1>1. IInv => TypeOK
  BY DEF IInv
<1>2. QED BY <1>1, Invariance, PTL

\* No two ttys feed one unit, for any sequence of slopen and slclose.
THEOREM AlwaysLinkedBack == Spec => []LinkedBack
<1>1. IInv => LinkedBack
  BY DEF IInv
<1>2. QED BY <1>1, Invariance, PTL

\* A packet on either queue never waits for an idle tty, if it was accepted
\* for that tty and the unit has kept it since.
THEOREM WakeupsNotLost == Spec => []NoLostWakeup
<1>1. IInv => NoLostWakeup
  BY SlipOutputAssumption DEF IInv, AwakeOrServed, NoLostWakeup
<1>2. QED BY <1>1, Invariance, PTL

\* A bulk packet waits for the tty it was accepted for.
THEOREM BulkStaysOnItsLine == Spec => []BulkKeepsItsLine
<1>1. IInv => BulkKeepsItsLine
  BY DEF IInv
<1>2. QED BY <1>1, Invariance, PTL
=============================================================================
