----------------------------- MODULE SlipOutput -----------------------------
(***************************************************************************)
(* The sending half of the SLIP units of net/if_sl.c and their attachment  *)
(* to ttys: slopen, slclose, sloutput and slstart, with if_down and the    *)
(* SIOCSIFFLAGS request of net/if.c.                                       *)
(*                                                                         *)
(* A packet waits on one of two queues of its unit, if_snd or sc_fastq     *)
(* (interactive traffic); both are the bounded FIFOs of PacketFifo, which  *)
(* IfQueue implements.  slstart moves packets to the output queue t_outq   *)
(* of the tty as long as that holds at most SLIP_HIWAT characters.         *)
(*                                                                         *)
(* Handlers run to completion.  slstart is a loop with a choice in every   *)
(* round, so a round is one step, and while running names a tty no other   *)
(* handler starts.  The tty driver and the clists have empty bodies in     *)
(* kern/tty.c and kern/tty_subr.c: what they do to t_outq is a choice that *)
(* includes doing nothing.  The init state is the one after slattach.      *)
(***************************************************************************)
EXTENDS Naturals, Sequences, Functions

CONSTANTS
  NSL,         \* number of units
  Ttys, Packets, NULL,
  LowDelay,    \* packets whose ip_tos has IPTOS_LOWDELAY
  Icmp,        \* packets whose ip_p is IPPROTO_ICMP
  SndMaxlen, FastMaxlen,  \* ifq_maxlen of if_snd and of sc_fastq
  Hiwat,       \* SLIP_HIWAT, in chunks of characters
  MaxChars     \* bound on the chunks t_outq can hold

Units == 0 .. NSL - 1

ASSUME SlipOutputAssumption ==
  /\ NSL \in Nat
  /\ NULL \notin Ttys \cup Units
  /\ LowDelay \subseteq Packets /\ Icmp \subseteq Packets
  /\ SndMaxlen \in Nat /\ FastMaxlen \in Nat
  /\ Hiwat \in Nat /\ MaxChars \in Nat /\ Hiwat < MaxChars

VARIABLES
  slipdisc,  \* of a tty: t_line = SLIPDISC
  t_sc,      \* of a tty: the unit it feeds, or NULL
  c_cc,      \* of a tty: the characters on t_outq
  sc_ttyp,   \* of a unit: its tty, or NULL
  noicmp,    \* of a unit: SC_NOICMP is set in if_flags
  fastq,     \* of a unit: sc_fastq
  snd,       \* of a unit: if_snd
  running,   \* the tty slstart was called for, or NULL
  line       \* for the properties: the tty a queued packet was accepted
             \* for, or NULL once its unit lost that tty

vars == <<slipdisc, t_sc, c_cc, sc_ttyp, noicmp, fastq, snd, running, line>>

Init ==
  /\ slipdisc = [tp \in Ttys |-> FALSE]
  /\ t_sc = [tp \in Ttys |-> NULL]
  /\ c_cc = [tp \in Ttys |-> 0]
  /\ sc_ttyp = [u \in Units |-> NULL]
  /\ noicmp = [u \in Units |-> FALSE]
  /\ fastq = [u \in Units |-> <<>>]
  /\ snd = [u \in Units |-> <<>>]
  /\ running = NULL
  /\ line = [p \in Packets |-> NULL]

Waiting(u) == Range(fastq[u]) \cup Range(snd[u])

\* line is kept for the packets that still wait on a unit with a tty, and
\* forgotten for others.
ForgetSent ==
  line' = [p \in Packets |->
             IF \E u \in Units : p \in Waiting(u)' /\ sc_ttyp'[u] # NULL
               THEN line[p] ELSE NULL]

-----------------------------------------------------------------------------
(* Opening and closing a line.                                             *)

\* Mutant: slopen does not look for a unit without a tty.
FreeUnits_All == Units

FreeUnits == {u \in Units : sc_ttyp[u] = NULL}

\* slopen takes the first unit without a tty.  It does not look at t_sc.
slopen(tp) ==
  /\ running = NULL
  /\ ~slipdisc[tp]
  /\ \E u \in FreeUnits :
       /\ \A v \in FreeUnits : u <= v
       /\ t_sc' = [t_sc EXCEPT ![tp] = u]
       /\ sc_ttyp' = [sc_ttyp EXCEPT ![u] = tp]
  /\ \E cc \in {0, c_cc[tp]} : c_cc' = [c_cc EXCEPT ![tp] = cc]
  /\ UNCHANGED <<slipdisc, noicmp, fastq, snd, running, line>>

\* The caller of slopen sets t_line when it succeeded, if it does at all.
SetLine(tp) ==
  /\ running = NULL
  /\ t_sc[tp] # NULL
  /\ slipdisc' = [slipdisc EXCEPT ![tp] = TRUE]
  /\ UNCHANGED <<t_sc, c_cc, sc_ttyp, noicmp, fastq, snd, running, line>>

\* Mutant: if_down forgets the queue.
if_down_NoFlush(u) == snd' = snd

\* if_down flushes if_snd.
if_down(u) == snd' = [snd EXCEPT ![u] = <<>>]

slclose(tp) ==
  /\ running = NULL
  /\ slipdisc' = [slipdisc EXCEPT ![tp] = FALSE]
  /\ \E cc \in {0, c_cc[tp]} : c_cc' = [c_cc EXCEPT ![tp] = cc]
  /\ IF t_sc[tp] = NULL
       THEN UNCHANGED <<t_sc, sc_ttyp, snd>>
       ELSE /\ if_down(t_sc[tp])
            /\ sc_ttyp' = [sc_ttyp EXCEPT ![t_sc[tp]] = NULL]
            /\ t_sc' = [t_sc EXCEPT ![tp] = NULL]
  /\ UNCHANGED <<noicmp, fastq, running>>
  /\ ForgetSent

\* SIOCSIFFLAGS: the request may clear IFF_UP, and it sets SC_NOICMP or not.
SIOCSIFFLAGS(u) ==
  /\ running = NULL
  /\ if_down(u) \/ UNCHANGED snd
  /\ \E b \in BOOLEAN : noicmp' = [noicmp EXCEPT ![u] = b]
  /\ UNCHANGED <<slipdisc, t_sc, c_cc, sc_ttyp, fastq, running>>
  /\ ForgetSent

-----------------------------------------------------------------------------
(* Output.                                                                 *)

\* Mutant: sloutput does not test IF_QFULL.
sloutput_NoLimit(u, p) ==
  /\ running = NULL
  /\ \A v \in Units : p \notin Waiting(v)
  /\ sc_ttyp[u] # NULL
  /\ snd' = [snd EXCEPT ![u] = Append(@, p)]
  /\ line' = [line EXCEPT ![p] = sc_ttyp[u]]
  /\ running' = IF c_cc[sc_ttyp[u]] = 0 THEN sc_ttyp[u] ELSE NULL
  /\ UNCHANGED <<slipdisc, t_sc, c_cc, sc_ttyp, noicmp, fastq>>

\* sloutput accepts p.  Its other returns (no tty, no carrier, ICMP that is
\* suppressed, a full queue) free the packet and change counters only.
sloutput(u, p) ==
  /\ running = NULL
  /\ \A v \in Units : p \notin Waiting(v)
  /\ sc_ttyp[u] # NULL
  /\ ~(noicmp[u] /\ p \in Icmp)
  /\ IF p \in LowDelay
       THEN /\ Len(fastq[u]) < FastMaxlen
            /\ fastq' = [fastq EXCEPT ![u] = Append(@, p)]
            /\ UNCHANGED snd
       ELSE /\ Len(snd[u]) < SndMaxlen
            /\ snd' = [snd EXCEPT ![u] = Append(@, p)]
            /\ UNCHANGED fastq
  /\ line' = [line EXCEPT ![p] = sc_ttyp[u]]
  /\ running' = IF c_cc[sc_ttyp[u]] = 0 THEN sc_ttyp[u] ELSE NULL
  /\ UNCHANGED <<slipdisc, t_sc, c_cc, sc_ttyp, noicmp>>

\* IF_DEQUEUE from sc_fastq, or else from if_snd.
NextPacket(u) ==
  IF fastq[u] # <<>>
    THEN fastq' = [fastq EXCEPT ![u] = Tail(@)] /\ UNCHANGED snd
    ELSE snd' = [snd EXCEPT ![u] = Tail(@)] /\ UNCHANGED fastq

\* Mutants: slstart looks at one of the two queues only.
ToSend_FastOnly(tp) == IF t_sc[tp] = NULL THEN {} ELSE Range(fastq[t_sc[tp]])
ToSend_BulkOnly(tp) == IF t_sc[tp] = NULL THEN {} ELSE Range(snd[t_sc[tp]])

\* Nothing is sent when the line was shut down.
ToSend(tp) == IF t_sc[tp] = NULL THEN {} ELSE Waiting(t_sc[tp])

\* A round of the loop of slstart.  t_oproc may have sent characters; cc
\* are left.  slstart returns, or takes a packet, which it frames or, when
\* the clists are low, throws away.
SlstartReturn(tp, cc) ==
  /\ cc > Hiwat \/ ToSend(tp) = {}
  /\ running' = NULL
  /\ c_cc' = [c_cc EXCEPT ![tp] = cc]
  /\ UNCHANGED <<fastq, snd, line>>

SlstartPacket(tp, cc) ==
  /\ cc <= Hiwat
  /\ ToSend(tp) # {}
  /\ NextPacket(t_sc[tp])
  /\ \E more \in cc .. MaxChars : c_cc' = [c_cc EXCEPT ![tp] = more]
  /\ ForgetSent
  /\ UNCHANGED running

slstart(tp) ==
  /\ running = tp
  /\ UNCHANGED <<slipdisc, t_sc, sc_ttyp, noicmp>>
  /\ \E cc \in 0 .. c_cc[tp] : SlstartReturn(tp, cc) \/ SlstartPacket(tp, cc)

\* Mutant: the driver does not call back slstart.
TtyOutput_NoCallback(tp) ==
  /\ running = NULL
  /\ c_cc[tp] > 0
  /\ \E cc \in 0 .. c_cc[tp] - 1 : c_cc' = [c_cc EXCEPT ![tp] = cc]
  /\ UNCHANGED <<slipdisc, t_sc, sc_ttyp, noicmp, fastq, snd, running, line>>

\* The tty driver sends characters, and calls back slstart when it runs off
\* the end of its clists.
TtyOutput(tp) ==
  /\ running = NULL
  /\ c_cc[tp] > 0
  /\ \E cc \in 0 .. c_cc[tp] - 1 :
       /\ c_cc' = [c_cc EXCEPT ![tp] = cc]
       /\ running' = IF cc = 0 THEN tp ELSE NULL
  /\ UNCHANGED <<slipdisc, t_sc, sc_ttyp, noicmp, fastq, snd, line>>

Next ==
  \/ \E tp \in Ttys :
       slopen(tp) \/ SetLine(tp) \/ slclose(tp) \/ slstart(tp) \/ TtyOutput(tp)
  \/ \E u \in Units : SIOCSIFFLAGS(u)
  \/ \E u \in Units, p \in Packets : sloutput(u, p)

Spec == Init /\ [][Next]_vars

\* slstart runs to its end, and the interrupt of a tty that has characters
\* to send stays pending until the handler that runs has returned.
Fairness == \A tp \in Ttys : WF_vars(slstart(tp)) /\ SF_vars(TtyOutput(tp))

FairSpec == Spec /\ Fairness

-----------------------------------------------------------------------------
(* Properties.                                                             *)

\* Every variable has a value of its type, and the queues keep their limits.
TypeOK ==
  /\ slipdisc \in [Ttys -> BOOLEAN]
  /\ t_sc \in [Ttys -> Units \cup {NULL}]
  /\ c_cc \in [Ttys -> 0..MaxChars]
  /\ sc_ttyp \in [Units -> Ttys \cup {NULL}]
  /\ noicmp \in [Units -> BOOLEAN]
  /\ fastq \in [Units -> Seq(Packets)]
  /\ snd \in [Units -> Seq(Packets)]
  /\ \A u \in Units : Len(fastq[u]) <= FastMaxlen /\ Len(snd[u]) <= SndMaxlen
  /\ running \in Ttys \cup {NULL}
  /\ line \in [Packets -> Ttys \cup {NULL}]

\* A tty feeds a unit only if the unit knows that tty: no unit is fed by
\* two ttys, whatever sequence of slopen and slclose was made, even when
\* slopen is called again for a tty that has a unit.
LinkedBack == \A tp \in Ttys : t_sc[tp] # NULL => sc_ttyp[t_sc[tp]] = tp

\* No wakeup is lost: while a packet that was accepted for a tty waits on
\* either queue of the unit of that tty and no handler runs, the tty has
\* characters to send, so its driver will call slstart.  Packets that slclose
\* left on sc_fastq are no longer accepted for a tty; they may wait for an
\* idle one until sloutput is called again.
NoLostWakeup ==
  running = NULL =>
    \A tp \in Ttys :
      t_sc[tp] # NULL /\ (\E p \in Waiting(t_sc[tp]) : line[p] = tp)
        => c_cc[tp] > 0

\* A packet on if_snd waits for the tty it was accepted for, although a
\* unit changes its tty: slclose leaves none behind for the next one.
BulkKeepsItsLine ==
  \A u \in Units : \A p \in Range(snd[u]) : line[p] = sc_ttyp[u]

\* An interactive packet goes out, or the tty is given another unit or none,
\* when it was accepted for the tty it waits for, or was left on the unit
\* by slclose and the tty has characters to send.
FastDrains ==
  \A tp \in Ttys, u \in Units, p \in LowDelay :
    (p \in Range(fastq[u]) /\ t_sc[tp] = u /\ (line[p] = tp \/ c_cc[tp] > 0))
      ~> (p \notin Range(fastq[u]) \/ t_sc[tp] # u)

\* A packet accepted on if_snd goes out or is flushed unless interactive
\* traffic keeps coming or the tty is given another unit or none.
BulkDrains ==
  \A tp \in Ttys, u \in Units, p \in Packets \ LowDelay :
    (p \in Range(snd[u]) /\ t_sc[tp] = u)
      ~> (p \notin Range(snd[u]) \/ t_sc[tp] # u \/ fastq[u] # <<>>)

\* if.c says of if_qflush (in Chinese): "discard all packets in queue ifq,
\* for example when an interface is closed".  Claim: a packet on sc_fastq
\* too waits for a tty, the one it was accepted for.
FastKeepsItsLine ==
  \A u \in Units : \A p \in Range(fastq[u]) :
    line[p] # NULL /\ line[p] = sc_ttyp[u]

\* Both queues of a unit drain, under FairSpec.
QueuesDrain == FastDrains /\ BulkDrains
=============================================================================
