------------------------------ MODULE IfQueue ------------------------------
(***************************************************************************)
(* The packet queues of net/if.h: struct ifqueue, the macros IF_QFULL,     *)
(* IF_DROP, IF_ENQUEUE, IF_PREPEND and IF_DEQUEUE, and if_qflush of        *)
(* net/if.c.  A queue is a singly linked list of mbuf chains threaded      *)
(* through m_nextpkt, with a head, a tail, a length, a limit and a count   *)
(* of drops.  All queues (the if_snd of every interface, the sc_fastq of   *)
(* every SLIP unit, ipintrq and arpintrq) thread their lists through the   *)
(* same field of the same mbufs, so one model holds all of them.           *)
(*                                                                         *)
(* An element of Mbufs is the storage of one packet, named by the address  *)
(* of its first mbuf.  Handlers run to completion one after the other, so  *)
(* a use of a macro with the test its callers make is one action.          *)
(***************************************************************************)
EXTENDS Naturals, Sequences

CONSTANTS
  Mbufs,     \* addresses of packets (first mbuf of the chain)
  Queues,    \* the ifqueue structures
  MaxLen,    \* what ifq_maxlen of each queue is set to
  MaxDrops,  \* bound on ifq_drops (an int in the code)
  NULL

ASSUME IfQueueAssumption ==
  /\ NULL \notin Mbufs
  /\ MaxLen \in [Queues -> Nat]
  /\ MaxDrops \in Nat

VARIABLES
  nextpkt,   \* m_nextpkt of every mbuf, allocated or not
  head,      \* ifq_head
  tail,      \* ifq_tail, not reset when the queue runs empty
  len,       \* ifq_len
  maxlen,    \* ifq_maxlen
  drops,     \* ifq_drops
  held,      \* packets a handler has in a local variable
  free       \* storage that malloc may hand out

qvars == <<head, tail, len, maxlen, drops>>
vars == <<nextpkt, head, tail, len, maxlen, drops, held, free>>

\* The queues are static storage: all fields start as zero.
Init ==
  /\ nextpkt \in [Mbufs -> {NULL}]
  /\ head = [q \in Queues |-> NULL]
  /\ tail = [q \in Queues |-> NULL]
  /\ len = [q \in Queues |-> 0]
  /\ maxlen = [q \in Queues |-> 0]
  /\ drops = [q \in Queues |-> 0]
  /\ held = {}
  /\ free = Mbufs

-----------------------------------------------------------------------------
(* The list that a queue header denotes, as a sequence.                    *)

\* s lists the n packets reached from h through nx, ending in t.
IsList(s, h, t, n, nx) ==
  /\ s \in [1..n -> Mbufs]
  /\ n = 0 => h = NULL
  /\ n > 0 => s[1] = h /\ s[n] = t /\ nx[s[n]] = NULL
  /\ \A i \in 1..n-1 : nx[s[i]] = s[i+1]
  /\ \A i, j \in 1..n : s[i] = s[j] => i = j

ListOf(h, t, n, nx) ==
  IF \E s \in [1..n -> Mbufs] : IsList(s, h, t, n, nx)
    THEN CHOOSE s \in [1..n -> Mbufs] : IsList(s, h, t, n, nx)
    ELSE <<>>

Chain(q) == ListOf(head[q], tail[q], len[q], nextpkt)

\* The packets on queue q.
OnQueue(q) == {Chain(q)[i] : i \in 1..len[q]}

-----------------------------------------------------------------------------
(* The macros and the code around them.                                    *)

\* Mutant: the limit is tested with > instead of >=.
IF_QFULL_OneLate(q) == len[q] > maxlen[q]

IF_QFULL(q) == len[q] >= maxlen[q]

\* leattach, slattach, ifinit and ether_input set ifq_maxlen.
SetMaxlen(q) ==
  /\ maxlen' = [maxlen EXCEPT ![q] = MaxLen[q]]
  /\ UNCHANGED <<nextpkt, head, tail, len, drops, held, free>>

\* MGETHDR: malloc returns any free storage; m_nextpkt is cleared.
MGETHDR(m) ==
  /\ m \in free
  /\ free' = free \ {m}
  /\ held' = held \cup {m}
  /\ nextpkt' = [nextpkt EXCEPT ![m] = NULL]
  /\ UNCHANGED qvars

\* m_freem: the storage goes back, its m_nextpkt is left as it was.
MFreem(m) ==
  /\ m \in held
  /\ held' = held \ {m}
  /\ free' = free \cup {m}
  /\ UNCHANGED <<nextpkt, head, tail, len, maxlen, drops>>

\* Mutant: IF_ENQUEUE trusts the caller to have cleared m_nextpkt.
IF_ENQUEUE_StaleLink(q, m) ==
  /\ m \in held
  /\ ~IF_QFULL(q)
  /\ IF len[q] = 0
       THEN head' = [head EXCEPT ![q] = m] /\ UNCHANGED nextpkt
       ELSE nextpkt' = [nextpkt EXCEPT ![tail[q]] = m] /\ UNCHANGED head
  /\ tail' = [tail EXCEPT ![q] = m]
  /\ len' = [len EXCEPT ![q] = @ + 1]
  /\ held' = held \ {m}
  /\ UNCHANGED <<maxlen, drops, free>>

\* IF_ENQUEUE, reached when the caller's IF_QFULL test failed.
IF_ENQUEUE(q, m) ==
  /\ m \in held
  /\ ~IF_QFULL(q)
  /\ IF len[q] = 0
       THEN /\ nextpkt' = [nextpkt EXCEPT ![m] = NULL]
            /\ head' = [head EXCEPT ![q] = m]
       ELSE /\ nextpkt' = [nextpkt EXCEPT ![m] = nextpkt[tail[q]],
                                          ![tail[q]] = m]
            /\ UNCHANGED head
  /\ tail' = [tail EXCEPT ![q] = m]
  /\ len' = [len EXCEPT ![q] = @ + 1]
  /\ held' = held \ {m}
  /\ UNCHANGED <<maxlen, drops, free>>

\* IF_PREPEND.  It has no caller in the repository; it is used here under
\* the IF_QFULL test that every caller of IF_ENQUEUE makes.
IF_PREPEND(q, m) ==
  /\ m \in held
  /\ ~IF_QFULL(q)
  /\ IF head[q] = NULL
       THEN IF_ENQUEUE(q, m)
       ELSE /\ nextpkt' = [nextpkt EXCEPT ![m] = head[q]]
            /\ head' = [head EXCEPT ![q] = m]
            /\ len' = [len EXCEPT ![q] = @ + 1]
            /\ held' = held \ {m}
            /\ UNCHANGED <<tail, maxlen, drops, free>>

\* Mutant: the caller forgets m_freem after IF_DROP.
IF_DROP_Leak(q, m) ==
  /\ m \in held
  /\ IF_QFULL(q)
  /\ drops[q] < MaxDrops
  /\ drops' = [drops EXCEPT ![q] = @ + 1]
  /\ held' = held \ {m}
  /\ UNCHANGED <<nextpkt, head, tail, len, maxlen, free>>

\* The queue is full: IF_DROP and m_freem, as looutput, ether_input,
\* sloutput and slinput do.
IF_DROP(q, m) ==
  /\ m \in held
  /\ IF_QFULL(q)
  /\ drops[q] < MaxDrops
  /\ drops' = [drops EXCEPT ![q] = @ + 1]
  /\ held' = held \ {m}
  /\ free' = free \cup {m}
  /\ UNCHANGED <<nextpkt, head, tail, len, maxlen>>

\* IF_DEQUEUE.  On an empty queue it only yields NULL; ifq_tail and the
\* m_nextpkt of the packet are left as they were.
IF_DEQUEUE(q) ==
  /\ len[q] > 0
  /\ head' = [head EXCEPT ![q] = nextpkt[head[q]]]
  /\ len' = [len EXCEPT ![q] = @ - 1]
  /\ held' = held \cup {head[q]}
  /\ UNCHANGED <<nextpkt, tail, maxlen, drops, free>>

\* Mutants: if_qflush does not count the packets it drops, counts one too
\* many.
FlushWith(q, dropped) ==
  /\ len[q] > 0
  /\ drops[q] + len[q] <= MaxDrops
  /\ head' = [head EXCEPT ![q] = NULL]
  /\ len' = [len EXCEPT ![q] = 0]
  /\ drops' = [drops EXCEPT ![q] = @ + dropped]
  /\ free' = free \cup OnQueue(q)
  /\ UNCHANGED <<nextpkt, tail, maxlen, held>>

if_qflush_Uncounted(q) == FlushWith(q, 0)
if_qflush_OneMore(q) == FlushWith(q, len[q] + 1)

\* if_qflush: the loop walks m_nextpkt and frees every packet; ifq_tail is
\* left pointing at freed storage.
if_qflush(q) ==
  /\ len[q] > 0
  /\ drops[q] + len[q] <= MaxDrops
  /\ head' = [head EXCEPT ![q] = nextpkt[Chain(q)[len[q]]]]
  /\ len' = [len EXCEPT ![q] = 0]
  /\ drops' = [drops EXCEPT ![q] = @ + len[q]]
  /\ free' = free \cup OnQueue(q)
  /\ UNCHANGED <<nextpkt, tail, maxlen, held>>

Next ==
  \/ \E m \in Mbufs : MGETHDR(m) \/ MFreem(m)
  \/ \E q \in Queues : SetMaxlen(q) \/ IF_DEQUEUE(q) \/ if_qflush(q)
  \/ \E q \in Queues, m \in Mbufs :
       IF_ENQUEUE(q, m) \/ IF_PREPEND(q, m) \/ IF_DROP(q, m)

Spec == Init /\ [][Next]_vars

-----------------------------------------------------------------------------
(* Properties.                                                             *)

\* Every field of the queues and of the heap has a value of its type.
TypeOK ==
  /\ nextpkt \in [Mbufs -> Mbufs \cup {NULL}]
  /\ head \in [Queues -> Mbufs \cup {NULL}]
  /\ tail \in [Queues -> Mbufs \cup {NULL}]
  /\ len \in [Queues -> Nat]
  /\ maxlen \in [Queues -> Nat]
  /\ drops \in [Queues -> 0..MaxDrops]
  /\ held \subseteq Mbufs
  /\ free \subseteq Mbufs

\* The header of a queue describes a proper list at all times: following
\* m_nextpkt from ifq_head visits exactly ifq_len different packets, the
\* last of them is ifq_tail and ends in NULL, whatever stale links were
\* left in packets that were dequeued, freed and reused before.
WellLinked ==
  \A q \in Queues : IsList(Chain(q), head[q], tail[q], len[q], nextpkt)

\* A packet is free, or held by a handler, or on one queue, and never in
\* two of these places: no packet is on two queues, none is freed while it
\* is queued, and none is lost without being freed.
OnePlace ==
  /\ free \cap held = {}
  /\ \A q \in Queues : OnQueue(q) \cap (free \cup held) = {}
  /\ \A q, r \in Queues : q # r => OnQueue(q) \cap OnQueue(r) = {}
  /\ \A m \in Mbufs \ (free \cup held) : \E q \in Queues : m \in OnQueue(q)

\* A queue never outgrows the limit in force.
Bounded == \A q \in Queues : len[q] <= maxlen[q]

\* The linked lists implement bounded FIFO queues with a loss counter.
Fifo == INSTANCE PacketFifo WITH
  Packets <- Mbufs, Capacity <- MaxLen, MaxLost <- MaxDrops,
  fifo <- [q \in Queues |-> Chain(q)], room <- maxlen,
  lost <- drops, loose <- held

ImplementsFifo == Fifo!Spec
=============================================================================
