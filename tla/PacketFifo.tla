---------------------------- MODULE PacketFifo ----------------------------
(***************************************************************************)
(* What the rest of the network code expects of the packet queues declared *)
(* in net/if.h: each queue is a bounded first-in first-out sequence of     *)
(* packets, a packet is in at most one place, a packet that does not fit   *)
(* or that is flushed is counted as lost, and nothing is lost silently.    *)
(* No pointer, no length field and no mbuf layout appears here: IfQueue    *)
(* implements this specification with linked lists.                        *)
(***************************************************************************)
EXTENDS Naturals, Sequences

CONSTANTS
  Packets,   \* every packet there can ever be
  Queues,    \* the names of the queues
  Capacity,  \* the capacity each queue is configured to
  MaxLost    \* bound on the loss counters (an int in the code)

VARIABLES
  fifo,      \* [Queues -> Seq(Packets)], oldest packet first
  room,      \* [Queues -> Nat], the capacity currently in force
  lost,      \* [Queues -> Nat], packets refused or flushed
  loose      \* packets in the hands of a protocol handler

vars == <<fifo, room, lost, loose>>

\* The packets that are on queue q.
Contents(q) == {fifo[q][i] : i \in 1..Len(fifo[q])}

\* A packet is unused when no queue and no handler has it.
Unused(p) == p \notin loose /\ \A q \in Queues : p \notin Contents(q)

Init ==
  /\ fifo = [q \in Queues |-> <<>>]
  /\ room = [q \in Queues |-> 0]
  /\ lost = [q \in Queues |-> 0]
  /\ loose = {}

\* A queue is given its configured capacity.
Configure(q) ==
  /\ room' = [room EXCEPT ![q] = Capacity[q]]
  /\ UNCHANGED <<fifo, lost, loose>>

\* A handler obtains an unused packet.
Create(p) ==
  /\ Unused(p)
  /\ loose' = loose \cup {p}
  /\ UNCHANGED <<fifo, room, lost>>

\* A handler is done with a packet.
Discard(p) ==
  /\ p \in loose
  /\ loose' = loose \ {p}
  /\ UNCHANGED <<fifo, room, lost>>

\* A handler offers a packet to a queue that has room: it goes last.
Put(q, p) ==
  /\ p \in loose
  /\ Len(fifo[q]) < room[q]
  /\ fifo' = [fifo EXCEPT ![q] = Append(@, p)]
  /\ loose' = loose \ {p}
  /\ UNCHANGED <<room, lost>>

\* A handler gives a packet back to the front of the queue.
PutBack(q, p) ==
  /\ p \in loose
  /\ Len(fifo[q]) < room[q]
  /\ fifo' = [fifo EXCEPT ![q] = <<p>> \o @]
  /\ loose' = loose \ {p}
  /\ UNCHANGED <<room, lost>>

\* A handler offers a packet to a full queue: the packet is gone, counted.
Refuse(q, p) ==
  /\ p \in loose
  /\ Len(fifo[q]) >= room[q]
  /\ lost[q] < MaxLost
  /\ lost' = [lost EXCEPT ![q] = @ + 1]
  /\ loose' = loose \ {p}
  /\ UNCHANGED <<fifo, room>>

\* A handler takes the oldest packet.
Take(q) ==
  /\ fifo[q] # <<>>
  /\ loose' = loose \cup {Head(fifo[q])}
  /\ fifo' = [fifo EXCEPT ![q] = Tail(@)]
  /\ UNCHANGED <<room, lost>>

\* Every packet of a queue is thrown away at once, each of them counted.
Purge(q) ==
  /\ fifo[q] # <<>>
  /\ lost[q] + Len(fifo[q]) <= MaxLost
  /\ lost' = [lost EXCEPT ![q] = @ + Len(fifo[q])]
  /\ fifo' = [fifo EXCEPT ![q] = <<>>]
  /\ UNCHANGED <<room, loose>>

Next ==
  \/ \E p \in Packets : Create(p) \/ Discard(p)
  \/ \E q \in Queues : Configure(q) \/ Take(q) \/ Purge(q)
  \/ \E q \in Queues, p \in Packets :
       Put(q, p) \/ PutBack(q, p) \/ Refuse(q, p)

Spec == Init /\ [][Next]_vars
=============================================================================
