---------------------------- MODULE MCPacketFlow ----------------------------
(* A LANCE and the loopback interface, queues of two, three packets.       *)
EXTENDS PacketFlow, TLC

\* IP and ARP as they are on the wire and as main.c builds them.
MCTypes == {8, 1544, 2048, 2054}
MCRequests == {{}, {"UP", "RUNNING", "BROADCAST"}}
MCRoutesTo == {NULL,
  [up |-> TRUE, gateway |-> FALSE, gwroute |-> "none", rejects |-> FALSE],
  [up |-> TRUE, gateway |-> TRUE, gwroute |-> "down", rejects |-> FALSE],
  [up |-> TRUE, gateway |-> TRUE, gwroute |-> "up", rejects |-> TRUE],
  [up |-> TRUE, gateway |-> FALSE, gwroute |-> "none", rejects |-> TRUE]}

\* Once malloc has handed out storage that is on if_snd the links may be
\* anything: such a state is followed further while nothing has been
\* released twice and nothing is forgotten.
MCAfterReuse == reused => again = {} /\ leaked = {}

MCSymmetry == Permutations(Packets)
=============================================================================
