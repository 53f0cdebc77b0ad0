----------------------------- MODULE MCIfQueue -----------------------------
(* A small instance of IfQueue: two queues with different limits.          *)
EXTENDS IfQueue, TLC

CONSTANTS q1, q2

MCQueues == {q1, q2}
MCMaxLen == [q \in MCQueues |-> IF q = q1 THEN 3 ELSE 1]
MCSymmetry == Permutations(Mbufs)
=============================================================================
