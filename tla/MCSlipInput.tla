---------------------------- MODULE MCSlipInput ----------------------------
(* A small instance of SlipInput: a buffer of five characters holds one    *)
(* frame and the start of the next, or is filled exactly by one frame.     *)
EXTENDS SlipInput
=============================================================================
