---------------------------- MODULE MCSlipOutput ----------------------------
(* Small instances of SlipOutput: p1 and p2 are interactive, b2 is ICMP.   *)
EXTENDS SlipOutput, TLC

CONSTANTS p1, p2, b1, b2

MCLowDelay == {p1, p2} \cap Packets
MCIcmp == {b2} \cap Packets
MCSymmetry == Permutations(Ttys)
=============================================================================
