---------------------------- MODULE MCMbufChain ----------------------------
(* A small instance of MbufChain: an mbuf without header holds five bytes, *)
(* one with a header three, and a frame of eight gets a cluster.  Two      *)
(* operations build a chain, and the properties apply a third.  Two of the *)
(* bytes that are copied in have the values of the SLIP codes.             *)
EXTENDS SlipFrame
=============================================================================
