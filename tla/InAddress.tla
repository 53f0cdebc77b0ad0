----------------------------- MODULE InAddress -----------------------------
(***************************************************************************)
(* Classes of internet addresses: the macros of netinet/in.h and in_netof, *)
(* in_canforward, in_localaddr and in_broadcast of netinet/in.c.           *)
(*                                                                         *)
(* An address is the sequence of its four bytes in network order, a long   *)
(* in the machine's order the sequence of its bytes from the most          *)
(* significant one on; net masks are whole bytes of ones.                  *)
(***************************************************************************)
EXTENDS Naturals, Sequences

Bytes4 == [1..4 -> 0..255]

INADDR_ANY == <<0, 0, 0, 0>>
INADDR_BROADCAST == <<255, 255, 255, 255>>
IN_LOOPBACKNET == 127

\* Mutant: the value in network order is used as it was loaded.
ntohl_Forgotten(in) == <<in[4], in[3], in[2], in[1]>>

\* The bytes 0 and 1 are shifted out to the right; 2 and 3 go up by as much
\* as they would in a byte swap of the other direction.
ntohl(in) == <<in[4], 0, in[3], 0>>

IN_CLASSA(i) == i[1] < 128
IN_CLASSB(i) == i[1] \in 128..191
IN_CLASSC(i) == i[1] \in 192..223
IN_CLASSD(i) == i[1] \in 224..239
IN_EXPERIMENTAL(i) == i[1] \in 240..255

Masked(i, mask) == [k \in 1..4 |-> IF mask[k] = 255 THEN i[k] ELSE 0]

\* The net part of i by its class.
ClassNet(i) ==
  CASE IN_CLASSA(i) -> <<i[1], 0, 0, 0>>
    [] IN_CLASSB(i) -> <<i[1], i[2], 0, 0>>
    [] IN_CLASSC(i) -> <<i[1], i[2], i[3], 0>>
    [] IN_CLASSD(i) -> <<224, 0, 0, 0>>
    [] OTHER -> INADDR_ANY

\* ias: the list in_ifaddr, as records of ia_net and the masks.
in_netof(in, ias) ==
  LET i == ntohl(in)
      own == {k \in DOMAIN ias : ClassNet(i) = ias[k].net}
  IN IF own = {} THEN ClassNet(i)
     ELSE Masked(i, ias[CHOOSE k \in own : \A j \in own : k <= j].subnetmask)

in_canforward(in) ==
  LET i == ntohl(in)
  IN /\ ~IN_EXPERIMENTAL(i) /\ ~IN_CLASSD(i)
     /\ IN_CLASSA(i) => i[1] \notin {0, IN_LOOPBACKNET}

\* Mutant: an address is compared by the mask of its own class.
in_localaddr_ByClass(in, ias) ==
  \E k \in DOMAIN ias : ClassNet(ntohl(in)) = ias[k].net

\* subnetsarelocal is 1.
in_localaddr(in, ias) ==
  \E k \in DOMAIN ias : Masked(ntohl(in), ias[k].mask) = ias[k].net

\* Mutant: the test of IFF_BROADCAST is left out.
in_broadcast_AnyInterface(in, broadcast, hit) ==
  IF in \in {INADDR_BROADCAST, INADDR_ANY} THEN {TRUE}
  ELSE IF hit THEN {FALSE} ELSE BOOLEAN

\* The values in_broadcast may return.  The condition in its loop guards
\* the only return that follows, and a loop that ends without it reaches
\* the end of the function.  hit: an address of the interface's list is of
\* family AF_INET and one of its broadcast addresses is in.
in_broadcast(in, broadcast, hit) ==
  IF in \in {INADDR_BROADCAST, INADDR_ANY} THEN {TRUE}
  ELSE IF ~broadcast \/ hit THEN {FALSE}
  ELSE BOOLEAN
=============================================================================
