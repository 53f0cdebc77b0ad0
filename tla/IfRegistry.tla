----------------------------- MODULE IfRegistry -----------------------------
(***************************************************************************)
(* The list of interfaces of net/if.c: the list ifnet, the numbers of the  *)
(* interfaces, the table ifnet_addrs that if_attach doubles, and the list  *)
(* of addresses that begins at each interface; the functions that search   *)
(* them (ifunit, ifconf, the ifa_ifwith family) and those that print them  *)
(* (test.c).                                                               *)
(*                                                                         *)
(* An address (struct ifaddr) is an element of Addrs.  The link address    *)
(* that if_attach allocates is named by its interface.  Sequences stand    *)
(* for the linked lists; nothing takes an interface off a list.            *)
(***************************************************************************)
EXTENDS Integers, Sequences, SequencesExt, FiniteSetsExt

CONSTANTS
  Ifs,     \* the interfaces: le_softc, sl_softc and loif
  Inets,   \* storage of internet addresses (struct in_ifaddr)
  LIMIT,   \* initial value of if_indexlim
  NULL

ASSUME IfRegistryAssumption ==
  /\ LIMIT \in Nat \ {0}
  /\ Ifs \cap Inets = {}
  /\ NULL \notin Ifs \cup Inets

Addrs == Ifs \cup Inets

VARIABLES
  ifnet,     \* the interfaces, in the order of their attachment
  if_index,  \* the last number given
  index,     \* if_index of every interface, 0 before it is attached
  table,     \* ifnet_addrs; <<>> while it is NULL
  addrlist   \* if_addrlist of every interface

regvars == <<ifnet, if_index, index, table, addrlist>>

RegInit ==
  /\ ifnet = <<>>
  /\ if_index = 0
  /\ index = [i \in Ifs |-> 0]
  /\ table = <<>>
  /\ addrlist = [i \in Ifs |-> <<>>]

Attached == {ifnet[k] : k \in DOMAIN ifnet}

Nulls(n) == [k \in 1..n |-> NULL]

\* Mutant: the upper half is not cleared: it holds what was freed before,
\* here a link address.
Grown_Garbage ==
  IF table = <<>> THEN Nulls(LIMIT)
  ELSE IF if_index >= Len(table) THEN table \o [k \in DOMAIN table |-> table[k]]
  ELSE table

\* Mutant: the table is enlarged when it has overflowed.
Grown_OneLate ==
  IF table = <<>> THEN Nulls(LIMIT)
  ELSE IF if_index > Len(table) THEN table \o Nulls(Len(table))
  ELSE table

\* ifnet_addrs with room for one more: allocated, or doubled when full,
\* with the upper half cleared.
Grown ==
  IF table = <<>> THEN Nulls(LIMIT)
  ELSE IF if_index >= Len(table) THEN table \o Nulls(Len(table))
  ELSE table

\* Mutant: the entry is stored under the number, not below it.
if_attach_OffByOne(i) ==
  /\ i \notin Attached
  /\ ifnet' = Append(ifnet, i)
  /\ if_index' = if_index + 1
  /\ index' = [index EXCEPT ![i] = if_index + 1]
  /\ table' = [k \in 1..Len(Grown) |-> IF k = if_index + 2 THEN i ELSE Grown[k]]
  /\ addrlist' = [addrlist EXCEPT ![i] = <<i>>]

\* Mutant: the interface goes to the head of the list.
if_attach_AtHead(i) ==
  /\ i \notin Attached
  /\ ifnet' = <<i>> \o ifnet
  /\ if_index' = if_index + 1
  /\ index' = [index EXCEPT ![i] = if_index + 1]
  /\ table' = [k \in 1..Len(Grown) |-> IF k = if_index + 1 THEN i ELSE Grown[k]]
  /\ addrlist' = [addrlist EXCEPT ![i] = <<i>>]

\* Interface i goes to the end of the list, gets the next number and its
\* link address.  No caller attaches an interface twice.
if_attach(i) ==
  /\ i \notin Attached
  /\ ifnet' = Append(ifnet, i)
  /\ if_index' = if_index + 1
  /\ index' = [index EXCEPT ![i] = if_index + 1]
  /\ table' = [k \in 1..Len(Grown) |-> IF k = if_index + 1 THEN i ELSE Grown[k]]
  /\ addrlist' = [addrlist EXCEPT ![i] = <<i>>]

RegNext == \E i \in Ifs : if_attach(i)

RegSpec == RegInit /\ [][RegNext]_regvars

-----------------------------------------------------------------------------
(* Searching.  A struct ifaddr is described by a record: the family and    *)
(* value of ifa_addr, and ifa_dstaddr and ifa_netmask, which may be NULL.  *)

\* Mutant: ifa_dstaddr is set, to the address itself.
LinkAddr_Broadcast(i) ==
  [family |-> "link", value |-> i, dst |-> i, mask |-> "name"]

\* The link address of i, as if_attach fills it in: ifa_dstaddr stays NULL.
LinkAddr(i) == [family |-> "link", value |-> i, dst |-> NULL, mask |-> "name"]

\* All addresses of the interfaces q, in the order of the two loops.
AddrsOf(q) == FlattenSeq([k \in DOMAIN q |-> addrlist[q[k]]])

\* The first element of s that satisfies P, NULL if none does.
FirstIn(s, P(_)) ==
  LET found == {k \in DOMAIN s : P(s[k])}
  IN IF found = {} THEN NULL ELSE s[Min(found)]

\* Mutant: the search begins behind the first interface.
ifunit_SkipsFirst(name, nameof) ==
  FirstIn(SubSeq(ifnet, 2, Len(ifnet)), LAMBDA i : nameof[i] = name)

ifunit(name, nameof) == FirstIn(ifnet, LAMBDA i : nameof[i] = name)

\* memcmp reads through ifa_dstaddr without looking whether it is NULL.
\* "trap" is that access; D describes the addresses.
DstHit(D, v, a) == D[a].dst = NULL \/ D[a].dst = v
DstResult(D, v, a) == IF a = NULL THEN NULL ELSE IF D[a].dst = v THEN a ELSE "trap"

ifa_ifwithaddr(D, v) ==
  LET a == FirstIn(AddrsOf(ifnet), LAMBDA x : D[x].value = v \/ DstHit(D, v, x))
  IN IF a = NULL \/ D[a].value = v THEN a ELSE DstResult(D, v, a)

ifa_ifwithaf(D, af) == FirstIn(AddrsOf(ifnet), LAMBDA a : D[a].family = af)

\* p2p is the set of interfaces with IFF_POINTOPOINT; the others are skipped.
ifa_ifwithdstaddr(D, v, p2p) ==
  LET lists == [k \in DOMAIN ifnet |-> IF ifnet[k] \in p2p THEN addrlist[ifnet[k]] ELSE <<>>]
  IN DstResult(D, v, FirstIn(FlattenSeq(lists), LAMBDA a : DstHit(D, v, a)))

\* agree: the triples of a mask and two values that agree where the mask has
\* ones.  rn_refines answers 0, so the first match is kept.
ifa_ifwithnet(D, af, v, sdl_index, agree) ==
  IF af = "link" /\ sdl_index \in 1..if_index
    THEN table[sdl_index]
    ELSE FirstIn(AddrsOf(ifnet), LAMBDA a :
           /\ D[a].family = af /\ D[a].mask # NULL
           /\ <<D[a].mask, v, D[a].value>> \in agree)

\* The address of interface i that fits v, or else the last of the family.
ifaof_ifpforaddr(D, af, v, i, agree) ==
  LET s == addrlist[i]
      of == {k \in DOMAIN s : D[s[k]].family = af}
      hit == FirstIn(s, LAMBDA a :
        /\ D[a].family = af
        /\ IF D[a].mask = NULL THEN D[a].value = v \/ (D[a].dst # NULL /\ D[a].dst = v)
           ELSE <<D[a].mask, v, D[a].value>> \in agree)
  IN IF hit # NULL \/ of = {} THEN hit ELSE s[Max(of)]

\* The search is written, its test is not.
ifa_ifwithroute == NULL

-----------------------------------------------------------------------------
(* ifconf.  Entries are stored into a buffer of ifc_len bytes.             *)

IFNAMSIZ == 16
SOCKADDR == 16              \* sizeof(struct sockaddr)
SOCKADDR_DL == 20           \* sizeof(struct sockaddr_dl)
IFREQ == IFNAMSIZ + SOCKADDR  \* sizeof(struct ifreq)

\* if_attach sets the length of a link address, nobody that of an internet
\* address.
sa_len(a) == IF a \in Ifs THEN SOCKADDR_DL ELSE 0

\* Mutant: the address list is taken anew for every interface.
IfconfItems_EachList ==
  FlattenSeq([k \in DOMAIN ifnet |->
    [j \in DOMAIN addrlist[ifnet[k]] |->
       [ifp |-> ifnet[k], addr |-> addrlist[ifnet[k]][j]]]])

\* What the two loops come to, in order.  The list of addresses is taken
\* once, from the first interface (it is read through a null pointer if there
\* is none); the others come with an address of zeros.
IfconfItems ==
  LET i == Head(ifnet)
  IN [j \in DOMAIN addrlist[i] |-> [ifp |-> i, addr |-> addrlist[i][j]]]
       \o [k \in DOMAIN Tail(ifnet) |-> [ifp |-> Tail(ifnet)[k], addr |-> NULL]]

\* space > sizeof(ifr): an int is compared with a size, so that a negative
\* space counts as room.
Roomy(space) == space < 0 \/ space > IFREQ

\* Mutant: the pointer advances by what was copied.
IfconfEntry_OwnLength(s, item) ==
  LET wide == item.addr # NULL /\ sa_len(item.addr) > SOCKADDR
      size == IFNAMSIZ + IF wide THEN sa_len(item.addr) ELSE SOCKADDR
  IN IF ~Roomy(s.space) THEN s
     ELSE [space |-> s.space - size, at |-> s.at + size, salen |-> s.salen,
           out |-> Append(s.out, [ifp |-> item.ifp, addr |-> item.addr,
                                  at |-> s.at, size |-> size])]

\* One round.  An address that is longer than a struct sockaddr is copied
\* whole, but the pointer and the space advance by the length of the address
\* in ifr, which is that of an earlier entry or was never set.
IfconfEntry(s, item) ==
  LET wide == item.addr # NULL /\ sa_len(item.addr) > SOCKADDR
      size == IFNAMSIZ + IF wide THEN sa_len(item.addr) ELSE SOCKADDR
      step == IFNAMSIZ + IF wide THEN s.salen ELSE SOCKADDR
  IN IF ~Roomy(s.space) THEN s
     ELSE [space |-> s.space - step,
           at |-> s.at + step,
           salen |-> IF wide THEN s.salen
                     ELSE IF item.addr = NULL THEN 0 ELSE sa_len(item.addr),
           out |-> Append(s.out, [ifp |-> item.ifp, addr |-> item.addr,
                                  at |-> s.at, size |-> size])]

IfconfBegin(space, salen) ==
  [space |-> space, at |-> 0, salen |-> salen, out |-> <<>>]

\* The entries that ifconf stores, with their places in the buffer and their
\* sizes, for ifc_len = space and salen in the uninitialised ifr.
ifconf(space, salen) ==
  FoldLeft(IfconfEntry, IfconfBegin(space, salen), IfconfItems).out

-----------------------------------------------------------------------------
(* Printing.                                                               *)

print_global_ifnet == ifnet

print_i_global_ifnet(n) == IF n < Len(ifnet) THEN ifnet[n + 1] ELSE NULL

\* Mutant: the loop stops one entry early.
print_global_ifaddr_Short == SubSeq(table, 1, if_index - 1)

\* The entries that are printed, up to the first NULL.
print_global_ifaddr ==
  LET end == {k \in 1..if_index : table[k] = NULL}
  IN SubSeq(table, 1, IF end = {} THEN if_index ELSE Min(end) - 1)

\* *pifa is read before i is compared with if_index: the loop looks at one
\* entry more than it prints.
EntriesRead == 1..(Len(print_global_ifaddr) + 1)

print_i_global_ifaddr(n) == table[n + 1]

-----------------------------------------------------------------------------
(* Properties.                                                             *)

\* Interfaces are numbered 1, 2, ... in the order of the list, and the
\* table of addresses has, under the number of every attached interface,
\* the link address that heads its own list, however often it was doubled.
NumbersMatchTable ==
  /\ if_index = Len(ifnet)
  /\ if_index <= Len(table)
  /\ \A k \in DOMAIN ifnet :
       /\ index[ifnet[k]] = k
       /\ table[k] = ifnet[k]
       /\ addrlist[ifnet[k]] # <<>> /\ addrlist[ifnet[k]][1] = ifnet[k]

\* The rest of the table is clear, so that a scan for the first NULL ends
\* at if_index.
RestIsClear == \A k \in DOMAIN table : k > if_index => table[k] = NULL

\* An attached interface stays attached, at its place and with its number.
NoInterfaceLost ==
  [][/\ IsPrefix(ifnet, ifnet')
     /\ \A i \in Attached : index'[i] = index[i]]_regvars

\* What the walks of test.c rely on: numbers, table and lists agree, and the
\* scan for NULL ends where the numbers do, however often the table grew.
TableFaithful == NumbersMatchTable /\ RestIsClear
=============================================================================
