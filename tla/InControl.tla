----------------------------- MODULE InControl -----------------------------
(***************************************************************************)
(* Internet addresses: in_control of netinet/in.c, the list in_ifaddr and  *)
(* the lists of addresses of the interfaces, which share their elements,   *)
(* and the functions that classify an address.  ifioctl of net/if.c hands  *)
(* these commands on, with the interface that ifunit found for the name.   *)
(*                                                                         *)
(* in_ifinit, whose body is gone, does nothing: ia_addr, ia_net, the masks *)
(* of the classes and IFA_ROUTE keep the zeros of memset, in_ifscrub and   *)
(* the calls of rtinit have no effect.  The subnet mask, which no decision *)
(* of in_control depends on, is left out.  An access through a null        *)
(* pointer ends the program.                                               *)
(***************************************************************************)
EXTENDS IfRegistry, InAddress

CONSTANTS
  Lo,          \* loif
  PointToPoint, Broadcast,  \* the interfaces with these flags
  NameOf,      \* if_name and if_unit of every interface
  Values,      \* addresses a caller passes
  Quads,       \* addresses that are classified, byte by byte
  Spaces,      \* sizes of the buffer that ifconf fills
  SaLens,      \* what the uninitialised sa_len in ifconf may hold
  ZERO         \* 0.0.0.0

ASSUME InControlAssumption ==
  /\ Lo \in Ifs
  /\ PointToPoint \subseteq Ifs /\ Broadcast \subseteq Ifs
  /\ PointToPoint \cap Broadcast = {}
  /\ \A i, j \in Ifs : NameOf[i] = NameOf[j] => i = j
  /\ ZERO \notin Values /\ NULL \notin Values
  /\ Quads \subseteq Bytes4
  /\ Spaces \subseteq Int /\ SaLens \subseteq 0..255

VARIABLES
  in_ifaddr,      \* the list of internet addresses
  ia_ifp,         \* ifa_ifp of every in_ifaddr; NULL while it is not allocated
  dst,            \* ia_dstaddr, which is also ia_broadaddr
  in_interfaces,  \* counts the addresses made for external interfaces
  ret             \* the last call: in_control's interface, and the result

invars == <<in_ifaddr, ia_ifp, dst, in_interfaces>>
vars == <<regvars, invars, ret>>

Init ==
  /\ RegInit
  /\ in_ifaddr = <<>>
  /\ ia_ifp = [a \in Inets |-> NULL]
  /\ dst = [a \in Inets |-> ZERO]
  /\ in_interfaces = 0
  /\ ret = [ifp |-> NULL, err |-> "0"]

Alive == ret.err # "trap"

\* Commands, and what the argument holds: whether ifra_addr is of family
\* AF_INET and is zero, and which of the other addresses are given.
SetCommands == {"SIOCAIFADDR", "SIOCDIFADDR", "SIOCSIFADDR", "SIOCSIFNETMASK",
                "SIOCSIFDSTADDR"}
GetCommands == {"SIOCGIFADDR", "SIOCGIFNETMASK", "SIOCGIFDSTADDR", "SIOCGIFBRDADDR"}
Commands == SetCommands \cup GetCommands \cup {"SIOCSIFBRDADDR", "other"}
Arguments == [inet : BOOLEAN, zero : BOOLEAN, dst : Values \cup {NULL}]

\* A command reads only a part of its argument; the rest is one value.
Unread == [inet |-> FALSE, zero |-> FALSE, dst |-> NULL]
ArgumentsOf(cmd) ==
  CASE cmd = "SIOCAIFADDR" -> Arguments
    [] cmd = "SIOCDIFADDR" -> [inet : BOOLEAN, zero : BOOLEAN, dst : {NULL}]
    [] cmd \in {"SIOCSIFDSTADDR", "SIOCSIFBRDADDR"} ->
         {[Unread EXCEPT !.dst = d] : d \in Values \cup {NULL}}
    [] OTHER -> {Unread}

-----------------------------------------------------------------------------
(* The first switch: which address the command works on.                   *)

\* Mutant: the interfaces are compared.
Found_Compares(i) ==
  IF i = NULL THEN NULL ELSE FirstIn(in_ifaddr, LAMBDA a : ia_ifp[a] = i)

\* "if (ia->ia_ifp = ifp)": the first address of the list, which becomes
\* the interface's whoever it belonged to.
Found(i) == IF i = NULL \/ in_ifaddr = <<>> THEN NULL ELSE Head(in_ifaddr)

Stolen(i) == IF Found(i) = NULL THEN ia_ifp ELSE [ia_ifp EXCEPT ![Found(i)] = i]

\* The two commands that name an address: with one of the internet family
\* ia is read, NULL or not, and when it matches (ia_addr is always zero)
\* the test of the privilege is skipped.
Named(cmd) == cmd \in {"SIOCAIFADDR", "SIOCDIFADDR"}
Matched(cmd, i, arg) == Named(cmd) /\ arg.inet /\ arg.zero

\* The test with && refuses only a socket without any state.
Allowed(cmd, state) ==
  IF cmd = "SIOCSIFBRDADDR" THEN "priv" \in state ELSE state # {}

\* What in_control answers; "trap" is the end of the program.
Errors == {"0", "EPERM", "EINVAL", "EADDRNOTAVAIL", "EAFNOSUPPORT", "EOPNOTSUPP",
           "trap"}

\* Why the command ends in the first switch, "0" when it goes on.
Refusal(cmd, i, state, arg) ==
  LET ia == Found(i)
      setting == cmd \in SetCommands /\ ~Matched(cmd, i, arg)
  IN
  IF Named(cmd) /\ arg.inet /\ ia = NULL THEN "trap"
  ELSE IF cmd = "SIOCDIFADDR" /\ ~arg.inet /\ ia = NULL THEN "EADDRNOTAVAIL"
  ELSE IF setting /\ ~Allowed(cmd, state) THEN "EPERM"
  ELSE IF setting /\ i = NULL THEN "trap"
  ELSE IF cmd = "SIOCSIFBRDADDR" /\ ~Allowed(cmd, state) THEN "EPERM"
  ELSE IF cmd \in GetCommands \cup {"SIOCSIFBRDADDR"} /\ ia = NULL THEN "EADDRNOTAVAIL"
  ELSE "0"

\* A new address at the end of both lists.
Created(cmd, i, a) ==
  /\ cmd \in SetCommands
  /\ a \in Inets /\ ia_ifp[a] = NULL
  /\ in_ifaddr' = Append(in_ifaddr, a)
  /\ addrlist' = [addrlist EXCEPT ![i] = Append(@, a)]
  /\ ia_ifp' = [ia_ifp EXCEPT ![a] = i]
  /\ in_interfaces' = in_interfaces + (IF i = Lo THEN 0 ELSE 1)

-----------------------------------------------------------------------------
(* The second switch, on address a of interface i.                         *)

\* The driver's answer to SIOCSIFDSTADDR: slioctl wants an address of the
\* internet family, which ia_addr never is; leioctl refuses nothing.
DriverRefuses(i) == i \in PointToPoint

\* The destination a caller passes; one that is not of the internet family
\* is stored as it is.
Given(arg) == IF arg.dst = NULL THEN ZERO ELSE arg.dst

\* Mutant: the old address is not put back.
SIOCSIFDSTADDR_NoRestore(i, a, arg) ==
  IF i \in PointToPoint THEN dst' = [dst EXCEPT ![a] = Given(arg)] ELSE UNCHANGED dst

\* The destination is stored before the driver is asked, which is given the
\* address with the new destination in it; when it refuses, the one that was
\* there is stored again.
SIOCSIFDSTADDR(i, a, arg) ==
  LET oldaddr == dst[a]
      stored == [dst EXCEPT ![a] = Given(arg)]
      restored == [stored EXCEPT ![a] = oldaddr]
  IN \/ i \notin PointToPoint /\ UNCHANGED dst
     \/ i \in PointToPoint /\ DriverRefuses(i) /\ dst' = restored
     \/ i \in PointToPoint /\ ~DriverRefuses(i) /\ dst' = stored

\* Mutant: the destination is stored whether the caller gave one or not.
SIOCAIFADDR_Unasked(i, a, arg) ==
  IF i \in PointToPoint \cup Broadcast
    THEN dst' = [dst EXCEPT ![a] = arg.dst] ELSE UNCHANGED dst

\* in_ifinit answers 0.
SIOCAIFADDR(i, a, arg) ==
  IF i \in PointToPoint \cup Broadcast /\ arg.dst # NULL
    THEN dst' = [dst EXCEPT ![a] = arg.dst] ELSE UNCHANGED dst

\* The reply: 0 or the error of the second switch.
Reply(cmd, i) ==
  IF \/ cmd \in {"SIOCSIFDSTADDR", "SIOCGIFDSTADDR"} /\ i \notin PointToPoint
     \/ cmd \in {"SIOCSIFBRDADDR", "SIOCGIFBRDADDR"} /\ i \notin Broadcast
    THEN "EINVAL"
  ELSE IF cmd = "SIOCSIFDSTADDR" /\ DriverRefuses(i) THEN "EAFNOSUPPORT"
  ELSE IF cmd = "other" /\ i = NULL THEN "EOPNOTSUPP"
  ELSE IF cmd = "other" /\ i \notin Broadcast THEN "EINVAL"  \* slioctl, loioctl
  ELSE "0"

\* What the second switch stores in the address.
Store(cmd, i, a, arg) ==
  CASE cmd = "SIOCAIFADDR" -> SIOCAIFADDR(i, a, arg)
    [] cmd = "SIOCSIFDSTADDR" -> SIOCSIFDSTADDR(i, a, arg)
    [] cmd = "SIOCSIFBRDADDR" /\ Reply(cmd, i) = "0" ->
         dst' = [dst EXCEPT ![a] = Given(arg)]
    [] OTHER -> UNCHANGED dst

\* Mutant: the address stays on the list of internet addresses.
Unlinked_Half(i, a) ==
  /\ addrlist' = [addrlist EXCEPT ![i] = RemoveFirst(@, a)]
  /\ UNCHANGED in_ifaddr

\* SIOCDIFADDR takes the address off the list of interface i, if it is
\* there, and off in_ifaddr.  Its count of references is 0, so that
\* IFAFREE calls ifafree, which does nothing: the storage is never freed.
Unlinked(i, a) ==
  /\ addrlist' = [addrlist EXCEPT ![i] = RemoveFirst(@, a)]
  /\ in_ifaddr' = RemoveFirst(in_ifaddr, a)

-----------------------------------------------------------------------------
(* in_control(so, cmd, data, ifp), so_state = state.                       *)

Returns(i, e) == ret' = [ifp |-> i, err |-> e]

\* The command is refused; what the search has written stays.
Refuse(cmd, i, state, arg) ==
  /\ Refusal(cmd, i, state, arg) # "0"
  /\ ia_ifp' = Stolen(i)
  /\ Returns(i, Refusal(cmd, i, state, arg))
  /\ UNCHANGED <<regvars, in_ifaddr, dst, in_interfaces>>

\* The command works on the address found.
OnFound(cmd, i, state, arg) ==
  /\ Refusal(cmd, i, state, arg) = "0"
  /\ Found(i) # NULL
  /\ ia_ifp' = Stolen(i)
  /\ Returns(i, Reply(cmd, i))
  /\ IF cmd = "SIOCDIFADDR"
       THEN Unlinked(i, Found(i)) /\ UNCHANGED dst
       ELSE Store(cmd, i, Found(i), arg) /\ UNCHANGED <<addrlist, in_ifaddr>>
  /\ UNCHANGED <<ifnet, if_index, index, table, in_interfaces>>

\* The command makes an address and works on that, even where the second
\* switch then refuses it.
OnNew(cmd, i, state, arg, a) ==
  /\ Refusal(cmd, i, state, arg) = "0"
  /\ Found(i) = NULL
  /\ i # NULL
  /\ Created(cmd, i, a)
  /\ Store(cmd, i, a, arg)
  /\ Returns(i, Reply(cmd, i))
  /\ UNCHANGED <<ifnet, if_index, index, table>>

\* A command that needs no address.
Elsewhere(cmd, i, state, arg) ==
  /\ cmd = "other"
  /\ Found(i) = NULL
  /\ Returns(i, Reply(cmd, i))
  /\ UNCHANGED <<regvars, invars>>

in_control(cmd, i, state, arg) ==
  \/ Refuse(cmd, i, state, arg)
  \/ OnFound(cmd, i, state, arg)
  \/ \E a \in Inets : OnNew(cmd, i, state, arg, a)
  \/ Elsewhere(cmd, i, state, arg)

\* ifioctl: a command of its own reads or writes a field of the interface,
\* found or not; any other goes to the protocol of the socket, if it has
\* one.  (SIOCSIFFLAGS is modelled in PacketFlow, ifconf in IfRegistry.)
OwnCommand(name) ==
  /\ Returns(NULL, IF ifunit(name, NameOf) = NULL THEN "trap" ELSE "0")
  /\ UNCHANGED <<regvars, invars>>

NoProtocol ==
  /\ Returns(NULL, "EOPNOTSUPP")
  /\ UNCHANGED <<regvars, invars>>

ifioctl(name) ==
  \/ OwnCommand(name) \/ NoProtocol
  \/ \E cmd \in Commands, state \in {{}, {"priv"}, {"connected"}} :
       \E arg \in ArgumentsOf(cmd) :
         in_control(cmd, ifunit(name, NameOf), state, arg)

Attach == \E i \in Ifs : if_attach(i) /\ UNCHANGED <<invars, ret>>

Next ==
  /\ Alive
  /\ \/ Attach
     \/ \E name \in {NameOf[i] : i \in Ifs} \cup {NULL} : ifioctl(name)

Spec == Init /\ [][Next]_vars

-----------------------------------------------------------------------------
(* Looking an address up.                                                  *)

\* The descriptions of all addresses that the searches of IfRegistry read.
Described == [a \in Addrs |->
  IF a \in Ifs THEN LinkAddr(a)
  ELSE [family |-> "unspec", value |-> ZERO, dst |-> dst[a], mask |-> ZERO]]

\* INADDR_TO_IFP and IFP_TO_IA.
INADDR_TO_IFP(v) ==
  LET a == FirstIn(in_ifaddr, LAMBDA x : v = ZERO)
  IN IF a = NULL THEN NULL ELSE ia_ifp[a]

IFP_TO_IA(i) == FirstIn(in_ifaddr, LAMBDA a : ia_ifp[a] = i)

\* The list in_ifaddr for the functions of InAddress: the net and its mask
\* are those of memset; a subnet mask was set by some command or is zero.
Subnets(m) == [k \in DOMAIN in_ifaddr |->
  [net |-> INADDR_ANY, mask |-> INADDR_ANY, subnetmask |-> m]]

\* ia_addr is never of family AF_INET.
Broadcasts(in, i) == in_broadcast(in, i \in Broadcast, FALSE)

-----------------------------------------------------------------------------
(* Properties.                                                             *)

\* Every variable has a value of its type.
TypeOK ==
  /\ ifnet \in Seq(Ifs)
  /\ if_index \in Nat
  /\ index \in [Ifs -> Nat]
  /\ table \in Seq(Ifs \cup {NULL})
  /\ addrlist \in [Ifs -> Seq(Addrs)]
  /\ in_ifaddr \in Seq(Inets)
  /\ ia_ifp \in [Inets -> Ifs \cup {NULL}]
  /\ dst \in [Inets -> Values \cup {ZERO}]
  /\ in_interfaces \in Nat
  /\ ret \in [ifp : Ifs \cup {NULL}, err : Errors]

\* An address on in_ifaddr is there once and on the list of exactly one
\* interface, whoever took it over since: SIOCDIFADDR, which may search the
\* wrong interface's list, never leaves it on in_ifaddr.
ListedOnOneInterface ==
  /\ IsInjective(in_ifaddr)
  /\ \A a \in ToSet(in_ifaddr) :
       Cardinality({i \in Ifs : a \in ToSet(addrlist[i])}) = 1

\* Because the search takes over the first address it sees, there is never
\* more than one internet address, whatever the number of interfaces.
OneAddressOnly == Len(in_ifaddr) <= 1

\* Whichever interface in_control was last called for owns the address, by
\* both macros that relate the two, reading and failing calls included.
LastCallerOwns ==
  in_ifaddr # <<>> /\ ret.ifp # NULL =>
    /\ INADDR_TO_IFP(ZERO) = ret.ifp
    /\ IFP_TO_IA(ret.ifp) = Head(in_ifaddr)

\* A call that fails leaves the destination addresses as they were: the one
\* that SIOCSIFDSTADDR stored is put back when the driver refuses it.
FailureKeepsDst == [][ret'.err # "0" => dst' = dst]_vars

\* ifunit finds every attached interface by its name, and no other: ifioctl
\* reads through a null pointer for exactly the names that are not attached.
NamesFound ==
  \A i \in Ifs : ifunit(NameOf[i], NameOf) = IF i \in Attached THEN i ELSE NULL

\* ifa_ifwithaddr finds the link address of the first interface, or reads
\* through the null ifa_dstaddr of that address: no other address is found.
LookupFindsFirstOnly ==
  ifnet # <<>> => \A v \in Ifs \cup Values :
    ifa_ifwithaddr(Described, v) = IF v = Head(ifnet) THEN v ELSE "trap"

\* A search by the number of a link address agrees with the list.
LookupByNumber ==
  \A i \in Attached :
    ifa_ifwithnet(Described, "link", i, index[i], {<<"name", j, j>> : j \in Ifs}) = i

\* No search for an internet address by family, net or interface ever finds
\* one, because in_ifinit sets no family; the search by destination reads
\* through the link address of the first point-to-point interface.
NoInetAddressFound ==
  LET agree == {"name", ZERO} \X Values \X (Values \cup Ifs \cup {ZERO})
  IN /\ ifa_ifwithaf(Described, "inet") = NULL
     /\ \A v \in Values :
          /\ ifa_ifwithnet(Described, "inet", v, 0, agree) = NULL
          /\ \A i \in Attached : ifaof_ifpforaddr(Described, "inet", v, i, agree) = NULL
          /\ ifa_ifwithdstaddr(Described, v, PointToPoint)
               = IF PointToPoint \cap Attached = {} THEN NULL ELSE "trap"

\* The space left when m entries are stored, the first of which is a link
\* address, and where the k-th entry begins.
IfconfLeft(space, salen, m) ==
  IF m = 0 THEN space ELSE space - IFNAMSIZ - salen - IFREQ * (m - 1)
IfconfAt(salen, k) == IF k = 1 THEN 0 ELSE IFNAMSIZ + salen + IFREQ * (k - 2)

\* ifconf stores the addresses of the first interface, then the other
\* interfaces without theirs, and stops just where less space is left than an
\* entry needs, a negative one not counted.  The first entry is longer than
\* the others, and what lies between it and the second is what the
\* uninitialised length says.
IfconfStores(space, salen) ==
  LET r == ifconf(space, salen)
      own == addrlist[Head(ifnet)]
      n == Len(own) + Len(ifnet) - 1
  IN /\ Len(r) <= n
     /\ Len(r) = n \/ ~Roomy(IfconfLeft(space, salen, Len(r)))
     /\ \A k \in 1..Len(r) :
          /\ Roomy(IfconfLeft(space, salen, k - 1))
          /\ r[k] = [ifp |-> IF k <= Len(own) THEN Head(ifnet) ELSE ifnet[k - Len(own) + 1],
                     addr |-> IF k <= Len(own) THEN own[k] ELSE NULL,
                     at |-> IfconfAt(salen, k),
                     size |-> IF k = 1 THEN IFNAMSIZ + SOCKADDR_DL ELSE IFREQ]

IfconfReports ==
  ifnet # <<>> => \A space \in Spaces, salen \in SaLens : IfconfStores(space, salen)

\* print_global_ifaddr prints one entry per interface, and reads past the
\* end of the table just when the table is full.
PrintsEveryInterface ==
  ifnet # <<>> =>
    /\ print_global_ifaddr = print_global_ifnet
    /\ EntriesRead \subseteq DOMAIN table \/ if_index = Len(table)

\* Before the first internet address is made no destination is local, and
\* from then on every one is, of any net: ia_net and ia_netmask stay zero.
EveryAddressIsLocal ==
  \A q \in Quads : in_localaddr(q, Subnets(INADDR_ANY)) <=> in_ifaddr # <<>>

\* ntohl loses the two bytes that begin an address and takes the last for
\* the first: nets and the permission to forward do not depend on the bytes
\* that hold the net, whatever subnet mask was set.
NetIgnoresNetBytes ==
  \A q \in Quads, m \in {INADDR_ANY, INADDR_BROADCAST, <<255, 0, 0, 0>>} :
    LET low == <<0, 0, q[3], q[4]>>
    IN /\ in_netof(q, Subnets(m)) = in_netof(low, Subnets(m))
       /\ in_canforward(q) = in_canforward(low)

\* An interface that can broadcast does not recognise its own broadcast
\* address, set or not: in_broadcast ends without a value and may answer
\* either.  For an interface that cannot the answer is 0.
BroadcastUndecided ==
  \A q \in Quads \ {INADDR_ANY, INADDR_BROADCAST}, i \in Attached :
    Cardinality(Broadcasts(q, i)) = 2 <=> i \in Broadcast

\* The only internet address belongs to the interface of the last command.
LastCallerOwnsAll == OneAddressOnly /\ LastCallerOwns

\* What callers are told of the interfaces agrees with the registry, but for
\* the reads through null pointers and past the table that are named above.
AnswersAgree ==
  /\ NamesFound /\ LookupFindsFirstOnly /\ LookupByNumber /\ NoInetAddressFound
  /\ IfconfReports /\ PrintsEveryInterface

\* What becomes of the classes of addresses when the byte order macros lose
\* two bytes and ia_net is never set.
InternetClasses == EveryAddressIsLocal /\ NetIgnoresNetBytes /\ BroadcastUndecided

\* What in_control says of its search, "find address for this interface, if
\* it exists": an address of one interface does not become another's.
AddressKeepsInterface ==
  [][\A a \in Inets : ia_ifp[a] # NULL => ia_ifp'[a] = ia_ifp[a]]_vars
=============================================================================
