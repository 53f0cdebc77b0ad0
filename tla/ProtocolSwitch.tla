--------------------------- MODULE ProtocolSwitch ---------------------------
(***************************************************************************)
(* The list of protocol domains and their switch tables: domaininit, the   *)
(* timers, pfctlinput and the two searches of kern/uipc_domain.c, with the *)
(* one caller of pfctlinput, if_down of net/if.c.                          *)
(*                                                                         *)
(* A domain is named by its dom_family.  Its table is a sequence of        *)
(* entries, of which a record keeps the type, the protocol number, the     *)
(* flags, and the hooks that are not null.  domaininit links the domains   *)
(* before it initialises them: the four uses of ADDDOMAIN are commented    *)
(* out with the tables they name, so that the list stays empty unless a    *)
(* build fills them in.                                                    *)
(***************************************************************************)
EXTENDS Integers, SequencesExt, FiniteSetsExt

CONSTANTS
  Domains,   \* values of dom_family
  Switch,    \* the table from dom_protosw to dom_protoswNPROTOSW
  Lists,     \* the domains ADDDOMAIN is used for, in the order of its uses
  AddrLists, \* the addresses of an interface that goes down
  LINKHDR,   \* max_linkhdr before domaininit
  PROTOHDR,  \* max_protohdr as the pr_init hooks leave it
  MHLEN,     \* room of an mbuf with a packet header
  NULL

Types == {"stream", "dgram", "raw", "none"}
Hooks == {"init", "fasttimo", "slowtimo", "ctlinput"}
Flags == {"ATOMIC", "ADDR", "CONNREQUIRED", "WANTRCVD"}
Protosw == [type : Types, protocol : Nat, flags : SUBSET Flags, hooks : SUBSET Hooks]

ASSUME ProtocolSwitchAssumption ==
  /\ Switch \in [Domains -> Seq(Protosw) \ {<<>>}]
  /\ Lists \subseteq Seq(Domains) /\ \A ds \in Lists : IsInjective(ds)
  /\ \A q \in AddrLists : q \in Seq(ToSet(q))
  /\ LINKHDR \in Nat /\ PROTOHDR \in Nat /\ MHLEN \in Nat
  /\ NULL \notin Domains \cup (Domains \X Nat)

VARIABLES
  domains,  \* the list, from its head on
  ready,    \* the entries whose pr_init was called, or that have none
  calls,    \* the hooks the last operation called: entry, hook, argument
  room      \* max_linkhdr, max_hdr and max_datalen

psvars == <<domains, ready, calls, room>>

PsInit ==
  /\ domains = <<>>
  /\ ready = {}
  /\ calls = <<>>
  /\ room = [linkhdr |-> LINKHDR, hdr |-> 0, datalen |-> 0]

\* An entry is named by its domain and its place in the table.
Entries == UNION {{<<d, k>> : k \in DOMAIN Switch[d]} : d \in Domains}
Entry(e) == Switch[e[1]][e[2]]

\* All entries of the domains ds, in the order of the two loops.
EntriesOf(ds) ==
  FlattenSeq([j \in DOMAIN ds |-> [k \in DOMAIN Switch[ds[j]] |-> <<ds[j], k>>]])

\* Those of them whose pointer for a hook is not null.
Hooked(ds, hook) ==
  LET all == EntriesOf(ds)
  IN FlattenSeq([k \in DOMAIN all |->
                   IF hook \in Entry(all[k]).hooks THEN <<all[k]>> ELSE <<>>])

\* The calls of one walk over the domains ds for a hook.  dom_init, which
\* domaininit calls before the hooks of a domain, is left out.
Walk(ds, hook, arg) ==
  LET with == Hooked(ds, hook)
  IN [k \in DOMAIN with |-> [entry |-> with[k], hook |-> hook, arg |-> arg]]

-----------------------------------------------------------------------------
(* Operations.                                                             *)

\* Mutant: the hooks are called before the domains are linked.
domaininit_LinksLast(ds) ==
  /\ domains = <<>>
  /\ domains' = Reverse(ds)
  /\ calls' = Walk(domains, "init", NULL)
  /\ ready' = ToSet(EntriesOf(domains))
  /\ room' = [linkhdr |-> Max({LINKHDR, 16}), hdr |-> Max({LINKHDR, 16}) + PROTOHDR,
              datalen |-> MHLEN - (Max({LINKHDR, 16}) + PROTOHDR)]

\* Mutant: max_linkhdr is raised after it was used.
domaininit_RaisesLate(ds) ==
  /\ domains = <<>>
  /\ domains' = Reverse(ds)
  /\ calls' = Walk(domains', "init", NULL)
  /\ ready' = ToSet(EntriesOf(domains'))
  /\ room' = [linkhdr |-> Max({LINKHDR, 16}), hdr |-> LINKHDR + PROTOHDR,
              datalen |-> MHLEN - (LINKHDR + PROTOHDR)]

\* Every use of ADDDOMAIN puts a domain at the head.  max_datalen is an int
\* and may be negative.
domaininit(ds) ==
  LET linkhdr == Max({LINKHDR, 16})
      hdr == linkhdr + PROTOHDR
  IN
  /\ domains = <<>>
  /\ domains' = Reverse(ds)
  /\ calls' = Walk(domains', "init", NULL)
  /\ ready' = ToSet(EntriesOf(domains'))
  /\ room' = [linkhdr |-> linkhdr, hdr |-> hdr, datalen |-> MHLEN - hdr]

pfslowtimo ==
  /\ calls' = Walk(domains, "slowtimo", NULL)
  /\ UNCHANGED <<domains, ready, room>>

pffasttimo ==
  /\ calls' = Walk(domains, "fasttimo", NULL)
  /\ UNCHANGED <<domains, ready, room>>

\* Mutant: only the domain of the address, here its family, is told.
pfctlinput_OwnFamily(sa) ==
  Walk(SelectSeq(domains, LAMBDA d : d = sa), "ctlinput", sa)

\* The calls for one address: every domain, whatever the address's family.
pfctlinput(sa) == Walk(domains, "ctlinput", sa)

\* An interface goes down: one round for each address on its list.
if_down(addrlist) ==
  /\ calls' = FlattenSeq([k \in DOMAIN addrlist |-> pfctlinput(addrlist[k])])
  /\ UNCHANGED <<domains, ready, room>>

-----------------------------------------------------------------------------
(* Searching.                                                              *)

\* The first entry of the domain with that type, NULL if there is none.
pffindtype(family, type) ==
  LET found == IF family \in ToSet(domains)
                 THEN {k \in DOMAIN Switch[family] : Switch[family][k].type = type}
                 ELSE {}
  IN IF found = {} THEN NULL ELSE <<family, Min(found)>>

\* Mutant: the last entry is the wildcard of any type.
pffindproto_AnyType(family, protocol, type) ==
  IF pffindtype(family, type) # NULL THEN pffindtype(family, type)
  ELSE IF family \in ToSet(domains) /\ protocol = 0
    THEN <<family, Len(Switch[family])>>
  ELSE NULL

\* The protocol does not take part in the search.  A wildcard raw socket of
\* a domain without a raw entry gets the last entry, whatever its type.
pffindproto(family, protocol, type) ==
  IF pffindtype(family, type) # NULL THEN pffindtype(family, type)
  ELSE IF family \in ToSet(domains) /\ type = "raw" /\ protocol = 0
    THEN <<family, Len(Switch[family])>>
  ELSE NULL

-----------------------------------------------------------------------------
(* Properties.                                                             *)

\* protosw.h: "A protocol is called through the pr_init entry before any
\* other."  Timers that fire, and interfaces that go down, before
\* domaininit or after it, reach only protocols that were initialised.
InitBeforeOthers ==
  \A k \in DOMAIN calls : calls[k].hook # "init" => calls[k].entry \in ready

\* An interface that goes down is reported to every protocol that wants to
\* know, of every domain, once for each of its addresses, of any family.
EveryoneTold ==
  \A e \in ToSet(EntriesOf(domains)), k \in DOMAIN calls :
    (calls[k].hook = "ctlinput" /\ "ctlinput" \in Entry(e).hooks) =>
      Cardinality({j \in DOMAIN calls : calls[j] = [calls[k] EXCEPT !.entry = e]})
        = Cardinality({j \in DOMAIN calls : calls[j] = calls[k]})

\* Once domaininit has run, a packet of max_datalen bytes fits behind the
\* largest headers in one mbuf, and an Ethernet header into max_linkhdr.
HeadersFit ==
  domains # <<>> => /\ room.hdr + room.datalen = MHLEN
                    /\ room.linkhdr >= 16 /\ room.hdr >= 16 + PROTOHDR

\* No entry behind the first of its type in a table can be found by any
\* combination of family, protocol and type, but for the last of a table
\* that has no raw entry: ICMP and IGMP sockets are raw IP sockets.
FirstOfTypeOnly ==
  \A f \in Domains, p \in {0} \cup {Entry(e).protocol : e \in Entries}, t \in Types :
    LET e == pffindproto(f, p, t)
    IN e # NULL =>
         \/ /\ Entry(e).type = t
            /\ \A k \in 1..e[2] - 1 : Switch[f][k].type # t
         \/ /\ t = "raw" /\ p = 0 /\ e[2] = Len(Switch[f])
            /\ \A k \in DOMAIN Switch[f] : Switch[f][k].type # "raw"

\* What a protocol may rely on once domaininit has run: it is initialised
\* before it is called, told of every interface that goes down, its headers
\* fit, and sockets of its type find it or the first entry of that type.
DomainsReady == InitBeforeOthers /\ EveryoneTold /\ HeadersFit /\ FirstOfTypeOnly
=============================================================================
