----------------------------- MODULE PacketFlow -----------------------------
(***************************************************************************)
(* The way of a packet between an Ethernet, the loopback interface and the *)
(* input queues of the protocols: leattach, leread, lestart and leioctl of *)
(* hp300/dev/if_le.c, ether_output and ether_input of net/if_ethersubr.c,  *)
(* loopattach, looutput and loioctl of net/if_loop.c, and the flag word of *)
(* an interface as ifioctl, if_down and if_up of net/if.c change it.       *)
(*                                                                         *)
(* An element of Packets is the storage of a packet, its first mbuf, which *)
(* malloc hands out and m_freem gives back many times.  The queues are the *)
(* lists of net/if.h through m_nextpkt.  What malloc and free do is taken  *)
(* to be: malloc hands out storage that is not allocated, whatever still   *)
(* refers to it; free leaves the contents of storage alone, and changes    *)
(* nothing about storage that is free already.  Counters of statistics are *)
(* left out.  Handlers run to completion.                                  *)
(***************************************************************************)
EXTENDS Naturals

CONSTANTS
  Ethers,    \* the le_softc structures
  Lo,        \* loif
  Packets,
  Types,     \* values of ether_type, as the machine reads them from a frame
  Requests,  \* values of ifr_flags
  RoutesTo,  \* routes a packet is sent along, NULL for none
  Leading,   \* whether packets are built with room in front of their data
  QMAX,      \* ifqmaxlen and IFQ_MAXLEN
  LETBUF,    \* transmit buffers of a LANCE
  NULL

Ifs == Ethers \cup {Lo}

\* The if_snd of every interface, ipintrq and arpintrq.
InputQueues == {"ip", "arp"}
Queues == Ifs \cup InputQueues

\* A route: its own state, and that of the route to its gateway.  "rejects"
\* is RTF_REJECT, not expired, on the one that is used in the end.
Routes == [up : BOOLEAN, gateway : BOOLEAN,
           gwroute : {"none", "down", "up"}, rejects : BOOLEAN]

Flags == {"UP", "BROADCAST", "LOOPBACK", "RUNNING", "OACTIVE", "SIMPLEX",
          "MULTICAST", "PROMISC"}
IFF_CANTCHANGE == {"BROADCAST", "RUNNING", "OACTIVE", "SIMPLEX", "MULTICAST"}

ASSUME PacketFlowAssumption ==
  /\ Lo \notin Ethers /\ Ifs \cap InputQueues = {}
  /\ \A t \in Types : t \in Nat /\ t < 65536
  /\ Requests \subseteq SUBSET Flags
  /\ RoutesTo \subseteq Routes \cup {NULL}
  /\ Leading \subseteq BOOLEAN
  /\ QMAX \in Nat /\ LETBUF \in Nat
  /\ NULL \notin Packets

ETHERTYPE_IP == 2048
ETHERTYPE_ARP == 2054
ETHERMTU == 1500

VARIABLES
  flags,    \* if_flags
  output,   \* the interfaces whose if_output is set
  txcnt,    \* sc_txcnt
  ifq,      \* ifq_head, ifq_tail and ifq_len of every queue; the pointers,
            \* which nothing reads while the length is 0, are then NULL
  maxlen,   \* their ifq_maxlen
  nextpkt,  \* m_nextpkt of all storage, allocated or not
  live,     \* storage that malloc handed out and nobody freed
  again,    \* storage that was freed more than once
  leaked,   \* live packets that nothing refers to any more
  reused,   \* malloc has handed out storage that an if_snd refers to
  stopped,  \* the program has followed NULL
  header,   \* what the first mbuf of a packet begins with
  ret       \* the last call: the packet and the error, if it failed

ifvars == <<flags, output, maxlen>>
queues == <<ifq, nextpkt>>
storage == <<live, again, leaked, reused>>
vars == <<flags, output, txcnt, ifq, maxlen, nextpkt, live, again, leaked,
          reused, stopped, header, ret>>

Empty == [head |-> NULL, tail |-> NULL, len |-> 0]
NoError == [pkt |-> NULL, err |-> "0"]

\* Static storage; only arpintrq has an initialiser.
Init ==
  /\ flags = [i \in Ifs |-> {}]
  /\ output = {}
  /\ txcnt = [i \in Ethers |-> 0]
  /\ ifq = [q \in Queues |-> Empty]
  /\ maxlen = [q \in Queues |-> IF q = "arp" THEN QMAX ELSE 0]
  /\ nextpkt = [m \in Packets |-> NULL]
  /\ live = {} /\ again = {} /\ leaked = {}
  /\ reused = FALSE /\ stopped = FALSE
  /\ header = [m \in Packets |-> "none"]
  /\ ret = NoError

-----------------------------------------------------------------------------
(* Queues.                                                                 *)

\* The first n values of a pointer that starts at h and follows the links
\* nx, NULL from where they end.
Walk(h, n, nx) ==
  CHOOSE w \in [1..n -> Packets \cup {NULL}] :
    \A k \in 1..n : w[k] = IF k = 1 THEN h
                           ELSE IF w[k-1] = NULL THEN NULL ELSE nx[w[k-1]]

\* The packets that ifq_len steps from ifq_head come across.
Path(q) == Walk(ifq[q].head, ifq[q].len, nextpkt)
OnQueue(q) == {Path(q)[k] : k \in 1..ifq[q].len} \ {NULL}

\* Mutant: the limit is tested one too late.
IF_QFULL_OneLate(q) == ifq[q].len > maxlen'[q]

\* ether_input sets the limit of ipintrq before it tests it.
IF_QFULL(q) == ifq[q].len >= maxlen'[q]

\* MGETHDR, when the packet was built, has cleared its m_nextpkt.
Cleared(m) == [nextpkt EXCEPT ![m] = NULL]

\* IF_ENQUEUE: the links, and the three fields of the queue.
Linked(q, m) ==
  IF ifq[q].len = 0 THEN Cleared(m)
  ELSE LET tail == ifq[q].tail
       IN [Cleared(m) EXCEPT ![m] = Cleared(m)[tail], ![tail] = m]

Longer(q, m) ==
  [head |-> IF ifq[q].len = 0 THEN m ELSE ifq[q].head,
   tail |-> m, len |-> ifq[q].len + 1]

\* n times IF_DEQUEUE, from the queue f with the links nx.
Shorter(f, n, nx) ==
  IF f.len = n THEN Empty
  ELSE [f EXCEPT !.head = Walk(f.head, n + 1, nx)[n + 1], !.len = @ - n]

IF_ENQUEUE(q, m) ==
  /\ nextpkt' = Linked(q, m)
  /\ ifq' = [ifq EXCEPT ![q] = Longer(q, m)]

\* m goes on no queue.
NotQueued(m) == nextpkt' = Cleared(m) /\ UNCHANGED ifq

-----------------------------------------------------------------------------
(* Storage.                                                                *)

Fresh == Packets \ live

\* The caller built m; it owns m until the called function takes it.
Build(m) ==
  /\ m \in Fresh
  /\ again' = again \ {m}
  /\ reused' = (reused \/ \E i \in Ifs : m \in OnQueue(i))

\* m was built, handed to a function and is released by it.
Passing(m) == Build(m) /\ live' = live /\ leaked' = leaked \ {m}

\* m was built and nobody refers to it when the function has returned.
Leaking(m) == Build(m) /\ live' = live \cup {m} /\ leaked' = leaked \cup {m}

\* m was built and is put on an input queue.
Keeping(m) == Build(m) /\ live' = live \cup {m} /\ leaked' = leaked \ {m}

\* m_freem of storage that is not allocated is noted.
Freed(ms) == live' = live \ ms /\ again' = again \cup (ms \ live)

Returns(m, e) == ret' = IF e = "0" THEN NoError ELSE [pkt |-> m, err |-> e]

-----------------------------------------------------------------------------
(* Attaching.                                                              *)

leattach(i) ==
  /\ i \notin output
  /\ flags' = [flags EXCEPT ![i] = {"SIMPLEX", "BROADCAST", "MULTICAST"}]
  /\ output' = output \cup {i}
  /\ maxlen' = [maxlen EXCEPT ![i] = QMAX]
  /\ ret' = NoError
  /\ UNCHANGED <<txcnt, queues, storage, stopped, header>>

loopattach ==
  /\ Lo \notin output
  /\ flags' = [flags EXCEPT ![Lo] = {"MULTICAST", "LOOPBACK"}]
  /\ output' = output \cup {Lo}
  /\ ret' = NoError
  /\ UNCHANGED <<maxlen, txcnt, queues, storage, stopped, header>>

\* Mutant: the limit is one more than ifqmaxlen.
ifinit_OneMore ==
  /\ maxlen' = [q \in Queues |-> IF q \in output THEN QMAX + 1 ELSE maxlen[q]]
  /\ ret' = NoError
  /\ UNCHANGED <<flags, output, txcnt, queues, storage, stopped, header>>

\* ifinit visits the attached interfaces.
ifinit ==
  /\ maxlen' = [q \in Queues |-> IF q \in output THEN QMAX ELSE maxlen[q]]
  /\ ret' = NoError
  /\ UNCHANGED <<flags, output, txcnt, queues, storage, stopped, header>>

-----------------------------------------------------------------------------
(* Receiving.                                                              *)

\* c[0] >> 8 is zero and c[1] << 8 puts the high byte back where it was.
htons(s) == (s \div 256) * 256
ntohs(s) == htons(s)

\* Mutant: a packet for a full queue is released and queued all the same.
ether_input_NoElse(i, m, t, up) ==
  LET type == htons(t)
      q == IF type = ETHERTYPE_IP THEN "ip" ELSE "arp"
  IN
  /\ maxlen' = [maxlen EXCEPT !["ip"] = QMAX]
  /\ IF up /\ type \in {ETHERTYPE_IP, ETHERTYPE_ARP}
       THEN IF_ENQUEUE(q, m) /\ (IF IF_QFULL(q) THEN Passing(m) ELSE Keeping(m))
       ELSE Passing(m) /\ NotQueued(m)

\* The packet of a frame of type t.  A type that is no larger than ETHERMTU
\* (802.3) is neither queued nor released.
ether_input(i, m, t, up) ==
  LET type == htons(t)
      q == IF type = ETHERTYPE_IP THEN "ip" ELSE "arp"
  IN
  /\ maxlen' = [maxlen EXCEPT !["ip"] = QMAX]
  /\ IF ~up
       THEN Passing(m) /\ NotQueued(m)
     ELSE IF type \notin {ETHERTYPE_IP, ETHERTYPE_ARP}
       THEN /\ IF t > ETHERMTU THEN Passing(m) ELSE Leaking(m)
            /\ NotQueued(m)
     ELSE IF IF_QFULL(q)
       THEN Passing(m) /\ NotQueued(m)
       ELSE Keeping(m) /\ IF_ENQUEUE(q, m)

\* A frame of type t has arrived for unit i, attached or not: m_devget
\* copies it into m and ether_input queues m.  The flags are overwritten.
\* A runt is counted and then handled like any other frame.
leread(i, m, t) ==
  /\ flags' = [flags EXCEPT ![i] = {"UP"}]
  /\ ether_input(i, m, ntohs(t), "UP" \in flags'[i])
  /\ header' = [header EXCEPT ![m] = "none"]
  /\ ret' = NoError
  /\ UNCHANGED <<output, txcnt, stopped>>

-----------------------------------------------------------------------------
(* Sending on the Ethernet.                                                *)

\* rtalloc1 finds no route.
RouteError(rt) ==
  IF ~rt.up \/ (rt.gateway /\ rt.gwroute # "up") THEN "EHOSTUNREACH"
  ELSE IF ~rt.rejects THEN "0"
  ELSE IF rt.gateway THEN "EHOSTUNREACH" ELSE "EHOSTDOWN"

\* How many of the n frames on if_snd lestart moves to the transmit buffers.
lestart(i, n) ==
  IF "RUNNING" \notin flags[i] \/ n = 0 THEN 0
  ELSE IF txcnt[i] + 1 >= LETBUF THEN 1
  ELSE IF n < LETBUF - txcnt[i] THEN n ELSE LETBUF - txcnt[i]

\* The error of ether_output before the header is made, "0" for none.
Refusal(af, rt) ==
  IF rt # NULL /\ RouteError(rt) # "0" THEN RouteError(rt)
  ELSE IF af = "other" THEN "EAFNOSUPPORT" ELSE "0"

\* Mutant: the error returns forget the packet.
Refused_Keeps(i, m, af, rt) ==
  /\ Refusal(af, rt) # "0"
  /\ Keeping(m) /\ NotQueued(m) /\ Returns(m, Refusal(af, rt))
  /\ UNCHANGED <<flags, txcnt>>

\* senderr before the header is made: the packet is released.
Refused(i, m, af, rt) ==
  /\ Refusal(af, rt) # "0"
  /\ Passing(m) /\ NotQueued(m) /\ Returns(m, Refusal(af, rt))
  /\ UNCHANGED <<flags, txcnt>>

\* arpresolve always answers 0, "not resolved": ether_output returns at
\* once and nobody keeps the packet.
Unresolved(i, m, af, rt) ==
  /\ Refusal(af, rt) = "0" /\ af = "inet"
  /\ Leaking(m) /\ NotQueued(m) /\ ret' = NoError
  /\ UNCHANGED <<flags, txcnt>>

\* The queue is full: IF_DROP, and the chain with the header is released.
Full(i, m, af, rt) ==
  /\ Refusal(af, rt) = "0" /\ af \in {"unspec", "iso"} /\ IF_QFULL(i)
  /\ Passing(m) /\ NotQueued(m) /\ Returns(m, "ENOBUFS")
  /\ UNCHANGED <<flags, txcnt>>

\* m0 goes on if_snd, lestart is called, and control falls into "bad:",
\* which releases the chain that begins or ends with m0.
Enqueued(i, m, af, rt) ==
  /\ Refusal(af, rt) = "0" /\ af \in {"unspec", "iso"} /\ ~IF_QFULL(i)
  /\ LET n == IF "OACTIVE" \in flags[i] THEN 0
              ELSE lestart(i, ifq[i].len + 1)
     IN /\ nextpkt' = Linked(i, m)
        /\ ifq' = [ifq EXCEPT ![i] = Shorter(Longer(i, m), n, Linked(i, m))]
        /\ txcnt' = IF n = 0 THEN txcnt ELSE [txcnt EXCEPT ![i] = @ + n]
        /\ flags' = IF n = 0 \/ txcnt[i] + n < LETBUF THEN flags
                    ELSE [flags EXCEPT ![i] = @ \cup {"OACTIVE"}]
  /\ Passing(m) /\ ret' = NoError

\* What M_PREPEND and the assignments to *eh leave at the start of m0: with
\* room in front of the data the header (of family AF_ISO: whatever the
\* stack held), otherwise the header is in a new mbuf in front of m0.
Header(af, inplace) ==
  IF ~inplace THEN "none" ELSE IF af = "iso" THEN "junk" ELSE "ether"

\* An interface that is down returns ENETDOWN without releasing the packet.
ether_output(i, m, af, rt, inplace) ==
  /\ i \in output
  /\ UNCHANGED <<output, maxlen, stopped>>
  /\ IF "UP" \notin flags[i]
       THEN /\ Leaking(m) /\ NotQueued(m) /\ Returns(m, "ENETDOWN")
            /\ UNCHANGED <<flags, txcnt>>
       ELSE \/ Refused(i, m, af, rt) \/ Unresolved(i, m, af, rt)
            \/ Full(i, m, af, rt) \/ Enqueued(i, m, af, rt)
  /\ header' = [header EXCEPT ![m] =
       IF ret'.err = "0" /\ af \in {"unspec", "iso"} THEN Header(af, inplace) ELSE "none"]

-----------------------------------------------------------------------------
(* Loopback.                                                               *)

\* What a route with RTF_REJECT or RTF_BLACKHOLE answers; RTF_BLACKHOLE is
\* looked at first, then RTF_HOST.
Rejected(rt) ==
  CASE rt = "blackhole" -> "0"
    [] rt = "reject_host" -> "EHOSTUNREACH"
    [] rt = "reject_net" -> "ENETUNREACH"

\* Mutant: the packet of a rejecting route is forgotten.
looutput_RejectKeeps(i, m, af, rt) ==
  /\ i \in output
  /\ UNCHANGED <<ifvars, txcnt, stopped>>
  /\ IF rt # "none"
       THEN Keeping(m) /\ NotQueued(m) /\ Returns(m, Rejected(rt))
     ELSE IF af # "inet"
       THEN Passing(m) /\ NotQueued(m) /\ Returns(m, "EAFNOSUPPORT")
     ELSE IF IF_QFULL("ip")
       THEN Passing(m) /\ NotQueued(m) /\ Returns(m, "ENOBUFS")
       ELSE Keeping(m) /\ IF_ENQUEUE("ip", m) /\ ret' = NoError
  /\ header' = [header EXCEPT ![m] = "none"]

\* m comes back as input of protocol family af.  IFF_UP is not looked at,
\* and ipintrq has room only once ether_input has given it a limit.
looutput(i, m, af, rt) ==
  /\ i \in output
  /\ UNCHANGED <<ifvars, txcnt, stopped>>
  /\ IF rt # "none"
       THEN Passing(m) /\ NotQueued(m) /\ Returns(m, Rejected(rt))
     ELSE IF af # "inet"
       THEN Passing(m) /\ NotQueued(m) /\ Returns(m, "EAFNOSUPPORT")
     ELSE IF IF_QFULL("ip")
       THEN Passing(m) /\ NotQueued(m) /\ Returns(m, "ENOBUFS")
       ELSE Keeping(m) /\ IF_ENQUEUE("ip", m) /\ ret' = NoError
  /\ header' = [header EXCEPT ![m] = "none"]

-----------------------------------------------------------------------------
(* Interface flags.                                                        *)

\* Mutant: leinit marks the interface running, as a driver's init does.
leioctl_Runs(cmd, ifa_up, f) ==
  IF cmd = "SIOCSIFFLAGS" /\ ifa_up THEN f \cup {"RUNNING"} ELSE f

\* SIOCSIFADDR sets IFF_UP and falls into SIOCSIFFLAGS.  leinit and lereset
\* do nothing; a call of lestart for a change of IFF_PROMISC needs
\* IFF_RUNNING, as does everything else here.
leioctl(cmd, ifa_up, f) ==
  LET g == IF cmd = "SIOCSIFADDR" THEN f \cup {"UP"} ELSE f
  IN IF ~ifa_up THEN g \ {"RUNNING"} ELSE g

loioctl(cmd, f) == IF cmd = "SIOCSIFADDR" THEN f \cup {"UP"} ELSE f

if_ioctl(i, cmd, ifa_up, f) ==
  IF i = Lo THEN loioctl(cmd, f) ELSE leioctl(cmd, ifa_up, f)

\* Mutant: if_qflush takes one step more than the queue is long.
if_down_OneMore(i) ==
  LET p == Walk(ifq[i].head, ifq[i].len + 1, nextpkt)
  IN
  /\ Freed(OnQueue(i))
  /\ ifq' = [ifq EXCEPT ![i] = Empty]
  /\ stopped' = \E k \in DOMAIN p : p[k] = NULL

\* if_qflush of if_snd: ifq_len times, the first packet is taken off and
\* released, live or not, and whether it was released before in this loop.
if_down(i) ==
  LET p == Path(i)
      twice == {m \in OnQueue(i) :
                  \E j, k \in 1..ifq[i].len : j # k /\ p[j] = m /\ p[k] = m}
  IN
  /\ live' = live \ OnQueue(i)
  /\ again' = again \cup (OnQueue(i) \ live) \cup twice
  /\ ifq' = [ifq EXCEPT ![i] = Empty]
  /\ stopped' = \E k \in 1..ifq[i].len : p[k] = NULL

\* Mutant: the flags of the driver are taken from the caller as well.
SIOCSIFFLAGS_All(i, req, ifa_up) ==
  /\ i \in output
  /\ IF "UP" \in flags[i] /\ "UP" \notin req
       THEN if_down(i) ELSE UNCHANGED <<ifq, live, again, stopped>>
  /\ flags' = [flags EXCEPT ![i] = if_ioctl(i, "SIOCSIFFLAGS", ifa_up, req)]
  /\ ret' = NoError
  /\ UNCHANGED <<output, maxlen, txcnt, nextpkt, leaked, reused, header>>

\* ifioctl: if_down or if_up by comparing IFF_UP, then the rest of the
\* word, then the driver, which reads ifa_flags past the end of the ifreq
\* it is given (ifa_up is what it finds there).
SIOCSIFFLAGS(i, req, ifa_up) ==
  LET f == (flags[i] \cap IFF_CANTCHANGE) \cup (req \ IFF_CANTCHANGE)
  IN
  /\ i \in output
  /\ IF "UP" \in flags[i] /\ "UP" \notin req
       THEN if_down(i) ELSE UNCHANGED <<ifq, live, again, stopped>>
  /\ flags' = [flags EXCEPT ![i] = if_ioctl(i, "SIOCSIFFLAGS", ifa_up, f)]
  /\ ret' = NoError
  /\ UNCHANGED <<output, maxlen, txcnt, nextpkt, leaked, reused, header>>

\* A protocol gives the interface an address.
SIOCSIFADDR(i, ifa_up) ==
  /\ i \in output
  /\ flags' = [flags EXCEPT ![i] = if_ioctl(i, "SIOCSIFADDR", ifa_up, @)]
  /\ ret' = NoError
  /\ UNCHANGED <<output, maxlen, txcnt, queues, storage, stopped, header>>

\* The protocol takes a packet off its input queue and releases it.  No
\* code of the repository does: ipintr and arpintr are empty.
Consume(q) ==
  LET m == ifq[q].head
  IN
  /\ ifq[q].len > 0
  /\ ifq' = [ifq EXCEPT ![q] = Shorter(@, 1, nextpkt)]
  /\ Freed({m} \ {NULL})
  /\ stopped' = (m = NULL)
  /\ ret' = NoError
  /\ UNCHANGED <<ifvars, txcnt, nextpkt, leaked, reused, header>>

Call ==
  \/ loopattach \/ ifinit
  \/ \E i \in Ethers : leattach(i)
  \/ \E i \in Ethers, m \in Packets, t \in Types : leread(i, m, t)
  \/ \E i \in Ethers, m \in Packets, af \in {"inet", "iso", "unspec", "other"},
        rt \in RoutesTo, inplace \in Leading :
       ether_output(i, m, af, rt, inplace)
  \/ \E i \in Ifs, m \in Packets, af \in {"inet", "other"},
        rt \in {"none", "reject_host", "reject_net", "blackhole"} : looutput(i, m, af, rt)
  \/ \E i \in Ifs, req \in Requests, ifa_up \in BOOLEAN : SIOCSIFFLAGS(i, req, ifa_up)
  \/ \E i \in Ifs, ifa_up \in BOOLEAN : SIOCSIFADDR(i, ifa_up)
  \/ \E q \in InputQueues : Consume(q)

\* A program that has followed NULL takes no further step.
Next == ~stopped /\ Call

Spec == Init /\ [][Next]_vars

-----------------------------------------------------------------------------
(* Properties.                                                             *)

Errors == {"0", "ENETDOWN", "ENOBUFS", "EAFNOSUPPORT", "EHOSTUNREACH",
           "ENETUNREACH", "EHOSTDOWN"}

\* Every variable has a value of its type.
TypeOK ==
  /\ flags \in [Ifs -> SUBSET Flags]
  /\ output \subseteq Ifs
  /\ txcnt \in [Ethers -> Nat]
  /\ ifq \in [Queues -> [head : Packets \cup {NULL}, tail : Packets \cup {NULL}, len : Nat]]
  /\ maxlen \in [Queues -> {0, QMAX}]
  /\ nextpkt \in [Packets -> Packets \cup {NULL}]
  /\ live \subseteq Packets /\ again \subseteq Packets /\ leaked \subseteq Packets
  /\ reused \in BOOLEAN /\ stopped \in BOOLEAN
  /\ header \in [Packets -> {"none", "junk", "ether"}]
  /\ ret \in [pkt : Packets \cup {NULL}, err : Errors]

\* What a protocol will take off its input queue is storage that is still
\* allocated, is there once, and is on no other queue: not in the other
\* protocol's hands and not on an interface's way out.  mbuf.h says of
\* m_nextpkt: "next chain in queue/record".
InputQueuesLive ==
  \A q \in InputQueues :
    /\ \A k \in 1..ifq[q].len : Path(q)[k] \in live
    /\ \A j, k \in 1..ifq[q].len : Path(q)[j] = Path(q)[k] => j = k
    /\ \A r \in Queues \ {q} : OnQueue(q) \cap OnQueue(r) = {}

\* Three paths of the code forget a packet: ether_output on an interface
\* that is down, ether_output to an internet destination (arpresolve keeps
\* nothing) and ether_input of an 802.3 frame.  On every other path a live
\* packet is on an input queue.
ForgottenOnlyThere == live = OnQueue("ip") \cup OnQueue("arp") \cup leaked

\* A call that fails with any error but ENETDOWN has released the packet:
\* the caller must not, and need not, release it.
ErrorReleases ==
  ret.err \notin {"0", "ENETDOWN"} => ret.pkt \notin live

\* An input queue never outgrows the limit in force; in particular ipintrq
\* is empty, and looutput delivers nothing, before the first frame from an
\* Ethernet has given it a limit.
InputBounded == \A q \in InputQueues : ifq[q].len <= maxlen[q]

\* htons clears the low byte instead of exchanging the two, so that no
\* frame of any type is ever taken for ARP: arpintrq stays empty.
ArpNeverArrives == ifq["arp"].len = 0

\* Storage is released a second time by if_qflush, which meets the packets
\* that ether_output left on if_snd, and by nobody else as long as malloc
\* has not handed out one of these; from then on by the protocols as well,
\* which meet what if_qflush has released.
ReleasedTwice ==
  [][\/ again' \subseteq again
     \/ \E i \in Ifs : if_down(i)
     \/ reused /\ \E q \in InputQueues : Consume(q)]_vars

\* The loops of if_qflush and IF_DEQUEUE count by ifq_len and follow the
\* links without looking at them.  They meet the end of a list only after
\* malloc has handed out a packet of it, and so cut it.
QueuesWalkable == stopped => reused

\* The flags that a received frame wiped out of if_flags are lost for good:
\* they are among those that ifioctl does not let its caller set.
LostFlagsStayLost ==
  [][\A i \in output, f \in IFF_CANTCHANGE : f \notin flags[i] => f \notin flags'[i]]_vars

\* Nothing ever sets IFF_RUNNING, whatever sequence of ioctls, frames and
\* sends comes: lestart takes no frame off if_snd, whose length only grows,
\* and whose head stays, until the interface is taken down.
FramesStay ==
  [][\A i \in Ifs :
       \/ ifq'[i].len >= ifq[i].len /\ (ifq[i].len > 0 => ifq'[i].head = ifq[i].head)
       \/ "UP" \notin flags'[i]]_vars

\* The protocols' side of the queues: there is never too much on them, none
\* of it is ARP, and until malloc hands out storage that ether_output has
\* released and left on if_snd, what they take off is theirs.
InputQueuesSound ==
  InputBounded /\ ArpNeverArrives /\ (~reused => InputQueuesLive)

\* The senders' side: after an error the packet is released; without one,
\* and until malloc hands out storage that is on if_snd, it is released,
\* queued, or on one of the three paths that forget it.
ReleasedOrKept == ErrorReleases /\ (~reused => ForgottenOnlyThere)

\* A received frame stops an interface for good: the flags it wiped out do
\* not come back, and the frames sent from then on stay on if_snd.
FramesStuck == LostFlagsStayLost /\ FramesStay

\* What ether_output promises ("Encapsulate a packet of type family for the
\* local net"): the frames on if_snd are allocated and begin with a header.
SendQueueHoldsFrames ==
  \A i \in Ifs : \A m \in OnQueue(i) : m \in live /\ header[m] = "ether"
=============================================================================
