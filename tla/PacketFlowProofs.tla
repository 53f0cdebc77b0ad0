-------------------------- MODULE PacketFlowProofs --------------------------
(***************************************************************************)
(* Theorems about PacketFlow for any number of Ethernets, packets, frame   *)
(* types, routes and requests and any limits: who owns a packet, and until *)
(* when that can be said.                                                  *)
(***************************************************************************)
EXTENDS PacketFlow, SequenceFacts

-----------------------------------------------------------------------------
(* Links and lists.  No variable of the specification occurs here.         *)

QueueType(f) ==
  f \in [head : Packets \cup {NULL}, tail : Packets \cup {NULL}, len : Nat]
LinkType(nx) == nx \in [Packets -> Packets \cup {NULL}]

\* w is the walk of n steps from h along nx.
IsWalk(w, h, n, nx) ==
  \A k \in 1..n : w[k] = IF k = 1 THEN h
                         ELSE IF w[k-1] = NULL THEN NULL ELSE nx[w[k-1]]

\* A walk of any length exists, and Walk is one.
LEMMA WalkFacts ==
  ASSUME NEW n \in Nat, NEW h \in Packets \cup {NULL}, NEW nx, LinkType(nx)
  PROVE  /\ Walk(h, n, nx) \in [1..n -> Packets \cup {NULL}]
         /\ IsWalk(Walk(h, n, nx), h, n, nx)
<1> DEFINE Exists(k) == \E w \in [1..k -> Packets \cup {NULL}] : IsWalk(w, h, k, nx)
           T == {k \in 0..n : Exists(k)}
<1>1. 0 \in T
  <2> DEFINE w == [k \in 1..0 |-> h]
  <2>1. w \in [1..0 -> Packets \cup {NULL}] /\ IsWalk(w, h, 0, nx)
    BY DEF IsWalk
  <2> HIDE DEF w
  <2>2. Exists(0)
    BY <2>1
  <2> HIDE DEF Exists
  <2>3. QED BY <2>2
<1>2. ASSUME NEW k \in 0..n, k \in T, k < n PROVE k + 1 \in T
  <2>1. PICK w \in [1..k -> Packets \cup {NULL}] : IsWalk(w, h, k, nx)
    BY <1>2
  <2> DEFINE e == IF k = 0 THEN h ELSE IF w[k] = NULL THEN NULL ELSE nx[w[k]]
             v == [j \in 1..k+1 |-> IF j = k + 1 THEN e ELSE w[j]]
  <2>2. e \in Packets \cup {NULL}
    BY <2>1 DEF LinkType
  <2>3. v \in [1..k+1 -> Packets \cup {NULL}]
    BY <2>1, <2>2
  <2>4. IsWalk(v, h, k + 1, nx)
    <3>1. SUFFICES ASSUME NEW j \in 1..k+1
                   PROVE  v[j] = IF j = 1 THEN h
                                 ELSE IF v[j-1] = NULL THEN NULL ELSE nx[v[j-1]]
      BY DEF IsWalk
    <3>2. CASE j = k + 1
      BY <2>1, <3>2
    <3>3. CASE j # k + 1
      <4>1. v[j] = w[j] /\ j \in 1..k /\ (j # 1 => v[j-1] = w[j-1])
        BY <3>3
      <4>2. QED BY <2>1, <4>1 DEF IsWalk
    <3>4. QED BY <3>2, <3>3
  <2> HIDE DEF v, e
  <2>5. Exists(k + 1)
    BY <2>3, <2>4
  <2> HIDE DEF Exists
  <2>6. QED BY <1>2, <2>5
<1>3. Exists(n)
  <2> HIDE DEF Exists
  <2>1. \A k \in 0..n : k \in T /\ k < n => k + 1 \in T
    BY <1>2
  <2> DEFINE U == T
  <2>2. 0 \in U /\ \A k \in 0..n : k \in U /\ k < n => k + 1 \in U
    BY <1>1, <2>1
  <2> HIDE DEF U
  <2>3. \A k \in 0..n : k \in U
    BY <2>2, UpTo
  <2>4. QED BY <2>3 DEF U
<1>4. \E w \in [1..n -> Packets \cup {NULL}] :
        \A k \in 1..n : w[k] = IF k = 1 THEN h
                               ELSE IF w[k-1] = NULL THEN NULL ELSE nx[w[k-1]]
  BY <1>3 DEF IsWalk
<1>5. QED BY <1>4, Zenon DEF Walk, IsWalk

\* What a walk of one and of two steps comes across.
LEMMA ShortWalks ==
  ASSUME NEW h \in Packets \cup {NULL}, NEW nx, LinkType(nx)
  PROVE  /\ Walk(h, 0 + 1, nx)[0 + 1] = h
         /\ Walk(h, 1 + 1, nx)[1 + 1] = IF h = NULL THEN NULL ELSE nx[h]
<1>1. IsWalk(Walk(h, 1, nx), h, 1, nx) /\ IsWalk(Walk(h, 2, nx), h, 2, nx)
  BY WalkFacts
<1> DEFINE v == Walk(h, 1, nx)
           w == Walk(h, 2, nx)
<1> HIDE DEF v, w
<1>2. IsWalk(v, h, 1, nx) /\ IsWalk(w, h, 2, nx)
  BY <1>1 DEF v, w
<1>3. v[1] = h /\ w[1] = h /\ w[2] = IF w[1] = NULL THEN NULL ELSE nx[w[1]]
  BY <1>2 DEF IsWalk
<1>4. 0 + 1 = 1 /\ 1 + 1 = 2
  OBVIOUS
<1>5. QED BY <1>3, <1>4 DEF v, w

\* The queue with the fields f is the list s of packets; the entries of s
\* behind f.len do not matter.
IsList(s, f, nx) ==
  /\ \A k \in 1..f.len : s[k] \in Packets
  /\ f.len > 0 => f.head = s[1] /\ f.tail = s[f.len] /\ nx[s[f.len]] = NULL
  /\ \A k \in 1..f.len - 1 : nx[s[k]] = s[k + 1]

Lists == [Nat -> Packets \cup {NULL}]

\* The walk along a list comes across its packets.
LEMMA WalkOfList ==
  ASSUME NEW f, QueueType(f), NEW nx, LinkType(nx), NEW s, IsList(s, f, nx)
  PROVE  \A k \in 1..f.len : Walk(f.head, f.len, nx)[k] = s[k]
<1> DEFINE n == f.len
           w == Walk(f.head, f.len, nx)
           D == {k \in 1..n : w[k] # s[k]}
<1>1. n \in Nat /\ f.head \in Packets \cup {NULL}
  BY DEF QueueType
<1>2. IsWalk(w, f.head, n, nx)
  BY <1>1, WalkFacts
<1> HIDE DEF w
<1>3. CASE D = {}
  BY <1>3 DEF w
<1>4. CASE D # {}
  <2>1. D \in SUBSET Nat
    OBVIOUS
  <2> HIDE DEF D
  <2>2. PICK x \in D : \A y \in D : x <= y
    BY <1>4, <2>1, LeastNumber
  <2> USE DEF D
  <2>3. x \in 1..n /\ w[x] # s[x]
    BY <2>2
  <2>4. w[1] = f.head /\ s[1] = f.head
    BY <1>1, <1>2, <2>3 DEF IsWalk, IsList
  <2>5. x # 1 /\ x - 1 \in 1..n - 1 /\ x - 1 \notin D
    BY <1>1, <2>2, <2>3, <2>4
  <2>6. w[x-1] = s[x-1]
    BY <1>1, <2>5
  <2>7. s[x-1] \in Packets /\ s[x] = nx[s[x-1]]
    BY <1>1, <2>5 DEF IsList
  <2>8. w[x] = nx[w[x-1]]
    BY <1>2, <2>3, <2>5, <2>6, <2>7, PacketFlowAssumption DEF IsWalk
  <2>9. QED BY <2>3, <2>6, <2>7, <2>8
<1>5. QED BY <1>3, <1>4

\* A list does not notice what happens to the links of other storage.
LEMMA ListFrame ==
  ASSUME NEW f, QueueType(f), NEW nx, NEW ny, NEW s, IsList(s, f, nx),
         \A k \in 1..f.len : ny[s[k]] = nx[s[k]]
  PROVE  IsList(s, f, ny)
BY DEF IsList, QueueType

\* s with m behind its first n entries, and without its first entry.
Behind(s, n, m) == [s EXCEPT ![n + 1] = m]
Rest(s) == [k \in Nat |-> s[k + 1]]

\* A packet of no list is put behind the last one.
LEMMA ListGrows ==
  ASSUME NEW f, QueueType(f), NEW nx, LinkType(nx), NEW s \in Lists, IsList(s, f, nx),
         NEW m \in Packets, \A k \in 1..f.len : s[k] # m,
         NEW g, g.len = f.len + 1, g.tail = m,
         g.head = IF f.len = 0 THEN m ELSE f.head,
         NEW ny, LinkType(ny), ny[m] = NULL,
         f.len > 0 => ny[f.tail] = m,
         \A k \in 1..f.len - 1 : ny[s[k]] = nx[s[k]]
  PROVE  IsList(Behind(s, f.len, m), g, ny)
<1> DEFINE t == Behind(s, f.len, m)
<1>1. f.len \in Nat
  BY DEF QueueType
<1>2. t \in Lists /\ t[f.len + 1] = m /\ \A k \in 1..f.len : t[k] = s[k]
  BY <1>1 DEF Lists, Behind
<1> HIDE DEF t
<1>3. \A k \in 1..f.len : s[k] \in Packets
  BY DEF IsList
<1>4. CASE f.len = 0
  BY <1>2, <1>4 DEF IsList, t
<1>5. CASE f.len > 0
  <2>1. f.tail = s[f.len] /\ f.head = s[1] /\ 1 \in 1..f.len
    BY <1>1, <1>5 DEF IsList
  <2>2. \A k \in 1..g.len : t[k] \in Packets
    <3>1. \A k \in 1..g.len : k \in 1..f.len \/ k = f.len + 1
      BY <1>1
    <3>2. QED BY <1>2, <1>3, <3>1
  <2>3. g.head = t[1] /\ g.tail = t[g.len] /\ ny[t[g.len]] = NULL
    BY <1>2, <1>5, <2>1
  <2>4. ASSUME NEW k \in 1..g.len - 1 PROVE ny[t[k]] = t[k + 1]
    <3>1. k \in 1..f.len /\ t[k] = s[k]
      BY <1>1, <1>2
    <3>2. CASE k = f.len
      BY <1>2, <1>5, <2>1, <3>1, <3>2
    <3>3. CASE k # f.len
      <4>1. k \in 1..f.len - 1 /\ k + 1 \in 1..f.len
        BY <1>1, <3>1, <3>3
      <4>2. nx[s[k]] = s[k + 1] /\ ny[s[k]] = nx[s[k]]
        BY <4>1 DEF IsList
      <4>3. QED BY <1>2, <3>1, <4>1, <4>2
    <3>4. QED BY <3>2, <3>3
  <2>5. IsList(t, g, ny)
    BY <2>2, <2>3, <2>4 DEF IsList
  <2>6. QED BY <2>5 DEF t
<1>6. QED BY <1>1, <1>4, <1>5

\* The first packet of a list is taken off.
LEMMA ListShrinks ==
  ASSUME NEW f, QueueType(f), NEW nx, LinkType(nx), NEW s \in Lists, IsList(s, f, nx),
         f.len > 0
  PROVE  /\ Rest(s) \in Lists /\ IsList(Rest(s), Shorter(f, 1, nx), nx)
         /\ Shorter(f, 1, nx).len = f.len - 1
<1> DEFINE g == Shorter(f, 1, nx)
           t == Rest(s)
<1>1. f.len \in Nat /\ f.head \in Packets \cup {NULL} /\ f.tail \in Packets \cup {NULL}
  BY DEF QueueType
<1>2. t \in Lists /\ \A k \in Nat : t[k] = s[k + 1]
  BY DEF Lists, Rest
<1> HIDE DEF t
<1>3. CASE f.len = 1
  <2>1. g = Empty
    BY <1>3 DEF Shorter
  <2>2. QED BY <1>2, <1>3, <2>1 DEF IsList, Empty, t
<1>4. CASE f.len # 1
  <2> DEFINE h == Walk(f.head, 1 + 1, nx)[1 + 1]
  <2>1. s[1] \in Packets /\ f.head = s[1] /\ nx[s[1]] = s[2] /\ s[2] \in Packets
    BY <1>1, <1>4 DEF IsList
  <2>2. h = s[2]
    BY <1>1, <2>1, ShortWalks, PacketFlowAssumption
  <2> HIDE DEF h
  <2>3. g = [f EXCEPT !.head = h, !.len = @ - 1]
    BY <1>4 DEF Shorter, h
  <2> HIDE DEF g
  <2>4. g.head = s[2] /\ g.tail = f.tail /\ g.len = f.len - 1
    BY <2>2, <2>3 DEF QueueType
  <2>5. \A k \in 1..g.len : t[k] = s[k + 1] /\ k + 1 \in 1..f.len
    BY <1>1, <1>2, <2>4
  <2>6. \A k \in 1..g.len : t[k] \in Packets
    BY <2>5 DEF IsList
  <2>7. g.head = t[1] /\ g.tail = t[g.len] /\ nx[t[g.len]] = NULL
    BY <1>1, <1>2, <1>4, <2>4 DEF IsList
  <2>8. ASSUME NEW k \in 1..g.len - 1 PROVE nx[t[k]] = t[k + 1]
    <3>1. t[k] = s[k + 1] /\ t[k + 1] = s[(k + 1) + 1] /\ k + 1 \in 1..f.len - 1
      BY <1>1, <1>2, <2>4
    <3>2. QED BY <3>1 DEF IsList
  <2>9. IsList(t, g, nx)
    BY <2>6, <2>7, <2>8 DEF IsList
  <2>10. QED BY <1>2, <2>4, <2>9 DEF g, t
<1>5. QED BY <1>3, <1>4

-----------------------------------------------------------------------------
(* The invariant.                                                          *)

AreLists(c, f, nx) == \A q \in Queues : IsList(c[q], f[q], nx)

AreApart(c, f) ==
  \A q, r \in Queues : \A j \in 1..f[q].len, k \in 1..f[r].len :
    c[q][j] = c[r][k] => q = r /\ j = k

\* m is on none of the lists c.
NewTo(c, m) == \A q \in Queues : \A k \in 1..ifq[q].len : c[q][k] # m

\* c is the list of packets of every queue.  No packet is in two places, and
\* the input queue of IP and the paths that forget a packet share out what
\* is allocated.
Intact(c, f, nx, lv, lk) ==
  /\ AreLists(c, f, nx)
  /\ AreApart(c, f)
  /\ lv = {c["ip"][k] : k \in 1..f["ip"].len} \cup lk
  /\ \A k \in 1..f["ip"].len : c["ip"][k] \notin lk
  /\ \A i \in Ifs : \A k \in 1..f[i].len : c[i][k] \notin lv

\* So it is until malloc hands out storage that is on an if_snd.
Whole == ~reused => \E c \in [Queues -> Lists] : Intact(c, ifq, nextpkt, live, leaked)

QueueTypes ==
  /\ ifq \in [Queues -> [head : Packets \cup {NULL}, tail : Packets \cup {NULL}, len : Nat]]
  /\ nextpkt \in [Packets -> Packets \cup {NULL}]
  /\ live \subseteq Packets /\ again \subseteq Packets /\ leaked \subseteq Packets
  /\ reused \in BOOLEAN /\ stopped \in BOOLEAN

\* Nothing cuts an ifq_tail off its queue, not even reuse of storage.
TailsKnown == \A q \in Queues : ifq[q].len > 0 => ifq[q].tail \in Packets

\* The part of the inductive invariant that is about packets.
Kept == QueueTypes /\ TailsKnown /\ Whole /\ QueuesWalkable /\ ArpNeverArrives

LEMMA QueueTypeOf ==
  ASSUME QueueTypes
  PROVE  LinkType(nextpkt) /\ \A q \in Queues : QueueType(ifq[q])
BY DEF QueueTypes, QueueType, LinkType

\* What Path and OnQueue see of any queue, and of one that is a list.
LEMMA OnQueueFacts ==
  ASSUME QueueTypes, NEW q \in Queues
  PROVE  OnQueue(q) \subseteq Packets
         /\ \A s : IsList(s, ifq[q], nextpkt) =>
              /\ \A k \in 1..ifq[q].len : Path(q)[k] = s[k] /\ s[k] \in Packets
              /\ OnQueue(q) = {s[k] : k \in 1..ifq[q].len}
<1> DEFINE f == ifq[q]
           p == Path(q)
<1>1. LinkType(nextpkt) /\ QueueType(f) /\ f.len \in Nat /\ f.head \in Packets \cup {NULL}
  BY QueueTypeOf DEF QueueType
<1>2. p \in [1..f.len -> Packets \cup {NULL}]
  BY <1>1, WalkFacts DEF Path
<1>3. OnQueue(q) = {p[k] : k \in 1..f.len} \ {NULL}
  BY DEF OnQueue
<1> HIDE DEF p
<1>4. OnQueue(q) \subseteq Packets
  BY <1>2, <1>3
<1>5. ASSUME NEW s, IsList(s, ifq[q], nextpkt)
      PROVE  /\ \A k \in 1..f.len : p[k] = s[k] /\ s[k] \in Packets
             /\ OnQueue(q) = {s[k] : k \in 1..f.len}
  <2>1. \A k \in 1..f.len : p[k] = s[k] /\ s[k] \in Packets
    BY <1>1, <1>5, WalkOfList DEF p, Path, IsList
  <2>2. {p[k] : k \in 1..f.len} = {s[k] : k \in 1..f.len}
    BY <2>1
  <2>3. NULL \notin {s[k] : k \in 1..f.len}
    BY <2>1, PacketFlowAssumption
  <2>4. QED BY <1>3, <2>1, <2>2, <2>3
<1>6. QED BY <1>4, <1>5 DEF p

LEMMA QueueNames ==
  /\ "ip" \in Queues /\ "arp" \in Queues /\ "ip" # "arp"
  /\ "ip" \notin Ifs /\ "arp" \notin Ifs /\ Ifs \subseteq Queues
  /\ \A q \in Queues : q \in Ifs \/ q = "ip" \/ q = "arp"
  /\ \A i \in Ethers : i \in Ifs
  /\ Lo \in Ifs
BY PacketFlowAssumption DEF Queues, InputQueues, Ifs

\* A packet that was just built, in storage that no if_snd refers to, is on
\* no queue and was not forgotten.
LEMMA NewPacket ==
  ASSUME QueueTypes, ArpNeverArrives, NEW c \in [Queues -> Lists],
         Intact(c, ifq, nextpkt, live, leaked), NEW m \in Packets, Build(m), ~reused'
  PROVE  /\ m \notin live /\ m \notin leaked
         /\ NewTo(c, m)
<1>1. m \notin live /\ \A i \in Ifs : m \notin OnQueue(i)
  BY DEF Build, Fresh
<1>2. \A q \in Queues : IsList(c[q], ifq[q], nextpkt)
  BY DEF Intact, AreLists
<1>3. live = {c["ip"][k] : k \in 1..ifq["ip"].len} \cup leaked
  BY DEF Intact
<1>4. ASSUME NEW q \in Queues, NEW k \in 1..ifq[q].len PROVE c[q][k] # m
  <2>1. CASE q \in Ifs
    <3>1. OnQueue(q) = {c[q][j] : j \in 1..ifq[q].len}
      BY <1>2, OnQueueFacts
    <3>2. QED BY <1>1, <2>1, <3>1
  <2>2. CASE q = "ip"
    BY <1>1, <1>3, <2>2
  <2>3. CASE q = "arp"
    BY <2>3 DEF ArpNeverArrives
  <2>4. QED BY <2>1, <2>2, <2>3, QueueNames
<1>5. QED BY <1>1, <1>3, <1>4 DEF NewTo

LEMMA BuildFacts ==
  ASSUME QueueTypes, NEW m \in Packets, Build(m)
  PROVE  /\ m \notin live /\ again' \subseteq again /\ again' \subseteq Packets
         /\ reused' \in BOOLEAN /\ (~reused' => ~reused)
BY DEF Build, Fresh, QueueTypes

-----------------------------------------------------------------------------
(* What a handler does to the storage of one packet.                       *)

\* The packet is released or forgotten before the function returns.
LEMMA NotQueuedKept ==
  ASSUME Kept, NEW m \in Packets, Passing(m) \/ Leaking(m), NotQueued(m),
         ~stopped, stopped' = stopped
  PROVE  Kept' /\ again' \subseteq again
<1>1. QueueTypes /\ Build(m) /\ ifq' = ifq /\ nextpkt' = [nextpkt EXCEPT ![m] = NULL]
  BY DEF Kept, Passing, Leaking, NotQueued, Cleared
<1>2. m \notin live /\ again' \subseteq again /\ again' \subseteq Packets
      /\ reused' \in BOOLEAN /\ (~reused' => ~reused)
  BY <1>1, BuildFacts
<1>3. QueueTypes'
  BY <1>1, <1>2 DEF QueueTypes, Passing, Leaking
<1>4. TailsKnown' /\ ArpNeverArrives'
  BY <1>1 DEF Kept, TailsKnown, ArpNeverArrives
<1>5. QueuesWalkable'
  BY DEF QueuesWalkable
<1>6. ASSUME ~reused'
      PROVE  \E c \in [Queues -> Lists] : Intact(c, ifq', nextpkt', live', leaked')
  <2>1. PICK c \in [Queues -> Lists] : Intact(c, ifq, nextpkt, live, leaked)
    BY <1>2, <1>6 DEF Kept, Whole
  <2>2. m \notin leaked /\ NewTo(c, m)
    BY <1>1, <1>6, <2>1, NewPacket DEF Kept
  <2>3. ASSUME NEW q \in Queues PROVE IsList(c[q], ifq'[q], nextpkt')
    <3>1. IsList(c[q], ifq[q], nextpkt) /\ QueueType(ifq[q])
      BY <1>1, <2>1, QueueTypeOf DEF Intact, AreLists
    <3>2. \A k \in 1..ifq[q].len : c[q][k] \in Packets /\ c[q][k] # m
      BY <2>2, <3>1 DEF IsList, NewTo
    <3>3. \A k \in 1..ifq[q].len : nextpkt'[c[q][k]] = nextpkt[c[q][k]]
      BY <1>1, <3>2 DEF QueueTypes
    <3> DEFINE s == c[q]
               f == ifq[q]
               nx == nextpkt
               ny == nextpkt'
    <3>4. IsList(s, f, nx) /\ QueueType(f) /\ \A k \in 1..f.len : ny[s[k]] = nx[s[k]]
      BY <3>1, <3>3
    <3>5. ifq'[q] = f
      BY <1>1
    <3> HIDE DEF s, f, nx, ny
    <3>6. IsList(s, f, ny)
      BY <3>4, ListFrame
    <3>7. QED BY <3>5, <3>6 DEF s, ny
  <2>4. /\ live' = {c["ip"][k] : k \in 1..ifq'["ip"].len} \cup leaked'
        /\ \A k \in 1..ifq'["ip"].len : c["ip"][k] \notin leaked'
    BY <1>1, <1>2, <2>1, <2>2, QueueNames DEF Intact, Passing, Leaking, NewTo
  <2>5. \A i \in Ifs : \A k \in 1..ifq'[i].len : c[i][k] \notin live'
    BY <1>1, <2>1, <2>2, QueueNames DEF Intact, Passing, Leaking, NewTo
  <2>6. AreApart(c, ifq')
    BY <1>1, <2>1 DEF Intact
  <2>7. Intact(c, ifq', nextpkt', live', leaked')
    BY <2>3, <2>4, <2>5, <2>6 DEF Intact, AreLists
  <2>8. QED BY <2>7
<1>7. Whole'
  BY <1>6 DEF Whole
<1>8. QED BY <1>2, <1>3, <1>4, <1>5, <1>7 DEF Kept

\* IF_ENQUEUE, whatever the links were.
LEMMA EnqueueTypes ==
  ASSUME QueueTypes, TailsKnown, NEW q \in Queues, NEW m \in Packets,
         nextpkt' = Linked(q, m), ifq' = [ifq EXCEPT ![q] = Longer(q, m)]
  PROVE  /\ ifq' \in [Queues -> [head : Packets \cup {NULL}, tail : Packets \cup {NULL},
                                 len : Nat]]
         /\ nextpkt' \in [Packets -> Packets \cup {NULL}]
         /\ TailsKnown'
         /\ ifq'[q].len = ifq[q].len + 1 /\ ifq'[q].tail = m
         /\ ifq'[q].head = IF ifq[q].len = 0 THEN m ELSE ifq[q].head
         /\ \A r \in Queues \ {q} : ifq'[r] = ifq[r]
         /\ \A x \in Packets : x # m /\ (ifq[q].len > 0 => x # ifq[q].tail) =>
              nextpkt'[x] = nextpkt[x]
         /\ ifq[q].len = 0 => nextpkt'[m] = NULL
         /\ ifq[q].len > 0 => /\ ifq[q].tail \in Packets /\ nextpkt'[ifq[q].tail] = m
                              /\ ifq[q].tail # m => nextpkt'[m] = nextpkt[ifq[q].tail]
<1> DEFINE t == ifq[q].tail
           n == ifq[q].len
           nx == Cleared(m)
           g == Longer(q, m)
<1>1. QueueType(ifq[q]) /\ LinkType(nextpkt)
  BY QueueTypeOf
<1>2. n \in Nat /\ (n > 0 => t \in Packets)
  BY <1>1 DEF QueueType, TailsKnown
<1>3. /\ nx \in [Packets -> Packets \cup {NULL}] /\ nx[m] = NULL
      /\ \A x \in Packets : x # m => nx[x] = nextpkt[x]
  BY <1>1 DEF Cleared, LinkType
<1>4. /\ g.len = n + 1 /\ g.tail = m /\ g.head = IF n = 0 THEN m ELSE ifq[q].head
      /\ g \in [head : Packets \cup {NULL}, tail : Packets \cup {NULL}, len : Nat]
  BY <1>1, <1>2 DEF Longer, QueueType
<1>5. n = 0 => nextpkt' = nx
  BY DEF Linked
<1>6. n > 0 => nextpkt' = [nx EXCEPT ![m] = nx[t], ![t] = m]
  BY <1>2 DEF Linked
<1> HIDE DEF g, nx
<1>7. ifq' \in [Queues -> [head : Packets \cup {NULL}, tail : Packets \cup {NULL}, len : Nat]]
      /\ ifq'[q] = g /\ \A r \in Queues \ {q} : ifq'[r] = ifq[r]
  BY <1>4 DEF QueueTypes, g
<1>8. TailsKnown'
  BY <1>4, <1>7 DEF TailsKnown
<1>9. CASE n = 0
  BY <1>3, <1>4, <1>5, <1>7, <1>8, <1>9
<1>10. CASE n > 0
  <2>1. t \in Packets /\ nextpkt' = [nx EXCEPT ![m] = nx[t], ![t] = m]
    BY <1>2, <1>6, <1>10
  <2>2. nextpkt' \in [Packets -> Packets \cup {NULL}] /\ nextpkt'[t] = m
        /\ (t # m => nextpkt'[m] = nx[t])
        /\ \A x \in Packets : x # m /\ x # t => nextpkt'[x] = nx[x]
    BY <1>3, <2>1
  <2>3. QED BY <1>3, <1>4, <1>7, <1>8, <1>10, <2>1, <2>2
<1>11. QED BY <1>2, <1>9, <1>10

\* The lists d are the lists c with m behind the one of q.
Added(c, d, q, m) ==
  /\ d \in [Queues -> Lists]
  /\ ifq[q].len \in Nat /\ ifq'[q].len = ifq[q].len + 1
  /\ d[q][ifq[q].len + 1] = m /\ \A k \in 1..ifq[q].len : d[q][k] = c[q][k]
  /\ \A r \in Queues \ {q} : d[r] = c[r] /\ ifq'[r] = ifq[r]

\* IF_ENQUEUE of a packet of no list.
LEMMA EnqueueLists ==
  ASSUME QueueTypes, TailsKnown, NEW q \in Queues, NEW m \in Packets,
         nextpkt' = Linked(q, m), ifq' = [ifq EXCEPT ![q] = Longer(q, m)],
         NEW c \in [Queues -> Lists], Intact(c, ifq, nextpkt, live, leaked),
         NewTo(c, m)
  PROVE  \E d : /\ Added(c, d, q, m)
                /\ AreLists(d, ifq', nextpkt') /\ AreApart(d, ifq')
<1> DEFINE n == ifq[q].len
           t == ifq[q].tail
           e == Behind(c[q], n, m)
           d == [c EXCEPT ![q] = e]
<1>1. /\ LinkType(nextpkt) /\ \A r \in Queues : QueueType(ifq[r])
  BY QueueTypeOf
<1>2. \A r \in Queues : IsList(c[r], ifq[r], nextpkt) /\ c[r] \in Lists
  BY DEF Intact, AreLists
<1>3. n \in Nat
  BY <1>1 DEF QueueType
<1>4. e \in Lists /\ e[n + 1] = m /\ \A k \in 1..n : e[k] = c[q][k]
  BY <1>2, <1>3 DEF Lists, Behind
<1>5. d = [c EXCEPT ![q] = e]
  OBVIOUS
<1> HIDE DEF e, d
<1>6. d \in [Queues -> Lists] /\ d[q] = e /\ \A r \in Queues \ {q} : d[r] = c[r]
  BY <1>4, <1>5
<1>7. /\ LinkType(nextpkt')
      /\ ifq'[q].len = n + 1 /\ ifq'[q].tail = m
      /\ ifq'[q].head = IF n = 0 THEN m ELSE ifq[q].head
      /\ \A r \in Queues \ {q} : ifq'[r] = ifq[r]
      /\ \A x \in Packets : x # m /\ (n > 0 => x # t) => nextpkt'[x] = nextpkt[x]
      /\ n = 0 => nextpkt'[m] = NULL
      /\ n > 0 => nextpkt'[t] = m /\ (t # m => nextpkt'[m] = nextpkt[t])
  BY EnqueueTypes DEF LinkType
<1>8. n > 0 => t = c[q][n] /\ t # m /\ nextpkt[t] = NULL /\ n \in 1..n
  BY <1>2, <1>3 DEF IsList, NewTo
<1>9. nextpkt'[m] = NULL
  BY <1>3, <1>7, <1>8
<1>10. IsList(d[q], ifq'[q], nextpkt')
  <2> DEFINE f == ifq[q]
             g == ifq'[q]
             s == c[q]
             nx == nextpkt
             ny == nextpkt'
  <2>1. \A k \in 1..f.len - 1 : ny[s[k]] = nx[s[k]]
    <3>1. SUFFICES ASSUME NEW k \in 1..n - 1 PROVE nextpkt'[c[q][k]] = nextpkt[c[q][k]]
      OBVIOUS
    <3>2. k \in 1..n /\ n > 0 /\ k # n
      BY <1>3
    <3>3. c[q][k] \in Packets /\ c[q][k] # m
      BY <1>2, <3>2 DEF IsList, NewTo
    <3>4. c[q][k] # c[q][n]
      BY <1>8, <3>2 DEF Intact, AreApart
    <3>5. QED BY <1>7, <1>8, <3>2, <3>3, <3>4
  <2>2. /\ QueueType(f) /\ LinkType(nx) /\ s \in Lists /\ IsList(s, f, nx)
        /\ \A k \in 1..f.len : s[k] # m
        /\ g.len = f.len + 1 /\ g.tail = m /\ g.head = IF f.len = 0 THEN m ELSE f.head
        /\ LinkType(ny) /\ ny[m] = NULL /\ (f.len > 0 => ny[f.tail] = m)
        /\ e = Behind(s, f.len, m)
    BY <1>1, <1>2, <1>7, <1>9 DEF e, NewTo
  <2> HIDE DEF f, g, s, nx, ny
  <2>3. IsList(e, g, ny)
    BY <2>1, <2>2, ListGrows
  <2>4. QED BY <1>6, <2>3 DEF g, ny
<1>11. ASSUME NEW r \in Queues \ {q} PROVE IsList(d[r], ifq'[r], nextpkt')
  <2> DEFINE f == ifq[r]
             s == c[r]
             nx == nextpkt
             ny == nextpkt'
  <2>1. \A k \in 1..f.len : ny[s[k]] = nx[s[k]]
    <3>1. SUFFICES ASSUME NEW k \in 1..ifq[r].len
                   PROVE  nextpkt'[c[r][k]] = nextpkt[c[r][k]]
      OBVIOUS
    <3>2. c[r][k] \in Packets /\ c[r][k] # m
      BY <1>2 DEF IsList, NewTo
    <3>3. n > 0 => c[r][k] # c[q][n]
      BY <1>8 DEF Intact, AreApart
    <3>4. QED BY <1>7, <1>8, <3>2, <3>3
  <2>2. QueueType(f) /\ IsList(s, f, nx)
    BY <1>1, <1>2
  <2>3. d[r] = s /\ ifq'[r] = f
    BY <1>6, <1>7
  <2> HIDE DEF f, s, nx, ny
  <2>4. IsList(s, f, ny)
    BY <2>1, <2>2, ListFrame
  <2>5. QED BY <2>3, <2>4 DEF ny
<1>12. ASSUME NEW r \in Queues, NEW s \in Queues,
              NEW j \in 1..ifq'[r].len, NEW k \in 1..ifq'[s].len, d[r][j] = d[s][k]
       PROVE  r = s /\ j = k
  <2> DEFINE Old(x, i) == i \in 1..ifq[x].len /\ d[x][i] = c[x][i]
             New(x, i) == x = q /\ i = n + 1 /\ d[x][i] = m
  <2>1. \A x \in Queues : \A i \in 1..ifq'[x].len : Old(x, i) \/ New(x, i)
    <3>1. SUFFICES ASSUME NEW x \in Queues, NEW i \in 1..ifq'[x].len
                   PROVE  Old(x, i) \/ New(x, i)
      BY Zenon
    <3>2. CASE x = q
      <4>1. i \in 1..n \/ i = n + 1
        BY <1>3, <1>7, <3>2
      <4>2. QED BY <1>4, <1>6, <3>2, <4>1
    <3>3. CASE x # q
      BY <1>6, <1>7, <3>3
    <3>4. QED BY <3>2, <3>3
  <2>2. CASE Old(r, j) /\ Old(s, k)
    <3>1. c[r][j] = c[s][k] /\ j \in 1..ifq[r].len /\ k \in 1..ifq[s].len
      BY <1>12, <2>2
    <3>2. \A x, y \in Queues : \A i \in 1..ifq[x].len, l \in 1..ifq[y].len :
            c[x][i] = c[y][l] => x = y /\ i = l
      BY DEF Intact, AreApart
    <3>3. QED BY <3>1, <3>2, Zenon
  <2>3. CASE Old(r, j) /\ New(s, k)
    BY <1>12, <2>3 DEF NewTo
  <2>4. CASE New(r, j) /\ Old(s, k)
    BY <1>12, <2>4 DEF NewTo
  <2>5. CASE New(r, j) /\ New(s, k)
    BY <2>5
  <2> HIDE DEF Old, New
  <2>6. QED BY <2>1, <2>2, <2>3, <2>4, <2>5
<1>13. AreLists(d, ifq', nextpkt') /\ AreApart(d, ifq')
  BY <1>10, <1>11, <1>12 DEF AreLists, AreApart
<1>14. Added(c, d, q, m)
  BY <1>3, <1>4, <1>6, <1>7 DEF Added
<1>15. QED BY <1>13, <1>14

\* The packet goes to the input queue of IP.
LEMMA KeepingKept ==
  ASSUME Kept, NEW m \in Packets, Keeping(m), IF_ENQUEUE("ip", m),
         ~stopped, stopped' = stopped
  PROVE  Kept' /\ again' \subseteq again
<1>1. /\ QueueTypes /\ TailsKnown /\ Build(m)
      /\ nextpkt' = Linked("ip", m) /\ ifq' = [ifq EXCEPT !["ip"] = Longer("ip", m)]
  BY DEF Kept, Keeping, IF_ENQUEUE
<1>2. m \notin live /\ again' \subseteq again /\ again' \subseteq Packets
      /\ reused' \in BOOLEAN /\ (~reused' => ~reused)
  BY <1>1, BuildFacts
<1>3. QueueTypes' /\ TailsKnown' /\ ifq'["arp"] = ifq["arp"]
  BY <1>1, <1>2, EnqueueTypes, QueueNames DEF QueueTypes, Keeping
<1>4. ArpNeverArrives' /\ QueuesWalkable'
  BY <1>3 DEF Kept, ArpNeverArrives, QueuesWalkable
<1>5. ASSUME ~reused'
      PROVE  \E c \in [Queues -> Lists] : Intact(c, ifq', nextpkt', live', leaked')
  <2>1. PICK c \in [Queues -> Lists] : Intact(c, ifq, nextpkt, live, leaked)
    BY <1>2, <1>5 DEF Kept, Whole
  <2>2. m \notin leaked /\ NewTo(c, m)
    BY <1>1, <1>5, <2>1, NewPacket DEF Kept
  <2>3. "ip" \in Queues
    BY QueueNames
  <2>4. PICK d : /\ Added(c, d, "ip", m)
                 /\ AreLists(d, ifq', nextpkt') /\ AreApart(d, ifq')
    BY <1>1, <2>1, <2>2, <2>3, EnqueueLists
  <2>5. live' = live \cup {m} /\ leaked' = leaked
    BY <2>2 DEF Keeping
  <2>6. \A k \in 1..ifq'["ip"].len : k \in 1..ifq["ip"].len \/ k = ifq["ip"].len + 1
    BY <2>4 DEF Added
  <2>7. /\ ifq["ip"].len + 1 \in 1..ifq'["ip"].len
        /\ \A k \in 1..ifq["ip"].len : k \in 1..ifq'["ip"].len
    BY <2>4 DEF Added
  <2>8. live' = {d["ip"][k] : k \in 1..ifq'["ip"].len} \cup leaked'
    <3>1. {d["ip"][k] : k \in 1..ifq'["ip"].len} = {c["ip"][k] : k \in 1..ifq["ip"].len} \cup {m}
      BY <2>4, <2>6, <2>7 DEF Added
    <3>2. QED BY <2>1, <2>5, <3>1 DEF Intact
  <2>9. \A k \in 1..ifq'["ip"].len : d["ip"][k] \notin leaked'
    BY <2>1, <2>2, <2>4, <2>5, <2>6 DEF Intact, Added
  <2>10. ASSUME NEW i \in Ifs, NEW k \in 1..ifq'[i].len PROVE d[i][k] \notin live'
    <3>1. i \in Queues \ {"ip"}
      BY QueueNames
    <3>2. d[i] = c[i] /\ ifq'[i] = ifq[i]
      BY <2>4, <3>1 DEF Added
    <3>3. c[i][k] # m /\ c[i][k] \notin live
      BY <2>1, <2>2, <3>1, <3>2 DEF Intact, NewTo
    <3>4. QED BY <2>5, <3>2, <3>3
  <2>11. Intact(d, ifq', nextpkt', live', leaked')
    BY <2>4, <2>8, <2>9, <2>10 DEF Intact, Added
  <2>12. QED BY <2>4, <2>11 DEF Added
<1>6. Whole'
  BY <1>5 DEF Whole
<1>7. QED BY <1>2, <1>3, <1>4, <1>6 DEF Kept

\* The packet is released and stays on the interface's queue.
LEMMA EnqueuedKept ==
  ASSUME Kept, NEW i \in Ifs, NEW m \in Packets, Passing(m), IF_ENQUEUE(i, m),
         ~stopped, stopped' = stopped
  PROVE  Kept' /\ again' \subseteq again
<1>1. /\ QueueTypes /\ TailsKnown /\ Build(m) /\ i \in Queues \ {"ip", "arp"}
      /\ nextpkt' = Linked(i, m) /\ ifq' = [ifq EXCEPT ![i] = Longer(i, m)]
  BY QueueNames DEF Kept, Passing, IF_ENQUEUE
<1>2. m \notin live /\ again' \subseteq again /\ again' \subseteq Packets
      /\ reused' \in BOOLEAN /\ (~reused' => ~reused)
  BY <1>1, BuildFacts
<1>3. QueueTypes' /\ TailsKnown' /\ ifq'["arp"] = ifq["arp"]
  BY <1>1, <1>2, EnqueueTypes, QueueNames DEF QueueTypes, Passing
<1>4. ArpNeverArrives' /\ QueuesWalkable'
  BY <1>3 DEF Kept, ArpNeverArrives, QueuesWalkable
<1>5. ASSUME ~reused'
      PROVE  \E c \in [Queues -> Lists] : Intact(c, ifq', nextpkt', live', leaked')
  <2>1. PICK c \in [Queues -> Lists] : Intact(c, ifq, nextpkt, live, leaked)
    BY <1>2, <1>5 DEF Kept, Whole
  <2>2. m \notin leaked /\ NewTo(c, m)
    BY <1>1, <1>5, <2>1, NewPacket DEF Kept
  <2>3. i \in Queues
    BY <1>1
  <2>4. PICK d : /\ Added(c, d, i, m)
                 /\ AreLists(d, ifq', nextpkt') /\ AreApart(d, ifq')
    BY <1>1, <2>1, <2>2, <2>3, EnqueueLists
  <2>5. live' = live /\ leaked' = leaked
    BY <2>2 DEF Passing
  <2>6. "ip" \in Queues \ {i}
    BY <1>1, QueueNames
  <2>7. /\ live' = {d["ip"][k] : k \in 1..ifq'["ip"].len} \cup leaked'
        /\ \A k \in 1..ifq'["ip"].len : d["ip"][k] \notin leaked'
    BY <2>1, <2>4, <2>5, <2>6 DEF Intact, Added
  <2>8. ASSUME NEW j \in Ifs, NEW k \in 1..ifq'[j].len PROVE d[j][k] \notin live'
    <3>1. CASE j = i
      <4>1. k \in 1..ifq[i].len \/ k = ifq[i].len + 1
        BY <2>4, <3>1 DEF Added
      <4>2. \A n \in 1..ifq[i].len : c[i][n] \notin live
        BY <2>1 DEF Intact
      <4>3. QED BY <1>2, <2>4, <2>5, <3>1, <4>1, <4>2 DEF Added
    <3>2. CASE j # i
      <4>1. d[j] = c[j] /\ ifq'[j] = ifq[j]
        BY <2>4, <3>2, QueueNames DEF Added
      <4>2. QED BY <2>1, <2>5, <4>1 DEF Intact
    <3>3. QED BY <3>1, <3>2
  <2>9. Intact(d, ifq', nextpkt', live', leaked')
    BY <2>4, <2>7, <2>8 DEF Intact, Added
  <2>10. QED BY <2>4, <2>9 DEF Added
<1>6. Whole'
  BY <1>5 DEF Whole
<1>7. QED BY <1>2, <1>3, <1>4, <1>6 DEF Kept

\* if_qflush takes nothing that is allocated, as long as malloc has not
\* handed out anything of the queue.
LEMMA FlushKept ==
  ASSUME Kept, NEW i \in Ifs, if_down(i), ~stopped,
         nextpkt' = nextpkt, leaked' = leaked, reused' = reused
  PROVE  Kept' /\ ifq'[i].len = 0 /\ \A r \in Queues \ {i} : ifq'[r] = ifq[r]
<1> DEFINE p == Path(i)
           n == ifq[i].len
           twice == {m \in OnQueue(i) : \E j, k \in 1..n : j # k /\ p[j] = m /\ p[k] = m}
<1>1. QueueTypes /\ i \in Queues \ {"ip", "arp"} /\ OnQueue(i) \subseteq Packets
  BY OnQueueFacts, QueueNames DEF Kept
<1>2. ifq' = [ifq EXCEPT ![i] = Empty]
  BY DEF if_down
<1>3. /\ ifq'[i] = Empty /\ \A r \in Queues \ {i} : ifq'[r] = ifq[r]
      /\ ifq' \in [Queues -> [head : Packets \cup {NULL}, tail : Packets \cup {NULL}, len : Nat]]
  BY <1>1, <1>2 DEF QueueTypes, Empty
<1>4. /\ live' = live \ OnQueue(i) /\ again' = again \cup (OnQueue(i) \ live) \cup twice
      /\ stopped' = \E k \in 1..n : p[k] = NULL
  BY DEF if_down
<1>5. QueueTypes'
  <2>1. again' \subseteq Packets /\ live' \subseteq Packets /\ stopped' \in BOOLEAN
    BY <1>1, <1>4 DEF QueueTypes
  <2>2. QED BY <1>1, <1>3, <2>1 DEF QueueTypes
<1>6. TailsKnown' /\ ArpNeverArrives'
  BY <1>1, <1>3, QueueNames DEF Kept, TailsKnown, ArpNeverArrives, Empty
<1>7. ASSUME ~reused
      PROVE  ~stopped' /\ \E c \in [Queues -> Lists] : Intact(c, ifq', nextpkt', live', leaked')
  <2>1. PICK c \in [Queues -> Lists] : Intact(c, ifq, nextpkt, live, leaked)
    BY <1>7 DEF Kept, Whole
  <2>2. /\ \A k \in 1..n : p[k] = c[i][k] /\ c[i][k] \in Packets
        /\ OnQueue(i) = {c[i][k] : k \in 1..n}
    BY <1>1, <2>1, OnQueueFacts DEF Intact, AreLists
  <2>3. ~stopped'
    BY <1>4, <2>2, PacketFlowAssumption
  <2>4. live' = live
    BY <1>4, <2>1, <2>2 DEF Intact
  <2>5. \A q \in Queues : ifq'[q].len = 0 \/ ifq'[q] = ifq[q]
    BY <1>3 DEF Empty
  <2>6. AreLists(c, ifq', nextpkt')
    <3>1. ASSUME NEW q \in Queues PROVE IsList(c[q], ifq'[q], nextpkt)
      <4>1. CASE ifq'[q].len = 0
        BY <4>1 DEF IsList
      <4>2. CASE ifq'[q] = ifq[q]
        BY <2>1, <4>2 DEF Intact, AreLists
      <4>3. QED BY <2>5, <4>1, <4>2
    <3>2. QED BY <3>1 DEF AreLists
  <2>7. \A q \in Queues : \A k \in 1..ifq'[q].len : k \in 1..ifq[q].len
    BY <2>5
  <2>8. AreApart(c, ifq')
    BY <2>1, <2>7 DEF Intact, AreApart
  <2>9. ifq'["ip"] = ifq["ip"]
    BY <1>1, <1>3, QueueNames
  <2>10. \A j \in Ifs : \A k \in 1..ifq'[j].len : c[j][k] \notin live'
    BY <2>1, <2>4, <2>7, QueueNames DEF Intact
  <2>11. Intact(c, ifq', nextpkt', live', leaked')
    BY <2>1, <2>4, <2>6, <2>8, <2>9, <2>10 DEF Intact
  <2>12. QED BY <2>3, <2>11
<1>8. Whole' /\ QueuesWalkable'
  BY <1>7 DEF Whole, QueuesWalkable
<1>9. QED BY <1>3, <1>5, <1>6, <1>8 DEF Kept, Empty

\* The protocol takes the first packet of its queue.
LEMMA ConsumeKept ==
  ASSUME Kept, NEW q \in InputQueues, Consume(q), ~stopped
  PROVE  /\ Kept' /\ q = "ip" /\ (reused \/ again' \subseteq again)
         /\ ifq'["ip"].len = ifq["ip"].len - 1
         /\ \A r \in Queues \ {"ip"} : ifq'[r] = ifq[r]
<1>1. QueueTypes /\ TailsKnown
  BY DEF Kept
<1>2. q = "ip" /\ "ip" \in Queues
  BY QueueNames DEF Consume, Kept, ArpNeverArrives, InputQueues
<1> DEFINE f == ifq["ip"]
           h == f.head
           g == Shorter(f, 1, nextpkt)
<1>3. /\ QueueType(f) /\ LinkType(nextpkt) /\ f.len \in Nat /\ f.len > 0
      /\ h \in Packets \cup {NULL}
  BY <1>1, <1>2, QueueTypeOf DEF QueueType, Consume
<1>4. /\ ifq' = [ifq EXCEPT !["ip"] = g] /\ nextpkt' = nextpkt
      /\ live' = live \ ({h} \ {NULL}) /\ again' = again \cup (({h} \ {NULL}) \ live)
      /\ stopped' = (h = NULL) /\ leaked' = leaked /\ reused' = reused
  BY <1>2 DEF Consume, Freed
<1>5. g.len = f.len - 1 /\ QueueType(g) /\ (g.len > 0 => g.tail = f.tail)
  <2>1. CASE f.len = 1
    BY <1>3, <2>1 DEF Shorter, Empty, QueueType
  <2>2. CASE f.len # 1
    <3> DEFINE v == Walk(h, 1 + 1, nextpkt)[1 + 1]
    <3>1. v \in Packets \cup {NULL}
      BY <1>3, ShortWalks DEF LinkType
    <3> HIDE DEF v
    <3>2. g = [f EXCEPT !.head = v, !.len = @ - 1]
      BY <2>2 DEF Shorter, v
    <3>3. f.len - 1 \in Nat
      BY <1>3
    <3>4. QED BY <1>3, <3>1, <3>2, <3>3 DEF QueueType
  <2>3. QED BY <2>1, <2>2
<1> HIDE DEF g
<1>6. ifq'["ip"] = g /\ \A r \in Queues \ {"ip"} : ifq'[r] = ifq[r]
  BY <1>1, <1>2, <1>4 DEF QueueTypes
<1>7. QueueTypes'
  BY <1>1, <1>3, <1>4, <1>5 DEF QueueTypes, QueueType
<1>8. TailsKnown' /\ ArpNeverArrives'
  <2>1. ifq["arp"].len = 0 /\ ifq'["arp"] = ifq["arp"]
    BY <1>6, QueueNames DEF Kept, ArpNeverArrives
  <2>2. TailsKnown'
    BY <1>1, <1>3, <1>5, <1>6 DEF TailsKnown
  <2>3. QED BY <2>1, <2>2 DEF ArpNeverArrives
<1>9. ASSUME ~reused
      PROVE  /\ ~stopped' /\ again' \subseteq again
             /\ \E c \in [Queues -> Lists] : Intact(c, ifq', nextpkt', live', leaked')
  <2>1. PICK c \in [Queues -> Lists] : Intact(c, ifq, nextpkt, live, leaked)
    BY <1>9 DEF Kept, Whole
  <2> DEFINE s == c["ip"]
             d == [c EXCEPT !["ip"] = Rest(s)]
  <2>2. s \in Lists /\ IsList(s, f, nextpkt)
    BY <1>2, <2>1 DEF Intact, AreLists
  <2>3. /\ Rest(s) \in Lists /\ IsList(Rest(s), g, nextpkt)
        /\ \A k \in Nat : Rest(s)[k] = s[k + 1]
    BY <1>3, <2>2, ListShrinks DEF Rest, g
  <2>4. h = s[1] /\ s[1] \in Packets /\ 1 \in 1..f.len
    BY <1>3, <2>2 DEF IsList
  <2>5. /\ live = {s[k] : k \in 1..f.len} \cup leaked
        /\ \A k \in 1..f.len : s[k] \notin leaked
    BY <2>1 DEF Intact
  <2>6. h \in live /\ h # NULL /\ live' = live \ {h}
    BY <1>4, <2>4, <2>5, PacketFlowAssumption
  <2>7. ~stopped' /\ again' \subseteq again
    BY <1>4, <2>6
  <2> HIDE DEF s
  <2>8. d \in [Queues -> Lists] /\ d["ip"] = Rest(s) /\ \A r \in Queues \ {"ip"} : d[r] = c[r]
    BY <1>2, <2>1, <2>3
  <2> HIDE DEF d
  <2>9. AreLists(d, ifq', nextpkt')
    BY <1>4, <1>6, <2>1, <2>3, <2>8 DEF Intact, AreLists
  <2> DEFINE Place(r, k) == IF r = "ip" THEN k + 1 ELSE k
  <2>10. \A r \in Queues : \A k \in 1..ifq'[r].len :
           Place(r, k) \in 1..ifq[r].len /\ d[r][k] = c[r][Place(r, k)]
    <3>1. SUFFICES ASSUME NEW r \in Queues, NEW k \in 1..ifq'[r].len
                   PROVE  Place(r, k) \in 1..ifq[r].len /\ d[r][k] = c[r][Place(r, k)]
      BY Zenon
    <3>2. CASE r = "ip"
      BY <1>3, <1>5, <1>6, <2>3, <2>8, <3>2 DEF s
    <3>3. CASE r # "ip"
      BY <1>6, <2>8, <3>3
    <3>4. QED BY <3>2, <3>3
  <2>11. ASSUME NEW r \in Queues, NEW t \in Queues,
                NEW j \in 1..ifq'[r].len, NEW k \in 1..ifq'[t].len, d[r][j] = d[t][k]
         PROVE  r = t /\ j = k
    <3>1. r = t /\ Place(r, j) = Place(t, k)
      <4>1. \A x, y \in Queues : \A a \in 1..ifq[x].len, b \in 1..ifq[y].len :
              c[x][a] = c[y][b] => x = y /\ a = b
        BY <2>1 DEF Intact, AreApart
      <4> HIDE DEF Place
      <4>2. QED BY <2>10, <2>11, <4>1
    <3>2. QED BY <3>1
  <2>12. AreApart(d, ifq')
    BY <2>11 DEF AreApart
  <2>13. live' = {d["ip"][k] : k \in 1..ifq'["ip"].len} \cup leaked'
    <3>1. \A k \in 1..f.len : s[k] = h => k = 1
      BY <1>2, <2>1, <2>4 DEF Intact, AreApart, s
    <3>2. {d["ip"][k] : k \in 1..g.len} = {s[k] : k \in 1..f.len} \ {h}
      <4>1. ASSUME NEW k \in 1..g.len
            PROVE  d["ip"][k] \in {s[l] : l \in 1..f.len} \ {h}
        <5>1. d["ip"][k] = s[k + 1] /\ k + 1 \in 1..f.len /\ k + 1 # 1
          BY <1>3, <1>5, <2>3, <2>8
        <5>2. QED BY <3>1, <5>1
      <4>2. ASSUME NEW k \in 1..f.len, s[k] # h
            PROVE  s[k] \in {d["ip"][l] : l \in 1..g.len}
        <5>1. k # 1
          BY <2>4, <4>2
        <5>2. k - 1 \in 1..g.len /\ d["ip"][k - 1] = s[(k - 1) + 1]
          BY <1>3, <1>5, <2>3, <2>8, <5>1
        <5>3. d["ip"][k - 1] = s[k]
          BY <5>2
        <5>4. QED BY <5>2, <5>3
      <4>3. QED BY <4>1, <4>2
    <3>3. h \notin leaked
      BY <2>4, <2>5
    <3>4. QED BY <1>4, <1>6, <2>5, <2>6, <3>2, <3>3
  <2>14. \A k \in 1..ifq'["ip"].len : d["ip"][k] \notin leaked'
    <3>1. SUFFICES ASSUME NEW k \in 1..g.len PROVE d["ip"][k] \notin leaked
      BY <1>4, <1>6
    <3>2. d["ip"][k] = s[k + 1] /\ k + 1 \in 1..f.len
      BY <1>3, <1>5, <2>3, <2>8
    <3>3. QED BY <2>5, <3>2
  <2>15. \A i \in Ifs : \A k \in 1..ifq'[i].len : d[i][k] \notin live'
    BY <1>6, <2>1, <2>6, <2>8, QueueNames DEF Intact
  <2>16. Intact(d, ifq', nextpkt', live', leaked')
    BY <2>9, <2>12, <2>13, <2>14, <2>15 DEF Intact
  <2>17. QED BY <2>7, <2>8, <2>16
<1>10. Whole' /\ QueuesWalkable' /\ (reused \/ again' \subseteq again)
  <2>1. CASE reused
    BY <1>4, <2>1 DEF Whole, QueuesWalkable
  <2>2. CASE ~reused
    BY <1>4, <1>9, <2>2 DEF Whole, QueuesWalkable
  <2>3. QED BY <2>1, <2>2
<1>11. QED BY <1>2, <1>5, <1>6, <1>7, <1>8, <1>10 DEF Kept

-----------------------------------------------------------------------------
(* The handlers.                                                           *)

\* What keeps lestart away from if_snd.
NeverRunning == \A i \in Ifs : "RUNNING" \notin flags[i]

\* The rest of TypeOK.
OtherTypes ==
  /\ flags \in [Ifs -> SUBSET Flags]
  /\ output \subseteq Ifs
  /\ txcnt \in [Ethers -> Nat]
  /\ maxlen \in [Queues -> {0, QMAX}]
  /\ header \in [Packets -> {"none", "junk", "ether"}]
  /\ ret \in [pkt : Packets \cup {NULL}, err : Errors]

\* The inductive invariant.
IInv == Kept /\ OtherTypes /\ NeverRunning /\ ErrorReleases /\ InputBounded

LEMMA TypeParts == TypeOK <=> QueueTypes /\ OtherTypes
BY DEF TypeOK, QueueTypes, OtherTypes

\* The steps of the three action properties.
ReleaseStep ==
  \/ again' \subseteq again
  \/ \E i \in Ifs : if_down(i)
  \/ reused /\ \E q \in InputQueues : Consume(q)
FlagsStep == \A i \in output, f \in IFF_CANTCHANGE : f \notin flags[i] => f \notin flags'[i]
FramesStep ==
  \A i \in Ifs :
    \/ ifq'[i].len >= ifq[i].len /\ (ifq[i].len > 0 => ifq'[i].head = ifq[i].head)
    \/ "UP" \notin flags'[i]

\* What the proofs show of every step.
StepRight == IInv' /\ ReleaseStep /\ FlagsStep /\ FramesStep

LEMMA QMaxInNat == QMAX \in Nat
BY PacketFlowAssumption

LEMMA ReturnFacts ==
  ASSUME NEW m \in Packets, NEW e \in Errors, Returns(m, e) \/ (e = "0" /\ ret' = NoError)
  PROVE  /\ ret' \in [pkt : Packets \cup {NULL}, err : Errors]
         /\ ret'.err = e /\ (e # "0" => ret'.pkt = m)
<1>1. ret' = NoError \/ (e # "0" /\ ret' = [pkt |-> m, err |-> e])
  BY DEF Returns
<1>2. CASE ret' = NoError /\ e = "0"
  BY <1>2 DEF NoError
<1>3. CASE e # "0" /\ ret' = [pkt |-> m, err |-> e]
  BY <1>3
<1>4. QED BY <1>1, <1>2, <1>3 DEF Returns

LEMMA NothingReturned ==
  ASSUME ret' = NoError
  PROVE  ret' \in [pkt : Packets \cup {NULL}, err : Errors] /\ ErrorReleases'
BY DEF NoError, Errors, ErrorReleases

LEMMA SameKept ==
  ASSUME Kept, UNCHANGED <<ifq, nextpkt, live, again, leaked, reused, stopped>>
  PROVE  Kept'
BY DEF Kept, QueueTypes, TailsKnown, Whole, QueuesWalkable, ArpNeverArrives

\* Queues that nothing is taken from.
LEMMA GrowingQueues ==
  ASSUME QueueTypes, TailsKnown,
         \/ ifq' = ifq
         \/ \E q \in Queues, m \in Packets : IF_ENQUEUE(q, m)
  PROVE  FramesStep
<1>1. \A q \in Queues : ifq[q].len \in Nat
  BY QueueTypeOf DEF QueueType
<1>2. CASE ifq' = ifq
  BY <1>1, <1>2, QueueNames DEF FramesStep
<1>3. ASSUME NEW q \in Queues, NEW m \in Packets, IF_ENQUEUE(q, m) PROVE FramesStep
  <2>1. /\ ifq'[q].len = ifq[q].len + 1
        /\ ifq'[q].head = IF ifq[q].len = 0 THEN m ELSE ifq[q].head
        /\ \A r \in Queues \ {q} : ifq'[r] = ifq[r]
    BY <1>3, EnqueueTypes DEF IF_ENQUEUE
  <2>2. QED BY <1>1, <2>1, QueueNames DEF FramesStep
<1>4. QED BY <1>2, <1>3

\* Nothing is on a queue, so nothing is in the wrong place.
LEMMA InitRight == Init => IInv
<1>1. SUFFICES ASSUME Init PROVE IInv
  OBVIOUS
<1>2. \A q \in Queues : ifq[q] = Empty /\ ifq[q].len = 0
  BY <1>1 DEF Init, Empty
<1>3. OtherTypes
  <2>1. ret \in [pkt : Packets \cup {NULL}, err : Errors]
    BY <1>1 DEF Init, NoError, Errors
  <2>2. QED BY <1>1, <2>1 DEF Init, OtherTypes
<1>4. QueueTypes
  <2>1. Empty \in [head : Packets \cup {NULL}, tail : Packets \cup {NULL}, len : Nat]
    BY DEF Empty
  <2>2. QED BY <1>1, <2>1 DEF Init, QueueTypes
<1>5. Whole
  <2> DEFINE c == [q \in Queues |-> [k \in Nat |-> NULL]]
  <2>1. c \in [Queues -> Lists]
    BY DEF Lists
  <2> HIDE DEF c
  <2>2. AreLists(c, ifq, nextpkt) /\ AreApart(c, ifq)
    BY <1>2 DEF AreLists, AreApart, IsList
  <2>3. live = {} /\ leaked = {} /\ 1..ifq["ip"].len = {}
    BY <1>1, <1>2, QueueNames DEF Init
  <2>4. Intact(c, ifq, nextpkt, live, leaked)
    BY <1>2, <2>2, <2>3 DEF Intact
  <2>5. QED BY <2>1, <2>4 DEF Whole
<1>6. TailsKnown /\ ArpNeverArrives /\ QueuesWalkable
  BY <1>1, <1>2, QueueNames DEF Init, TailsKnown, ArpNeverArrives, QueuesWalkable
<1>7. NeverRunning /\ ErrorReleases
  BY <1>1 DEF Init, NeverRunning, ErrorReleases, NoError
<1>8. InputBounded
  <2>1. \A q \in InputQueues : ifq[q].len = 0 /\ maxlen[q] \in {0, QMAX}
    BY <1>2, <1>3 DEF OtherTypes, Queues
  <2>2. QED BY <2>1, QMaxInNat DEF InputBounded
<1>9. QED BY <1>3, <1>4, <1>5, <1>6, <1>7, <1>8 DEF IInv, Kept

\* leattach, loopattach, ifinit and SIOCSIFADDR do not touch a packet.
LEMMA NoPacketRight ==
  ASSUME IInv, ret' = NoError, UNCHANGED <<txcnt, queues, storage, stopped, header>>,
         flags' \in [Ifs -> SUBSET Flags], output' \subseteq Ifs,
         maxlen' \in [Queues -> {0, QMAX}],
         maxlen'["ip"] = maxlen["ip"] /\ maxlen'["arp"] = maxlen["arp"],
         NeverRunning', FlagsStep
  PROVE  StepRight
<1>1. Kept /\ OtherTypes /\ InputBounded /\ QueueTypes /\ TailsKnown
  BY DEF IInv, Kept
<1>2. UNCHANGED <<ifq, nextpkt, live, again, leaked, reused, stopped, txcnt, header>>
  BY DEF queues, storage
<1>3. Kept'
  BY <1>1, <1>2, SameKept
<1>4. OtherTypes' /\ ErrorReleases'
  BY <1>1, <1>2, NothingReturned DEF OtherTypes
<1>5. InputBounded'
  BY <1>1, <1>2 DEF InputBounded, InputQueues
<1>6. ReleaseStep
  BY <1>2 DEF ReleaseStep
<1>7. FramesStep
  BY <1>1, <1>2, GrowingQueues
<1>8. QED BY <1>3, <1>4, <1>5, <1>6, <1>7 DEF IInv, StepRight

\* An interface that was not attached gets its flags and its limit.
LEMMA AttachRight ==
  ASSUME IInv, NEW i \in Ifs, i \notin output, NEW g \in SUBSET Flags, "RUNNING" \notin g,
         flags' = [flags EXCEPT ![i] = g], output' = output \cup {i},
         maxlen' = [maxlen EXCEPT ![i] = QMAX] \/ maxlen' = maxlen, ret' = NoError,
         UNCHANGED <<txcnt, queues, storage, stopped, header>>
  PROVE  StepRight
<1>1. OtherTypes /\ NeverRunning
  BY DEF IInv
<1>2. \A j \in Ifs : flags'[j] = IF j = i THEN g ELSE flags[j]
  BY <1>1 DEF OtherTypes
<1>3. flags' \in [Ifs -> SUBSET Flags] /\ output' \subseteq Ifs
  BY <1>1 DEF OtherTypes
<1>4. /\ maxlen' \in [Queues -> {0, QMAX}]
      /\ maxlen'["ip"] = maxlen["ip"] /\ maxlen'["arp"] = maxlen["arp"]
  BY <1>1, QueueNames DEF OtherTypes
<1>5. NeverRunning'
  BY <1>1, <1>2 DEF NeverRunning
<1>6. FlagsStep
  BY <1>1, <1>2 DEF FlagsStep, OtherTypes
<1>7. QED BY <1>3, <1>4, <1>5, <1>6, NoPacketRight

LEMMA EtherAttachRight ==
  ASSUME IInv, NEW i \in Ethers, leattach(i)
  PROVE  StepRight
<1> DEFINE g == {"SIMPLEX", "BROADCAST", "MULTICAST"}
<1>1. g \in SUBSET Flags /\ "RUNNING" \notin g
  BY DEF Flags
<1>2. flags' = [flags EXCEPT ![i] = g]
  BY DEF leattach
<1> HIDE DEF g
<1>3. /\ i \notin output /\ output' = output \cup {i}
      /\ maxlen' = [maxlen EXCEPT ![i] = QMAX] /\ ret' = NoError
      /\ UNCHANGED <<txcnt, queues, storage, stopped, header>>
  BY DEF leattach
<1>4. QED BY <1>1, <1>2, <1>3, AttachRight, QueueNames

LEMMA LoopAttachRight ==
  ASSUME IInv, loopattach
  PROVE  StepRight
<1> DEFINE g == {"MULTICAST", "LOOPBACK"}
<1>1. g \in SUBSET Flags /\ "RUNNING" \notin g
  BY DEF Flags
<1>2. flags' = [flags EXCEPT ![Lo] = g]
  BY DEF loopattach
<1> HIDE DEF g
<1>3. /\ Lo \notin output /\ output' = output \cup {Lo}
      /\ maxlen' = maxlen /\ ret' = NoError
      /\ UNCHANGED <<txcnt, queues, storage, stopped, header>>
  BY DEF loopattach
<1>4. QED BY <1>1, <1>2, <1>3, AttachRight, QueueNames

LEMMA IfinitRight ==
  ASSUME IInv, ifinit
  PROVE  StepRight
<1>1. OtherTypes /\ NeverRunning
  BY DEF IInv
<1>2. /\ flags' = flags /\ output' = output /\ ret' = NoError
      /\ UNCHANGED <<txcnt, queues, storage, stopped, header>>
  BY DEF ifinit
<1>3. /\ maxlen' \in [Queues -> {0, QMAX}]
      /\ maxlen'["ip"] = maxlen["ip"] /\ maxlen'["arp"] = maxlen["arp"]
  <2>1. "ip" \notin output /\ "arp" \notin output
    BY <1>1, QueueNames DEF OtherTypes
  <2>2. QED BY <1>1, <2>1, QueueNames DEF ifinit, OtherTypes
<1>4. flags' \in [Ifs -> SUBSET Flags] /\ output' \subseteq Ifs
  BY <1>1, <1>2 DEF OtherTypes
<1>5. NeverRunning' /\ FlagsStep
  BY <1>1, <1>2 DEF NeverRunning, FlagsStep
<1>6. QED BY <1>2, <1>3, <1>4, <1>5, NoPacketRight

\* The flags that a driver leaves are those it was given, IFF_UP more after
\* SIOCSIFADDR, IFF_RUNNING less if it finds the address down.
LEMMA IoctlFlags ==
  ASSUME NEW i, NEW up \in BOOLEAN, NEW g \in SUBSET Flags
  PROVE  /\ \A cmd : /\ if_ioctl(i, cmd, up, g) \subseteq g \cup {"UP"}
                     /\ if_ioctl(i, cmd, up, g) \in SUBSET Flags
         /\ if_ioctl(i, "SIOCSIFFLAGS", up, g) \subseteq g
<1>1. "UP" \in Flags
  BY DEF Flags
<1>2. ASSUME NEW cmd
      PROVE  /\ loioctl(cmd, g) \subseteq g \cup {"UP"}
             /\ leioctl(cmd, up, g) \subseteq g \cup {"UP"}
  BY DEF loioctl, leioctl
<1>3. ASSUME NEW cmd PROVE if_ioctl(i, cmd, up, g) \subseteq g \cup {"UP"}
  BY <1>2 DEF if_ioctl
<1>4. loioctl("SIOCSIFFLAGS", g) \subseteq g /\ leioctl("SIOCSIFFLAGS", up, g) \subseteq g
  BY DEF loioctl, leioctl
<1>5. if_ioctl(i, "SIOCSIFFLAGS", up, g) \subseteq g
  BY <1>4 DEF if_ioctl
<1>6. QED BY <1>1, <1>3, <1>5

LEMMA AddressRight ==
  ASSUME IInv, NEW i \in Ifs, NEW up \in BOOLEAN, SIOCSIFADDR(i, up)
  PROVE  StepRight
<1>1. OtherTypes /\ NeverRunning
  BY DEF IInv
<1> DEFINE g == if_ioctl(i, "SIOCSIFADDR", up, flags[i])
<1>2. flags[i] \in SUBSET Flags
  BY <1>1 DEF OtherTypes
<1>3. g \subseteq flags[i] \cup {"UP"} /\ g \in SUBSET Flags
  BY <1>2, IoctlFlags
<1>4. flags' = [flags EXCEPT ![i] = g]
  BY DEF SIOCSIFADDR
<1> HIDE DEF g
<1>5. \A j \in Ifs : flags'[j] = IF j = i THEN g ELSE flags[j]
  BY <1>1, <1>4 DEF OtherTypes
<1>6. flags' \in [Ifs -> SUBSET Flags]
  BY <1>1, <1>3, <1>4 DEF OtherTypes
<1>7. \A j \in Ifs : flags'[j] \subseteq flags[j] \cup {"UP"}
  BY <1>3, <1>5
<1>8. NeverRunning'
  BY <1>1, <1>7 DEF NeverRunning
<1>9. FlagsStep
  <2>1. "UP" \notin IFF_CANTCHANGE
    BY DEF IFF_CANTCHANGE
  <2>2. QED BY <1>1, <1>7, <2>1 DEF FlagsStep, OtherTypes
<1>10. /\ output' = output /\ maxlen' = maxlen /\ ret' = NoError
       /\ UNCHANGED <<txcnt, queues, storage, stopped, header>>
  BY DEF SIOCSIFADDR
<1>11. output' \subseteq Ifs /\ maxlen' \in [Queues -> {0, QMAX}]
  BY <1>1, <1>10 DEF OtherTypes
<1>12. QED BY <1>6, <1>8, <1>9, <1>10, <1>11, NoPacketRight

\* What htons leaves is a type that no frame of ARP can have.
LEMMA HtonsFacts ==
  ASSUME NEW t \in Nat
  PROVE  htons(t) \in Nat /\ htons(t) # ETHERTYPE_ARP
<1> DEFINE k == t \div 256
<1>1. k \in Nat
  OBVIOUS
<1> HIDE DEF k
<1>2. k * 256 \in Nat /\ k * 256 # 2054
  BY <1>1
<1>3. QED BY <1>2 DEF htons, ETHERTYPE_ARP, k

\* What a handler that takes a packet leaves of queues, storage and limits.
PacketRight ==
  /\ Kept' /\ InputBounded' /\ maxlen' \in [Queues -> {0, QMAX}]
  /\ again' \subseteq again /\ FramesStep

LEMMA PassingRight ==
  ASSUME Kept, NEW m \in Packets, Passing(m) \/ Leaking(m), NotQueued(m),
         ~stopped, stopped' = stopped, InputBounded,
         maxlen' \in [Queues -> {0, QMAX}],
         \A q \in InputQueues : ifq[q].len <= maxlen'[q]
  PROVE  PacketRight
<1>1. Kept' /\ again' \subseteq again
  BY NotQueuedKept
<1>2. ifq' = ifq
  BY DEF NotQueued
<1>3. InputBounded'
  BY <1>2 DEF InputBounded
<1>4. FramesStep
  BY <1>2, GrowingQueues DEF Kept
<1>5. QED BY <1>1, <1>3, <1>4 DEF PacketRight

LEMMA KeepingRight ==
  ASSUME Kept, NEW m \in Packets, Keeping(m), IF_ENQUEUE("ip", m), ~IF_QFULL("ip"),
         ~stopped, stopped' = stopped, InputBounded,
         maxlen' \in [Queues -> {0, QMAX}],
         \A q \in InputQueues : ifq[q].len <= maxlen'[q]
  PROVE  PacketRight
<1>1. Kept' /\ again' \subseteq again
  BY KeepingKept
<1>2. ifq'["ip"].len = ifq["ip"].len + 1 /\ ifq'["arp"] = ifq["arp"]
  BY EnqueueTypes, QueueNames DEF Kept, IF_ENQUEUE
<1>3. InputBounded'
  <2>1. ifq["ip"].len \in Nat /\ maxlen'["ip"] \in Nat
    BY QMaxInNat, QueueTypeOf, QueueNames DEF Kept, QueueType
  <2>2. ifq'["ip"].len <= maxlen'["ip"]
    BY <1>2, <2>1 DEF IF_QFULL
  <2>3. QED BY <1>2, <2>2 DEF InputBounded, InputQueues
<1>4. FramesStep
  BY GrowingQueues, QueueNames DEF Kept
<1>5. QED BY <1>1, <1>3, <1>4 DEF PacketRight

\* A frame of IP is queued if there is room; whatever becomes of the packet,
\* nothing else does.
LEMMA InputRight ==
  ASSUME IInv, NEW i \in Ifs, NEW m \in Packets, NEW t \in Nat,
         NEW up \in BOOLEAN, ether_input(i, m, t, up), ~stopped, stopped' = stopped
  PROVE  PacketRight
<1> DEFINE type == htons(t)
<1>1. type # ETHERTYPE_ARP
  BY HtonsFacts
<1>2. Kept /\ InputBounded /\ OtherTypes
  BY DEF IInv
<1>3. /\ maxlen' \in [Queues -> {0, QMAX}]
      /\ \A q \in InputQueues : ifq[q].len <= maxlen'[q]
  <2>1. maxlen' = [maxlen EXCEPT !["ip"] = QMAX]
    BY DEF ether_input
  <2>2. /\ maxlen' \in [Queues -> {0, QMAX}]
        /\ maxlen'["ip"] = QMAX /\ maxlen'["arp"] = maxlen["arp"]
    BY <1>2, <2>1, QueueNames DEF OtherTypes
  <2>3. ifq["ip"].len \in Nat /\ maxlen["ip"] \in {0, QMAX}
    BY <1>2, QueueTypeOf, QueueNames DEF Kept, QueueType, OtherTypes
  <2>4. ifq["ip"].len <= maxlen["ip"] /\ ifq["arp"].len <= maxlen["arp"]
    BY <1>2 DEF InputBounded, InputQueues
  <2>5. ifq["ip"].len <= QMAX
    BY <2>3, <2>4, QMaxInNat
  <2>6. QED BY <2>2, <2>4, <2>5 DEF InputQueues
<1>4. CASE ~up
  <2>1. Passing(m) /\ NotQueued(m)
    BY <1>4 DEF ether_input
  <2>2. QED BY <1>2, <1>3, <2>1, PassingRight
<1>5. CASE up /\ type # ETHERTYPE_IP
  <2>1. type \notin {ETHERTYPE_IP, ETHERTYPE_ARP}
    BY <1>1, <1>5
  <2>2. (Passing(m) \/ Leaking(m)) /\ NotQueued(m)
    BY <1>5, <2>1 DEF ether_input
  <2>3. QED BY <1>2, <1>3, <2>2, PassingRight
<1>6. CASE up /\ type = ETHERTYPE_IP
  <2>1. CASE IF_QFULL("ip")
    <3>1. Passing(m) /\ NotQueued(m)
      BY <1>6, <2>1 DEF ether_input
    <3>2. QED BY <1>2, <1>3, <3>1, PassingRight
  <2>2. CASE ~IF_QFULL("ip")
    <3>1. Keeping(m) /\ IF_ENQUEUE("ip", m)
      BY <1>6, <2>2 DEF ether_input
    <3>2. QED BY <1>2, <1>3, <2>2, <3>1, KeepingRight
  <2>3. QED BY <2>1, <2>2
<1>7. QED BY <1>4, <1>5, <1>6

LEMMA ReceiveRight ==
  ASSUME IInv, NEW i \in Ethers, NEW m \in Packets, NEW t \in Types, leread(i, m, t), ~stopped
  PROVE  StepRight
<1>1. OtherTypes /\ NeverRunning /\ i \in Ifs
  BY QueueNames DEF IInv
<1>2. flags' = [flags EXCEPT ![i] = {"UP"}] /\ stopped' = stopped
  BY DEF leread
<1>3. flags'[i] = {"UP"} /\ \A j \in Ifs : j # i => flags'[j] = flags[j]
  BY <1>1, <1>2 DEF OtherTypes
<1>4. "UP" \in Flags /\ "UP" \notin IFF_CANTCHANGE
  BY DEF Flags, IFF_CANTCHANGE
<1>5. flags' \in [Ifs -> SUBSET Flags]
  BY <1>1, <1>2, <1>4 DEF OtherTypes
<1>6. t \in Nat
  BY PacketFlowAssumption
<1> DEFINE w == ntohs(t)
           up == "UP" \in flags'[i]
<1>7. w \in Nat
  BY <1>6, HtonsFacts DEF ntohs
<1>8. ether_input(i, m, w, up)
  BY DEF leread
<1>9. up = TRUE
  BY <1>3
<1> HIDE DEF w, up
<1>10. PacketRight
  BY <1>1, <1>2, <1>7, <1>8, <1>9, InputRight
<1>11. /\ output' = output /\ txcnt' = txcnt /\ ret' = NoError
       /\ header' = [header EXCEPT ![m] = "none"]
  BY DEF leread
<1>12. OtherTypes' /\ ErrorReleases'
  BY <1>1, <1>5, <1>10, <1>11, NothingReturned DEF OtherTypes, PacketRight
<1>13. NeverRunning'
  BY <1>1, <1>3 DEF NeverRunning
<1>14. FlagsStep
  BY <1>1, <1>3, <1>4 DEF FlagsStep, OtherTypes
<1>15. QED BY <1>10, <1>12, <1>13, <1>14 DEF IInv, StepRight, ReleaseStep, PacketRight

\* The parts that ether_output and looutput leave alone.
LEMMA SenderRight ==
  ASSUME IInv, NEW m \in Packets, NEW e \in Errors,
         Returns(m, e) \/ (e = "0" /\ ret' = NoError),
         UNCHANGED <<flags, output, txcnt>>,
         header' \in [Packets -> {"none", "junk", "ether"}],
         PacketRight, e \notin {"0", "ENETDOWN"} => m \notin live'
  PROVE  StepRight
<1>1. OtherTypes /\ NeverRunning
  BY DEF IInv
<1>2. /\ ret' \in [pkt : Packets \cup {NULL}, err : Errors]
      /\ ret'.err = e /\ (e # "0" => ret'.pkt = m)
  BY ReturnFacts
<1>3. OtherTypes'
  BY <1>1, <1>2 DEF OtherTypes, PacketRight
<1>4. NeverRunning' /\ FlagsStep
  BY <1>1 DEF NeverRunning, FlagsStep
<1>5. ErrorReleases'
  BY <1>2 DEF ErrorReleases
<1>6. QED BY <1>3, <1>4, <1>5 DEF IInv, StepRight, ReleaseStep, PacketRight

\* The limits are those in force before, and what is on a queue is within.
LEMMA SameLimits ==
  ASSUME IInv, maxlen' = maxlen
  PROVE  /\ maxlen' \in [Queues -> {0, QMAX}]
         /\ \A q \in InputQueues : ifq[q].len <= maxlen'[q]
BY DEF IInv, OtherTypes, InputBounded

LEMMA PassingReleases ==
  ASSUME NEW m \in Packets, Passing(m)
  PROVE  m \notin live'
BY DEF Passing, Build, Fresh

LEMMA LoopRight ==
  ASSUME IInv, NEW i \in Ifs, NEW m \in Packets, NEW af,
         NEW rt \in {"none", "reject_host", "reject_net", "blackhole"},
         looutput(i, m, af, rt), ~stopped
  PROVE  StepRight
<1>1. Kept /\ OtherTypes /\ InputBounded
  BY DEF IInv
<1>2. /\ UNCHANGED <<flags, output, txcnt>> /\ maxlen' = maxlen /\ stopped' = stopped
      /\ header' = [header EXCEPT ![m] = "none"]
  BY DEF looutput, ifvars
<1>3. header' \in [Packets -> {"none", "junk", "ether"}]
  BY <1>1, <1>2 DEF OtherTypes
<1>4. /\ maxlen' \in [Queues -> {0, QMAX}]
      /\ \A q \in InputQueues : ifq[q].len <= maxlen'[q]
  BY <1>2, SameLimits
<1>5. ASSUME NEW e \in Errors, Passing(m), NotQueued(m), Returns(m, e) PROVE StepRight
  <2>1. PacketRight
    BY <1>1, <1>2, <1>4, <1>5, PassingRight
  <2>2. QED BY <1>2, <1>3, <1>5, <2>1, PassingReleases, SenderRight
<1> DEFINE a == "EAFNOSUPPORT"
           b == "ENOBUFS"
           d == Rejected(rt)
           z == "0"
<1>6. a \in Errors /\ b \in Errors /\ z \in Errors /\ z = "0"
  BY DEF Errors
<1>7. rt # "none" => d \in Errors
  BY DEF Rejected, Errors
<1>8. \/ Passing(m) /\ NotQueued(m) /\ rt # "none" /\ Returns(m, d)
      \/ Passing(m) /\ NotQueued(m) /\ (Returns(m, a) \/ Returns(m, b))
      \/ ~IF_QFULL("ip") /\ Keeping(m) /\ IF_ENQUEUE("ip", m) /\ ret' = NoError
  BY DEF looutput
<1> HIDE DEF a, b, d, z
<1>9. CASE Passing(m) /\ NotQueued(m) /\ rt # "none" /\ Returns(m, d)
  BY <1>5, <1>7, <1>9
<1>10. CASE Passing(m) /\ NotQueued(m) /\ (Returns(m, a) \/ Returns(m, b))
  BY <1>5, <1>6, <1>10
<1>11. CASE ~IF_QFULL("ip") /\ Keeping(m) /\ IF_ENQUEUE("ip", m) /\ ret' = NoError
  <2>1. PacketRight
    BY <1>1, <1>2, <1>4, <1>11, KeepingRight
  <2>2. z \in {"0", "ENETDOWN"}
    BY <1>6
  <2>3. QED BY <1>2, <1>3, <1>6, <1>11, <2>1, <2>2, SenderRight
<1>12. QED BY <1>8, <1>9, <1>10, <1>11

\* lestart takes nothing off the queue.
LEMMA NothingSent ==
  ASSUME NeverRunning, NEW i \in Ifs, NEW n
  PROVE  lestart(i, n) = 0
BY DEF NeverRunning, lestart

\* Taking nothing off a queue leaves it as it is.
LEMMA NothingTaken ==
  ASSUME QueueTypes, TailsKnown, NEW q \in Queues, NEW m \in Packets
  PROVE  Shorter(Longer(q, m), 0, Linked(q, m)) = Longer(q, m)
<1> DEFINE g == Longer(q, m)
           h == g.head
           nx == Linked(q, m)
           t == ifq[q].tail
<1>1. QueueType(ifq[q]) /\ LinkType(nextpkt)
  BY QueueTypeOf
<1>2. /\ g.len = ifq[q].len + 1 /\ g.len # 0 /\ h \in Packets \cup {NULL}
      /\ g = [head |-> h, tail |-> m, len |-> g.len] /\ g.len \in Nat
  BY <1>1 DEF Longer, QueueType
<1>3. LinkType(nx)
  <2>1. LinkType(Cleared(m))
    BY <1>1 DEF Cleared, LinkType
  <2>2. ifq[q].len = 0 \/ t \in Packets
    BY <1>1 DEF TailsKnown, QueueType
  <2>3. QED BY <2>1, <2>2 DEF Linked, LinkType
<1> HIDE DEF g, nx
<1>4. Shorter(g, 0, nx) = [g EXCEPT !.head = Walk(h, 0 + 1, nx)[0 + 1], !.len = @ - 0]
  BY <1>2 DEF Shorter
<1>5. Walk(h, 0 + 1, nx)[0 + 1] = h
  BY <1>2, <1>3, ShortWalks
<1>6. g.len - 0 = g.len
  BY <1>2
<1>7. Shorter(g, 0, nx) = g
  BY <1>2, <1>4, <1>5, <1>6
<1>8. QED BY <1>7 DEF g, nx

LEMMA SendRight ==
  ASSUME IInv, NEW i \in Ethers, NEW m \in Packets, NEW af, NEW rt, NEW inplace \in BOOLEAN,
         ether_output(i, m, af, rt, inplace), ~stopped
  PROVE  StepRight
<1>1. /\ Kept /\ OtherTypes /\ InputBounded /\ NeverRunning /\ QueueTypes /\ TailsKnown
      /\ i \in Ifs /\ i \in Queues
  BY QueueNames DEF IInv, Kept
<1> DEFINE z == "0"
           down == "ENETDOWN"
           full == "ENOBUFS"
           e == Refusal(af, rt)
<1>2. /\ z \in Errors /\ down \in Errors /\ full \in Errors /\ e \in Errors
      /\ z = "0" /\ z \in {"0", "ENETDOWN"} /\ down \in {"0", "ENETDOWN"}
  BY DEF Errors, Refusal, RouteError
<1>3. output' = output /\ maxlen' = maxlen /\ stopped' = stopped
  BY DEF ether_output
<1>4. header' \in [Packets -> {"none", "junk", "ether"}]
  <2> DEFINE h == IF ret'.err = "0" /\ af \in {"unspec", "iso"} THEN Header(af, inplace) ELSE "none"
  <2>1. h \in {"none", "junk", "ether"}
    BY DEF Header
  <2>2. header' = [header EXCEPT ![m] = h]
    BY DEF ether_output
  <2> HIDE DEF h
  <2>3. QED BY <1>1, <2>1, <2>2 DEF OtherTypes
<1>5. /\ maxlen' \in [Queues -> {0, QMAX}]
      /\ \A q \in InputQueues : ifq[q].len <= maxlen'[q]
  BY <1>3, SameLimits
<1>6. ASSUME Passing(m) \/ Leaking(m), NotQueued(m), UNCHANGED <<flags, txcnt>>,
             NEW x \in Errors, Returns(m, x) \/ (x = "0" /\ ret' = NoError),
             Passing(m) \/ x \in {"0", "ENETDOWN"}
      PROVE  StepRight
  <2>1. PacketRight
    BY <1>1, <1>3, <1>5, <1>6, PassingRight
  <2>2. x \notin {"0", "ENETDOWN"} => m \notin live'
    BY <1>6, PassingReleases
  <2>3. QED BY <1>3, <1>4, <1>6, <2>1, <2>2, SenderRight
<1>7. CASE "UP" \notin flags[i]
  <2>1. Leaking(m) /\ NotQueued(m) /\ Returns(m, down) /\ UNCHANGED <<flags, txcnt>>
    BY <1>7 DEF ether_output
  <2> HIDE DEF down, z, full, e
  <2>2. QED BY <1>2, <1>6, <2>1
<1>8. CASE "UP" \in flags[i]
  <2>1. \/ Refused(i, m, af, rt) \/ Unresolved(i, m, af, rt)
        \/ Full(i, m, af, rt) \/ Enqueued(i, m, af, rt)
    BY <1>8 DEF ether_output
  <2>2. CASE Refused(i, m, af, rt)
    <3>1. Passing(m) /\ NotQueued(m) /\ Returns(m, e) /\ UNCHANGED <<flags, txcnt>>
      BY <2>2 DEF Refused
    <3> HIDE DEF e, z, down, full
    <3>2. QED BY <1>2, <1>6, <3>1
  <2>3. CASE Unresolved(i, m, af, rt)
    <3>1. Leaking(m) /\ NotQueued(m) /\ ret' = NoError /\ UNCHANGED <<flags, txcnt>>
      BY <2>3 DEF Unresolved
    <3> HIDE DEF e, z, down, full
    <3>2. QED BY <1>2, <1>6, <3>1
  <2>4. CASE Full(i, m, af, rt)
    <3>1. Passing(m) /\ NotQueued(m) /\ Returns(m, full) /\ UNCHANGED <<flags, txcnt>>
      BY <2>4 DEF Full
    <3> HIDE DEF e, z, down, full
    <3>2. QED BY <1>2, <1>6, <3>1
  <2>5. CASE Enqueued(i, m, af, rt)
    <3> DEFINE n == IF "OACTIVE" \in flags[i] THEN 0 ELSE lestart(i, ifq[i].len + 1)
    <3>1. n = 0
      BY <1>1, NothingSent
    <3>2. /\ Passing(m) /\ ret' = NoError /\ nextpkt' = Linked(i, m)
          /\ ifq' = [ifq EXCEPT ![i] = Shorter(Longer(i, m), n, Linked(i, m))]
          /\ txcnt' = IF n = 0 THEN txcnt ELSE [txcnt EXCEPT ![i] = @ + n]
          /\ flags' = IF n = 0 \/ txcnt[i] + n < LETBUF THEN flags
                      ELSE [flags EXCEPT ![i] = @ \cup {"OACTIVE"}]
      BY <2>5 DEF Enqueued
    <3> HIDE DEF n
    <3>3. /\ flags' = flags /\ txcnt' = txcnt
          /\ ifq' = [ifq EXCEPT ![i] = Shorter(Longer(i, m), 0, Linked(i, m))]
      BY <3>1, <3>2
    <3>4. IF_ENQUEUE(i, m)
      BY <1>1, <3>2, <3>3, NothingTaken DEF IF_ENQUEUE
    <3>5. Kept' /\ again' \subseteq again
      BY <1>1, <1>3, <3>2, <3>4, EnqueuedKept
    <3>6. FramesStep
      BY <1>1, <3>4, GrowingQueues
    <3>7. \A r \in Queues \ {i} : ifq'[r] = ifq[r]
      BY <1>1, <3>4, EnqueueTypes DEF IF_ENQUEUE
    <3>8. InputBounded'
      BY <1>1, <1>5, <3>7, QueueNames DEF InputBounded, InputQueues
    <3>9. PacketRight
      BY <1>5, <3>5, <3>6, <3>8 DEF PacketRight
    <3> HIDE DEF e, z, down, full
    <3>10. QED BY <1>2, <1>3, <1>4, <3>2, <3>3, <3>9, SenderRight
  <2>6. QED BY <2>1, <2>2, <2>3, <2>4, <2>5
<1>9. QED BY <1>7, <1>8

LEMMA FlagsRight ==
  ASSUME IInv, NEW i \in Ifs, NEW req \in Requests, NEW up \in BOOLEAN,
         SIOCSIFFLAGS(i, req, up), ~stopped
  PROVE  StepRight
<1>1. /\ Kept /\ OtherTypes /\ NeverRunning /\ InputBounded /\ QueueTypes /\ TailsKnown
      /\ i \in Queues
  BY QueueNames DEF IInv, Kept
<1>2. flags[i] \in SUBSET Flags /\ req \in SUBSET Flags
  BY <1>1, PacketFlowAssumption DEF OtherTypes
<1> DEFINE f == (flags[i] \cap IFF_CANTCHANGE) \cup (req \ IFF_CANTCHANGE)
           g == if_ioctl(i, "SIOCSIFFLAGS", up, f)
<1>3. f \in SUBSET Flags
  BY <1>2
<1>4. flags' = [flags EXCEPT ![i] = g]
  BY DEF SIOCSIFFLAGS
<1>5. g \subseteq f /\ g \in SUBSET Flags
  <2> HIDE DEF f
  <2>1. QED BY <1>3, IoctlFlags
<1>6. \A c \in IFF_CANTCHANGE : c \in g => c \in flags[i]
  BY <1>5
<1>7. "UP" \notin req => "UP" \notin g
  <2>1. "UP" \notin IFF_CANTCHANGE
    BY DEF IFF_CANTCHANGE
  <2>2. QED BY <1>5, <2>1
<1> HIDE DEF f, g
<1>8. \A j \in Ifs : flags'[j] = IF j = i THEN g ELSE flags[j]
  BY <1>1, <1>4 DEF OtherTypes
<1>9. flags' \in [Ifs -> SUBSET Flags]
  BY <1>1, <1>4, <1>5 DEF OtherTypes
<1>10. FlagsStep
  BY <1>1, <1>6, <1>8 DEF FlagsStep, OtherTypes
<1>11. NeverRunning'
  <2>1. "RUNNING" \in IFF_CANTCHANGE
    BY DEF IFF_CANTCHANGE
  <2>2. QED BY <1>1, <1>6, <1>8, <2>1 DEF NeverRunning
<1>12. /\ UNCHANGED <<output, maxlen, txcnt, header>> /\ ret' = NoError
       /\ nextpkt' = nextpkt /\ leaked' = leaked /\ reused' = reused
  BY DEF SIOCSIFFLAGS
<1>13. OtherTypes' /\ ErrorReleases'
  BY <1>1, <1>9, <1>12, NothingReturned DEF OtherTypes
<1>14. CASE "UP" \in flags[i] /\ "UP" \notin req
  <2>1. if_down(i)
    BY <1>14 DEF SIOCSIFFLAGS
  <2>2. Kept' /\ \A r \in Queues \ {i} : ifq'[r] = ifq[r]
    BY <1>1, <1>12, <2>1, FlushKept
  <2>3. ReleaseStep
    BY <2>1 DEF ReleaseStep
  <2>4. InputBounded'
    BY <1>1, <1>12, <2>2, QueueNames DEF InputBounded, InputQueues
  <2>5. FramesStep
    <3>1. \A r \in Queues : ifq[r].len \in Nat
      BY <1>1, QueueTypeOf DEF QueueType
    <3>2. "UP" \notin flags'[i]
      BY <1>7, <1>8, <1>14
    <3>3. QED BY <2>2, <3>1, <3>2, QueueNames DEF FramesStep
  <2>6. QED BY <1>10, <1>11, <1>13, <2>2, <2>3, <2>4, <2>5 DEF IInv, StepRight
<1>15. CASE ~("UP" \in flags[i] /\ "UP" \notin req)
  <2>1. UNCHANGED <<ifq, live, again, stopped>>
    BY <1>15 DEF SIOCSIFFLAGS
  <2>2. Kept' /\ FramesStep
    BY <1>1, <1>12, <2>1, SameKept, GrowingQueues
  <2>3. InputBounded' /\ ReleaseStep
    BY <1>1, <1>12, <2>1 DEF InputBounded, ReleaseStep
  <2>4. QED BY <1>10, <1>11, <1>13, <2>2, <2>3 DEF IInv, StepRight
<1>16. QED BY <1>14, <1>15

LEMMA ConsumeRight ==
  ASSUME IInv, NEW q \in InputQueues, Consume(q), ~stopped
  PROVE  StepRight
<1>1. Kept /\ OtherTypes /\ NeverRunning /\ InputBounded /\ QueueTypes
  BY DEF IInv, Kept
<1>2. /\ Kept' /\ q = "ip" /\ (reused \/ again' \subseteq again)
      /\ ifq'["ip"].len = ifq["ip"].len - 1
      /\ \A r \in Queues \ {"ip"} : ifq'[r] = ifq[r]
  BY <1>1, ConsumeKept
<1>3. UNCHANGED <<flags, output, maxlen, txcnt, header>> /\ ret' = NoError
  BY DEF Consume, ifvars
<1>4. OtherTypes' /\ ErrorReleases'
  BY <1>1, <1>3, NothingReturned DEF OtherTypes
<1>5. NeverRunning' /\ FlagsStep
  BY <1>1, <1>3 DEF NeverRunning, FlagsStep
<1>6. ReleaseStep
  BY <1>2 DEF ReleaseStep
<1>7. \A r \in Queues : ifq[r].len \in Nat
  BY <1>1, QueueTypeOf DEF QueueType
<1>8. FramesStep
  BY <1>2, <1>7, QueueNames DEF FramesStep
<1>9. InputBounded'
  <2>1. maxlen["ip"] \in Nat /\ ifq["ip"].len \in Nat
    BY <1>1, <1>7, QMaxInNat, QueueNames DEF OtherTypes
  <2>2. ifq["ip"].len <= maxlen["ip"] /\ ifq["arp"].len <= maxlen["arp"]
    BY <1>1 DEF InputBounded, InputQueues
  <2>3. ifq'["ip"].len <= maxlen["ip"]
    BY <1>2, <2>1, <2>2
  <2>4. ifq'["arp"] = ifq["arp"]
    BY <1>2, QueueNames
  <2>5. QED BY <1>3, <2>2, <2>3, <2>4 DEF InputBounded, InputQueues
<1>10. QED BY <1>2, <1>4, <1>5, <1>6, <1>8, <1>9 DEF IInv, StepRight

\* Nothing happens.
LEMMA StutterRight ==
  ASSUME IInv, UNCHANGED vars
  PROVE  IInv'
<1>1. Kept /\ OtherTypes /\ NeverRunning /\ ErrorReleases /\ InputBounded
  BY DEF IInv
<1>2. Kept'
  BY <1>1, SameKept DEF vars
<1>3. OtherTypes' /\ NeverRunning' /\ ErrorReleases' /\ InputBounded'
  BY <1>1 DEF vars, OtherTypes, NeverRunning, ErrorReleases, InputBounded
<1>4. QED BY <1>2, <1>3 DEF IInv

-----------------------------------------------------------------------------
(* Theorems.                                                               *)

\* One step of any handler, in a program that has not followed NULL.
THEOREM NextRight == IInv /\ Next => StepRight
<1>1. SUFFICES ASSUME IInv, ~stopped, Call PROVE StepRight
  BY DEF Next
<1>2. CASE loopattach
  BY <1>1, <1>2, LoopAttachRight
<1>3. CASE ifinit
  BY <1>1, <1>3, IfinitRight
<1>4. CASE \E i \in Ethers : leattach(i)
  BY <1>1, <1>4, EtherAttachRight
<1>5. CASE \E i \in Ethers, m \in Packets, t \in Types : leread(i, m, t)
  BY <1>1, <1>5, ReceiveRight
<1>6. CASE \E i \in Ethers, m \in Packets, af \in {"inet", "iso", "unspec", "other"},
              rt \in RoutesTo, inplace \in Leading : ether_output(i, m, af, rt, inplace)
  BY <1>1, <1>6, SendRight, PacketFlowAssumption
<1>7. CASE \E i \in Ifs, m \in Packets, af \in {"inet", "other"},
              rt \in {"none", "reject_host", "reject_net", "blackhole"} :
             looutput(i, m, af, rt)
  BY <1>1, <1>7, LoopRight
<1>8. CASE \E i \in Ifs, req \in Requests, ifa_up \in BOOLEAN : SIOCSIFFLAGS(i, req, ifa_up)
  BY <1>1, <1>8, FlagsRight
<1>9. CASE \E i \in Ifs, ifa_up \in BOOLEAN : SIOCSIFADDR(i, ifa_up)
  BY <1>1, <1>9, AddressRight
<1>10. CASE \E q \in InputQueues : Consume(q)
  BY <1>1, <1>10, ConsumeRight
<1>11. QED BY <1>1, <1>2, <1>3, <1>4, <1>5, <1>6, <1>7, <1>8, <1>9, <1>10 DEF Call

\* Until malloc hands out storage that is on an if_snd, the queues are lists
\* of different packets, and what is allocated is on the input queue of IP
\* or was forgotten.  No interface is ever running.
THEOREM Invariance == Spec => []IInv
<1>1. IInv /\ [Next]_vars => IInv'
  BY NextRight, StutterRight DEF StepRight
<1>2. QED BY InitRight, <1>1, PTL DEF Spec

\* Every variable keeps a value of its type, whatever storage is reused.
THEOREM TypeCorrect == Spec => []TypeOK
<1>1. IInv => TypeOK
  BY TypeParts DEF IInv, Kept
<1>2. QED BY <1>1, Invariance, PTL

\* For any number of interfaces and packets, and after any calls: an input
\* queue respects its limit, and no frame of any type is taken for ARP.
\* Until malloc has handed out storage that ether_output released and left
\* on an if_snd, what a protocol takes off its input queue is allocated, is
\* there once and is on no other queue.
THEOREM InputQueuesAreSound == Spec => []InputQueuesSound
<1>1. ASSUME IInv, ~reused PROVE InputQueuesLive
  <2>1. QueueTypes /\ ifq["arp"].len = 0
    BY <1>1 DEF IInv, Kept, ArpNeverArrives
  <2>2. PICK c \in [Queues -> Lists] : Intact(c, ifq, nextpkt, live, leaked)
    BY <1>1 DEF IInv, Kept, Whole
  <2>3. \A q \in Queues : /\ \A k \in 1..ifq[q].len : Path(q)[k] = c[q][k]
                          /\ OnQueue(q) = {c[q][k] : k \in 1..ifq[q].len}
    BY <2>1, <2>2, OnQueueFacts DEF Intact, AreLists
  <2>4. "ip" \in Queues /\ OnQueue("arp") = {}
    BY <2>1, <2>3, QueueNames
  <2>5. \A k \in 1..ifq["ip"].len : Path("ip")[k] \in live
    BY <2>2, <2>3, <2>4 DEF Intact
  <2>6. ASSUME NEW j \in 1..ifq["ip"].len, NEW k \in 1..ifq["ip"].len,
               Path("ip")[j] = Path("ip")[k]
        PROVE  j = k
    <3>1. c["ip"][j] = c["ip"][k]
      BY <2>3, <2>4, <2>6
    <3>2. QED BY <2>2, <2>4, <3>1 DEF Intact, AreApart
  <2>7. ASSUME NEW r \in Queues, r # "ip" PROVE OnQueue("ip") \cap OnQueue(r) = {}
    <3>1. \A j \in 1..ifq["ip"].len, k \in 1..ifq[r].len : c["ip"][j] # c[r][k]
      BY <2>2, <2>4, <2>7 DEF Intact, AreApart
    <3>2. QED BY <2>3, <2>4, <3>1
  <2>8. QED BY <2>1, <2>4, <2>5, <2>6, <2>7 DEF InputQueuesLive, InputQueues
<1>2. IInv => InputQueuesSound
  BY <1>1 DEF InputQueuesSound, IInv, Kept
<1>3. QED BY <1>2, Invariance, PTL

\* After every call: a packet whose function returned an error other than
\* ENETDOWN is released; and until malloc has handed out storage that is on
\* an if_snd, what is still allocated is on an input queue or was forgotten
\* on one of the three paths that forget packets.
THEOREM EveryPacketIsReleasedOrKept == Spec => []ReleasedOrKept
<1>1. ASSUME IInv, ~reused PROVE ForgottenOnlyThere
  <2>1. QueueTypes /\ ifq["arp"].len = 0
    BY <1>1 DEF IInv, Kept, ArpNeverArrives
  <2>2. PICK c \in [Queues -> Lists] : Intact(c, ifq, nextpkt, live, leaked)
    BY <1>1 DEF IInv, Kept, Whole
  <2>3. \A q \in Queues : OnQueue(q) = {c[q][k] : k \in 1..ifq[q].len}
    BY <2>1, <2>2, OnQueueFacts DEF Intact, AreLists
  <2>4. OnQueue("ip") = {c["ip"][k] : k \in 1..ifq["ip"].len} /\ OnQueue("arp") = {}
    BY <2>1, <2>3, QueueNames
  <2>5. QED BY <2>2, <2>4 DEF ForgottenOnlyThere, Intact
<1>2. IInv => ReleasedOrKept
  BY <1>1 DEF ReleasedOrKept, IInv
<1>3. QED BY <1>2, Invariance, PTL

\* if_qflush and IF_DEQUEUE never follow NULL, and so never stop the
\* program, before malloc has handed out storage that is on an if_snd.
THEOREM FlushesEnd == Spec => []QueuesWalkable
<1>1. IInv => QueuesWalkable
  BY DEF IInv, Kept
<1>2. QED BY <1>1, Invariance, PTL

\* No step but if_qflush, which meets the packets that ether_output left
\* behind, releases storage a second time before malloc has handed out one
\* of these packets; from then on no step but that and a protocol's.
THEOREM OnlyTheseReleaseTwice == Spec => ReleasedTwice
<1>1. IInv /\ [Next]_vars =>
        [\/ again' \subseteq again
         \/ \E i \in Ifs : if_down(i)
         \/ reused /\ \E q \in InputQueues : Consume(q)]_vars
  BY NextRight DEF StepRight, ReleaseStep
<1>2. QED BY <1>1, Invariance, PTL DEF Spec, ReleasedTwice

\* Whatever calls follow each other, a flag of the interface's own that is
\* lost stays lost, and a frame on if_snd stays there until the interface
\* is taken down.
THEOREM InterfacesStop == Spec => FramesStuck
<1>1. IInv /\ [Next]_vars =>
        [\A i \in output, f \in IFF_CANTCHANGE : f \notin flags[i] => f \notin flags'[i]]_vars
  BY NextRight DEF StepRight, FlagsStep
<1>2. IInv /\ [Next]_vars =>
        [\A i \in Ifs :
           \/ ifq'[i].len >= ifq[i].len /\ (ifq[i].len > 0 => ifq'[i].head = ifq[i].head)
           \/ "UP" \notin flags'[i]]_vars
  BY NextRight DEF StepRight, FramesStep
<1>3. Spec => LostFlagsStayLost
  BY <1>1, Invariance, PTL DEF Spec, LostFlagsStayLost
<1>4. Spec => FramesStay
  BY <1>2, Invariance, PTL DEF Spec, FramesStay
<1>5. QED BY <1>3, <1>4 DEF FramesStuck
=============================================================================
