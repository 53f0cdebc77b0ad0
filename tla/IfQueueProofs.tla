--------------------------- MODULE IfQueueProofs ---------------------------
(***************************************************************************)
(* Proofs about the linked packet queues of IfQueue, for any number of     *)
(* queues and mbufs and any limits.                                        *)
(***************************************************************************)
EXTENDS IfQueue, SequenceTheorems, WellFoundedInduction, TLAPS

(* Facts about lists of packets: no variable of the specification occurs. *)

\* The packets of a list.
Elements(s, n) == {s[i] : i \in 1..n}

\* Every nonempty set of natural numbers has a least element.
LEMMA LeastNatural ==
  ASSUME NEW T \in SUBSET Nat, T # {}
  PROVE  \E x \in T : \A y \in T : x <= y
<1> DEFINE R == OpToRel(<, Nat)
<1>1. \E x \in T : \A y \in T : ~(<<y, x>> \in R)
  <2>1. IsWellFoundedOn(R, Nat)
    BY NatLessThanWellFounded
  <2> HIDE DEF R
  <2>2. QED BY <2>1, WFMin
<1>2. \A x, y \in Nat : y < x => <<y, x>> \in R
  BY DEF OpToRel
<1> HIDE DEF R
<1>3. PICK x \in T : \A y \in T : ~(<<y, x>> \in R)
  BY <1>1
<1>4. \A y \in T : ~(y < x)
  BY <1>2, <1>3
<1>5. QED BY <1>4

\* Two lists with the same header over the same links are the same list.
LEMMA ListUnique ==
  ASSUME NEW n \in Nat, NEW h, NEW t, NEW nx, NEW s, NEW u,
         IsList(s, h, t, n, nx), IsList(u, h, t, n, nx)
  PROVE  s = u
<1> DEFINE D == {i \in 1..n : s[i] # u[i]}
<1>1. CASE D = {}
  BY <1>1 DEF IsList
<1>2. CASE D # {}
  <2>0. D \in SUBSET Nat
    OBVIOUS
  <2> HIDE DEF D
  <2>1. PICK x \in D : \A y \in D : x <= y
    BY <1>2, <2>0, LeastNatural
  <2> USE DEF D
  <2>2. x # 1
    BY <2>1 DEF IsList
  <2>3. x - 1 \in 1..n-1 /\ x - 1 \notin D
    BY <2>1, <2>2
  <2>4. s[x] = nx[s[x-1]] /\ u[x] = nx[u[x-1]]
    BY <2>3 DEF IsList
  <2>5. QED BY <2>1, <2>3, <2>4
<1>3. QED BY <1>1, <1>2

\* So ListOf finds the list whenever there is one.
LEMMA ListOfIsTheList ==
  ASSUME NEW n \in Nat, NEW h, NEW t, NEW nx, NEW s, IsList(s, h, t, n, nx)
  PROVE  ListOf(h, t, n, nx) = s
<1>1. s \in [1..n -> Mbufs]
  BY DEF IsList
<1>2. \E u \in [1..n -> Mbufs] : IsList(u, h, t, n, nx)
  BY <1>1
<1>3. IsList(ListOf(h, t, n, nx), h, t, n, nx)
  BY <1>2 DEF ListOf
<1>4. QED BY <1>3, ListUnique

LEMMA ListIsSeq ==
  ASSUME NEW n \in Nat, NEW h, NEW t, NEW nx, NEW s, IsList(s, h, t, n, nx)
  PROVE  s \in Seq(Mbufs) /\ Len(s) = n
BY DEF IsList

\* A list does not notice changes to links of packets outside it.
LEMMA ListFrame ==
  ASSUME NEW n \in Nat, NEW h, NEW t, NEW nx, NEW s, IsList(s, h, t, n, nx),
         NEW ny, \A m \in Elements(s, n) : ny[m] = nx[m]
  PROVE  IsList(s, h, t, n, ny)
<1>1. \A i \in 1..n : ny[s[i]] = nx[s[i]]
  BY DEF Elements
<1>2. QED BY <1>1 DEF IsList

\* IF_ENQUEUE and IF_PREPEND on an empty queue.
LEMMA ListSingleton ==
  ASSUME NEW m \in Mbufs, NEW nx, nx[m] = NULL
  PROVE  IsList(<<m>>, m, m, 1, nx)
<1>1. <<m>> \in [1..1 -> Mbufs] /\ <<m>>[1] = m
  OBVIOUS
<1>2. QED BY <1>1 DEF IsList

\* IF_ENQUEUE on a queue that has packets.
LEMMA ListAppend ==
  ASSUME NEW n \in Nat \ {0}, NEW h, NEW t,
         NEW nx \in [Mbufs -> Mbufs \cup {NULL}], NEW s,
         IsList(s, h, t, n, nx), NEW m \in Mbufs \ Elements(s, n)
  PROVE  IsList(Append(s, m), h, m, n + 1, [nx EXCEPT ![m] = nx[t], ![t] = m])
<1> DEFINE ny == [nx EXCEPT ![m] = nx[t], ![t] = m]
           p == Append(s, m)
<1>1. s \in Seq(Mbufs) /\ Len(s) = n /\ \A i \in 1..n : s[i] \in Mbufs /\ s[i] # m
  BY ListIsSeq DEF IsList, Elements
<1>2. /\ p \in Seq(Mbufs) /\ Len(p) = n + 1
      /\ \A i \in 1..n : p[i] = s[i]
      /\ p[n+1] = m
  BY <1>1, AppendProperties
<1>3. s[1] = h /\ s[n] = t /\ nx[t] = NULL
  BY DEF IsList
<1>4. ny[m] = NULL /\ ny[t] = m
  BY <1>1, <1>3
<1>5. \A i \in 1..n-1 : ny[s[i]] = s[i+1]
  <2> SUFFICES ASSUME NEW i \in 1..n-1 PROVE ny[s[i]] = s[i+1]
    OBVIOUS
  <2>1. s[i] # m /\ s[i] # t /\ nx[s[i]] = s[i+1]
    BY <1>1, <1>3 DEF IsList
  <2>2. QED BY <2>1, <1>1
<1> HIDE DEF ny, p
<1>6. \A i \in 1..n : ny[p[i]] = p[i+1]
  <2> TAKE i \in 1..n
  <2>1. CASE i = n
    BY <2>1, <1>2, <1>3, <1>4
  <2>2. CASE i \in 1..n-1
    BY <2>2, <1>2, <1>5
  <2>3. QED BY <2>1, <2>2
<1>7. \A i, j \in 1..n+1 : p[i] = p[j] => i = j
  <2> SUFFICES ASSUME NEW i \in 1..n+1, NEW j \in 1..n+1, p[i] = p[j]
               PROVE  i = j
    OBVIOUS
  <2>1. \A k \in 1..n : p[k] # m
    BY <1>1, <1>2
  <2>2. CASE i = n+1 \/ j = n+1
    BY <2>1, <2>2, <1>2
  <2>3. CASE i \in 1..n /\ j \in 1..n
    BY <2>3, <1>2 DEF IsList
  <2>4. QED BY <2>2, <2>3
<1>8. p \in [1..n+1 -> Mbufs]
  BY <1>2, LenProperties
<1>9. p[1] = h
  BY <1>2, <1>3
<1>10. IsList(p, h, m, n+1, ny)
  BY <1>2, <1>4, <1>6, <1>7, <1>8, <1>9 DEF IsList
<1>11. QED BY <1>10 DEF ny, p

\* IF_PREPEND on a queue that has packets.
LEMMA ListPrepend ==
  ASSUME NEW n \in Nat \ {0}, NEW h, NEW t,
         NEW nx \in [Mbufs -> Mbufs \cup {NULL}], NEW s,
         IsList(s, h, t, n, nx), NEW m \in Mbufs \ Elements(s, n)
  PROVE  IsList(<<m>> \o s, m, t, n + 1, [nx EXCEPT ![m] = h])
<1> DEFINE ny == [nx EXCEPT ![m] = h]
           p == <<m>> \o s
<1>1. s \in Seq(Mbufs) /\ Len(s) = n /\ \A i \in 1..n : s[i] \in Mbufs /\ s[i] # m
  BY ListIsSeq DEF IsList, Elements
<1>2. p \in Seq(Mbufs) /\ Len(p) = n + 1
  <2>1. <<m>> \in Seq(Mbufs) /\ Len(<<m>>) = 1
    OBVIOUS
  <2>2. QED BY <2>1, <1>1, ConcatProperties
<1>3. p[1] = m /\ \A i \in 1..n : p[i+1] = s[i]
  BY <1>1
<1>4. ny[m] = h /\ \A i \in 1..n : ny[s[i]] = nx[s[i]]
  BY <1>1
<1>5. s[1] = h /\ s[n] = t /\ nx[s[n]] = NULL
  BY DEF IsList
<1> HIDE DEF ny, p
<1>6. \A i \in 1..n : ny[p[i]] = p[i+1]
  <2> TAKE i \in 1..n
  <2>1. CASE i = 1
    BY <2>1, <1>3, <1>4, <1>5
  <2>2. CASE i \in 2..n
    <3>1. i - 1 \in 1..n-1 /\ i - 1 \in 1..n /\ (i - 1) + 1 = i
      BY <2>2
    <3>2. p[i] = s[i-1] /\ p[i+1] = s[i]
      BY <3>1, <1>3
    <3>3. nx[s[i-1]] = s[i]
      BY <3>1 DEF IsList
    <3>4. QED BY <3>1, <3>2, <3>3, <1>4
  <2>3. QED BY <2>1, <2>2
<1>7. \A i, j \in 1..n+1 : p[i] = p[j] => i = j
  <2> SUFFICES ASSUME NEW i \in 1..n+1, NEW j \in 1..n+1, p[i] = p[j]
               PROVE  i = j
    OBVIOUS
  <2>1. \A k \in 2..n+1 : k - 1 \in 1..n /\ p[k] = s[k-1] /\ p[k] # m
    BY <1>1, <1>3
  <2>2. CASE i = 1 \/ j = 1
    BY <2>1, <2>2, <1>3
  <2>3. CASE i \in 2..n+1 /\ j \in 2..n+1
    BY <2>1, <2>3 DEF IsList
  <2>4. QED BY <2>2, <2>3
<1>8. p[n+1] = t /\ ny[p[n+1]] = NULL
  BY <1>3, <1>4, <1>5
<1>9. p \in [1..n+1 -> Mbufs]
  BY <1>2, LenProperties
<1>10. IsList(p, m, t, n+1, ny)
  BY <1>3, <1>6, <1>7, <1>8, <1>9 DEF IsList
<1>11. QED BY <1>10 DEF ny, p

\* IF_DEQUEUE.
LEMMA ListTail ==
  ASSUME NEW n \in Nat \ {0}, NEW h, NEW t, NEW nx, NEW s,
         IsList(s, h, t, n, nx)
  PROVE  /\ IsList(Tail(s), nx[h], t, n - 1, nx)
         /\ Head(s) = h
         /\ Elements(s, n) = {h} \cup Elements(Tail(s), n - 1)
         /\ h \notin Elements(Tail(s), n - 1)
<1> DEFINE p == Tail(s)
<1>1. s \in Seq(Mbufs) /\ Len(s) = n
  BY ListIsSeq
<1>2. p \in [1..n-1 -> Mbufs] /\ \A i \in 1..n-1 : p[i] = s[i+1]
  <2>1. s # <<>>
    BY <1>1
  <2>2. /\ p \in Seq(Mbufs) /\ Len(p) = n - 1
        /\ \A i \in 1..Len(p) : p[i] = s[i+1]
    BY <1>1, <2>1, HeadTailProperties
  <2>3. QED BY <2>2, LenProperties
<1>3. s[1] = h /\ Head(s) = s[1]
  BY <1>1 DEF IsList
<1> HIDE DEF p
<1>4. n - 1 = 0 => nx[h] = NULL
  BY <1>3 DEF IsList
<1>5. n - 1 > 0 => p[1] = nx[h] /\ p[n-1] = t /\ nx[p[n-1]] = NULL
  BY <1>2, <1>3 DEF IsList
<1>6. \A i \in 1..n-2 : nx[p[i]] = p[i+1]
  <2> TAKE i \in 1..n-2
  <2>1. i \in 1..n-1 /\ i + 1 \in 1..n-1
    OBVIOUS
  <2>2. nx[s[i+1]] = s[(i+1)+1]
    BY <2>1 DEF IsList
  <2>3. QED BY <1>2, <2>1, <2>2
<1>7. \A i, j \in 1..n-1 : p[i] = p[j] => i = j
  <2> SUFFICES ASSUME NEW i \in 1..n-1, NEW j \in 1..n-1, p[i] = p[j]
               PROVE  i = j
    OBVIOUS
  <2>1. i + 1 \in 1..n /\ j + 1 \in 1..n /\ s[i+1] = s[j+1]
    BY <1>2
  <2>2. i + 1 = j + 1
    BY <2>1 DEF IsList
  <2>3. QED BY <2>2
<1>8. IsList(p, nx[h], t, n-1, nx)
  BY <1>2, <1>4, <1>5, <1>6, <1>7 DEF IsList
<1>9. Elements(s, n) = {h} \cup Elements(p, n-1)
  <2>1. \A i \in 1..n : i = 1 \/ (i - 1 \in 1..n-1 /\ s[i] = p[i-1])
    BY <1>2
  <2>2. \A i \in 1..n-1 : i + 1 \in 1..n /\ p[i] = s[i+1]
    BY <1>2
  <2>3. 1 \in 1..n
    OBVIOUS
  <2>4. ASSUME NEW m \in Elements(s, n)
        PROVE  m = h \/ m \in Elements(p, n-1)
    BY <2>1, <1>3 DEF Elements
  <2>5. ASSUME NEW m \in Elements(p, n-1)
        PROVE  m \in Elements(s, n)
    BY <2>2 DEF Elements
  <2>6. h \in Elements(s, n)
    BY <2>3, <1>3 DEF Elements
  <2>7. QED BY <2>4, <2>5, <2>6
<1>10. h \notin Elements(p, n-1)
  <2>1. \A i \in 1..n-1 : i + 1 \in 1..n /\ p[i] = s[i+1] /\ s[i+1] # s[1]
    BY <1>2 DEF IsList
  <2>2. QED BY <2>1, <1>3 DEF Elements
<1>11. QED BY <1>3, <1>8, <1>9, <1>10 DEF p

-----------------------------------------------------------------------------
(* What each operation does to the list of each queue.                     *)

\* ifq_maxlen is zero until the queue is configured, and fixed from then on.
LimitKnown == \A q \in Queues : maxlen[q] \in {0, MaxLen[q]}

\* The inductive invariant.  WellLinked alone is not inductive: that the
\* operation on one queue leaves the lists of the others intact needs the
\* queues to be disjoint, and that a packet can be linked in needs it to be
\* on no queue, which is OnePlace; that setting ifq_maxlen does not cut
\* below the length needs the limit in force to be zero or the configured one.
IInv == TypeOK /\ WellLinked /\ OnePlace /\ Bounded /\ LimitKnown

LEMMA OnQueueElements ==
  \A q : OnQueue(q) = Elements(Chain(q), len[q])
BY DEF OnQueue, Elements

\* A queue keeps its list when neither its header nor the links of its
\* packets are written.
LEMMA ChainFrame ==
  ASSUME IInv, NEW r \in Queues, len'[r] = len[r],
         head'[r] = head[r], tail'[r] = tail[r],
         \A m \in OnQueue(r) : nextpkt'[m] = nextpkt[m]
  PROVE  /\ IsList(Chain(r), head'[r], tail'[r], len'[r], nextpkt')
         /\ Chain(r)' = Chain(r)
<1>1. len[r] \in Nat /\ IsList(Chain(r), head[r], tail[r], len[r], nextpkt)
  BY DEF IInv, TypeOK, WellLinked
<1>2. IsList(Chain(r), head[r], tail[r], len[r], nextpkt')
  BY <1>1, OnQueueElements, ListFrame
<1>3. IsList(Chain(r), head'[r], tail'[r], len'[r], nextpkt')
  BY <1>2
<1>4. QED BY <1>1, <1>3, ListOfIsTheList DEF Chain

\* Operations that write no header and no link of a queued packet.
LEMMA ChainsUnchanged ==
  ASSUME IInv, UNCHANGED <<head, tail, len>>,
         \A q \in Queues : \A m \in OnQueue(q) : nextpkt'[m] = nextpkt[m]
  PROVE  WellLinked' /\ \A q \in Queues : Chain(q)' = Chain(q)
<1>1. \A q \in Queues : /\ IsList(Chain(q), head'[q], tail'[q], len'[q], nextpkt')
                        /\ Chain(q)' = Chain(q)
  BY ChainFrame
<1>2. QED BY <1>1 DEF WellLinked

\* IF_ENQUEUE appends the packet to the list of its queue.
LEMMA EnqueueChains ==
  ASSUME IInv, NEW q \in Queues, NEW m \in Mbufs, IF_ENQUEUE(q, m)
  PROVE  /\ WellLinked'
         /\ Chain(q)' = Append(Chain(q), m)
         /\ \A r \in Queues \ {q} : Chain(r)' = Chain(r)
<1> DEFINE c == Chain(q)
<1>1. /\ len[q] \in Nat /\ nextpkt \in [Mbufs -> Mbufs \cup {NULL}]
      /\ IsList(c, head[q], tail[q], len[q], nextpkt)
      /\ m \notin OnQueue(q)
  BY DEF IInv, TypeOK, WellLinked, OnePlace, IF_ENQUEUE
<1>2. head'[q] = (IF len[q] = 0 THEN m ELSE head[q]) /\ tail'[q] = m
      /\ len'[q] = len[q] + 1
      /\ \A r \in Queues \ {q} : /\ head'[r] = head[r]
                                 /\ tail'[r] = tail[r]
                                 /\ len'[r] = len[r]
  BY DEF IF_ENQUEUE, IInv, TypeOK
<1>3. IsList(Append(c, m), head'[q], tail'[q], len'[q], nextpkt')
  <2>1. CASE len[q] = 0
    <3>1. c = <<>> /\ nextpkt'[m] = NULL
      BY <1>1, <2>1, ListIsSeq DEF IF_ENQUEUE
    <3>2. Append(c, m) = <<m>>
      BY <3>1
    <3>3. IsList(<<m>>, m, m, 1, nextpkt')
      BY <3>1, ListSingleton
    <3>4. QED BY <1>2, <2>1, <3>2, <3>3
  <2>2. CASE len[q] # 0
    <3>1. nextpkt' = [nextpkt EXCEPT ![m] = nextpkt[tail[q]], ![tail[q]] = m]
      BY <2>2 DEF IF_ENQUEUE
    <3>2. m \in Mbufs \ Elements(c, len[q])
      BY <1>1, OnQueueElements
    <3>3. IsList(Append(c, m), head[q], m, len[q] + 1, nextpkt')
      BY <1>1, <2>2, <3>1, <3>2, ListAppend
    <3>4. QED BY <1>2, <2>2, <3>3
  <2>3. QED BY <2>1, <2>2
<1>4. Chain(q)' = Append(c, m)
  <2> HIDE DEF c
  <2>1. len'[q] \in Nat
    BY <1>1, <1>2
  <2>2. ListOf(head'[q], tail'[q], len'[q], nextpkt') = Append(c, m)
    BY <1>3, <2>1, ListOfIsTheList
  <2>3. QED BY <2>2 DEF Chain
<1>5. ASSUME NEW r \in Queues \ {q}
      PROVE  /\ IsList(Chain(r), head'[r], tail'[r], len'[r], nextpkt')
             /\ Chain(r)' = Chain(r)
  <2>1. len[q] > 0 => tail[q] \in OnQueue(q)
    BY <1>1 DEF IsList, OnQueue
  <2>2. \A k \in OnQueue(r) : k \in Mbufs /\ k # m /\ (len[q] > 0 => k # tail[q])
    <3>1. OnQueue(r) \cap OnQueue(q) = {} /\ m \notin OnQueue(r)
      BY DEF IInv, OnePlace, IF_ENQUEUE
    <3>2. OnQueue(r) \subseteq Mbufs
      BY DEF IInv, TypeOK, WellLinked, IsList, OnQueue
    <3>3. QED BY <3>1, <3>2, <2>1
  <2>3. \A k \in OnQueue(r) : nextpkt'[k] = nextpkt[k]
    BY <1>1, <2>2 DEF IF_ENQUEUE
  <2>4. QED BY <1>2, <2>3, ChainFrame
<1>6. WellLinked'
  BY <1>3, <1>4, <1>5 DEF WellLinked
<1>7. QED BY <1>4, <1>5, <1>6

\* IF_PREPEND puts the packet before the list of its queue.
LEMMA PrependChains ==
  ASSUME IInv, NEW q \in Queues, NEW m \in Mbufs, IF_PREPEND(q, m)
  PROVE  /\ WellLinked'
         /\ Chain(q)' = <<m>> \o Chain(q)
         /\ \A r \in Queues \ {q} : Chain(r)' = Chain(r)
<1> DEFINE c == Chain(q)
<1>1. /\ len[q] \in Nat /\ nextpkt \in [Mbufs -> Mbufs \cup {NULL}]
      /\ IsList(c, head[q], tail[q], len[q], nextpkt)
      /\ m \notin OnQueue(q)
  BY DEF IInv, TypeOK, WellLinked, OnePlace, IF_PREPEND
<1>2. CASE head[q] = NULL
  <2>1. IF_ENQUEUE(q, m)
    BY <1>2 DEF IF_PREPEND
  <2>2. len[q] = 0
    BY <1>1, <1>2, IfQueueAssumption DEF IsList
  <2>3. c = <<>>
    BY <1>1, <2>2, ListIsSeq
  <2>4. Append(c, m) = <<m>> \o c
    BY <2>3
  <2>5. QED BY <2>1, <2>4, EnqueueChains
<1>3. CASE head[q] # NULL
  <2>1. len[q] # 0
    BY <1>1, <1>3 DEF IsList
  <2>2. /\ head'[q] = m /\ tail'[q] = tail[q] /\ len'[q] = len[q] + 1
        /\ nextpkt' = [nextpkt EXCEPT ![m] = head[q]]
        /\ \A r \in Queues \ {q} : /\ head'[r] = head[r]
                                   /\ tail'[r] = tail[r]
                                   /\ len'[r] = len[r]
    BY <1>3 DEF IF_PREPEND, IInv, TypeOK
  <2>3. m \in Mbufs \ Elements(c, len[q])
    BY <1>1, OnQueueElements
  <2>4. IsList(<<m>> \o c, head'[q], tail'[q], len'[q], nextpkt')
    <3> HIDE DEF c
    <3>1. len[q] \in Nat \ {0}
      BY <1>1, <2>1
    <3>2. IsList(<<m>> \o c, m, tail[q], len[q] + 1, [nextpkt EXCEPT ![m] = head[q]])
      BY <1>1, <2>3, <3>1, ListPrepend
    <3>3. QED BY <2>2, <3>2
  <2>5. Chain(q)' = <<m>> \o c
    <3> HIDE DEF c
    <3>1. len'[q] \in Nat
      BY <1>1, <2>2
    <3>2. ListOf(head'[q], tail'[q], len'[q], nextpkt') = <<m>> \o c
      BY <2>4, <3>1, ListOfIsTheList
    <3>3. QED BY <3>2 DEF Chain
  <2>6. ASSUME NEW r \in Queues \ {q}
        PROVE  /\ IsList(Chain(r), head'[r], tail'[r], len'[r], nextpkt')
               /\ Chain(r)' = Chain(r)
    <3>1. OnQueue(r) \subseteq Mbufs /\ m \notin OnQueue(r)
      BY DEF IInv, TypeOK, WellLinked, IsList, OnQueue, OnePlace, IF_PREPEND
    <3>2. \A k \in OnQueue(r) : nextpkt'[k] = nextpkt[k]
      BY <1>1, <2>2, <3>1
    <3>3. QED BY <2>2, <3>2, ChainFrame
  <2>7. WellLinked'
    BY <2>4, <2>5, <2>6 DEF WellLinked
  <2>8. QED BY <2>5, <2>6, <2>7
<1>4. QED BY <1>2, <1>3

\* IF_DEQUEUE removes the first packet, which is the one in ifq_head.
LEMMA DequeueChains ==
  ASSUME IInv, NEW q \in Queues, IF_DEQUEUE(q)
  PROVE  /\ WellLinked'
         /\ Chain(q) # <<>> /\ Head(Chain(q)) = head[q]
         /\ Chain(q)' = Tail(Chain(q))
         /\ \A r \in Queues \ {q} : Chain(r)' = Chain(r)
         /\ OnQueue(q) = {head[q]} \cup OnQueue(q)'
         /\ head[q] \notin OnQueue(q)'
<1> DEFINE c == Chain(q)
<1>1. /\ len[q] \in Nat \ {0}
      /\ IsList(c, head[q], tail[q], len[q], nextpkt)
  BY DEF IInv, TypeOK, WellLinked, IF_DEQUEUE
<1>2. /\ head'[q] = nextpkt[head[q]] /\ tail'[q] = tail[q]
      /\ len'[q] = len[q] - 1 /\ nextpkt' = nextpkt
      /\ \A r \in Queues \ {q} : /\ head'[r] = head[r]
                                 /\ tail'[r] = tail[r]
                                 /\ len'[r] = len[r]
  BY DEF IF_DEQUEUE, IInv, TypeOK
<1> HIDE DEF c
<1>3. /\ IsList(Tail(c), head'[q], tail'[q], len'[q], nextpkt')
      /\ Head(c) = head[q]
      /\ Elements(c, len[q]) = {head[q]} \cup Elements(Tail(c), len'[q])
      /\ head[q] \notin Elements(Tail(c), len'[q])
  BY <1>1, <1>2, ListTail
<1>4. ListOf(head'[q], tail'[q], len'[q], nextpkt') = Tail(c)
  <2>1. len'[q] \in Nat
    BY <1>1, <1>2
  <2>2. QED BY <1>3, <2>1, ListOfIsTheList
<1>5. c # <<>>
  BY <1>1, ListIsSeq
<1> USE DEF c
<1>6. Chain(q)' = Tail(Chain(q))
  BY <1>4 DEF Chain
<1>7. OnQueue(q)' = Elements(Tail(Chain(q)), len'[q])
  BY <1>6 DEF OnQueue, Elements
<1>8. \A r \in Queues \ {q} :
        /\ IsList(Chain(r), head'[r], tail'[r], len'[r], nextpkt')
        /\ Chain(r)' = Chain(r)
  BY <1>2, ChainFrame
<1>9. WellLinked'
  BY <1>3, <1>6, <1>8 DEF WellLinked
<1>10. QED BY <1>3, <1>5, <1>6, <1>7, <1>8, <1>9, OnQueueElements

\* if_qflush leaves the empty list, its ifq_head being the m_nextpkt of
\* the last packet.
LEMMA FlushChains ==
  ASSUME IInv, NEW q \in Queues, if_qflush(q)
  PROVE  /\ WellLinked'
         /\ Chain(q) # <<>> /\ Len(Chain(q)) = len[q]
         /\ Chain(q)' = <<>>
         /\ \A r \in Queues \ {q} : Chain(r)' = Chain(r)
<1> DEFINE c == Chain(q)
<1>1. /\ len[q] \in Nat \ {0}
      /\ IsList(c, head[q], tail[q], len[q], nextpkt)
  BY DEF IInv, TypeOK, WellLinked, if_qflush
<1>2. /\ head'[q] = nextpkt[c[len[q]]] /\ tail'[q] = tail[q]
      /\ len'[q] = 0 /\ nextpkt' = nextpkt
      /\ \A r \in Queues \ {q} : /\ head'[r] = head[r]
                                 /\ tail'[r] = tail[r]
                                 /\ len'[r] = len[r]
  BY DEF if_qflush, IInv, TypeOK
<1> HIDE DEF c
<1>3. head'[q] = NULL
  BY <1>1, <1>2 DEF IsList
<1>4. IsList(<<>>, head'[q], tail'[q], len'[q], nextpkt')
  BY <1>2, <1>3 DEF IsList
<1>5. ListOf(head'[q], tail'[q], len'[q], nextpkt') = <<>>
  BY <1>2, <1>4, ListOfIsTheList
<1>6. c # <<>> /\ Len(c) = len[q]
  BY <1>1, ListIsSeq
<1>7. Chain(q)' = <<>>
  BY <1>5 DEF Chain
<1>8. \A r \in Queues \ {q} :
        /\ IsList(Chain(r), head'[r], tail'[r], len'[r], nextpkt')
        /\ Chain(r)' = Chain(r)
  BY <1>2, ChainFrame
<1>9. WellLinked'
  BY <1>4, <1>7, <1>8 DEF WellLinked
<1>10. QED BY <1>6, <1>7, <1>8, <1>9 DEF c

-----------------------------------------------------------------------------
(* The invariants.                                                         *)

\* IF_PREPEND tests ifq_head, IF_ENQUEUE and IF_DEQUEUE test ifq_len: the
\* tests agree in every state of IInv.
LEMMA EmptyTests ==
  ASSUME IInv, NEW q \in Queues
  PROVE  (head[q] = NULL) <=> (len[q] = 0)
<1>1. len[q] \in Nat /\ IsList(Chain(q), head[q], tail[q], len[q], nextpkt)
  BY DEF IInv, TypeOK, WellLinked
<1>2. CASE len[q] = 0
  BY <1>1, <1>2 DEF IsList
<1>3. CASE len[q] # 0
  <2>1. head[q] \in Mbufs
    BY <1>1, <1>3 DEF IsList
  <2>2. QED BY <1>3, <2>1, IfQueueAssumption
<1>4. QED BY <1>2, <1>3

\* The packets on a queue are mbufs and its list is a sequence of len[q].
LEMMA ChainFacts ==
  ASSUME IInv, NEW q \in Queues
  PROVE  /\ len[q] \in Nat /\ Chain(q) \in Seq(Mbufs) /\ Len(Chain(q)) = len[q]
         /\ OnQueue(q) \subseteq Mbufs
         /\ (len[q] = 0) <=> (Chain(q) = <<>>)
<1>1. len[q] \in Nat /\ IsList(Chain(q), head[q], tail[q], len[q], nextpkt)
  BY DEF IInv, TypeOK, WellLinked
<1>2. Chain(q) \in Seq(Mbufs) /\ Len(Chain(q)) = len[q]
  BY <1>1, ListIsSeq
<1>3. QED BY <1>1, <1>2 DEF OnQueue

LEMMA InitIInv == Init => IInv
<1> SUFFICES ASSUME Init PROVE IInv
  OBVIOUS
<1>1. TypeOK
  BY IfQueueAssumption DEF Init, TypeOK
<1>2. \A q \in Queues : IsList(<<>>, head[q], tail[q], len[q], nextpkt)
  BY DEF Init, IsList
<1>3. \A q \in Queues : Chain(q) = <<>>
  <2> TAKE q \in Queues
  <2>1. len[q] \in Nat
    BY DEF Init
  <2>2. QED BY <1>2, <2>1, ListOfIsTheList DEF Chain
<1>4. \A q \in Queues : OnQueue(q) = {}
  BY DEF OnQueue, Init
<1>5. WellLinked /\ OnePlace /\ Bounded /\ LimitKnown
  BY <1>2, <1>3, <1>4 DEF WellLinked, OnePlace, Bounded, LimitKnown, Init
<1>6. QED BY <1>1, <1>5 DEF IInv

\* No operation writes a value of a wrong type.
LEMMA TypeStep ==
  ASSUME IInv, [Next]_vars
  PROVE  TypeOK'
<1> USE IfQueueAssumption DEF TypeOK
<1>0. TypeOK
  BY DEF IInv
<1>1. ASSUME NEW m \in Mbufs, MGETHDR(m) \/ MFreem(m) PROVE TypeOK'
  BY <1>0, <1>1 DEF MGETHDR, MFreem, qvars
<1>2. ASSUME NEW q \in Queues, SetMaxlen(q) PROVE TypeOK'
  BY <1>0, <1>2 DEF SetMaxlen
<1>3. ASSUME NEW q \in Queues, IF_DEQUEUE(q) PROVE TypeOK'
  <2>1. head[q] \in Mbufs
    BY <1>0, <1>3, EmptyTests DEF IF_DEQUEUE
  <2>2. QED BY <1>0, <1>3, <2>1 DEF IF_DEQUEUE
<1>4. ASSUME NEW q \in Queues, if_qflush(q) PROVE TypeOK'
  <2>1. OnQueue(q) \subseteq Mbufs /\ Chain(q)[len[q]] \in Mbufs
    <3>1. len[q] \in Nat \ {0} /\ len[q] \in 1..len[q]
      BY <1>0, <1>4 DEF if_qflush
    <3>2. QED BY <3>1, ChainFacts DEF OnQueue
  <2>2. drops[q] + len[q] \in 0..MaxDrops
    BY <1>0, <1>4 DEF if_qflush
  <2>3. QED BY <1>0, <1>4, <2>1, <2>2 DEF if_qflush
<1>5. ASSUME NEW q \in Queues, NEW m \in Mbufs, IF_ENQUEUE(q, m) PROVE TypeOK'
  <2>1. len[q] # 0 => nextpkt[tail[q]] \in Mbufs \cup {NULL}
    <3>1. IsList(Chain(q), head[q], tail[q], len[q], nextpkt) /\ len[q] \in Nat
      BY <1>0 DEF IInv, WellLinked
    <3>2. len[q] # 0 => tail[q] \in Mbufs
      BY <3>1 DEF IsList
    <3>3. QED BY <1>0, <3>2
  <2>2. QED BY <1>0, <1>5, <2>1 DEF IF_ENQUEUE
<1>6. ASSUME NEW q \in Queues, NEW m \in Mbufs, IF_PREPEND(q, m) PROVE TypeOK'
  BY <1>0, <1>5, <1>6 DEF IF_PREPEND
<1>7. ASSUME NEW q \in Queues, NEW m \in Mbufs, IF_DROP(q, m) PROVE TypeOK'
  BY <1>0, <1>7 DEF IF_DROP
<1>8. CASE UNCHANGED vars
  BY <1>0, <1>8 DEF vars
<1>9. QED
  BY <1>1, <1>2, <1>3, <1>4, <1>5, <1>6, <1>7, <1>8 DEF Next

\* What the operations do to the set of packets on a queue.
LEMMA OnQueueAppend ==
  ASSUME NEW n \in Nat, NEW c \in Seq(Mbufs), Len(c) = n, NEW m \in Mbufs
  PROVE  /\ Elements(Append(c, m), n + 1) = Elements(c, n) \cup {m}
         /\ Elements(<<m>> \o c, n + 1) = Elements(c, n) \cup {m}
<1> DEFINE a == Append(c, m)
           p == <<m>> \o c
<1>1. (\A i \in 1..n : a[i] = c[i]) /\ a[n+1] = m
  BY AppendProperties
<1>2. (\A i \in 1..n : p[i+1] = c[i]) /\ p[1] = m
  OBVIOUS
<1> HIDE DEF a, p
<1>3. Elements(a, n + 1) = Elements(c, n) \cup {m}
  <2>1. \A i \in 1..n+1 : i \in 1..n \/ i = n + 1
    OBVIOUS
  <2>2. (\A i \in 1..n : i \in 1..n+1) /\ n + 1 \in 1..n+1
    OBVIOUS
  <2>3. \A x : x \in Elements(a, n + 1) => x \in Elements(c, n) \cup {m}
    BY <1>1, <2>1 DEF Elements
  <2>4. \A x : x \in Elements(c, n) \cup {m} => x \in Elements(a, n + 1)
    BY <1>1, <2>2 DEF Elements
  <2>5. QED BY <2>3, <2>4
<1>4. Elements(p, n + 1) = Elements(c, n) \cup {m}
  <2>1. \A i \in 1..n+1 : i = 1 \/ (i - 1 \in 1..n /\ p[i] = c[i-1])
    BY <1>2
  <2>2. (\A i \in 1..n : i + 1 \in 1..n+1) /\ 1 \in 1..n+1
    OBVIOUS
  <2>3. \A x : x \in Elements(p, n + 1) => x \in Elements(c, n) \cup {m}
    BY <1>2, <2>1 DEF Elements
  <2>4. \A x : x \in Elements(c, n) \cup {m} => x \in Elements(p, n + 1)
    BY <1>2, <2>2 DEF Elements
  <2>5. QED BY <2>3, <2>4
<1>5. QED BY <1>3, <1>4 DEF a, p

LEMMA OnQueueSame ==
  ASSUME NEW q \in Queues, Chain(q)' = Chain(q), len'[q] = len[q]
  PROVE  OnQueue(q)' = OnQueue(q)
BY DEF OnQueue

\* The effect of a step on the lists: one queue at most gets a new list.
LEMMA OtherQueues ==
  ASSUME IInv, NEW q \in Queues, NEW m \in Mbufs,
         \/ IF_ENQUEUE(q, m) \/ IF_PREPEND(q, m)
         \/ IF_DEQUEUE(q) \/ if_qflush(q)
  PROVE  \A r \in Queues \ {q} : OnQueue(r)' = OnQueue(r)
<1> SUFFICES ASSUME NEW r \in Queues \ {q} PROVE OnQueue(r)' = OnQueue(r)
  OBVIOUS
<1>1. Chain(r)' = Chain(r)
  BY EnqueueChains, PrependChains, DequeueChains, FlushChains
<1>2. len'[r] = len[r]
  BY DEF IF_ENQUEUE, IF_PREPEND, IF_DEQUEUE, if_qflush, IInv, TypeOK
<1>3. QED BY <1>1, <1>2, OnQueueSame

\* Operations that write no header: every packet stays where it is queued.
LEMMA QueuesUntouched ==
  ASSUME IInv, UNCHANGED <<head, tail, len>>,
         \A k \in Mbufs \ free : nextpkt'[k] = nextpkt[k]
  PROVE  WellLinked' /\ \A q \in Queues : OnQueue(q)' = OnQueue(q)
<1>1. \A q \in Queues : OnQueue(q) \subseteq Mbufs \ free
  BY ChainFacts DEF IInv, OnePlace
<1>2. WellLinked' /\ \A q \in Queues : Chain(q)' = Chain(q)
  BY <1>1, ChainsUnchanged
<1>3. QED BY <1>2, OnQueueSame

\* No operation breaks a list.
LEMMA LinkStep ==
  ASSUME IInv, [Next]_vars
  PROVE  WellLinked'
<1>1. ASSUME NEW m \in Mbufs, MGETHDR(m) \/ MFreem(m) PROVE WellLinked'
  BY <1>1, QueuesUntouched DEF MGETHDR, MFreem, qvars, IInv, TypeOK
<1>2. ASSUME NEW q \in Queues, SetMaxlen(q) \/ \E m \in Mbufs : IF_DROP(q, m)
      PROVE  WellLinked'
  BY <1>2, QueuesUntouched DEF SetMaxlen, IF_DROP
<1>3. CASE UNCHANGED vars
  BY <1>3, QueuesUntouched DEF vars
<1>4. QED
  BY <1>1, <1>2, <1>3, EnqueueChains, PrependChains, DequeueChains,
     FlushChains DEF Next

\* The limits: IF_ENQUEUE and IF_PREPEND are the only operations that make a
\* queue longer, and IF_QFULL stands before both.
LEMMA LimitStep ==
  ASSUME IInv, [Next]_vars
  PROVE  Bounded' /\ LimitKnown'
<1> USE IfQueueAssumption DEF Bounded, LimitKnown, TypeOK
<1>0. TypeOK /\ Bounded /\ LimitKnown
  BY DEF IInv
<1>1. ASSUME NEW m \in Mbufs, MGETHDR(m) \/ MFreem(m)
      PROVE  Bounded' /\ LimitKnown'
  BY <1>0, <1>1 DEF MGETHDR, MFreem, qvars
<1>2. ASSUME NEW q \in Queues, SetMaxlen(q)
      PROVE  Bounded' /\ LimitKnown'
  BY <1>0, <1>2 DEF SetMaxlen
<1>3. ASSUME NEW q \in Queues, IF_DEQUEUE(q) \/ if_qflush(q)
      PROVE  Bounded' /\ LimitKnown'
  BY <1>0, <1>3 DEF IF_DEQUEUE, if_qflush
<1>4. ASSUME NEW q \in Queues, NEW m \in Mbufs,
             IF_ENQUEUE(q, m) \/ IF_PREPEND(q, m)
      PROVE  Bounded' /\ LimitKnown'
  <2>1. len[q] + 1 <= maxlen[q]
    BY <1>0, <1>4 DEF IF_ENQUEUE, IF_PREPEND, IF_QFULL
  <2>2. len' = [len EXCEPT ![q] = @ + 1] /\ maxlen' = maxlen
    BY <1>4 DEF IF_ENQUEUE, IF_PREPEND
  <2>3. QED BY <1>0, <2>1, <2>2
<1>5. ASSUME NEW q \in Queues, NEW m \in Mbufs, IF_DROP(q, m)
      PROVE  Bounded' /\ LimitKnown'
  BY <1>0, <1>5 DEF IF_DROP
<1>6. CASE UNCHANGED vars
  BY <1>0, <1>6 DEF vars
<1>7. QED BY <1>1, <1>2, <1>3, <1>4, <1>5, <1>6 DEF Next

\* Linking a packet in takes it from its handler, taking one off hands it
\* to one, flushing hands the packets to the allocator.
LEMMA OwnerStep ==
  ASSUME IInv, [Next]_vars
  PROVE  OnePlace'
<1> USE DEF OnePlace
<1>0. TypeOK /\ OnePlace
  BY DEF IInv
<1>1. ASSUME NEW m \in Mbufs, MGETHDR(m) \/ MFreem(m) PROVE OnePlace'
  <2>1. \A q \in Queues : OnQueue(q)' = OnQueue(q)
    BY <1>0, <1>1, QueuesUntouched DEF MGETHDR, MFreem, qvars, TypeOK
  <2>2. QED BY <1>0, <1>1, <2>1 DEF MGETHDR, MFreem
<1>2. ASSUME NEW q \in Queues, SetMaxlen(q) PROVE OnePlace'
  <2>1. \A r \in Queues : OnQueue(r)' = OnQueue(r)
    BY <1>2, QueuesUntouched DEF SetMaxlen
  <2>2. QED BY <1>0, <1>2, <2>1 DEF SetMaxlen
<1>3. ASSUME NEW q \in Queues, NEW m \in Mbufs, IF_DROP(q, m) PROVE OnePlace'
  <2>1. \A r \in Queues : OnQueue(r)' = OnQueue(r)
    BY <1>3, QueuesUntouched DEF IF_DROP
  <2>2. QED BY <1>0, <1>3, <2>1 DEF IF_DROP
<1>4. ASSUME NEW q \in Queues, NEW m \in Mbufs,
             IF_ENQUEUE(q, m) \/ IF_PREPEND(q, m)
      PROVE  OnePlace'
  <2>1. \A r \in Queues \ {q} : OnQueue(r)' = OnQueue(r)
    BY <1>4, OtherQueues
  <2>2. OnQueue(q)' = OnQueue(q) \cup {m}
    <3>1. Chain(q)' = Append(Chain(q), m) \/ Chain(q)' = <<m>> \o Chain(q)
      BY <1>4, EnqueueChains, PrependChains
    <3>2. len'[q] = len[q] + 1
      BY <1>0, <1>4 DEF IF_ENQUEUE, IF_PREPEND, TypeOK
    <3>3. OnQueue(q)' = Elements(Chain(q)', len[q] + 1)
      BY <3>2 DEF OnQueue, Elements
    <3>4. /\ len[q] \in Nat /\ Chain(q) \in Seq(Mbufs)
          /\ Len(Chain(q)) = len[q]
      BY ChainFacts
    <3>5. /\ Elements(Append(Chain(q), m), len[q] + 1)
               = Elements(Chain(q), len[q]) \cup {m}
          /\ Elements(<<m>> \o Chain(q), len[q] + 1)
               = Elements(Chain(q), len[q]) \cup {m}
      BY <3>4, OnQueueAppend
    <3>6. QED BY <3>1, <3>3, <3>5, OnQueueElements
  <2>3. m \in held /\ held' = held \ {m} /\ free' = free
    BY <1>4 DEF IF_ENQUEUE, IF_PREPEND
  <2>4. QED BY <1>0, <2>1, <2>2, <2>3
<1>5. ASSUME NEW q \in Queues, IF_DEQUEUE(q) PROVE OnePlace'
  <2>1. \A r \in Queues \ {q} : OnQueue(r)' = OnQueue(r)
    <3>1. head[q] \in Mbufs
      BY <1>5, DequeueChains, ChainFacts
    <3>2. QED BY <1>5, <3>1, OtherQueues
  <2>2. OnQueue(q) = {head[q]} \cup OnQueue(q)' /\ head[q] \notin OnQueue(q)'
    BY <1>5, DequeueChains
  <2>3. held' = held \cup {head[q]} /\ free' = free
    BY <1>5 DEF IF_DEQUEUE
  <2>4. QED BY <1>0, <2>1, <2>2, <2>3
<1>6. ASSUME NEW q \in Queues, if_qflush(q) PROVE OnePlace'
  <2>1. OnQueue(q)' = {}
    <3>1. len'[q] = 0
      BY <1>0, <1>6 DEF if_qflush, TypeOK
    <3>2. QED BY <3>1 DEF OnQueue
  <2>2. \A r \in Queues \ {q} : OnQueue(r)' = OnQueue(r)
    <3>1. \A r \in Queues \ {q} : Chain(r)' = Chain(r) /\ len'[r] = len[r]
      BY <1>0, <1>6, FlushChains DEF if_qflush, TypeOK
    <3>2. QED BY <3>1, OnQueueSame
  <2>3. held' = held /\ free' = free \cup OnQueue(q)
    BY <1>6 DEF if_qflush
  <2>4. QED BY <1>0, <2>1, <2>2, <2>3
<1>7. CASE UNCHANGED vars
  <2>1. \A r \in Queues : OnQueue(r)' = OnQueue(r)
    BY <1>7, QueuesUntouched DEF vars
  <2>2. QED BY <1>0, <1>7, <2>1 DEF vars
<1>8. QED BY <1>1, <1>2, <1>3, <1>4, <1>5, <1>6, <1>7 DEF Next

LEMMA StepIInv == IInv /\ [Next]_vars => IInv'
BY TypeStep, LinkStep, OwnerStep, LimitStep DEF IInv

\* IInv holds in every reachable state.
THEOREM Invariance == Spec => []IInv
BY InitIInv, StepIInv, PTL DEF Spec

\* Type correctness of the queues and the heap.
THEOREM TypeCorrect == Spec => []TypeOK
<1>1. IInv => TypeOK
  BY DEF IInv
<1>2. QED BY <1>1, Invariance, PTL

\* For any number of queues and packets, the list of every queue is well
\* formed: head, tail, length and links always describe the same packets.
THEOREM ListsWellLinked == Spec => []WellLinked
<1>1. IInv => WellLinked
  BY DEF IInv
<1>2. QED BY <1>1, Invariance, PTL

\* A packet is free, held, or on exactly one queue.
THEOREM PacketsInOnePlace == Spec => []OnePlace
<1>1. IInv => OnePlace
  BY DEF IInv
<1>2. QED BY <1>1, Invariance, PTL

\* The length of a queue stays within ifq_maxlen.
THEOREM QueuesBounded == Spec => []Bounded
<1>1. IInv => Bounded
  BY DEF IInv
<1>2. QED BY <1>1, Invariance, PTL

-----------------------------------------------------------------------------
(* The linked queues implement PacketFifo.                                 *)

\* The abstract view of a state: what the refinement mapping gives.
View == [q \in Queues |-> Chain(q)]

\* Abstract contents are the concrete ones, so an mbuf that malloc may
\* return is an unused packet.
LEMMA FreeIsUnused ==
  ASSUME IInv, NEW m \in free
  PROVE  Fifo!Unused(m)
<1>1. m \notin held /\ \A q \in Queues : m \notin OnQueue(q)
  BY DEF IInv, OnePlace
<1>2. \A q \in Queues : Fifo!Contents(q) = OnQueue(q)
  BY ChainFacts DEF Fifo!Contents, OnQueue
<1>3. QED BY <1>1, <1>2 DEF Fifo!Unused

LEMMA InitImplements == Init => Fifo!Init
<1> SUFFICES ASSUME Init PROVE Fifo!Init
  OBVIOUS
<1>1. IInv
  BY InitIInv
<1>2. \A q \in Queues : Chain(q) = <<>>
  BY <1>1, ChainFacts DEF Init
<1>3. QED BY <1>2 DEF Init, Fifo!Init

\* Each step of the code is a step of the abstract queue.
LEMMA StepImplements ==
  ASSUME IInv, [Next]_vars
  PROVE  [Fifo!Next]_(Fifo!vars)
<1> USE DEF Fifo!Next, Fifo!vars
<1>0. TypeOK
  BY DEF IInv
<1>1. ASSUME UNCHANGED <<head, tail, len, nextpkt>>
      PROVE  View' = View
  BY <1>1 DEF View, Chain
<1>2. ASSUME NEW m \in Mbufs, MGETHDR(m) PROVE Fifo!Next
  <2>1. \A q \in Queues : Chain(q)' = Chain(q)
    <3>1. \A q \in Queues : \A k \in OnQueue(q) : nextpkt'[k] = nextpkt[k]
      BY <1>0, <1>2, ChainFacts DEF MGETHDR, TypeOK, IInv, OnePlace
    <3>2. QED BY <1>2, <3>1, ChainsUnchanged DEF MGETHDR, qvars
  <2>2. Fifo!Create(m)
    BY <1>2, <2>1, FreeIsUnused DEF Fifo!Create, MGETHDR, qvars
  <2>3. QED BY <2>2
<1>3. ASSUME NEW m \in Mbufs, MFreem(m) PROVE Fifo!Next
  <2>1. Fifo!Discard(m)
    BY <1>1, <1>3 DEF Fifo!Discard, MFreem, View
  <2>2. QED BY <2>1
<1>4. ASSUME NEW q \in Queues, SetMaxlen(q) PROVE Fifo!Next
  <2>1. Fifo!Configure(q)
    BY <1>1, <1>4 DEF Fifo!Configure, SetMaxlen, View
  <2>2. QED BY <2>1
<1>5. ASSUME NEW q \in Queues, NEW m \in Mbufs, IF_DROP(q, m)
      PROVE  Fifo!Next
  <2>1. Len(Chain(q)) = len[q]
    BY ChainFacts
  <2>2. Fifo!Refuse(q, m)
    BY <1>1, <1>5, <2>1 DEF Fifo!Refuse, IF_DROP, IF_QFULL, View
  <2>3. QED BY <2>2
<1>6. ASSUME NEW q \in Queues, NEW m \in Mbufs, IF_ENQUEUE(q, m)
      PROVE  Fifo!Put(q, m)
  <2>1. Len(Chain(q)) = len[q] /\ len[q] \in Nat /\ maxlen[q] \in Nat
    BY <1>0, ChainFacts DEF TypeOK
  <2>2. View' = [View EXCEPT ![q] = Append(Chain(q), m)]
    BY <1>6, EnqueueChains DEF View
  <2>3. QED BY <1>6, <2>1, <2>2 DEF Fifo!Put, IF_ENQUEUE, IF_QFULL, View
<1>7. ASSUME NEW q \in Queues, NEW m \in Mbufs, IF_PREPEND(q, m)
      PROVE  Fifo!PutBack(q, m)
  <2>1. Len(Chain(q)) = len[q] /\ len[q] \in Nat /\ maxlen[q] \in Nat
    BY <1>0, ChainFacts DEF TypeOK
  <2>2. View' = [View EXCEPT ![q] = <<m>> \o Chain(q)]
    BY <1>7, PrependChains DEF View
  <2>3. m \in held /\ held' = held \ {m} /\ UNCHANGED <<maxlen, drops>>
    BY <1>7 DEF IF_PREPEND, IF_ENQUEUE
  <2>4. QED BY <1>7, <2>1, <2>2, <2>3 DEF Fifo!PutBack, IF_PREPEND, IF_QFULL, View
<1>8. ASSUME NEW q \in Queues, IF_DEQUEUE(q) PROVE Fifo!Take(q)
  <2>1. View' = [View EXCEPT ![q] = Tail(Chain(q))]
    BY <1>8, DequeueChains DEF View
  <2>2. Chain(q) # <<>> /\ Head(Chain(q)) = head[q]
    BY <1>8, DequeueChains
  <2>3. QED BY <1>8, <2>1, <2>2 DEF Fifo!Take, IF_DEQUEUE, View
<1>9. ASSUME NEW q \in Queues, if_qflush(q) PROVE Fifo!Purge(q)
  <2>1. View' = [View EXCEPT ![q] = <<>>]
    BY <1>9, FlushChains DEF View
  <2>2. Chain(q) # <<>> /\ Len(Chain(q)) = len[q]
    BY <1>9, FlushChains
  <2>3. QED BY <1>9, <2>1, <2>2 DEF Fifo!Purge, if_qflush, View
<1>10. CASE UNCHANGED vars
  BY <1>1, <1>10 DEF vars, View
<1>11. QED
  BY <1>2, <1>3, <1>4, <1>5, <1>6, <1>7, <1>8, <1>9, <1>10 DEF Next

\* Whatever the interleaving of handlers, number of queues and limits, the
\* pointer code behaves as a set of bounded FIFO queues: order is kept, and
\* a packet leaves a queue only by being taken or by being counted.
THEOREM Refinement == Spec => ImplementsFifo
<1>1. IInv /\ [Next]_vars => [Fifo!Next]_(Fifo!vars)
  BY StepImplements
<1>2. QED BY <1>1, InitImplements, Invariance, PTL
         DEF Spec, ImplementsFifo, Fifo!Spec
=============================================================================
