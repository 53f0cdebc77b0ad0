-------------------------- MODULE InControlProofs --------------------------
(***************************************************************************)
(* Theorems about InControl for any number of interfaces and addresses and *)
(* any initial size of the table.  The invariant has a part about the      *)
(* interfaces, which only if_attach and the lists of addresses can         *)
(* disturb, and a part about the internet addresses.                       *)
(***************************************************************************)
EXTENDS InControl, SequenceFacts, FiniteSetTheorems, TLAPS

\* The addresses on the list of interface i.
On(i) == ToSet(addrlist[i])

\* Storage that was not given out yet is on no list, nor is anything on the
\* list of an interface that is not attached; an address on in_ifaddr is on
\* the list of some interface; and no address is on the lists of two, which
\* must be said of all storage: an address that SIOCDIFADDR took off
\* in_ifaddr may still be on the list of an interface.
Owned ==
  /\ \A a \in Inets, i \in Ifs : a \in On(i) => ia_ifp[a] # NULL /\ i \in Attached
  /\ \A a \in ToSet(in_ifaddr) : ia_ifp[a] # NULL /\ \E i \in Ifs : a \in On(i)
  /\ \A a \in Inets, i, j \in Ifs : a \in On(i) /\ a \in On(j) => i = j

\* Whichever interface in_control was last called for is that of the
\* address at the head of the list.
HeadOwned == in_ifaddr # <<>> /\ ret.ifp # NULL => ia_ifp[Head(in_ifaddr)] = ret.ifp

\* The inductive invariant.
IInv ==
  /\ TypeOK
  /\ NumbersMatchTable
  /\ RestIsClear
  /\ OneAddressOnly
  /\ Owned
  /\ HeadOwned

-----------------------------------------------------------------------------
(* Sequences.                                                              *)

\* A sequence without one of its elements.
LEMMA RemoveAtFacts ==
  ASSUME NEW S, NEW s \in Seq(S), NEW k \in 1..Len(s)
  PROVE  /\ RemoveAt(s, k) \in Seq(S)
         /\ Len(RemoveAt(s, k)) = Len(s) - 1
         /\ \A j \in 1..Len(s) - 1 :
              RemoveAt(s, k)[j] = IF j < k THEN s[j] ELSE s[j + 1]
<1> DEFINE u == SubSeq(s, 1, k - 1)
           v == SubSeq(s, k + 1, Len(s))
<1>1. Len(s) \in Nat /\ \A j \in 1..Len(s) : s[j] \in S
  BY LenProperties, ElementOfSeq
<1>2. /\ u \in Seq(S) /\ Len(u) = k - 1
      /\ \A j \in 1..k - 1 : u[j] = s[j]
  <2>1. 1 \in Int /\ k - 1 \in Int /\ \A j \in 1..k - 1 : s[j] \in S
    BY <1>1
  <2>2. QED BY <1>1, <2>1, SubSeqProperties
<1>3. /\ v \in Seq(S) /\ Len(v) = Len(s) - k
      /\ \A j \in 1..Len(s) - k : v[j] = s[j + k]
  <2>1. k + 1 \in Int /\ Len(s) \in Int /\ \A j \in k + 1..Len(s) : s[j] \in S
    BY <1>1
  <2>2. QED BY <1>1, <2>1, SubSeqProperties
<1>4. /\ u \o v \in Seq(S) /\ Len(u \o v) = Len(s) - 1
      /\ \A j \in 1..Len(s) - 1 : (u \o v)[j] = IF j <= k - 1 THEN u[j] ELSE v[j - (k - 1)]
  <2> HIDE DEF u, v
  <2>1. /\ u \o v \in Seq(S) /\ Len(u \o v) = Len(u) + Len(v)
        /\ \A j \in 1..Len(u) + Len(v) :
             (u \o v)[j] = IF j <= Len(u) THEN u[j] ELSE v[j - Len(u)]
    BY <1>2, <1>3, ConcatProperties
  <2>2. Len(u) + Len(v) = Len(s) - 1
    BY <1>1, <1>2, <1>3
  <2>3. QED BY <1>2, <2>1, <2>2
<1>5. RemoveAt(s, k) = u \o v
  BY DEF RemoveAt
<1> HIDE DEF u, v
<1>6. ASSUME NEW j \in 1..Len(s) - 1
      PROVE  RemoveAt(s, k)[j] = IF j < k THEN s[j] ELSE s[j + 1]
  BY <1>1, <1>2, <1>3, <1>4, <1>5
<1>7. QED BY <1>4, <1>5, <1>6

\* A least index that is the first.
LEMMA LeastIsOne ==
  ASSUME NEW K \in SUBSET (Nat \ {0}), 1 \in K
  PROVE  Min(K) = 1
<1>1. K \in SUBSET Nat /\ K # {}
  OBVIOUS
<1>2. Min(K) \in K /\ Min(K) <= 1
  BY <1>1, MinFacts
<1> DEFINE m == Min(K)
<1> HIDE DEF m
<1>3. m \in Nat \ {0} /\ m <= 1
  BY <1>2 DEF m
<1>4. QED BY <1>3 DEF m

\* The first element of the pieces put together is the first of a piece, of
\* the first one when that is not empty.
LEMMA FlattenHead ==
  ASSUME NEW S, NEW q \in Seq(Seq(S))
  PROVE  /\ FlattenSeq(q) \in Seq(S)
         /\ FlattenSeq(q) # <<>> =>
              \E k \in 1..Len(q) : Len(q[k]) >= 1 /\ FlattenSeq(q)[1] = q[k][1]
         /\ \A k \in 1..Len(q) : Len(q[k]) >= 1 => FlattenSeq(q) # <<>>
         /\ Len(q) >= 1 /\ Len(q[1]) >= 1 => FlattenSeq(q)[1] = q[1][1]
<1> DEFINE t == FlattenSeq(q)
<1>1. t \in Seq(S) /\ \E p : PiecesOf(q, p, t)
  BY FlattenPieces
<1> HIDE DEF t
<1>2. PICK p : PiecesOf(q, p, t)
  BY <1>1
<1>3. Len(t) \in Nat /\ (t = <<>> <=> Len(t) = 0) /\ Len(q) \in Nat
  BY <1>1, LenProperties, EmptySeq
<1>4. \A k \in 1..Len(q) : Len(q[k]) \in Nat
  BY PieceLengths
<1>5. \A k \in 1..Len(q) : \A i \in 1..Len(q[k]) :
        /\ p[k - 1] \in Nat /\ p[k - 1] + i \in 1..Len(t)
        /\ t[p[k - 1] + i] = q[k][i]
  BY <1>1, <1>2, PiecePlace
<1>6. ASSUME t # <<>>
      PROVE  \E k \in 1..Len(q) : Len(q[k]) >= 1 /\ t[1] = q[k][1]
  <2> DEFINE one == 1
  <2>1. one \in 1..Len(t)
    BY <1>3, <1>6
  <2> HIDE DEF one
  <2>2. PlaceOf(q, p, t, one)
    BY <1>1, <1>2, <2>1, PieceAt
  <2>3. PICK k \in 1..Len(q) : \E i \in 1..Len(q[k]) :
          one = p[k - 1] + i /\ t[one] = q[k][i]
    BY <2>2 DEF PlaceOf
  <2>4. PICK i \in 1..Len(q[k]) : one = p[k - 1] + i /\ t[one] = q[k][i]
    BY <2>3
  <2>5. p[k - 1] \in Nat /\ Len(q[k]) \in Nat
    BY <1>4, <1>5, <2>4
  <2>6. i = 1 /\ Len(q[k]) >= 1
    BY <2>4, <2>5 DEF one
  <2>7. QED BY <2>4, <2>6 DEF one
<1>7. ASSUME NEW k \in 1..Len(q), Len(q[k]) >= 1
      PROVE  t # <<>>
  <2>1. 1 \in 1..Len(q[k])
    BY <1>4, <1>7
  <2>2. p[k - 1] + 1 \in 1..Len(t)
    BY <1>5, <2>1
  <2>3. QED BY <1>3, <2>2
<1>8. ASSUME Len(q) >= 1, Len(q[1]) >= 1
      PROVE  t[1] = q[1][1]
  <2>1. 1 \in 1..Len(q) /\ 1 \in 1..Len(q[1])
    BY <1>3, <1>4, <1>8
  <2>2. p[1 - 1] + 1 \in 1..Len(t) /\ t[p[1 - 1] + 1] = q[1][1]
    BY <1>5, <2>1
  <2>3. p[0] = 0
    BY <1>2 DEF PiecesOf
  <2>4. QED BY <2>2, <2>3
<1>9. QED BY <1>1, <1>6, <1>7, <1>8 DEF t

\* The first element of a list that is e has the least index.
LEMMA FirstIndex ==
  ASSUME NEW S, NEW s \in Seq(S), NEW e, \E k \in 1..Len(s) : s[k] = e
  PROVE  \E f \in 1..Len(s) :
           /\ s[f] = e /\ \A k \in 1..Len(s) : s[k] = e => f <= k
           /\ RemoveFirst(s, e) = RemoveAt(s, f)
<1> DEFINE I == {k \in 1..Len(s) : s[k] = e}
<1>1. I \subseteq Nat /\ I # {}
  BY LenProperties
<1>2. Min(I) \in I /\ \A j \in I : Min(I) <= j
  BY <1>1, MinFacts
<1>3. RemoveFirst(s, e) = RemoveAt(s, Min(I))
  BY <1>1 DEF RemoveFirst, SelectInSeq
<1> HIDE DEF I
<1>4. Min(I) \in 1..Len(s) /\ s[Min(I)] = e
  BY <1>2 DEF I
<1>5. \A k \in 1..Len(s) : s[k] = e => Min(I) <= k
  BY <1>2 DEF I
<1>6. QED BY <1>3, <1>4, <1>5

\* Taking an element off a list leaves the head when that is another
\* element, and a list of that one element empty.
LEMMA RemoveFirstFacts ==
  ASSUME NEW S, NEW s \in Seq(S), NEW e
  PROVE  /\ RemoveFirst(s, e) \in Seq(S)
         /\ ToSet(RemoveFirst(s, e)) \subseteq ToSet(s)
         /\ Len(RemoveFirst(s, e)) <= Len(s)
         /\ s # <<>> /\ s[1] # e => RemoveFirst(s, e) # <<>> /\ RemoveFirst(s, e)[1] = s[1]
         /\ s # <<>> /\ Len(s) <= 1 /\ s[1] = e => RemoveFirst(s, e) = <<>>
<1> DEFINE r == RemoveFirst(s, e)
           I == {k \in 1..Len(s) : s[k] = e}
<1>1. Len(s) \in Nat /\ (s = <<>> <=> Len(s) = 0)
  BY LenProperties, EmptySeq
<1>2. CASE I = {}
  <2>1. r = s
    BY <1>2 DEF RemoveFirst
  <2>2. QED BY <1>1, <1>2, <2>1
<1>3. CASE I # {}
  <2>1. PICK k \in 1..Len(s) :
          /\ s[k] = e /\ \A j \in 1..Len(s) : s[j] = e => k <= j
          /\ r = RemoveAt(s, k)
    BY <1>3, FirstIndex
  <2> HIDE DEF r
  <2>3. /\ r \in Seq(S) /\ Len(r) = Len(s) - 1
        /\ \A j \in 1..Len(s) - 1 : r[j] = IF j < k THEN s[j] ELSE s[j + 1]
    BY <2>1, RemoveAtFacts
  <2>4. DOMAIN r = 1..Len(s) - 1 /\ DOMAIN s = 1..Len(s) /\ (r = <<>> <=> Len(r) = 0)
    BY <1>1, <2>3, LenProperties, EmptySeq
  <2>5. ToSet(r) \subseteq ToSet(s)
    <3>1. ASSUME NEW j \in DOMAIN r PROVE \E l \in DOMAIN s : r[j] = s[l]
      <4>1. j \in DOMAIN s /\ j + 1 \in DOMAIN s
        BY <1>1, <2>4
      <4>2. QED BY <1>1, <2>3, <2>4, <4>1
    <3>2. QED BY <3>1 DEF ToSet
  <2>6. ASSUME s # <<>>, s[1] # e
        PROVE  r # <<>> /\ r[1] = s[1]
    BY <1>1, <2>1, <2>3, <2>4, <2>6
  <2>7. QED BY <1>1, <2>1, <2>3, <2>4, <2>5, <2>6 DEF r
<1>4. QED BY <1>2, <1>3

\* What Append does to a list and to the set of its elements.
LEMMA AppendFacts ==
  ASSUME NEW S, NEW s \in Seq(S), NEW e \in S
  PROVE  /\ Append(s, e) \in Seq(S)
         /\ Len(Append(s, e)) = Len(s) + 1
         /\ \A k \in 1..Len(s) + 1 : Append(s, e)[k] = IF k = Len(s) + 1 THEN e ELSE s[k]
         /\ ToSet(Append(s, e)) = ToSet(s) \cup {e}
<1>1. Append(s, e) \in Seq(S) /\ Len(Append(s, e)) = Len(s) + 1 /\ Len(s) \in Nat
  BY AppendProperties, LenProperties
<1>2. \A k \in 1..Len(s) + 1 : Append(s, e)[k] = IF k = Len(s) + 1 THEN e ELSE s[k]
  BY <1>1, AppendProperties
<1>3. DOMAIN s = 1..Len(s) /\ DOMAIN Append(s, e) = 1..Len(s) + 1
  BY <1>1, LenProperties
<1>4. ToSet(Append(s, e)) = ToSet(s) \cup {e}
  <2>1. ToSet(Append(s, e)) \subseteq ToSet(s) \cup {e}
    BY <1>2, <1>3 DEF ToSet
  <2>2. \A k \in DOMAIN s : k \in DOMAIN Append(s, e) /\ Append(s, e)[k] = s[k]
    BY <1>1, <1>2, <1>3
  <2>3. Len(s) + 1 \in DOMAIN Append(s, e) /\ Append(s, e)[Len(s) + 1] = e
    BY <1>1, <1>2, <1>3
  <2>4. ToSet(s) \cup {e} \subseteq ToSet(Append(s, e))
    BY <2>2, <2>3 DEF ToSet
  <2>5. QED BY <2>1, <2>4
<1>5. QED BY <1>1, <1>2, <1>4

-----------------------------------------------------------------------------
(* Attaching an interface.                                                 *)

\* The table, enlarged or not, has room for one more number, keeps the
\* entries it had and is clear behind them.
LEMMA GrownFacts ==
  ASSUME TypeOK, NumbersMatchTable, RestIsClear
  PROVE  /\ Grown \in Seq(Ifs \cup {NULL})
         /\ if_index < Len(Grown)
         /\ \A k \in 1..Len(Grown) :
              Grown[k] = IF k <= if_index THEN table[k] ELSE NULL
<1> DEFINE S == Ifs \cup {NULL}
<1>1. /\ table \in Seq(S) /\ Len(table) \in Nat /\ DOMAIN table = 1..Len(table)
      /\ (table = <<>> <=> Len(table) = 0)
      /\ if_index \in Nat /\ if_index <= Len(table) /\ LIMIT \in Nat \ {0}
  BY LenProperties, EmptySeq, IfRegistryAssumption DEF TypeOK, NumbersMatchTable
<1>2. \A k \in 1..Len(table) : k > if_index => table[k] = NULL
  BY <1>1 DEF RestIsClear
<1>3. \A n \in Nat : Nulls(n) \in Seq(S) /\ Len(Nulls(n)) = n /\ \A k \in 1..n : Nulls(n)[k] = NULL
  BY DEF Nulls
<1> HIDE DEF S
<1>4. CASE table = <<>>
  <2>1. Grown = Nulls(LIMIT)
    BY <1>4 DEF Grown
  <2>2. QED BY <1>1, <1>3, <1>4, <2>1 DEF S
<1>5. CASE table # <<>> /\ if_index >= Len(table)
  <2>1. Grown = table \o Nulls(Len(table))
    BY <1>5 DEF Grown
  <2>2. /\ Grown \in Seq(S) /\ Len(Grown) = Len(table) + Len(table)
        /\ \A k \in 1..Len(table) + Len(table) :
             Grown[k] = IF k <= Len(table) THEN table[k] ELSE Nulls(Len(table))[k - Len(table)]
    <3> DEFINE upper == Nulls(Len(table))
    <3>1. table \in Seq(S) /\ upper \in Seq(S) /\ Len(upper) = Len(table)
      BY <1>1, <1>3
    <3>2. Grown = table \o upper
      BY <2>1
    <3> HIDE DEF upper
    <3>3. /\ table \o upper \in Seq(S) /\ Len(table \o upper) = Len(table) + Len(upper)
          /\ \A k \in 1..Len(table) + Len(upper) : (table \o upper)[k] =
               IF k <= Len(table) THEN table[k] ELSE upper[k - Len(table)]
      BY <3>1, ConcatProperties
    <3>4. QED BY <3>1, <3>2, <3>3 DEF upper
  <2>3. if_index = Len(table) /\ Len(table) > 0
    <3>1. Len(table) # 0 /\ if_index >= Len(table)
      BY <1>1, <1>5
    <3>2. Len(table) \in Nat /\ if_index \in Nat /\ if_index <= Len(table)
      BY <1>1
    <3>3. QED BY <3>1, <3>2
  <2>4. \A k \in 1..Len(table) + Len(table) : k > Len(table) => k - Len(table) \in 1..Len(table)
    BY <1>1
  <2>5. \A k \in 1..Len(table) + Len(table) :
          Grown[k] = IF k <= if_index THEN table[k] ELSE NULL
    <3>1. Len(table) \in Nat
      BY <1>1
    <3>2. \A k \in 1..Len(table) : Nulls(Len(table))[k] = NULL
      BY <1>3, <3>1
    <3>3. QED BY <2>2, <2>3, <2>4, <3>1, <3>2
  <2>6. if_index < Len(Grown)
    BY <1>1, <2>2, <2>3
  <2>7. QED BY <2>2, <2>5, <2>6 DEF S
<1>6. CASE table # <<>> /\ ~(if_index >= Len(table))
  <2>1. Grown = table
    BY <1>6 DEF Grown
  <2>2. QED BY <1>1, <1>2, <1>6, <2>1 DEF S
<1>7. QED BY <1>4, <1>5, <1>6

LEMMA AttachStep ==
  ASSUME IInv, NEW i \in Ifs, if_attach(i), UNCHANGED <<invars, ret>>
  PROVE  IInv'
<1> DEFINE n == Len(ifnet)
<1>1. /\ i \notin Attached /\ ifnet' = Append(ifnet, i) /\ if_index' = if_index + 1
      /\ index' = [index EXCEPT ![i] = if_index + 1]
      /\ table' = [k \in 1..Len(Grown) |-> IF k = if_index + 1 THEN i ELSE Grown[k]]
      /\ addrlist' = [addrlist EXCEPT ![i] = <<i>>]
      /\ UNCHANGED <<in_ifaddr, ia_ifp, dst, in_interfaces, ret>>
  BY DEF if_attach, invars
<1>2. /\ ifnet \in Seq(Ifs) /\ n \in Nat /\ DOMAIN ifnet = 1..n /\ n = if_index
      /\ index \in [Ifs -> Nat] /\ addrlist \in [Ifs -> Seq(Addrs)]
  BY LenProperties DEF IInv, TypeOK, NumbersMatchTable
<1>3. /\ Grown \in Seq(Ifs \cup {NULL}) /\ n < Len(Grown) /\ Len(Grown) \in Nat
      /\ \A k \in 1..Len(Grown) : Grown[k] = IF k <= n THEN table[k] ELSE NULL
  BY <1>2, GrownFacts, LenProperties DEF IInv
<1>4. /\ ifnet' \in Seq(Ifs) /\ Len(ifnet') = n + 1 /\ DOMAIN ifnet' = 1..n + 1
      /\ \A k \in 1..n + 1 : ifnet'[k] = IF k = n + 1 THEN i ELSE ifnet[k]
      /\ Attached' = Attached \cup {i}
  <2>1. /\ ifnet' \in Seq(Ifs) /\ Len(ifnet') = n + 1
        /\ \A k \in 1..n + 1 : ifnet'[k] = IF k = n + 1 THEN i ELSE ifnet[k]
        /\ ToSet(ifnet') = ToSet(ifnet) \cup {i}
    BY <1>1, <1>2, AppendFacts
  <2>2. DOMAIN ifnet' = 1..n + 1
    BY <2>1, LenProperties
  <2>3. Attached = ToSet(ifnet) /\ Attached' = ToSet(ifnet')
    BY DEF Attached, ToSet
  <2>4. QED BY <2>1, <2>2, <2>3
<1>5. /\ table' \in Seq(Ifs \cup {NULL}) /\ Len(table') = Len(Grown) /\ DOMAIN table' = 1..Len(Grown)
      /\ \A k \in 1..Len(Grown) : table'[k] =
           IF k <= n THEN table[k] ELSE IF k = n + 1 THEN i ELSE NULL
  <2>1. \A k \in 1..Len(Grown) : Grown[k] \in Ifs \cup {NULL}
    BY <1>3, ElementOfSeq
  <2>2. table' \in [1..Len(Grown) -> Ifs \cup {NULL}]
    BY <1>1, <2>1
  <2>3. table' \in Seq(Ifs \cup {NULL})
    BY <1>3, <2>2
  <2>4. QED BY <1>1, <1>2, <1>3, <2>2, <2>3
<1>6. \A k \in 1..n : ifnet[k] \in Attached /\ ifnet[k] # i /\ ifnet[k] \in Ifs
  BY <1>1, <1>2, ElementOfSeq DEF Attached
<1>7. addrlist' \in [Ifs -> Seq(Addrs)] /\ addrlist'[i] = <<i>>
      /\ \A j \in Ifs : j # i => addrlist'[j] = addrlist[j]
  <2>1. <<i>> \in Seq(Addrs)
    BY DEF Addrs
  <2>2. QED BY <1>1, <1>2, <2>1
<1>8. TypeOK'
  BY <1>1, <1>2, <1>4, <1>5, <1>7 DEF IInv, TypeOK
<1>9. NumbersMatchTable'
  <2>1. if_index' = Len(ifnet') /\ if_index' <= Len(table')
    BY <1>1, <1>2, <1>3, <1>4, <1>5
  <2>2. ASSUME NEW k \in 1..n
        PROVE  /\ index'[ifnet'[k]] = k /\ table'[k] = ifnet'[k]
               /\ addrlist'[ifnet'[k]] # <<>> /\ addrlist'[ifnet'[k]][1] = ifnet'[k]
    <3>1. ifnet'[k] = ifnet[k]
      BY <1>2, <1>4
    <3>2. /\ index[ifnet[k]] = k /\ table[k] = ifnet[k]
          /\ addrlist[ifnet[k]] # <<>> /\ addrlist[ifnet[k]][1] = ifnet[k]
      BY <1>2 DEF IInv, NumbersMatchTable
    <3>3. index'[ifnet[k]] = index[ifnet[k]] /\ addrlist'[ifnet[k]] = addrlist[ifnet[k]]
      BY <1>1, <1>2, <1>6, <1>7
    <3>4. table'[k] = table[k]
      BY <1>2, <1>3, <1>5
    <3>5. QED BY <3>1, <3>2, <3>3, <3>4
  <2>3. /\ index'[ifnet'[n + 1]] = n + 1 /\ table'[n + 1] = ifnet'[n + 1]
        /\ addrlist'[ifnet'[n + 1]] # <<>> /\ addrlist'[ifnet'[n + 1]][1] = ifnet'[n + 1]
    <3>1. ifnet'[n + 1] = i /\ n + 1 \in 1..Len(Grown)
      BY <1>2, <1>3, <1>4
    <3>2. <<i>> # <<>> /\ <<i>>[1] = i
      OBVIOUS
    <3>3. QED BY <1>1, <1>2, <1>5, <1>7, <3>1, <3>2
  <2>4. \A k \in DOMAIN ifnet' : k \in 1..n \/ k = n + 1
    BY <1>2, <1>4
  <2>5. QED BY <2>1, <2>2, <2>3, <2>4 DEF NumbersMatchTable
<1>10. RestIsClear'
  BY <1>1, <1>2, <1>3, <1>5 DEF RestIsClear
<1>11. Owned'
  <2>1. \A j \in Ifs : j # i => On(j)' = On(j)
    BY <1>7 DEF On
  <2>2. \A a \in Inets : a \notin On(i) /\ a \notin On(i)'
    <3>1. ToSet(<<i>>) = {i}
      BY DEF ToSet
    <3>2. QED BY <1>1, <1>7, <3>1, IfRegistryAssumption DEF IInv, Owned, On
  <2>3. ToSet(in_ifaddr) \subseteq Inets
    BY LenProperties, ElementOfSeq DEF IInv, TypeOK, ToSet
  <2>4. ASSUME NEW a \in Inets, NEW j \in Ifs
        PROVE  (a \in On(j)') <=> a \in On(j)
    BY <2>1, <2>2
  <2>5. /\ \A a \in Inets, j \in Ifs : a \in On(j)' => ia_ifp[a] # NULL /\ j \in Attached'
        /\ \A a \in Inets, j, k \in Ifs : a \in On(j)' /\ a \in On(k)' => j = k
    BY <1>4, <2>4 DEF IInv, Owned
  <2>6. \A a \in ToSet(in_ifaddr) : ia_ifp[a] # NULL /\ \E j \in Ifs : a \in On(j)'
    BY <2>3, <2>4 DEF IInv, Owned
  <2>7. QED BY <1>1, <2>5, <2>6 DEF Owned
<1>12. OneAddressOnly' /\ HeadOwned'
  BY <1>1 DEF IInv, OneAddressOnly, HeadOwned
<1>13. QED BY <1>8, <1>9, <1>10, <1>11, <1>12 DEF IInv

-----------------------------------------------------------------------------
(* in_control, called for an attached interface or for none.               *)

\* What the search leaves behind: the address found is the first, and every
\* address that had an interface has one.
LEMMA FoundFacts ==
  ASSUME TypeOK, NEW i \in Ifs \cup {NULL}
  PROVE  /\ Found(i) = NULL <=> i = NULL \/ in_ifaddr = <<>>
         /\ Found(i) # NULL => /\ i \in Ifs /\ Found(i) \in Inets
                               /\ Found(i) = Head(in_ifaddr)
         /\ Stolen(i) \in [Inets -> Ifs \cup {NULL}]
         /\ \A a \in Inets : ia_ifp[a] # NULL => Stolen(i)[a] # NULL
         /\ Found(i) # NULL => Stolen(i)[Found(i)] = i
<1>1. NULL \notin Inets /\ NULL \notin Ifs
  BY IfRegistryAssumption
<1>2. in_ifaddr # <<>> => Head(in_ifaddr) \in Inets
  BY HeadTailProperties DEF TypeOK
<1>3. /\ Found(i) = NULL <=> i = NULL \/ in_ifaddr = <<>>
      /\ Found(i) # NULL => i \in Ifs /\ Found(i) \in Inets /\ Found(i) = Head(in_ifaddr)
  BY <1>1, <1>2 DEF Found
<1>4. CASE Found(i) = NULL
  <2>1. Stolen(i) = ia_ifp
    BY <1>4 DEF Stolen
  <2>2. QED BY <1>3, <1>4, <2>1 DEF TypeOK
<1>5. CASE Found(i) # NULL
  <2>1. Stolen(i) = [ia_ifp EXCEPT ![Found(i)] = i]
    BY <1>5 DEF Stolen
  <2>2. QED BY <1>1, <1>3, <1>5, <2>1 DEF TypeOK
<1>6. QED BY <1>4, <1>5

\* A reply is one of the errors, and an argument is of the type of all arguments.
LEMMA ReplyType ==
  ASSUME NEW cmd, NEW i, NEW state, NEW arg
  PROVE  Refusal(cmd, i, state, arg) \in Errors /\ Reply(cmd, i) \in Errors
<1>1. Refusal(cmd, i, state, arg) \in Errors
  BY DEF Refusal, Errors
<1>2. Reply(cmd, i) \in Errors
  BY DEF Reply, Errors
<1>3. QED BY <1>1, <1>2

LEMMA ArgumentType ==
  ASSUME NEW cmd \in Commands
  PROVE  ArgumentsOf(cmd) \subseteq Arguments
<1>1. Unread \in Arguments
  BY DEF Unread, Arguments
<1>2. \A d \in Values \cup {NULL} : [Unread EXCEPT !.dst = d] \in Arguments
  BY DEF Unread, Arguments
<1>3. [inet : BOOLEAN, zero : BOOLEAN, dst : {NULL}] \subseteq Arguments
  BY DEF Arguments
<1>4. QED BY <1>1, <1>2, <1>3 DEF ArgumentsOf

\* What the second switch stores is an address, and a command that is then
\* refused has stored nothing.
LEMMA StoreFacts ==
  ASSUME TypeOK, NEW cmd \in Commands, NEW i, NEW a \in Inets,
         NEW arg \in Arguments, Store(cmd, i, a, arg)
  PROVE  /\ dst' \in [Inets -> Values \cup {ZERO}]
         /\ Reply(cmd, i) # "0" => dst' = dst
<1>1. arg.dst # NULL => arg.dst \in Values
  BY DEF Arguments
<1>2. dst \in [Inets -> Values \cup {ZERO}]
  BY DEF TypeOK
<1>3. CASE cmd = "SIOCAIFADDR"
  <2>1. SIOCAIFADDR(i, a, arg)
    BY <1>3 DEF Store
  <2>2. Reply(cmd, i) = "0"
    BY <1>3 DEF Reply
  <2>3. QED BY <1>1, <1>2, <2>1, <2>2 DEF SIOCAIFADDR
<1>4. CASE cmd = "SIOCSIFDSTADDR"
  <2>1. SIOCSIFDSTADDR(i, a, arg)
    BY <1>4 DEF Store
  <2>2. CASE i \notin PointToPoint
    BY <1>2, <2>1, <2>2 DEF SIOCSIFDSTADDR
  <2>3. CASE i \in PointToPoint
    <3> DEFINE stored == [dst EXCEPT ![a] = Given(arg)]
    <3>1. dst' = [stored EXCEPT ![a] = dst[a]]
      BY <2>1, <2>3 DEF SIOCSIFDSTADDR, DriverRefuses
    <3>2. dst' = dst
      BY <1>2, <3>1
    <3>3. QED BY <1>2, <3>2
  <2>4. QED BY <2>2, <2>3
<1>5. CASE cmd = "SIOCSIFBRDADDR" /\ Reply(cmd, i) = "0"
  <2>1. dst' = [dst EXCEPT ![a] = Given(arg)]
    BY <1>5 DEF Store, Given
  <2>3. Given(arg) \in Values \cup {ZERO}
    BY <1>1 DEF Given
  <2>2. QED BY <1>2, <1>5, <2>1, <2>3
<1>6. CASE /\ cmd # "SIOCAIFADDR" /\ cmd # "SIOCSIFDSTADDR"
           /\ ~(cmd = "SIOCSIFBRDADDR" /\ Reply(cmd, i) = "0")
  <2>1. dst' = dst
    BY <1>6 DEF Store
  <2>2. QED BY <1>2, <2>1
<1>7. QED BY <1>3, <1>4, <1>5, <1>6

\* No command disturbs the numbers and the table as long as the link
\* addresses stay at the heads of the lists.
LEMMA NumbersKept ==
  ASSUME IInv, UNCHANGED <<ifnet, if_index, index, table>>,
         \A j \in Ifs : addrlist[j] # <<>> /\ addrlist[j][1] = j
                          => addrlist'[j] # <<>> /\ addrlist'[j][1] = j
  PROVE  NumbersMatchTable' /\ RestIsClear'
<1>1. \A k \in DOMAIN ifnet : ifnet[k] \in Ifs
  BY LenProperties, ElementOfSeq DEF IInv, TypeOK
<1>2. NumbersMatchTable'
  BY <1>1 DEF IInv, NumbersMatchTable
<1>3. RestIsClear'
  BY DEF IInv, RestIsClear
<1>4. QED BY <1>2, <1>3

\* The lists stay as they are, and the address found is taken over or not.
LEMMA ListsKept ==
  ASSUME IInv, NEW i \in Ifs \cup {NULL}, NEW e \in Errors, Returns(i, e),
         ia_ifp' = Stolen(i), dst' \in [Inets -> Values \cup {ZERO}],
         UNCHANGED <<regvars, in_ifaddr, in_interfaces>>
  PROVE  IInv'
<1>1. UNCHANGED <<ifnet, if_index, index, table, addrlist, in_ifaddr, in_interfaces>>
  BY DEF regvars
<1>2. /\ Stolen(i) \in [Inets -> Ifs \cup {NULL}]
      /\ \A a \in Inets : ia_ifp[a] # NULL => ia_ifp'[a] # NULL
      /\ i # NULL /\ in_ifaddr # <<>> => ia_ifp'[Head(in_ifaddr)] = i
  BY FoundFacts DEF IInv
<1>3. ret' = [ifp |-> i, err |-> e]
  BY DEF Returns
<1>4. TypeOK'
  BY <1>1, <1>2, <1>3 DEF IInv, TypeOK
<1>5. NumbersMatchTable' /\ RestIsClear'
  BY <1>1, NumbersKept
<1>6. OneAddressOnly'
  BY <1>1 DEF IInv, OneAddressOnly
<1>7. Owned'
  <2>1. ToSet(in_ifaddr) \subseteq Inets
    BY LenProperties, ElementOfSeq DEF IInv, TypeOK, ToSet
  <2>2. \A j \in Ifs : On(j)' = On(j)
    BY <1>1 DEF On
  <2>3. Attached' = Attached
    BY <1>1 DEF Attached
  <2>4. QED BY <1>1, <1>2, <2>1, <2>2, <2>3 DEF IInv, Owned
<1>8. HeadOwned'
  BY <1>1, <1>2, <1>3 DEF HeadOwned
<1>9. QED BY <1>4, <1>5, <1>6, <1>7, <1>8 DEF IInv

\* SIOCDIFADDR leaves no internet address behind, because there was only
\* one, and takes nothing else off the list it searches.
LEMMA DeleteStep ==
  ASSUME IInv, NEW i \in Ifs \cup {NULL}, NEW e \in Errors, Returns(i, e),
         Found(i) # NULL, Unlinked(i, Found(i)), ia_ifp' = Stolen(i),
         UNCHANGED <<ifnet, if_index, index, table, dst, in_interfaces>>
  PROVE  IInv'
<1> DEFINE a == Found(i)
<1>1. /\ i \in Ifs /\ a \in Inets /\ a = Head(in_ifaddr) /\ in_ifaddr # <<>>
      /\ Stolen(i) \in [Inets -> Ifs \cup {NULL}]
      /\ \A b \in Inets : ia_ifp[b] # NULL => ia_ifp'[b] # NULL
  BY FoundFacts DEF IInv
<1>2. /\ addrlist' = [addrlist EXCEPT ![i] = RemoveFirst(@, a)]
      /\ in_ifaddr' = RemoveFirst(in_ifaddr, a)
  BY DEF Unlinked
<1> HIDE DEF a
<1>3. in_ifaddr' = <<>>
  <2>1. in_ifaddr \in Seq(Inets) /\ Len(in_ifaddr) <= 1 /\ in_ifaddr[1] = a
    BY <1>1 DEF IInv, TypeOK, OneAddressOnly
  <2>2. QED BY <1>1, <1>2, <2>1, RemoveFirstFacts
<1>4. /\ addrlist' \in [Ifs -> Seq(Addrs)]
      /\ \A j \in Ifs : /\ On(j)' \subseteq On(j)
                        /\ addrlist[j] # <<>> /\ addrlist[j][1] = j
                             => addrlist'[j] # <<>> /\ addrlist'[j][1] = j
  <2>1. addrlist \in [Ifs -> Seq(Addrs)] /\ a # i
    BY <1>1, IfRegistryAssumption DEF IInv, TypeOK
  <2>2. /\ RemoveFirst(addrlist[i], a) \in Seq(Addrs)
        /\ ToSet(RemoveFirst(addrlist[i], a)) \subseteq ToSet(addrlist[i])
        /\ addrlist[i] # <<>> /\ addrlist[i][1] # a =>
             /\ RemoveFirst(addrlist[i], a) # <<>>
             /\ RemoveFirst(addrlist[i], a)[1] = addrlist[i][1]
    BY <1>1, <2>1, RemoveFirstFacts
  <2>3. QED BY <1>1, <1>2, <2>1, <2>2 DEF On
<1>5. ret' = [ifp |-> i, err |-> e]
  BY DEF Returns
<1>6. TypeOK'
  BY <1>1, <1>3, <1>4, <1>5, EmptySeq DEF IInv, TypeOK
<1>7. NumbersMatchTable' /\ RestIsClear'
  BY <1>4, NumbersKept
<1>8. OneAddressOnly' /\ HeadOwned'
  BY <1>3, EmptySeq DEF OneAddressOnly, HeadOwned
<1>9. Owned'
  <2>1. ToSet(in_ifaddr') = {}
    BY <1>3 DEF ToSet
  <2>2. Attached' = Attached
    BY DEF Attached
  <2>3. QED BY <1>1, <1>4, <2>1, <2>2 DEF IInv, Owned
<1>10. QED BY <1>6, <1>7, <1>8, <1>9 DEF IInv

\* A new address is the only one, because the search found none.
LEMMA NewStep ==
  ASSUME IInv, NEW cmd \in Commands, NEW i \in Attached \cup {NULL}, i # NULL,
         NEW e \in Errors, Returns(i, e), NEW a, Created(cmd, i, a), Found(i) = NULL,
         dst' \in [Inets -> Values \cup {ZERO}], UNCHANGED <<ifnet, if_index, index, table>>
  PROVE  IInv'
<1>1. /\ i \in Ifs /\ i \in Attached /\ i \in Ifs \cup {NULL}
      /\ in_ifaddr \in Seq(Inets) /\ addrlist \in [Ifs -> Seq(Addrs)]
      /\ ia_ifp \in [Inets -> Ifs \cup {NULL}] /\ in_interfaces \in Nat
  BY LenProperties, ElementOfSeq DEF IInv, TypeOK, Attached
<1>2. /\ a \in Inets /\ a \in Addrs /\ ia_ifp[a] = NULL
      /\ in_ifaddr' = Append(in_ifaddr, a)
      /\ addrlist' = [addrlist EXCEPT ![i] = Append(@, a)]
      /\ ia_ifp' = [ia_ifp EXCEPT ![a] = i]
      /\ in_interfaces' = in_interfaces + (IF i = Lo THEN 0 ELSE 1)
  BY DEF Created, Addrs
<1>3. in_ifaddr = <<>>
  BY <1>1, FoundFacts DEF IInv
<1>4. /\ in_ifaddr' \in Seq(Inets) /\ in_ifaddr' # <<>> /\ Len(in_ifaddr') = 1
      /\ Head(in_ifaddr') = a /\ ToSet(in_ifaddr') = {a}
  <2>1. in_ifaddr' = <<a>>
    BY <1>2, <1>3
  <2>2. ToSet(<<a>>) = {a}
    BY DEF ToSet
  <2>3. QED BY <1>2, <2>1, <2>2
<1>5. /\ addrlist' \in [Ifs -> Seq(Addrs)]
      /\ On(i)' = On(i) \cup {a}
      /\ \A j \in Ifs : /\ j # i => addrlist'[j] = addrlist[j] /\ On(j)' = On(j)
                        /\ addrlist[j] # <<>> /\ addrlist[j][1] = j
                             => addrlist'[j] # <<>> /\ addrlist'[j][1] = j
  <2>1. addrlist[i] \in Seq(Addrs)
    BY <1>1
  <2>2. /\ Append(addrlist[i], a) \in Seq(Addrs)
        /\ ToSet(Append(addrlist[i], a)) = ToSet(addrlist[i]) \cup {a}
    BY <1>2, <2>1, AppendFacts
  <2>3. addrlist[i] # <<>> => Append(addrlist[i], a) # <<>>
                              /\ Append(addrlist[i], a)[1] = addrlist[i][1]
    BY <1>2, <2>1, AppendFacts, EmptySeq
  <2>4. QED BY <1>1, <1>2, <2>2, <2>3 DEF On
<1>6. ret' = [ifp |-> i, err |-> e]
  BY DEF Returns
<1>7. TypeOK'
  <2>1. ia_ifp' \in [Inets -> Ifs \cup {NULL}] /\ in_interfaces' \in Nat
    BY <1>1, <1>2
  <2>2. QED BY <1>1, <1>4, <1>5, <1>6, <2>1 DEF IInv, TypeOK
<1>8. NumbersMatchTable' /\ RestIsClear'
  BY <1>5, NumbersKept
<1>9. OneAddressOnly' /\ HeadOwned'
  BY <1>1, <1>2, <1>4, <1>6 DEF OneAddressOnly, HeadOwned
<1>10. Owned'
  <2>1. Attached' = Attached
    BY DEF Attached
  <2>2. i # NULL /\ \A b \in Inets : b # a => ia_ifp'[b] = ia_ifp[b]
    BY <1>1, <1>2
  <2>3. ia_ifp'[a] # NULL
    BY <1>1, <1>2, <2>2
  <2>4. \A j \in Ifs : a \notin On(j)
    BY <1>2 DEF IInv, Owned
  <2>5. \A b \in Inets, j \in Ifs :
          (b \in On(j)') <=> b \in On(j) \/ (b = a /\ j = i)
    BY <1>1, <1>5
  <2>6. \A b \in Inets, j \in Ifs : b \in On(j)' => ia_ifp'[b] # NULL /\ j \in Attached'
    BY <1>1, <2>1, <2>2, <2>3, <2>5 DEF IInv, Owned
  <2>7. \A b \in Inets, j, k \in Ifs : b \in On(j)' /\ b \in On(k)' => j = k
    BY <2>4, <2>5 DEF IInv, Owned
  <2>8. \A b \in ToSet(in_ifaddr') : ia_ifp'[b] # NULL /\ \E j \in Ifs : b \in On(j)'
    BY <1>1, <1>4, <1>5, <2>3
  <2>9. QED BY <2>6, <2>7, <2>8 DEF Owned
<1>11. QED BY <1>7, <1>8, <1>9, <1>10 DEF IInv

\* A call that changes nothing but its answer keeps the invariant when it
\* was for no interface, or when there is no address.
LEMMA AnswerStep ==
  ASSUME IInv, NEW i \in Ifs \cup {NULL}, i = NULL \/ in_ifaddr = <<>>,
         NEW e \in Errors, Returns(i, e), UNCHANGED <<regvars, invars>>
  PROVE  IInv'
<1>1. ret' = [ifp |-> i, err |-> e]
  BY DEF Returns
<1>2. UNCHANGED <<ifnet, if_index, index, table, addrlist, in_ifaddr, ia_ifp, dst, in_interfaces>>
  BY DEF regvars, invars
<1>3. TypeOK'
  BY <1>1, <1>2 DEF IInv, TypeOK
<1>4. NumbersMatchTable' /\ RestIsClear'
  BY <1>2, NumbersKept
<1>5. OneAddressOnly' /\ HeadOwned'
  BY <1>1, <1>2 DEF IInv, OneAddressOnly, HeadOwned
<1>6. Owned'
  BY <1>2 DEF IInv, Owned, On, Attached
<1>7. QED BY <1>3, <1>4, <1>5, <1>6 DEF IInv

LEMMA ControlStep ==
  ASSUME IInv, NEW cmd \in Commands, NEW i \in Attached \cup {NULL}, NEW state,
         NEW arg \in ArgumentsOf(cmd), in_control(cmd, i, state, arg)
  PROVE  IInv'
<1>1. i \in Ifs \cup {NULL} /\ arg \in Arguments
  BY ArgumentType, LenProperties, ElementOfSeq DEF IInv, TypeOK, Attached
<1>2. Refusal(cmd, i, state, arg) \in Errors /\ Reply(cmd, i) \in Errors
  BY ReplyType
<1>3. CASE Refuse(cmd, i, state, arg)
  BY <1>1, <1>2, <1>3, ListsKept DEF Refuse, IInv, TypeOK
<1>4. CASE OnFound(cmd, i, state, arg)
  <2>1. /\ Found(i) # NULL /\ ia_ifp' = Stolen(i) /\ Returns(i, Reply(cmd, i))
        /\ UNCHANGED <<ifnet, if_index, index, table, in_interfaces>>
    BY <1>4 DEF OnFound
  <2>2. CASE cmd = "SIOCDIFADDR"
    <3>1. Unlinked(i, Found(i)) /\ UNCHANGED dst
      BY <1>4, <2>2 DEF OnFound
    <3>2. QED BY <1>1, <1>2, <2>1, <3>1, DeleteStep
  <2>3. CASE cmd # "SIOCDIFADDR"
    <3>1. Store(cmd, i, Found(i), arg) /\ UNCHANGED <<addrlist, in_ifaddr>>
      BY <1>4, <2>3 DEF OnFound
    <3>2. Found(i) \in Inets
      BY <1>1, <2>1, FoundFacts DEF IInv
    <3>3. dst' \in [Inets -> Values \cup {ZERO}]
      BY <1>1, <3>1, <3>2, StoreFacts DEF IInv
    <3>4. UNCHANGED <<regvars, in_ifaddr, in_interfaces>>
      BY <2>1, <3>1 DEF regvars
    <3>5. QED BY <1>1, <1>2, <2>1, <3>3, <3>4, ListsKept
  <2>4. QED BY <2>2, <2>3
<1>5. ASSUME NEW a \in Inets, OnNew(cmd, i, state, arg, a)
      PROVE  IInv'
  <2>1. /\ Found(i) = NULL /\ i # NULL /\ Created(cmd, i, a) /\ Store(cmd, i, a, arg)
        /\ Returns(i, Reply(cmd, i)) /\ UNCHANGED <<ifnet, if_index, index, table>>
    BY <1>5 DEF OnNew
  <2>2. dst' \in [Inets -> Values \cup {ZERO}]
    BY <1>1, <2>1, StoreFacts DEF IInv
  <2>3. QED BY <1>2, <2>1, <2>2, NewStep
<1>6. CASE Elsewhere(cmd, i, state, arg)
  <2>1. i = NULL \/ in_ifaddr = <<>>
    BY <1>1, <1>6, FoundFacts DEF Elsewhere, IInv
  <2>2. QED BY <1>1, <1>2, <1>6, <2>1, AnswerStep DEF Elsewhere
<1>7. QED BY <1>3, <1>4, <1>5, <1>6 DEF in_control

-----------------------------------------------------------------------------
(* The invariant.                                                          *)

\* ifunit returns an attached interface or none.
LEMMA IfunitFacts ==
  ASSUME TypeOK, NEW name
  PROVE  ifunit(name, NameOf) \in Attached \cup {NULL}
<1> DEFINE K == {k \in DOMAIN ifnet : NameOf[ifnet[k]] = name}
<1>1. ifunit(name, NameOf) = IF K = {} THEN NULL ELSE ifnet[Min(K)]
  BY DEF ifunit, FirstIn
<1>2. K \in SUBSET Nat
  BY LenProperties DEF TypeOK
<1>3. CASE K = {}
  BY <1>1, <1>3
<1>4. CASE K # {}
  <2>1. Min(K) \in K
    BY <1>2, <1>4, MinFacts
  <2> HIDE DEF K
  <2>2. ifnet[Min(K)] \in Attached
    BY <2>1 DEF K, Attached
  <2>3. QED BY <1>1, <1>4, <2>2
<1>5. QED BY <1>3, <1>4

LEMMA InitIInv == Init => IInv
<1> SUFFICES ASSUME Init PROVE IInv
  OBVIOUS
<1>1. /\ ifnet = <<>> /\ if_index = 0 /\ index = [i \in Ifs |-> 0] /\ table = <<>>
      /\ addrlist = [i \in Ifs |-> <<>>] /\ in_ifaddr = <<>>
      /\ ia_ifp = [a \in Inets |-> NULL] /\ dst = [a \in Inets |-> ZERO]
      /\ in_interfaces = 0 /\ ret = [ifp |-> NULL, err |-> "0"]
  BY DEF Init, RegInit
<1>2. TypeOK
  BY <1>1, EmptySeq DEF TypeOK, Errors
<1>3. NumbersMatchTable /\ RestIsClear
  BY <1>1, EmptySeq DEF NumbersMatchTable, RestIsClear
<1>4. OneAddressOnly /\ HeadOwned
  BY <1>1, EmptySeq DEF OneAddressOnly, HeadOwned
<1>5. Owned
  <2>1. ToSet(<<>>) = {}
    BY DEF ToSet
  <2>2. \A i \in Ifs : On(i) = {}
    BY <1>1, <2>1 DEF On
  <2>3. QED BY <1>1, <2>1, <2>2 DEF Owned
<1>6. QED BY <1>2, <1>3, <1>4, <1>5 DEF IInv

\* The invariant is inductive.
LEMMA StepIInv == IInv /\ [Next]_vars => IInv'
<1> SUFFICES ASSUME IInv, [Next]_vars PROVE IInv'
  OBVIOUS
<1>1. CASE Attach
  BY <1>1, AttachStep DEF Attach
<1>2. ASSUME NEW name, ifioctl(name) PROVE IInv'
  <2>1. ifunit(name, NameOf) \in Attached \cup {NULL}
    BY IfunitFacts DEF IInv
  <2>2. CASE OwnCommand(name)
    BY <2>2, AnswerStep DEF OwnCommand, Errors
  <2>3. CASE NoProtocol
    BY <2>3, AnswerStep DEF NoProtocol, Errors
  <2>4. ASSUME NEW cmd \in Commands, NEW state, NEW arg \in ArgumentsOf(cmd),
               in_control(cmd, ifunit(name, NameOf), state, arg)
        PROVE  IInv'
    BY <2>1, <2>4, ControlStep
  <2>5. QED BY <1>2, <2>2, <2>3, <2>4 DEF ifioctl
<1>3. CASE UNCHANGED vars
  <2>1. UNCHANGED <<regvars, invars, ret>>
    BY <1>3 DEF vars
  <2>2. UNCHANGED <<ifnet, if_index, index, table, addrlist, in_ifaddr, ia_ifp, dst, in_interfaces, ret>>
    BY <2>1 DEF regvars, invars
  <2>3. TypeOK' /\ OneAddressOnly' /\ HeadOwned' /\ Owned'
    BY <2>2 DEF IInv, TypeOK, OneAddressOnly, HeadOwned, Owned, On, Attached
  <2>4. NumbersMatchTable' /\ RestIsClear'
    BY <2>2, NumbersKept
  <2>5. QED BY <2>3, <2>4 DEF IInv
<1>4. QED BY <1>1, <1>2, <1>3 DEF Next

-----------------------------------------------------------------------------
(* The theorems.                                                           *)

\* The inductive invariant holds in every reachable state.
THEOREM Invariance == Spec => []IInv
<1>1. QED BY InitIInv, StepIInv, PTL DEF Spec

\* Every variable has a value of its type.
THEOREM TypeCorrect == Spec => []TypeOK
<1>1. IInv => TypeOK
  BY DEF IInv
<1>2. QED BY <1>1, Invariance, PTL

\* The table of if_attach holds the link address of every interface under
\* the number of the interface, for any number of interfaces and any
\* initial size, while in_control changes the lists of addresses.
THEOREM TableMatchesNumbers == Spec => []NumbersMatchTable
<1>1. IInv => NumbersMatchTable
  BY DEF IInv
<1>2. QED BY <1>1, Invariance, PTL

\* The table is clear behind the last number, doubled or not.
THEOREM TableEndsClear == Spec => []RestIsClear
<1>1. IInv => RestIsClear
  BY DEF IInv
<1>2. QED BY <1>1, Invariance, PTL

\* Both together: numbers, table and lists agree and a scan of the table
\* ends where the numbers do.
THEOREM TableAgrees == Spec => []TableFaithful
<1>1. IInv => TableFaithful
  BY DEF IInv, TableFaithful
<1>2. QED BY <1>1, Invariance, PTL

\* There is never more than one internet address, whatever the number of
\* interfaces and however much storage there is.
THEOREM NeverTwoAddresses == Spec => []OneAddressOnly
<1>1. IInv => OneAddressOnly
  BY DEF IInv
<1>2. QED BY <1>1, Invariance, PTL

\* The address on in_ifaddr is on the list of exactly one interface.
THEOREM AddressOnOneList == Spec => []ListedOnOneInterface
<1>1. IInv => ListedOnOneInterface
  <2> SUFFICES ASSUME IInv PROVE ListedOnOneInterface
    OBVIOUS
  <2>1. in_ifaddr \in Seq(Inets) /\ Len(in_ifaddr) <= 1 /\ Len(in_ifaddr) \in Nat
        /\ DOMAIN in_ifaddr = 1..Len(in_ifaddr)
    BY LenProperties DEF IInv, TypeOK, OneAddressOnly
  <2>2. IsInjective(in_ifaddr)
    BY <2>1 DEF IsInjective
  <2>3. ASSUME NEW a \in ToSet(in_ifaddr)
        PROVE  Cardinality({i \in Ifs : a \in ToSet(addrlist[i])}) = 1
    <3>1. a \in Inets
      BY <2>1, ElementOfSeq DEF ToSet
    <3>2. PICK i \in Ifs : a \in On(i)
      BY DEF IInv, Owned
    <3>3. \A j \in Ifs : a \in On(j) => j = i
      BY <3>1, <3>2 DEF IInv, Owned
    <3>4. {j \in Ifs : a \in ToSet(addrlist[j])} = {i}
      BY <3>2, <3>3 DEF On
    <3>5. QED BY <3>4, FS_Singleton
  <2>4. QED BY <2>2, <2>3 DEF ListedOnOneInterface
<1>2. QED BY <1>1, Invariance, PTL

\* in_control gives the address to the interface of its last caller, by the
\* search for the address and by the search for the interface.
THEOREM LastCallerOwnsAddress == Spec => []LastCallerOwns
<1>1. IInv => LastCallerOwns
  <2> SUFFICES ASSUME IInv, in_ifaddr # <<>>, ret.ifp # NULL
               PROVE  /\ INADDR_TO_IFP(ZERO) = ret.ifp
                      /\ IFP_TO_IA(ret.ifp) = Head(in_ifaddr)
    BY DEF LastCallerOwns
  <2>1. /\ in_ifaddr \in Seq(Inets) /\ DOMAIN in_ifaddr = {1}
        /\ Head(in_ifaddr) = in_ifaddr[1] /\ in_ifaddr[1] \in Inets
    <3>1. /\ in_ifaddr \in Seq(Inets) /\ Len(in_ifaddr) <= 1
          /\ Len(in_ifaddr) \in Nat \ {0}
      BY EmptySeq DEF IInv, TypeOK, OneAddressOnly
    <3>2. Len(in_ifaddr) = 1
      <4>1. Len(in_ifaddr) \in Nat /\ Len(in_ifaddr) # 0 /\ Len(in_ifaddr) <= 1
        BY <3>1
      <4>2. \A n \in Nat : n # 0 /\ n <= 1 => n = 1
        OBVIOUS
      <4>3. QED BY <4>1, <4>2, Zenon
    <3>3. QED BY <3>1, <3>2, LenProperties, ElementOfSeq
  <2>2. ia_ifp[in_ifaddr[1]] = ret.ifp /\ in_ifaddr[1] # NULL
    BY <2>1, IfRegistryAssumption DEF IInv, HeadOwned
  <2>3. Min({1}) = 1
    BY MinFacts
  <2>4. INADDR_TO_IFP(ZERO) = ret.ifp
    <3>1. {k \in DOMAIN in_ifaddr : ZERO = ZERO} = {1}
      BY <2>1
    <3>2. FirstIn(in_ifaddr, LAMBDA x : ZERO = ZERO) = in_ifaddr[1]
      BY <2>3, <3>1 DEF FirstIn
    <3>3. QED BY <2>2, <3>2 DEF INADDR_TO_IFP
  <2>5. IFP_TO_IA(ret.ifp) = Head(in_ifaddr)
    <3>1. {k \in DOMAIN in_ifaddr : ia_ifp[in_ifaddr[k]] = ret.ifp} = {1}
      BY <2>1, <2>2
    <3>2. QED BY <2>1, <2>3, <3>1 DEF IFP_TO_IA, FirstIn
  <2>6. QED BY <2>4, <2>5
<1>2. QED BY <1>1, Invariance, PTL

\* The only internet address belongs to the interface in_control was last
\* called for.
THEOREM LastCallerOwnsOnly == Spec => []LastCallerOwnsAll
<1>1. OneAddressOnly /\ LastCallerOwns => LastCallerOwnsAll
  BY DEF LastCallerOwnsAll
<1>2. QED BY <1>1, NeverTwoAddresses, LastCallerOwnsAddress, PTL

\* An attached interface keeps its place on ifnet and its number.
THEOREM InterfacesStay == Spec => NoInterfaceLost
<1> DEFINE Stays == IsPrefix(ifnet, ifnet') /\ \A i \in Attached : index'[i] = index[i]
<1>1. IInv /\ [Next]_vars => [Stays]_regvars
  <2> SUFFICES ASSUME IInv, [Next]_vars PROVE Stays
    OBVIOUS
  <2>1. ifnet \in Seq(Ifs) /\ Len(ifnet) \in Nat /\ SubSeq(ifnet, 1, Len(ifnet)) = ifnet
    BY LenProperties, SubSeqFull DEF IInv, TypeOK
  <2>2. ASSUME NEW i \in Ifs, if_attach(i) PROVE Stays
    <3>1. i \notin Attached /\ ifnet' = Append(ifnet, i) /\ index' = [index EXCEPT ![i] = if_index + 1]
      BY <2>2 DEF if_attach
    <3>2. /\ ifnet' \in Seq(Ifs) /\ Len(ifnet') = Len(ifnet) + 1
          /\ \A k \in 1..Len(ifnet) + 1 : ifnet'[k] = IF k = Len(ifnet) + 1 THEN i ELSE ifnet[k]
      BY <2>1, <3>1, AppendFacts
    <3>3. SubSeq(ifnet', 1, Len(ifnet)) = ifnet
      <4>1. \A k \in 1..Len(ifnet) : ifnet'[k] \in Ifs /\ ifnet'[k] = ifnet[k]
        BY <2>1, <3>2, ElementOfSeq
      <4>2. /\ SubSeq(ifnet', 1, Len(ifnet)) \in Seq(Ifs)
            /\ Len(SubSeq(ifnet', 1, Len(ifnet))) = Len(ifnet)
            /\ \A k \in 1..Len(ifnet) : SubSeq(ifnet', 1, Len(ifnet))[k] = ifnet'[k]
        <5>1. 1 \in Int /\ Len(ifnet) \in Int
          BY <2>1
        <5>2. QED BY <2>1, <4>1, <5>1, SubSeqProperties
      <4>3. QED BY <2>1, <4>1, <4>2, SeqEqual
    <3>4. IsPrefix(ifnet, ifnet')
      BY <2>1, <3>2, <3>3 DEF IsPrefix
    <3>5. \A j \in Attached : j \in Ifs /\ j # i
      BY <2>1, <3>1, LenProperties, ElementOfSeq DEF Attached
    <3>6. QED BY <3>1, <3>4, <3>5 DEF IInv, TypeOK
  <2>3. CASE UNCHANGED <<ifnet, index>>
    BY <2>1, <2>3 DEF IsPrefix
  <2>4. ASSUME NEW cmd, NEW i, NEW state, NEW arg, in_control(cmd, i, state, arg)
        PROVE  UNCHANGED <<ifnet, index>>
    BY <2>4 DEF in_control, Refuse, OnFound, OnNew, Elsewhere, regvars
  <2>5. ASSUME NEW name, ifioctl(name) PROVE UNCHANGED <<ifnet, index>>
    BY <2>4, <2>5 DEF ifioctl, OwnCommand, NoProtocol, regvars
  <2>6. CASE UNCHANGED vars
    BY <2>3, <2>6 DEF vars, regvars
  <2>7. QED BY <2>2, <2>3, <2>5, <2>6 DEF Next, Attach
<1>2. QED BY <1>1, Invariance, PTL DEF Spec, NoInterfaceLost

\* A call of in_control that fails leaves every destination address as it
\* was.
THEOREM FailureIsHarmless == Spec => FailureKeepsDst
<1>1. IInv /\ [Next]_vars => [ret'.err # "0" => dst' = dst]_vars
  <2> SUFFICES ASSUME IInv, Next, ret'.err # "0" PROVE dst' = dst
    BY DEF vars, invars
  <2>1. CASE Attach
    BY <2>1 DEF Attach, invars
  <2>2. ASSUME NEW name, ifioctl(name) PROVE dst' = dst
    <3>1. CASE OwnCommand(name) \/ NoProtocol
      BY <3>1 DEF OwnCommand, NoProtocol, invars
    <3>2. ASSUME NEW cmd \in Commands, NEW i \in Attached \cup {NULL}, NEW state,
                 NEW arg \in ArgumentsOf(cmd), in_control(cmd, i, state, arg)
          PROVE  dst' = dst
      <4>1. i \in Ifs \cup {NULL} /\ arg \in Arguments
        BY ArgumentType, LenProperties, ElementOfSeq DEF IInv, TypeOK, Attached
      <4>2. CASE Refuse(cmd, i, state, arg) \/ Elsewhere(cmd, i, state, arg)
        BY <4>2 DEF Refuse, Elsewhere, invars
      <4>3. ASSUME NEW a \in Inets, Store(cmd, i, a, arg), Returns(i, Reply(cmd, i))
            PROVE  dst' = dst
        <5>1. Reply(cmd, i) # "0"
          BY <4>3 DEF Returns
        <5>2. QED BY <4>1, <4>3, <5>1, StoreFacts DEF IInv
      <4>4. CASE OnFound(cmd, i, state, arg)
        <5>1. CASE cmd = "SIOCDIFADDR"
          BY <4>4, <5>1 DEF OnFound
        <5>2. CASE cmd # "SIOCDIFADDR"
          <6>1. Found(i) \in Inets
            BY <4>1, <4>4, FoundFacts DEF OnFound, IInv
          <6>2. Store(cmd, i, Found(i), arg) /\ Returns(i, Reply(cmd, i))
            BY <4>4, <5>2 DEF OnFound
          <6>3. QED BY <4>3, <6>1, <6>2
        <5>3. QED BY <5>1, <5>2
      <4>5. ASSUME NEW a \in Inets, OnNew(cmd, i, state, arg, a) PROVE dst' = dst
        <5>1. Store(cmd, i, a, arg) /\ Returns(i, Reply(cmd, i))
          BY <4>5 DEF OnNew
        <5>2. QED BY <4>3, <5>1
      <4>6. QED BY <3>2, <4>2, <4>4, <4>5 DEF in_control
    <3>3. ifunit(name, NameOf) \in Attached \cup {NULL}
      BY IfunitFacts DEF IInv
    <3>4. QED BY <2>2, <3>1, <3>2, <3>3 DEF ifioctl
  <2>3. QED BY <2>1, <2>2 DEF Next
<1>2. QED BY <1>1, Invariance, PTL DEF Spec, FailureKeepsDst

-----------------------------------------------------------------------------
(* Classes of addresses.                                                   *)

\* A masked address is zero, as is ia_net, for every address on the list.
LEMMA LocalIffListed ==
  ASSUME TypeOK, NEW q \in Bytes4
  PROVE  in_localaddr(q, Subnets(INADDR_ANY)) <=> in_ifaddr # <<>>
<1>1. Len(in_ifaddr) \in Nat /\ (in_ifaddr = <<>> <=> Len(in_ifaddr) = 0)
      /\ DOMAIN in_ifaddr = 1..Len(in_ifaddr)
  BY LenProperties, EmptySeq DEF TypeOK
<1>2. DOMAIN Subnets(INADDR_ANY) = DOMAIN in_ifaddr
  BY DEF Subnets
<1>3. ASSUME NEW k \in DOMAIN in_ifaddr
      PROVE  Masked(ntohl(q), Subnets(INADDR_ANY)[k].mask) = Subnets(INADDR_ANY)[k].net
  <2>1. Subnets(INADDR_ANY)[k].mask = INADDR_ANY /\ Subnets(INADDR_ANY)[k].net = INADDR_ANY
    BY DEF Subnets
  <2>2. Masked(ntohl(q), INADDR_ANY) = INADDR_ANY
    BY DEF Masked, INADDR_ANY, Bytes4
  <2>3. QED BY <2>1, <2>2
<1>4. in_localaddr(q, Subnets(INADDR_ANY)) <=> \E k \in DOMAIN in_ifaddr : TRUE
  BY <1>2, <1>3 DEF in_localaddr
<1>5. ASSUME in_ifaddr # <<>>
      PROVE  1 \in DOMAIN in_ifaddr
  BY <1>1, <1>5
<1>6. ASSUME in_ifaddr = <<>>
      PROVE  DOMAIN in_ifaddr = {}
  BY <1>1, <1>6
<1>7. QED BY <1>4, <1>5, <1>6

\* ntohl reads the last two bytes alone.
LEMMA NetBytesDoNotCount ==
  ASSUME NEW q \in Bytes4
  PROVE  ntohl(q) = ntohl(<<0, 0, q[3], q[4]>>)
BY DEF ntohl

\* The three parts of InternetClasses, from the types alone.
LEMMA ClassesRight == TypeOK => InternetClasses
<1> SUFFICES ASSUME TypeOK PROVE InternetClasses
  OBVIOUS
<1>1. EveryAddressIsLocal
  BY LocalIffListed, InControlAssumption DEF EveryAddressIsLocal
<1>2. NetIgnoresNetBytes
  <2>1. ASSUME NEW q \in Bytes4, NEW m
        PROVE  LET low == <<0, 0, q[3], q[4]>>
               IN /\ in_netof(q, Subnets(m)) = in_netof(low, Subnets(m))
                  /\ in_canforward(q) = in_canforward(low)
    <3> DEFINE low == <<0, 0, q[3], q[4]>>
    <3>1. ntohl(q) = ntohl(low)
      BY NetBytesDoNotCount
    <3> HIDE DEF low
    <3>2. in_netof(q, Subnets(m)) = in_netof(low, Subnets(m))
      BY <3>1 DEF in_netof
    <3>3. in_canforward(q) = in_canforward(low)
      BY <3>1 DEF in_canforward
    <3>4. QED BY <3>2, <3>3 DEF low
  <2>2. QED BY <2>1, InControlAssumption DEF NetIgnoresNetBytes
<1>3. BroadcastUndecided
  <2>1. Cardinality(BOOLEAN) = 2 /\ Cardinality({FALSE}) = 1
    <3>1. IsFiniteSet({}) /\ Cardinality({}) = 0
      BY FS_EmptySet
    <3>2. IsFiniteSet({FALSE}) /\ Cardinality({FALSE}) = 1
      BY FS_Singleton
    <3>3. BOOLEAN = {FALSE} \cup {TRUE} /\ TRUE \notin {FALSE}
      OBVIOUS
    <3>4. Cardinality({FALSE} \cup {TRUE}) = Cardinality({FALSE}) + 1
      BY <3>2, <3>3, FS_AddElement
    <3>5. Cardinality({FALSE} \cup {TRUE}) = 2
      <4> DEFINE c == Cardinality({FALSE})
                 d == Cardinality({FALSE} \cup {TRUE})
      <4>1. c = 1 /\ d = c + 1
        BY <3>2, <3>4
      <4> HIDE DEF c, d
      <4>2. d = 2
        BY <4>1
      <4>3. QED BY <4>2 DEF d
    <3>6. Cardinality(BOOLEAN) = Cardinality({FALSE} \cup {TRUE})
      BY <3>3, Zenon
    <3>7. QED BY <3>2, <3>5, <3>6
  <2>2. ASSUME NEW q \in Quads \ {INADDR_ANY, INADDR_BROADCAST}, NEW i \in Attached
        PROVE  Cardinality(Broadcasts(q, i)) = 2 <=> i \in Broadcast
    <3>1. Broadcasts(q, i) = IF i \in Broadcast THEN BOOLEAN ELSE {FALSE}
      BY DEF Broadcasts, in_broadcast
    <3>2. QED BY <2>1, <3>1
  <2>3. QED BY <2>2 DEF BroadcastUndecided
<1>4. QED BY <1>1, <1>2, <1>3 DEF InternetClasses

\* For every address: no destination is local until the first internet address
\* is made and every one is from then on, nets do not depend on the bytes that
\* hold them, and in_broadcast is undecided just for interfaces that broadcast.
THEOREM ClassesOfAddresses == Spec => []InternetClasses
<1>1. IInv => InternetClasses
  BY ClassesRight DEF IInv
<1>2. QED BY <1>1, Invariance, PTL

-----------------------------------------------------------------------------
(* What callers are told.                                                  *)

\* The list of interfaces, and where each of their lists of addresses
\* begins.
LEMMA ListFacts ==
  ASSUME IInv
  PROVE  /\ Len(ifnet) \in Nat /\ DOMAIN ifnet = 1..Len(ifnet) /\ if_index = Len(ifnet)
         /\ ifnet = <<>> <=> Len(ifnet) = 0
         /\ \A k \in 1..Len(ifnet) :
              /\ ifnet[k] \in Ifs /\ ifnet[k] \in Attached /\ index[ifnet[k]] = k
              /\ addrlist[ifnet[k]] \in Seq(Addrs)
              /\ Len(addrlist[ifnet[k]]) \in Nat /\ Len(addrlist[ifnet[k]]) >= 1
              /\ addrlist[ifnet[k]][1] = ifnet[k]
         /\ \A i \in Attached : \E k \in 1..Len(ifnet) : i = ifnet[k]
<1>1. Len(ifnet) \in Nat /\ DOMAIN ifnet = 1..Len(ifnet) /\ (ifnet = <<>> <=> Len(ifnet) = 0)
  BY LenProperties, EmptySeq DEF IInv, TypeOK
<1>2. ASSUME NEW k \in 1..Len(ifnet)
      PROVE  /\ ifnet[k] \in Ifs /\ ifnet[k] \in Attached /\ index[ifnet[k]] = k
             /\ addrlist[ifnet[k]] \in Seq(Addrs)
             /\ Len(addrlist[ifnet[k]]) \in Nat /\ Len(addrlist[ifnet[k]]) >= 1
             /\ addrlist[ifnet[k]][1] = ifnet[k]
  <2>1. ifnet[k] \in Ifs
    BY ElementOfSeq DEF IInv, TypeOK
  <2>2. /\ index[ifnet[k]] = k
        /\ addrlist[ifnet[k]] # <<>> /\ addrlist[ifnet[k]][1] = ifnet[k]
    BY <1>1 DEF IInv, NumbersMatchTable
  <2>3. addrlist[ifnet[k]] \in Seq(Addrs)
    BY <2>1 DEF IInv, TypeOK
  <2>4. Len(addrlist[ifnet[k]]) \in Nat /\ Len(addrlist[ifnet[k]]) # 0
    BY <2>2, <2>3, LenProperties, EmptySeq
  <2>5. QED BY <1>1, <2>1, <2>2, <2>3, <2>4 DEF Attached
<1>3. QED BY <1>1, <1>2 DEF IInv, NumbersMatchTable, Attached

\* Every name of an attached interface is found, and no other.
LEMMA NamesRight == IInv => NamesFound
<1> SUFFICES ASSUME IInv, NEW i \in Ifs
             PROVE  ifunit(NameOf[i], NameOf) = IF i \in Attached THEN i ELSE NULL
  BY DEF NamesFound
<1> DEFINE K == {k \in DOMAIN ifnet : NameOf[ifnet[k]] = NameOf[i]}
<1>1. ifunit(NameOf[i], NameOf) = IF K = {} THEN NULL ELSE ifnet[Min(K)]
  BY DEF ifunit, FirstIn
<1>2. \A k \in K : k \in 1..Len(ifnet) /\ ifnet[k] = i
  BY ListFacts, InControlAssumption
<1>3. CASE i \in Attached
  <2>1. K # {}
    BY <1>3, ListFacts
  <2>2. K \in SUBSET Nat
    BY ListFacts
  <2> HIDE DEF K
  <2>3. Min(K) \in K
    BY <2>1, <2>2, MinFacts
  <2>4. QED BY <1>1, <1>2, <1>3, <2>1, <2>3
<1>4. CASE i \notin Attached
  <2>1. K = {}
    BY <1>2, <1>4 DEF Attached
  <2>2. QED BY <1>1, <1>4, <2>1
<1>5. QED BY <1>3, <1>4

\* All addresses of the interfaces begin with the first interface's own.
LEMMA AllAddresses ==
  ASSUME IInv
  PROVE  /\ AddrsOf(ifnet) \in Seq(Addrs)
         /\ ifnet # <<>> => AddrsOf(ifnet) # <<>> /\ AddrsOf(ifnet)[1] = ifnet[1]
<1> DEFINE q == [k \in DOMAIN ifnet |-> addrlist[ifnet[k]]]
<1>1. q = [k \in 1..Len(ifnet) |-> addrlist[ifnet[k]]]
  BY ListFacts
<1>2. q \in Seq(Seq(Addrs)) /\ Len(q) = Len(ifnet)
  <2>1. q \in [1..Len(ifnet) -> Seq(Addrs)]
    BY <1>1, ListFacts
  <2> HIDE DEF q
  <2>2. Len(ifnet) \in Nat
    BY ListFacts
  <2>3. QED BY <2>1, <2>2, SequenceFrom
<1>3. AddrsOf(ifnet) = FlattenSeq(q)
  BY DEF AddrsOf
<1>4. ASSUME ifnet # <<>>
      PROVE  /\ Len(q) >= 1 /\ 1 \in 1..Len(q) /\ q[1] = addrlist[ifnet[1]]
             /\ Len(q[1]) >= 1 /\ q[1][1] = ifnet[1]
  BY <1>1, <1>2, <1>4, ListFacts
<1> HIDE DEF q
<1>5. /\ FlattenSeq(q) \in Seq(Addrs)
      /\ \A k \in 1..Len(q) : Len(q[k]) >= 1 => FlattenSeq(q) # <<>>
      /\ Len(q) >= 1 /\ Len(q[1]) >= 1 => FlattenSeq(q)[1] = q[1][1]
  BY <1>2, FlattenHead
<1>6. QED BY <1>3, <1>4, <1>5

\* What a link address is described by.
LEMMA LinkDescribed ==
  ASSUME NEW i \in Ifs
  PROVE  /\ i \in Addrs /\ Described[i].family = "link" /\ Described[i].value = i
         /\ Described[i].dst = NULL /\ Described[i].mask = "name"
BY DEF Described, Addrs, LinkAddr

\* No address is of the internet family.
LEMMA NoneInet ==
  ASSUME NEW a \in Addrs
  PROVE  Described[a].family # "inet"
BY DEF Described, LinkAddr

\* The first link address matches every search of ifa_ifwithaddr.
LEMMA FirstOnlyFound == IInv => LookupFindsFirstOnly
<1> SUFFICES ASSUME IInv, ifnet # <<>>, NEW v \in Ifs \cup Values
             PROVE  ifa_ifwithaddr(Described, v) = IF v = Head(ifnet) THEN v ELSE "trap"
  BY DEF LookupFindsFirstOnly
<1> DEFINE s == AddrsOf(ifnet)
           K == {k \in DOMAIN s : Described[s[k]].value = v \/ DstHit(Described, v, s[k])}
           a == IF K = {} THEN NULL ELSE s[Min(K)]
<1>1. Head(ifnet) = ifnet[1] /\ ifnet[1] \in Ifs
  BY ListFacts, HeadTailProperties DEF IInv, TypeOK
<1>2. s # <<>> /\ s[1] = ifnet[1] /\ DOMAIN s = 1..Len(s) /\ Len(s) \in Nat /\ 1 \in DOMAIN s
  BY AllAddresses, LenProperties, EmptySeq
<1>3. ifa_ifwithaddr(Described, v) =
        IF a = NULL \/ Described[a].value = v THEN a ELSE DstResult(Described, v, a)
  BY DEF ifa_ifwithaddr, FirstIn
<1>4. K \in SUBSET (Nat \ {0})
  BY <1>2
<1>5. 1 \in K
  BY <1>1, <1>2, LinkDescribed DEF DstHit
<1> HIDE DEF K
<1>6. a = ifnet[1]
  BY <1>2, <1>4, <1>5, LeastIsOne
<1> HIDE DEF a
<1>7. v # NULL /\ a # NULL /\ a \in Ifs
  BY <1>1, <1>6, InControlAssumption, IfRegistryAssumption
<1>8. Described[a].value = a /\ Described[a].dst = NULL
  BY <1>7, LinkDescribed
<1>9. QED BY <1>1, <1>3, <1>6, <1>7, <1>8 DEF DstResult

\* A search by number finds the interface of that number.
LEMMA NumberFound == IInv => LookupByNumber
<1> SUFFICES ASSUME IInv, NEW i \in Attached, NEW agree
             PROVE  ifa_ifwithnet(Described, "link", i, index[i], agree) = i
  BY DEF LookupByNumber
<1>1. PICK k \in 1..Len(ifnet) : i = ifnet[k]
  BY ListFacts
<1>2. index[i] = k /\ k \in 1..if_index
  BY <1>1, ListFacts
<1>3. table[k] = i
  BY <1>1, ListFacts DEF IInv, NumbersMatchTable
<1>4. QED BY <1>2, <1>3 DEF ifa_ifwithnet

\* The search for an internet address by destination.
LEMMA DestinationSearch ==
  ASSUME IInv, NEW v \in Values
  PROVE  ifa_ifwithdstaddr(Described, v, PointToPoint) =
           IF PointToPoint \cap Attached = {} THEN NULL ELSE "trap"
<1> DEFINE q == [k \in DOMAIN ifnet |->
                   IF ifnet[k] \in PointToPoint THEN addrlist[ifnet[k]] ELSE <<>>]
           s == FlattenSeq(q)
           K == {k \in DOMAIN s : DstHit(Described, v, s[k])}
           a == IF K = {} THEN NULL ELSE s[Min(K)]
<1>1. q = [k \in 1..Len(ifnet) |->
             IF ifnet[k] \in PointToPoint THEN addrlist[ifnet[k]] ELSE <<>>]
  BY ListFacts
<1>2. q \in Seq(Seq(Addrs)) /\ Len(q) = Len(ifnet)
  <2>1. <<>> \in Seq(Addrs)
    BY EmptySeq
  <2>2. q \in [1..Len(ifnet) -> Seq(Addrs)]
    BY <1>1, <2>1, ListFacts
  <2> HIDE DEF q
  <2>3. Len(ifnet) \in Nat
    BY ListFacts
  <2>4. QED BY <2>2, <2>3, SequenceFrom
<1>3. \A k \in 1..Len(ifnet) :
        /\ ifnet[k] \in PointToPoint => q[k] = addrlist[ifnet[k]]
        /\ ifnet[k] \notin PointToPoint => q[k] = <<>>
  BY <1>1
<1>4. ifa_ifwithdstaddr(Described, v, PointToPoint) = DstResult(Described, v, a)
  BY DEF ifa_ifwithdstaddr, FirstIn
<1> HIDE DEF q
<1>5. /\ s \in Seq(Addrs)
      /\ s # <<>> => \E k \in 1..Len(q) : Len(q[k]) >= 1 /\ s[1] = q[k][1]
      /\ \A k \in 1..Len(q) : Len(q[k]) >= 1 => s # <<>>
  BY <1>2, FlattenHead
<1> HIDE DEF s
<1>6. DOMAIN s = 1..Len(s) /\ Len(s) \in Nat /\ (s = <<>> <=> Len(s) = 0)
  BY <1>5, LenProperties, EmptySeq
<1>7. CASE PointToPoint \cap Attached = {}
  <2>1. \A k \in 1..Len(q) : Len(q[k]) = 0
    <3>1. \A k \in 1..Len(q) : q[k] = <<>>
      BY <1>2, <1>3, <1>7, ListFacts
    <3>2. QED BY <3>1, EmptySeq
  <2>2. s = <<>>
    BY <1>5, <2>1
  <2>3. K = {}
    BY <1>6, <2>2
  <2>4. QED BY <1>4, <1>7, <2>3 DEF DstResult
<1>8. CASE PointToPoint \cap Attached # {}
  <2>1. PICK k \in 1..Len(q) : ifnet[k] \in PointToPoint
    BY <1>2, <1>8, ListFacts
  <2>2. s # <<>>
    BY <1>2, <1>3, <1>5, <2>1, ListFacts
  <2>3. PICK m \in 1..Len(q) : Len(q[m]) >= 1 /\ s[1] = q[m][1]
    BY <1>5, <2>2
  <2>4. ifnet[m] \in PointToPoint
    <3>1. SUFFICES ASSUME ifnet[m] \notin PointToPoint PROVE FALSE
      OBVIOUS
    <3>2. q[m] = <<>>
      BY <1>2, <1>3, <3>1
    <3>3. Len(q[m]) = 0
      BY <3>2, EmptySeq
    <3>4. QED BY <2>3, <3>3
  <2>5. s[1] = ifnet[m] /\ ifnet[m] \in Ifs
    BY <1>2, <1>3, <2>3, <2>4, ListFacts
  <2>6. 1 \in K /\ K \in SUBSET (Nat \ {0})
    BY <1>6, <2>2, <2>5, LinkDescribed DEF DstHit
  <2> HIDE DEF K
  <2>7. a = ifnet[m]
    BY <2>5, <2>6, LeastIsOne
  <2> HIDE DEF a
  <2>8. a # NULL /\ v # NULL /\ Described[a].dst = NULL
    BY <2>5, <2>7, LinkDescribed, InControlAssumption, IfRegistryAssumption
  <2>9. QED BY <1>4, <1>8, <2>8 DEF DstResult
<1>9. QED BY <1>7, <1>8

\* No search finds an internet address.
LEMMA NoInetFound == IInv => NoInetAddressFound
<1> SUFFICES ASSUME IInv PROVE NoInetAddressFound
  OBVIOUS
<1>1. \A k \in DOMAIN AddrsOf(ifnet) : AddrsOf(ifnet)[k] \in Addrs
  BY AllAddresses, LenProperties, ElementOfSeq
<1>2. ifa_ifwithaf(Described, "inet") = NULL
  <2>1. {k \in DOMAIN AddrsOf(ifnet) : Described[AddrsOf(ifnet)[k]].family = "inet"} = {}
    BY <1>1, NoneInet
  <2>2. QED BY <2>1 DEF ifa_ifwithaf, FirstIn
<1>3. ASSUME NEW v, NEW agree
      PROVE  ifa_ifwithnet(Described, "inet", v, 0, agree) = NULL
  <2>1. {k \in DOMAIN AddrsOf(ifnet) :
           /\ Described[AddrsOf(ifnet)[k]].family = "inet"
           /\ Described[AddrsOf(ifnet)[k]].mask # NULL
           /\ <<Described[AddrsOf(ifnet)[k]].mask, v, Described[AddrsOf(ifnet)[k]].value>>
                \in agree} = {}
    BY <1>1, NoneInet
  <2>2. "inet" # "link"
    OBVIOUS
  <2>3. QED BY <2>1, <2>2 DEF ifa_ifwithnet, FirstIn
<1>4. ASSUME NEW v, NEW agree, NEW i \in Attached
      PROVE  ifaof_ifpforaddr(Described, "inet", v, i, agree) = NULL
  <2> DEFINE s == addrlist[i]
             hit == {k \in DOMAIN s :
               /\ Described[s[k]].family = "inet"
               /\ IF Described[s[k]].mask = NULL
                  THEN \/ Described[s[k]].value = v
                       \/ Described[s[k]].dst # NULL /\ Described[s[k]].dst = v
                  ELSE <<Described[s[k]].mask, v, Described[s[k]].value>> \in agree}
  <2>1. s \in Seq(Addrs)
    BY ListFacts
  <2>2. \A k \in DOMAIN s : s[k] \in Addrs
    BY <2>1, LenProperties, ElementOfSeq
  <2>3. hit = {} /\ {k \in DOMAIN s : Described[s[k]].family = "inet"} = {}
    BY <2>2, NoneInet
  <2>4. QED BY <2>3 DEF ifaof_ifpforaddr, FirstIn
<1>5. QED BY <1>2, <1>3, <1>4, DestinationSearch DEF NoInetAddressFound

\* Behind its head the list of an interface holds internet addresses only.
LinksFirst == \A i \in Ifs : \A k \in 2..Len(addrlist[i]) : addrlist[i][k] \in Inets

\* Every command adds internet addresses at the end, and takes off what it
\* likes.
LEMMA LinksStayFirst ==
  ASSUME TypeOK, LinksFirst, NEW i \in Ifs, NEW l,
         addrlist' = [addrlist EXCEPT ![i] = l],
         \/ l = <<i>>
         \/ \E a \in Inets : l = Append(addrlist[i], a)
         \/ \E a \in Inets : l = RemoveFirst(addrlist[i], a)
  PROVE  LinksFirst'
<1> DEFINE s == addrlist[i]
<1>1. s \in Seq(Addrs) /\ Len(s) \in Nat /\ addrlist'[i] = l
      /\ \A j \in Ifs : j # i => addrlist'[j] = addrlist[j]
  BY LenProperties DEF TypeOK
<1>2. \A k \in 2..Len(s) : s[k] \in Inets
  BY DEF LinksFirst
<1> HIDE DEF s
<1>3. \A k \in 2..Len(l) : l[k] \in Inets
  <2>1. CASE l = <<i>>
    BY <2>1
  <2>2. ASSUME NEW a \in Inets, l = Append(s, a)
        PROVE  \A k \in 2..Len(l) : l[k] \in Inets
    <3>1. a \in Addrs
      BY DEF Addrs
    <3>2. Len(l) = Len(s) + 1 /\ \A k \in 1..Len(s) + 1 : l[k] = IF k = Len(s) + 1 THEN a ELSE s[k]
      BY <1>1, <2>2, <3>1, AppendFacts
    <3>3. QED BY <1>1, <1>2, <3>2
  <2>3. ASSUME NEW a \in Inets, l = RemoveFirst(s, a)
        PROVE  \A k \in 2..Len(l) : l[k] \in Inets
    <3>1. CASE \E k \in 1..Len(s) : s[k] = a
      <4>1. PICK f \in 1..Len(s) : l = RemoveAt(s, f)
        BY <1>1, <2>3, <3>1, FirstIndex
      <4> HIDE DEF s
      <4>2. Len(l) = Len(s) - 1 /\ \A j \in 1..Len(s) - 1 : l[j] = IF j < f THEN s[j] ELSE s[j + 1]
        BY <1>1, <4>1, RemoveAtFacts
      <4>3. QED BY <1>1, <1>2, <4>2
    <3>2. CASE ~ \E k \in 1..Len(s) : s[k] = a
      <4>1. l = s
        BY <2>3, <3>2 DEF RemoveFirst
      <4>2. QED BY <1>2, <4>1
    <3>3. QED BY <3>1, <3>2
  <2>4. QED BY <2>1, <2>2, <2>3 DEF s
<1>4. QED BY <1>1, <1>3 DEF LinksFirst

\* The link address stays the only one on its list.
LEMMA StepLinksFirst == IInv /\ LinksFirst /\ [Next]_vars => LinksFirst'
<1> SUFFICES ASSUME IInv, LinksFirst, [Next]_vars PROVE LinksFirst'
  OBVIOUS
<1>1. TypeOK
  BY DEF IInv
<1>2. ASSUME UNCHANGED addrlist PROVE LinksFirst'
  BY <1>2 DEF LinksFirst
<1>3. CASE Attach
  <2>1. PICK i \in Ifs : addrlist' = [addrlist EXCEPT ![i] = <<i>>]
    BY <1>3 DEF Attach, if_attach
  <2>2. QED BY <1>1, <2>1, LinksStayFirst
<1>4. ASSUME NEW name, ifioctl(name) PROVE LinksFirst'
  <2>1. CASE OwnCommand(name) \/ NoProtocol
    BY <1>2, <2>1 DEF OwnCommand, NoProtocol, regvars
  <2>2. ASSUME NEW cmd \in Commands, NEW i \in Attached \cup {NULL}, NEW state,
               NEW arg \in ArgumentsOf(cmd), in_control(cmd, i, state, arg)
        PROVE  LinksFirst'
    <3>1. i \in Ifs \cup {NULL}
      BY LenProperties, ElementOfSeq DEF IInv, TypeOK, Attached
    <3>2. CASE Refuse(cmd, i, state, arg) \/ Elsewhere(cmd, i, state, arg)
      BY <1>2, <3>2 DEF Refuse, Elsewhere, regvars
    <3>3. CASE OnFound(cmd, i, state, arg)
      <4>1. CASE cmd = "SIOCDIFADDR"
        <5>1. addrlist' = [addrlist EXCEPT ![i] = RemoveFirst(@, Found(i))]
          BY <3>3, <4>1 DEF OnFound, Unlinked
        <5>2. Found(i) \in Inets /\ i \in Ifs
          BY <1>1, <3>1, <3>3, FoundFacts DEF OnFound
        <5> DEFINE l == RemoveFirst(addrlist[i], Found(i))
        <5>3. addrlist' = [addrlist EXCEPT ![i] = l]
          BY <5>1
        <5>4. \E a \in Inets : l = RemoveFirst(addrlist[i], a)
          BY <5>2
        <5> HIDE DEF l
        <5>5. QED BY <1>1, <5>2, <5>3, <5>4, LinksStayFirst
      <4>2. CASE cmd # "SIOCDIFADDR"
        BY <1>2, <3>3, <4>2 DEF OnFound
      <4>3. QED BY <4>1, <4>2
    <3>4. ASSUME NEW a \in Inets, OnNew(cmd, i, state, arg, a) PROVE LinksFirst'
      <4> DEFINE l == Append(addrlist[i], a)
      <4>1. addrlist' = [addrlist EXCEPT ![i] = l] /\ i # NULL
        BY <3>4 DEF OnNew, Created
      <4>2. \E b \in Inets : l = Append(addrlist[i], b)
        OBVIOUS
      <4> HIDE DEF l
      <4>3. QED BY <1>1, <3>1, <4>1, <4>2, LinksStayFirst
    <3>5. QED BY <2>2, <3>2, <3>3, <3>4 DEF in_control
  <2>3. ifunit(name, NameOf) \in Attached \cup {NULL}
    BY <1>1, IfunitFacts
  <2>4. QED BY <1>4, <2>1, <2>2, <2>3 DEF ifioctl
<1>5. CASE UNCHANGED vars
  BY <1>2, <1>5 DEF vars, regvars
<1>6. QED BY <1>3, <1>4, <1>5 DEF Next

\* On every list the link address comes first and alone.
LEMMA LinksAlwaysFirst == Spec => []LinksFirst
<1>1. Init => LinksFirst
  <2>1. Len(<<>>) = 0
    BY EmptySeq
  <2>2. QED BY <2>1 DEF Init, RegInit, LinksFirst
<1>2. QED BY <1>1, StepLinksFirst, Invariance, PTL DEF Spec

-----------------------------------------------------------------------------
(* ifconf.                                                                 *)

Items == [ifp : Ifs, addr : Addrs \cup {NULL}]
Entries == [ifp : Ifs, addr : Addrs \cup {NULL}, at : Int, size : Int]
IfconfStates == [space : Int, at : Int, salen : Int, out : Seq(Entries)]

\* The k-th item of n: first what is on the list of the first interface.
Own == addrlist[ifnet[1]]
Item(k) == [ifp |-> IF k <= Len(Own) THEN ifnet[1] ELSE ifnet[k - Len(Own) + 1],
            addr |-> IF k <= Len(Own) THEN Own[k] ELSE NULL]

LEMMA ItemFacts ==
  ASSUME IInv, LinksFirst, ifnet # <<>>
  PROVE  /\ Head(ifnet) = ifnet[1] /\ Own \in Seq(Addrs) /\ Len(Own) \in Nat /\ Len(Own) >= 1
         /\ Len(ifnet) \in Nat /\ Len(ifnet) >= 1
         /\ IfconfItems \in Seq(Items)
         /\ Len(IfconfItems) = Len(Own) + Len(ifnet) - 1
         /\ \A k \in 1..Len(IfconfItems) :
              /\ IfconfItems[k] = Item(k) /\ Item(k) \in Items
              /\ Item(k).addr \in Ifs <=> k = 1
<1> DEFINE own == Own
           m == Len(own)
           n == Len(ifnet)
           t == Tail(ifnet)
           first == [j \in DOMAIN own |-> [ifp |-> ifnet[1], addr |-> own[j]]]
           rest == [k \in DOMAIN t |-> [ifp |-> t[k], addr |-> NULL]]
           all == first \o rest
<1>1. /\ n \in Nat /\ n >= 1 /\ own \in Seq(Addrs) /\ m \in Nat /\ m >= 1
      /\ DOMAIN own = 1..m /\ \A j \in 1..m : own[j] \in Addrs
      /\ \A k \in 1..n : ifnet[k] \in Ifs
  BY ListFacts, LenProperties, ElementOfSeq DEF Own
<1>2. Head(ifnet) = ifnet[1] /\ DOMAIN t = 1..n - 1 /\ \A k \in 1..n - 1 : t[k] = ifnet[k + 1]
  <2>1. /\ t \in Seq(Ifs) /\ Len(t) = n - 1 /\ \A k \in 1..n - 1 : t[k] = ifnet[k + 1]
    BY HeadTailProperties DEF IInv, TypeOK
  <2>2. QED BY <2>1, LenProperties, HeadTailProperties DEF IInv, TypeOK
<1>3. IfconfItems = all
  BY <1>2 DEF IfconfItems, Own
<1>4. own[1] \in Ifs /\ \A j \in 2..m : own[j] \in Inets
  BY <1>1, ListFacts DEF LinksFirst, Own
<1>5. first = [j \in 1..m |-> [ifp |-> ifnet[1], addr |-> own[j]]]
  BY <1>1
<1>6. rest = [k \in 1..n - 1 |-> [ifp |-> ifnet[k + 1], addr |-> NULL]]
  BY <1>2
<1>7. first \in [1..m -> Items] /\ \A j \in 1..m : first[j] = [ifp |-> ifnet[1], addr |-> own[j]]
  BY <1>1, <1>5 DEF Items
<1>8. /\ rest \in [1..n - 1 -> Items]
      /\ \A k \in 1..n - 1 : rest[k] = [ifp |-> ifnet[k + 1], addr |-> NULL]
  BY <1>1, <1>6 DEF Items
<1> HIDE DEF first, rest, own, t
<1>9. first \in Seq(Items) /\ Len(first) = m /\ rest \in Seq(Items) /\ Len(rest) = n - 1
  <2>1. n - 1 \in Nat
    BY <1>1
  <2>2. QED BY <1>1, <1>7, <1>8, <2>1, SequenceFrom
<1>10. /\ all \in Seq(Items) /\ Len(all) = m + n - 1
       /\ \A k \in 1..m + n - 1 : all[k] = IF k <= m THEN first[k] ELSE rest[k - m]
  <2>1. m + (n - 1) = m + n - 1
    BY <1>1
  <2>2. /\ all \in Seq(Items) /\ Len(all) = m + (n - 1)
        /\ \A k \in 1..m + (n - 1) : all[k] = IF k <= m THEN first[k] ELSE rest[k - m]
    BY <1>9, ConcatProperties
  <2> HIDE DEF all
  <2>3. QED BY <2>1, <2>2
<1> HIDE DEF all
<1>11. ASSUME NEW k \in 1..m + n - 1
       PROVE  /\ all[k] = Item(k) /\ Item(k) \in Items
              /\ Item(k).addr \in Ifs <=> k = 1
  <2>1. CASE k <= m
    <3>1. k \in 1..m
      BY <1>1, <2>1
    <3>2. all[k] = [ifp |-> ifnet[1], addr |-> own[k]]
      BY <1>7, <1>10, <2>1, <3>1
    <3>3. Item(k) = [ifp |-> ifnet[1], addr |-> own[k]]
      BY <2>1 DEF Item, own
    <3>4. own[k] \in Ifs <=> k = 1
      BY <1>1, <1>4, <3>1, IfRegistryAssumption
    <3>5. QED BY <1>1, <3>1, <3>2, <3>3, <3>4 DEF Items
  <2>2. CASE ~(k <= m)
    <3>1. k - m \in 1..n - 1 /\ k # 1 /\ k - m + 1 \in 1..n
      BY <1>1, <2>2
    <3>2. all[k] = [ifp |-> ifnet[k - m + 1], addr |-> NULL]
      BY <1>8, <1>10, <2>2, <3>1
    <3>3. Item(k) = [ifp |-> ifnet[k - m + 1], addr |-> NULL]
      BY <2>2 DEF Item, own
    <3>4. QED BY <1>1, <3>1, <3>2, <3>3, IfRegistryAssumption DEF Items
  <2>3. QED BY <2>1, <2>2
<1>12. QED BY <1>1, <1>2, <1>3, <1>10, <1>11 DEF own

\* A round without room changes nothing; a round with room stores an entry,
\* and only one for a link address advances by what was not set.
LEMMA IfconfRound ==
  ASSUME NEW s \in IfconfStates, NEW x \in Items
  PROVE  LET t == IfconfEntry(s, x)
             e == [ifp |-> x.ifp, addr |-> x.addr, at |-> s.at,
                   size |-> IF x.addr \in Ifs THEN IFNAMSIZ + SOCKADDR_DL ELSE IFREQ]
             step == IF x.addr \in Ifs THEN IFNAMSIZ + s.salen ELSE IFREQ
         IN /\ t \in IfconfStates
            /\ ~Roomy(s.space) => t = s
            /\ Roomy(s.space) =>
                 /\ e \in Entries /\ t.out = Append(s.out, e)
                 /\ t.space = s.space - step /\ t.at = s.at + step
<1> DEFINE t == IfconfEntry(s, x)
           e == [ifp |-> x.ifp, addr |-> x.addr, at |-> s.at,
                 size |-> IF x.addr \in Ifs THEN IFNAMSIZ + SOCKADDR_DL ELSE IFREQ]
           step == IF x.addr \in Ifs THEN IFNAMSIZ + s.salen ELSE IFREQ
           l == IF x.addr \in Ifs THEN s.salen ELSE 0
<1>1. /\ s.space \in Int /\ s.at \in Int /\ s.salen \in Int /\ s.out \in Seq(Entries)
      /\ x.ifp \in Ifs /\ x.addr \in Addrs \cup {NULL}
  BY DEF IfconfStates, Items
<1>2. e \in Entries /\ step \in Int /\ l \in Int
  BY <1>1 DEF Entries, IFNAMSIZ, SOCKADDR_DL, IFREQ, SOCKADDR
<1>3. CASE ~Roomy(s.space)
  <2>1. t = s
    BY <1>3 DEF IfconfEntry
  <2>2. QED BY <1>3, <2>1
<1>4. CASE Roomy(s.space)
  <2>1. t = [space |-> s.space - step, at |-> s.at + step, salen |-> l,
             out |-> Append(s.out, e)]
    <3>1. CASE x.addr \in Ifs
      <4>1. x.addr # NULL /\ sa_len(x.addr) = 20
        BY <3>1, IfRegistryAssumption DEF sa_len, SOCKADDR_DL
      <4>2. QED BY <1>4, <3>1, <4>1 DEF IfconfEntry, SOCKADDR_DL, SOCKADDR
    <3>2. CASE x.addr \notin Ifs
      <4>1. sa_len(x.addr) = 0
        BY <3>2 DEF sa_len
      <4>2. QED BY <1>4, <3>2, <4>1 DEF IfconfEntry, SOCKADDR, IFREQ
    <3>3. QED BY <3>1, <3>2
  <2> HIDE DEF t, e, step, l
  <2>2. Append(s.out, e) \in Seq(Entries)
    BY <1>1, <1>2, AppendProperties
  <2>3. t \in IfconfStates
    BY <1>1, <1>2, <2>1, <2>2 DEF IfconfStates
  <2>4. t.out = Append(s.out, e) /\ t.space = s.space - step /\ t.at = s.at + step
    BY <2>1
  <2>5. QED BY <1>2, <1>4, <2>3, <2>4 DEF t, e, step
<1>5. QED BY <1>3, <1>4

IfconfRounds(f, q, space, salen) ==
  /\ f \in [0..Len(q) -> IfconfStates]
  /\ f[0] = IfconfBegin(space, salen)
  /\ \A k \in 1..Len(q) : f[k] = IfconfEntry(f[k - 1], q[k])

\* The loops, round by round.
LEMMA IfconfFold ==
  ASSUME NEW q \in Seq(Items), NEW space \in Int, NEW salen \in Int
  PROVE  \E f : /\ IfconfRounds(f, q, space, salen)
                /\ FoldLeft(IfconfEntry, IfconfBegin(space, salen), q) = f[Len(q)]
<1> DEFINE n == Len(q)
           V == IfconfStates
           v == IfconfBegin(space, salen)
           g == [x \in (1..n) \X V |-> IfconfEntry(x[2], q[x[1]])]
           Q(it) == it = [s \in SUBSET (1..n) |->
                            IF s = {} THEN v ELSE IfconfEntry(it[s \ {Max(s)}], q[Max(s)])]
<1>1. n \in Nat /\ DOMAIN q = 1..n /\ \A i \in 1..n : q[i] \in Items
  BY LenProperties, ElementOfSeq
<1>2. FoldLeft(IfconfEntry, v, q) = (CHOOSE it : Q(it))[1..n]
  <2> DEFINE P(it) == it = [s \in SUBSET DOMAIN q |->
                              IF s = {} THEN v ELSE IfconfEntry(it[s \ {Max(s)}], q[Max(s)])]
  <2>1. FoldLeft(IfconfEntry, v, q) = (CHOOSE it : P(it))[DOMAIN q]
    BY DEF FoldLeft, MapThenFoldSet
  <2> HIDE DEF n, v
  <2>2. QED BY <1>1, <2>1
<1>3. v \in V
  <2>1. <<>> \in Seq(Entries)
    BY EmptySeq
  <2>2. QED BY <2>1 DEF IfconfBegin, IfconfStates
<1> HIDE DEF n, v
<1>4. \A r \in V : \A i \in 1..n : IfconfEntry(r, q[i]) \in V
  BY <1>1, IfconfRound
<1> HIDE DEF V
<1>5. g \in [(1..n) \X V -> V]
  BY <1>4
<1>6. PICK it \in [SUBSET (1..n) -> V] : Folds(it, n, v, g)
  <2> HIDE DEF g
  <2>1. QED BY <1>1, <1>3, <1>5, FoldExists
<1>7. Q(it)
  <2>1. ASSUME NEW s \in SUBSET (1..n), s # {}
        PROVE  g[<<Max(s), it[s \ {Max(s)}]>>] = IfconfEntry(it[s \ {Max(s)}], q[Max(s)])
    <3>1. s \in SUBSET (0..n)
      OBVIOUS
    <3>2. Max(s) \in 1..n
      BY <1>1, <2>1, <3>1, MaxFacts
    <3>3. it[s \ {Max(s)}] \in V
      <4>1. s \ {Max(s)} \in SUBSET (1..n)
        OBVIOUS
      <4>2. QED BY <4>1
    <3>4. QED BY <3>2, <3>3
  <2> DEFINE a == [s \in SUBSET (1..n) |->
                     IF s = {} THEN v ELSE g[<<Max(s), it[s \ {Max(s)}]>>]]
             b == [s \in SUBSET (1..n) |->
                     IF s = {} THEN v ELSE IfconfEntry(it[s \ {Max(s)}], q[Max(s)])]
  <2>2. \A s \in SUBSET (1..n) : a[s] = b[s]
    <3> HIDE DEF g
    <3>1. QED BY <2>1
  <2>3. a = b
    BY <2>2
  <2>4. it = a
    BY <1>6 DEF Folds
  <2>5. QED BY <2>3, <2>4
<1> DEFINE j == CHOOSE x : Q(x)
<1>8. Q(j)
  <2> HIDE DEF Q
  <2>1. QED BY <1>7
<1> HIDE DEF j, g
<1> DEFINE f == [k \in 0..n |-> j[1..k]]
<1>9. f[0] = v
  <2>1. 1..0 = {} /\ {} \in SUBSET (1..n) /\ 0 \in 0..n
    BY <1>1
  <2>2. QED BY <1>8, <2>1
<1>10. ASSUME NEW k \in 1..n PROVE f[k] = IfconfEntry(f[k - 1], q[k])
  <2> DEFINE s == 1..k
  <2>1. k \in Nat /\ k # 0 /\ k \in 0..n /\ k - 1 \in 0..n /\ s \in SUBSET (1..n)
    BY <1>1
  <2>2. s # {} /\ Max(s) = k /\ s \ {k} = 1..(k - 1)
    BY <2>1, MaxOfInterval
  <2>3. f[k] = j[s] /\ f[k - 1] = j[1..(k - 1)]
    BY <2>1
  <2> HIDE DEF s, f
  <2>4. j[s] = IfconfEntry(j[s \ {Max(s)}], q[Max(s)])
    BY <1>8, <2>1, <2>2
  <2>5. QED BY <2>2, <2>3, <2>4
<1>11. n \in 0..n /\ f[n] = j[1..n] /\ f = [k \in 0..n |-> f[k]]
  BY <1>1
<1> HIDE DEF f, Q
<1>12. \A k \in 0..n : f[k] \in V
  <2> DEFINE T == {k \in 0..n : f[k] \in V}
  <2>1. 0 \in T
    BY <1>1, <1>3, <1>9
  <2>2. ASSUME NEW k \in 0..n, k \in T, k < n PROVE k + 1 \in T
    <3>1. k + 1 \in 1..n /\ k + 1 \in 0..n /\ (k + 1) - 1 = k
      BY <1>1, <2>2
    <3>2. f[k + 1] = IfconfEntry(f[k], q[k + 1])
      BY <1>10, <3>1
    <3>3. QED BY <1>4, <2>2, <3>1, <3>2
  <2> HIDE DEF T
  <2>3. \A k \in 0..n : k \in T
    BY <1>1, <2>1, <2>2, UpTo
  <2>4. QED BY <2>3 DEF T
<1>13. IfconfRounds(f, q, space, salen)
  <2>1. f \in [0..n -> V]
    BY <1>11, <1>12
  <2>2. QED BY <1>9, <1>10, <2>1 DEF IfconfRounds, V, v, n
<1>14. QED BY <1>2, <1>11, <1>13 DEF j, n, v

\* The j-th entry, where it is stored.
EntryIs(e, j, salen) ==
  e = [ifp |-> Item(j).ifp, addr |-> Item(j).addr, at |-> IfconfAt(salen, j),
       size |-> IF j = 1 THEN IFNAMSIZ + SOCKADDR_DL ELSE IFREQ]

\* After k rounds the entries stored are the first ones, and fewer than k
\* only because there is no room left.
Stored(s, k, space, salen) ==
  LET m == Len(s.out)
  IN /\ m <= k /\ (m = k \/ ~Roomy(s.space))
     /\ s.space = IfconfLeft(space, salen, m)
     /\ m = 0 => s.salen = salen /\ s.at = 0
     /\ m > 0 => s.at = IfconfAt(salen, m + 1)
     /\ \A j \in 1..m : EntryIs(s.out[j], j, salen) /\ Roomy(IfconfLeft(space, salen, j - 1))

LEMMA StoredStays ==
  ASSUME IInv, LinksFirst, ifnet # <<>>, NEW space \in Int, NEW salen \in Int,
         NEW s \in IfconfStates, NEW k \in Nat, k + 1 \in 1..Len(IfconfItems),
         Stored(s, k, space, salen)
  PROVE  Stored(IfconfEntry(s, IfconfItems[k + 1]), k + 1, space, salen)
<1> DEFINE x == IfconfItems[k + 1]
           t == IfconfEntry(s, x)
           m == Len(s.out)
<1>1. x = Item(k + 1) /\ x \in Items /\ (x.addr \in Ifs <=> k = 0)
  BY ItemFacts
<1>2. /\ s.out \in Seq(Entries) /\ m \in Nat /\ s.space \in Int /\ s.at \in Int /\ s.salen \in Int
  BY LenProperties DEF IfconfStates
<1> HIDE DEF x
<1>3. CASE ~Roomy(s.space)
  <2>1. t = s
    BY <1>1, <1>3, IfconfRound
  <2>2. m <= k + 1
    BY <1>2 DEF Stored
  <2> HIDE DEF t
  <2>3. Stored(t, k + 1, space, salen)
    BY <1>3, <2>1, <2>2 DEF Stored
  <2>4. QED BY <2>3 DEF t, x
<1>4. CASE Roomy(s.space)
  <2> DEFINE e == [ifp |-> x.ifp, addr |-> x.addr, at |-> s.at,
                   size |-> IF x.addr \in Ifs THEN IFNAMSIZ + SOCKADDR_DL ELSE IFREQ]
             step == IF x.addr \in Ifs THEN IFNAMSIZ + s.salen ELSE IFREQ
  <2>1. m = k
    BY <1>4 DEF Stored
  <2>2. /\ e \in Entries /\ t.out = Append(s.out, e)
        /\ t.space = s.space - step /\ t.at = s.at + step
    BY <1>1, <1>4, IfconfRound
  <2>3. e = [ifp |-> x.ifp, addr |-> x.addr, at |-> s.at,
             size |-> IF k = 0 THEN IFNAMSIZ + SOCKADDR_DL ELSE IFREQ]
        /\ step = IF k = 0 THEN IFNAMSIZ + s.salen ELSE IFREQ
    BY <1>1
  <2> HIDE DEF t, e, step
  <2>4. /\ Len(t.out) = k + 1 /\ t.out[k + 1] = e
        /\ \A j \in 1..k : t.out[j] = s.out[j]
    BY <1>2, <2>1, <2>2, AppendProperties
  <2>5. /\ s.space = IfconfLeft(space, salen, k)
        /\ k = 0 => s.salen = salen /\ s.at = 0
        /\ k > 0 => s.at = IfconfAt(salen, k + 1)
        /\ \A j \in 1..k : EntryIs(s.out[j], j, salen) /\ Roomy(IfconfLeft(space, salen, j - 1))
    BY <2>1 DEF Stored
  <2>6. t.space = IfconfLeft(space, salen, k + 1) /\ t.at = IfconfAt(salen, k + 2)
        /\ s.at = IfconfAt(salen, k + 1)
    <3>1. CASE k = 0
      BY <2>2, <2>3, <2>5, <3>1 DEF IfconfLeft, IfconfAt, IFNAMSIZ, IFREQ, SOCKADDR
    <3>2. CASE k > 0
      BY <2>2, <2>3, <2>5, <3>2 DEF IfconfLeft, IfconfAt, IFNAMSIZ, IFREQ, SOCKADDR
    <3>3. QED BY <3>1, <3>2
  <2>7. EntryIs(e, k + 1, salen)
    <3>1. k + 1 = 1 <=> k = 0
      OBVIOUS
    <3>2. QED BY <1>1, <2>3, <2>6, <3>1 DEF EntryIs
  <2>8. Roomy(IfconfLeft(space, salen, (k + 1) - 1))
    <3>1. (k + 1) - 1 = k
      OBVIOUS
    <3>2. QED BY <1>4, <2>5, <3>1
  <2>9. \A j \in 1..k + 1 : EntryIs(t.out[j], j, salen) /\ Roomy(IfconfLeft(space, salen, j - 1))
    <3> TAKE j \in 1..k + 1
    <3>1. CASE j = k + 1
      BY <2>4, <2>7, <2>8, <3>1
    <3>2. CASE j # k + 1
      <4>1. j \in 1..k
        BY <3>2
      <4>2. QED BY <2>4, <2>5, <4>1
    <3>3. QED BY <3>1, <3>2
  <2>10. (k + 1) + 1 = k + 2 /\ k + 1 > 0 /\ k + 1 # 0 /\ k + 1 <= k + 1
    OBVIOUS
  <2>11. Stored(t, k + 1, space, salen)
    BY <2>4, <2>6, <2>9, <2>10 DEF Stored
  <2>12. QED BY <2>11 DEF t, x
<1>5. QED BY <1>3, <1>4

\* What ifconf stores, whatever the size of the buffer and the length that
\* was not set.
LEMMA ReportsRight == IInv /\ LinksFirst => IfconfReports
<1> SUFFICES ASSUME IInv, LinksFirst, ifnet # <<>>, NEW space \in Spaces, NEW salen \in SaLens
             PROVE  IfconfStores(space, salen)
  BY DEF IfconfReports
<1> DEFINE q == IfconfItems
           n == Len(q)
           r == ifconf(space, salen)
<1>1. space \in Int /\ salen \in Int
  BY InControlAssumption
<1>2. /\ q \in Seq(Items) /\ n \in Nat /\ n = Len(Own) + Len(ifnet) - 1
      /\ Head(ifnet) = ifnet[1]
  BY ItemFacts, LenProperties
<1>3. PICK f : /\ IfconfRounds(f, q, space, salen)
               /\ FoldLeft(IfconfEntry, IfconfBegin(space, salen), q) = f[n]
  BY <1>1, <1>2, IfconfFold
<1>4. r = f[n].out
  BY <1>3 DEF ifconf
<1> HIDE DEF q, r, n
<1>5. /\ \A k \in 0..n : f[k] \in IfconfStates
      /\ f[0] = IfconfBegin(space, salen)
      /\ \A k \in 1..n : f[k] = IfconfEntry(f[k - 1], q[k])
  BY <1>3 DEF IfconfRounds, n
<1>6. \A k \in 0..n : Stored(f[k], k, space, salen)
  <2> DEFINE T == {k \in 0..n : Stored(f[k], k, space, salen)}
  <2>1. 0 \in T
    <3>1. f[0].out = <<>> /\ f[0].space = space /\ f[0].at = 0 /\ f[0].salen = salen
      BY <1>5 DEF IfconfBegin
    <3>2. Len(f[0].out) = 0
      BY <3>1, EmptySeq
    <3>3. Stored(f[0], 0, space, salen)
      BY <3>1, <3>2 DEF Stored, IfconfLeft
    <3>4. QED BY <1>2, <3>3
  <2>2. ASSUME NEW k \in 0..n, k \in T, k < n PROVE k + 1 \in T
    <3>1. k + 1 \in 1..n /\ k + 1 \in 0..n /\ (k + 1) - 1 = k /\ k \in Nat
      BY <1>2, <2>2
    <3>2. f[k + 1] = IfconfEntry(f[k], q[k + 1]) /\ f[k] \in IfconfStates
      BY <1>5, <3>1
    <3>3. Stored(f[k], k, space, salen)
      BY <2>2
    <3>4. Stored(IfconfEntry(f[k], IfconfItems[k + 1]), k + 1, space, salen)
      BY <1>1, <3>1, <3>2, <3>3, StoredStays DEF q, n
    <3>5. QED BY <3>1, <3>2, <3>4 DEF q
  <2> HIDE DEF T
  <2>3. \A k \in 0..n : k \in T
    BY <1>2, <2>1, <2>2, UpTo
  <2>4. QED BY <2>3 DEF T
<1>7. n \in 0..n /\ f[n] \in IfconfStates /\ Stored(f[n], n, space, salen)
  BY <1>2, <1>5, <1>6
<1>8. /\ Len(r) <= n
      /\ Len(r) = n \/ ~Roomy(IfconfLeft(space, salen, Len(r)))
      /\ \A k \in 1..Len(r) : EntryIs(r[k], k, salen) /\ Roomy(IfconfLeft(space, salen, k - 1))
  <2>1. Len(r) = n \/ ~Roomy(f[n].space)
    BY <1>4, <1>7 DEF Stored
  <2>2. f[n].space = IfconfLeft(space, salen, Len(r))
    BY <1>4, <1>7 DEF Stored
  <2>3. QED BY <1>4, <1>7, <2>1, <2>2 DEF Stored
<1>9. \A k : /\ Item(k).ifp = IF k <= Len(Own) THEN Head(ifnet) ELSE ifnet[k - Len(Own) + 1]
             /\ Item(k).addr = IF k <= Len(Own) THEN Own[k] ELSE NULL
  BY <1>2 DEF Item
<1>10. \A k \in 1..Len(r) :
         r[k] = [ifp |-> IF k <= Len(Own) THEN Head(ifnet) ELSE ifnet[k - Len(Own) + 1],
                 addr |-> IF k <= Len(Own) THEN Own[k] ELSE NULL,
                 at |-> IfconfAt(salen, k),
                 size |-> IF k = 1 THEN IFNAMSIZ + SOCKADDR_DL ELSE IFREQ]
  BY <1>8, <1>9 DEF EntryIs
<1>11. Own = addrlist[Head(ifnet)]
  BY <1>2 DEF Own
<1>12. QED BY <1>2, <1>8, <1>10, <1>11 DEF IfconfStores, r

\* The entries up to if_index are those of the list of interfaces.
LEMMA PrintsRight == IInv => PrintsEveryInterface
<1> SUFFICES ASSUME IInv, ifnet # <<>> PROVE PrintsEveryInterface
  BY DEF PrintsEveryInterface
<1> DEFINE n == Len(ifnet)
           S == Ifs \cup {NULL}
<1>1. n \in Nat /\ if_index = n /\ \A k \in 1..n : ifnet[k] \in Ifs /\ table[k] = ifnet[k]
  BY ListFacts DEF IInv, NumbersMatchTable
<1>2. table \in Seq(S) /\ Len(table) \in Nat /\ n <= Len(table)
      /\ DOMAIN table = 1..Len(table) /\ ifnet \in Seq(S)
  <2>1. table \in Seq(S) /\ n <= Len(table)
    BY <1>1 DEF IInv, TypeOK, NumbersMatchTable
  <2>2. ifnet \in [1..n -> S]
    <3>1. ifnet \in Seq(Ifs)
      BY DEF IInv, TypeOK
    <3>2. ifnet \in [1..n -> Ifs]
      BY <3>1, LenProperties
    <3>3. QED BY <1>1, <3>2
  <2> HIDE DEF n, S
  <2>3. ifnet \in Seq(S)
    BY <1>1, <2>2, SequenceFrom
  <2>4. QED BY <2>1, <2>3, LenProperties
<1>3. {k \in 1..if_index : table[k] = NULL} = {}
  BY <1>1, IfRegistryAssumption
<1>4. print_global_ifaddr = SubSeq(table, 1, n)
  BY <1>1, <1>3 DEF print_global_ifaddr
<1> HIDE DEF S
<1>5. print_global_ifaddr = ifnet
  <2> DEFINE z == 0
             t == SubSeq(table, z + 1, z + n)
  <2>1. z \in Nat /\ z + n <= Len(table) /\ z + 1 = 1 /\ z + n = n
    BY <1>1, <1>2
  <2> HIDE DEF z
  <2>2. /\ t \in Seq(S) /\ Len(t) = n
        /\ \A i \in 1..n : t[i] = table[z + i]
    BY <1>1, <1>2, <2>1, PartOf
  <2>3. t = print_global_ifaddr
    BY <1>4, <2>1
  <2> HIDE DEF t
  <2>4. \A i \in 1..n : t[i] = ifnet[i]
    BY <1>1, <2>2 DEF z
  <2>5. t = ifnet
    BY <1>2, <2>2, <2>4, SeqEqual
  <2>6. QED BY <2>3, <2>5
<1>6. EntriesRead = 1..(n + 1)
  BY <1>5 DEF EntriesRead
<1>7. EntriesRead \subseteq DOMAIN table \/ if_index = Len(table)
  BY <1>1, <1>2, <1>6
<1>8. QED BY <1>5, <1>7 DEF PrintsEveryInterface, print_global_ifnet

\* Whatever was attached and whatever in_control did, the searches, ifconf and
\* the walks of test.c answer what the registry holds, with the reads through
\* null pointers and past the table that AnswersAgree names, for any number of
\* interfaces, addresses and any initial size of the table.
THEOREM CallersAreTold == Spec => []AnswersAgree
<1>1. IInv /\ LinksFirst => AnswersAgree
  BY NamesRight, FirstOnlyFound, NumberFound, NoInetFound, ReportsRight, PrintsRight
  DEF AnswersAgree
<1>2. QED BY <1>1, Invariance, LinksAlwaysFirst, PTL
=============================================================================
