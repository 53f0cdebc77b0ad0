--------------------------- MODULE MbufChainProofs ---------------------------
(***************************************************************************)
(* What the operations of MbufChain do to a chain, for chains of any       *)
(* length, mbufs of any size and any number of bytes.                      *)
(*                                                                         *)
(* A chain is laid out in pieces: Upto counts the bytes in front of each   *)
(* mbuf, and Data has the bytes of mbuf i from Upto(c, i - 1) + 1 on.  An  *)
(* operation is exact when the chain it makes is laid out over the right   *)
(* bytes.  The last part is about SlipFrame: what slstart puts on the line *)
(* for a chain, and what a receiver makes of it.                           *)
(***************************************************************************)
EXTENDS SlipFrame, SequenceFacts, FiniteSetTheorems

Byte == Nat \cup {JUNK}

Bytes(c) == [i \in DOMAIN c |-> c[i].bytes]

\* The lengths of the mbufs, and of their beginnings.
Lengths(c) == [i \in 1..Len(c) |-> Len(c[i].bytes)]

Starts(c) == [i \in 0..Len(c) |-> Upto(c, i)]

-----------------------------------------------------------------------------
(* Lengths.                                                                *)

LEMMA SizesAreNumbers ==
  /\ MLEN \in Nat /\ PKTHDR \in Nat /\ MHLEN \in Nat /\ MCLBYTES \in Nat /\ LONG \in Nat
  /\ 0 < PKTHDR /\ 0 < MHLEN /\ 0 < LONG /\ MHLEN + PKTHDR = MLEN
  /\ MINCLSIZE \in Nat /\ MINCLSIZE = MHLEN + MLEN /\ MINCLSIZE <= MCLBYTES
BY MbufAssumption DEF MHLEN, MINCLSIZE

LEMMA MbufFields ==
  ASSUME NEW m \in Mbuf
  PROVE  /\ m.hdr \in BOOLEAN /\ m.ext \in BOOLEAN /\ m.plen \in Int /\ m.off \in Nat
         /\ m.bytes \in Seq(Byte) /\ Len(m.bytes) \in Nat
<1>1. /\ m.hdr \in BOOLEAN /\ m.ext \in BOOLEAN /\ m.plen \in Int /\ m.off \in Nat
      /\ m.bytes \in Seq(Byte)
  BY DEF Mbuf, Byte
<1>2. Len(m.bytes) \in Nat
  BY <1>1, LenProperties
<1>3. QED BY <1>1, <1>2

LEMMA ChainFacts ==
  ASSUME NEW c \in Seq(Mbuf)
  PROVE  /\ Len(c) \in Nat /\ DOMAIN c = 1..Len(c)
         /\ \A i \in 1..Len(c) : c[i] \in Mbuf /\ c[i].bytes \in Seq(Byte)
         /\ Lengths(c) \in [1..Len(c) -> Nat]
         /\ \A i \in 1..Len(c) : Lengths(c)[i] = Len(c[i].bytes)
<1>1. Len(c) \in Nat /\ DOMAIN c = 1..Len(c) /\ \A i \in 1..Len(c) : c[i] \in Mbuf
  BY LenProperties
<1>2. \A i \in 1..Len(c) : c[i].bytes \in Seq(Byte) /\ Len(c[i].bytes) \in Nat
  BY <1>1, MbufFields
<1>3. QED BY <1>1, <1>2 DEF Lengths

\* Total is a sum.
LEMMA TotalIsSum ==
  ASSUME NEW c \in Seq(Mbuf)
  PROVE  \E f : IsSum(f, Len(c), Lengths(c)) /\ Total(c) = f[Len(c)]
<1> DEFINE n == Len(c)
           w == Lengths(c)
           Q(it) == it = [s \in SUBSET DOMAIN c |->
                            IF s = {} THEN 0 ELSE it[s \ {Max(s)}] + Len(c[Max(s)].bytes)]
<1>1. n \in Nat /\ DOMAIN c = 1..n /\ w \in [1..n -> Nat]
  BY ChainFacts
<1>2. ASSUME NEW it PROVE Q(it) <=> it = SumStep(it, n, w)
  <2>1. ASSUME NEW s \in SUBSET (1..n), s # {}
        PROVE  w[Max(s)] = Len(c[Max(s)].bytes)
    <3>1. s \in SUBSET (0..n)
      OBVIOUS
    <3>2. Max(s) \in 1..n
      BY <1>1, <2>1, <3>1, MaxFacts
    <3>3. QED BY <3>2, ChainFacts
  <2> HIDE DEF w, n
  <2> DEFINE a == [s \in SUBSET (1..n) |->
                     IF s = {} THEN 0 ELSE it[s \ {Max(s)}] + Len(c[Max(s)].bytes)]
             b == [s \in SUBSET (1..n) |-> IF s = {} THEN 0 ELSE it[s \ {Max(s)}] + w[Max(s)]]
  <2>2. a = b
    <3>1. \A s \in SUBSET (1..n) : a[s] = b[s]
      BY <2>1
    <3>2. QED BY <3>1
  <2>3. QED BY <1>1, <2>2 DEF SumStep
<1>3. Total(c) = (CHOOSE it : Q(it))[DOMAIN c]
  BY DEF Total, FoldLeft, MapThenFoldSet
<1>4. PICK it : it = SumStep(it, n, w)
  BY <1>1, SumExists
<1> DEFINE j == CHOOSE x : Q(x)
<1>5. Q(j)
  BY <1>2, <1>4
<1>6. j = SumStep(j, n, w)
  BY <1>2, <1>5
<1> HIDE DEF j
<1>7. PICK f : IsSum(f, n, w) /\ j[1..n] = f[n]
  BY <1>1, <1>6, SumValue
<1>8. QED BY <1>1, <1>3, <1>7 DEF j

\* So is Upto.
LEMMA StartsAreSums ==
  ASSUME NEW c \in Seq(Mbuf)
  PROVE  /\ IsSum(Starts(c), Len(c), Lengths(c))
         /\ Total(c) = Upto(c, Len(c))
<1>1. PICK f : IsSum(f, Len(c), Lengths(c)) /\ Total(c) = f[Len(c)]
  BY TotalIsSum
<1>2. ASSUME NEW i \in 0..Len(c) PROVE Upto(c, i) = f[i]
  <2> DEFINE d == SubSeq(c, 1, i)
  <2>1. /\ d \in Seq(Mbuf) /\ Len(d) = i
        /\ \A k \in 1..i : d[k] = c[k] /\ k \in 1..Len(c) /\ k \in 1..Len(d)
    <3>1. Len(c) \in Nat /\ \A k \in 1..i : c[k] \in Mbuf
      BY ChainFacts
    <3>2. /\ 1 \in Int /\ i \in Int
          /\ (IF 1 <= i THEN i - 1 + 1 ELSE 0) = i /\ i - 1 + 1 = i
          /\ \A k \in 1..i : 1 + k - 1 = k
      BY <3>1
    <3>3. /\ d \in Seq(Mbuf) /\ Len(d) = IF 1 <= i THEN i - 1 + 1 ELSE 0
          /\ \A k \in 1..i - 1 + 1 : d[k] = c[1 + k - 1]
      BY <3>1, <3>2, SubSeqProperties
    <3>4. QED BY <3>1, <3>2, <3>3
  <2> HIDE DEF d
  <2>2. PICK g : IsSum(g, Len(d), Lengths(d)) /\ Total(d) = g[Len(d)]
    BY <2>1, TotalIsSum
  <2>3. \A k \in 1..i : Lengths(d)[k] = Lengths(c)[k]
    BY <2>1, ChainFacts
  <2>4. g[i] = f[i]
    <3>1. Len(c) \in Nat /\ Len(d) \in Nat /\ i \in Nat /\ i <= Len(c) /\ i <= Len(d)
      BY <2>1, ChainFacts
    <3>2. QED BY <1>1, <2>2, <2>3, <3>1, SumUnique
  <2>5. QED BY <2>1, <2>2, <2>4 DEF Upto, d
<1>3. Len(c) \in 0..Len(c)
  BY ChainFacts
<1>4. Starts(c) = f
  <2>1. f = [i \in 0..Len(c) |-> f[i]]
    BY <1>1 DEF IsSum
  <2>2. QED BY <1>2, <2>1 DEF Starts
<1>5. QED BY <1>1, <1>2, <1>3, <1>4

\* Upto, from mbuf to mbuf.
LEMMA UptoFacts ==
  ASSUME NEW c \in Seq(Mbuf)
  PROVE  /\ Upto(c, 0) = 0 /\ Upto(c, Len(c)) = Total(c) /\ Total(c) \in Nat
         /\ \A i \in 0..Len(c) : Upto(c, i) \in Nat
         /\ \A i \in 1..Len(c) : /\ i - 1 \in 0..Len(c)
                                 /\ Upto(c, i) = Upto(c, i - 1) + Len(c[i].bytes)
         /\ \A i, j \in 0..Len(c) : i <= j => Upto(c, i) <= Upto(c, j)
<1> DEFINE n == Len(c)
           f == Starts(c)
           w == Lengths(c)
<1>1. /\ n \in Nat /\ w \in [1..n -> Nat] /\ \A i \in 1..n : w[i] = Len(c[i].bytes)
      /\ IsSum(f, n, w) /\ Total(c) = Upto(c, n)
  BY ChainFacts, StartsAreSums
<1>2. /\ \A i \in 0..n : f[i] = Upto(c, i)
      /\ 0 \in 0..n /\ n \in 0..n /\ \A i \in 1..n : i \in 0..n /\ i - 1 \in 0..n
  BY <1>1 DEF Starts
<1> HIDE DEF f, w, n
<1>3. \A i, j \in 0..n : i <= j => f[i] <= f[j]
  BY <1>1, SumGrows
<1>4. f \in [0..n -> Nat] /\ f[0] = 0 /\ \A i \in 1..n : f[i] = f[i - 1] + w[i]
  BY <1>1 DEF IsSum
<1>5. Upto(c, 0) = 0 /\ Upto(c, n) = Total(c) /\ \A i \in 0..n : Upto(c, i) \in Nat
  BY <1>1, <1>2, <1>4
<1>6. \A i \in 1..n : i - 1 \in 0..n /\ Upto(c, i) = Upto(c, i - 1) + Len(c[i].bytes)
  BY <1>1, <1>2, <1>4
<1>7. \A i, j \in 0..n : i <= j => Upto(c, i) <= Upto(c, j)
  BY <1>2, <1>3
<1>8. Total(c) \in Nat
  BY <1>2, <1>5
<1>9. QED BY <1>5, <1>6, <1>7, <1>8 DEF n

LEMMA SumIsUpto ==
  ASSUME NEW c \in Seq(Mbuf), NEW p, IsSum(p, Len(c), Lengths(c))
  PROVE  p = Starts(c)
<1>1. IsSum(Starts(c), Len(c), Lengths(c)) /\ Len(c) \in Nat
  BY StartsAreSums, ChainFacts
<1>2. \A i \in 0..Len(c) : p[i] = Starts(c)[i]
  <2>1. SUFFICES ASSUME NEW i \in 0..Len(c) PROVE p[i] = Starts(c)[i]
    OBVIOUS
  <2>2. i \in Nat /\ i <= Len(c)
    BY <1>1
  <2>3. QED BY <1>1, <2>2, SumUnique
<1>3. p = [i \in 0..Len(c) |-> p[i]]
  BY DEF IsSum
<1>4. Starts(c) = [i \in 0..Len(c) |-> Starts(c)[i]]
  BY DEF Starts
<1>5. QED BY <1>2, <1>3, <1>4

-----------------------------------------------------------------------------
(* Data.                                                                   *)

LEMMA BytesJoin ==
  \A x, y, z \in Seq(Byte) : (x \o y) \o z = x \o (y \o z)
BY ConcatAssociative

\* The sequence of the mbufs' bytes.
LEMMA BytesFacts ==
  ASSUME NEW c \in Seq(Mbuf)
  PROVE  /\ Bytes(c) \in Seq(Seq(Byte)) /\ Len(Bytes(c)) = Len(c)
         /\ \A i \in 1..Len(c) : Bytes(c)[i] = c[i].bytes
<1> DEFINE q == Bytes(c)
<1>1. Len(c) \in Nat /\ DOMAIN c = 1..Len(c) /\ \A i \in 1..Len(c) : c[i].bytes \in Seq(Byte)
  BY ChainFacts
<1>2. q = [i \in 1..Len(c) |-> c[i].bytes]
  BY <1>1 DEF Bytes
<1> HIDE DEF q
<1>3. q \in [1..Len(c) -> Seq(Byte)] /\ \A i \in 1..Len(c) : q[i] = c[i].bytes
  BY <1>1, <1>2
<1>4. q \in Seq(Seq(Byte)) /\ Len(q) = Len(c)
  BY <1>1, <1>3, SequenceFrom
<1>5. QED BY <1>3, <1>4 DEF q

\* A chain is laid out over its data.
LEMMA ChainLayout ==
  ASSUME NEW c \in Seq(Mbuf)
  PROVE  /\ Data(c) \in Seq(Byte) /\ Len(Data(c)) = Total(c)
         /\ PiecesOf(Bytes(c), Starts(c), Data(c))
<1> DEFINE q == Bytes(c)
<1>1. /\ Len(c) \in Nat /\ DOMAIN c = 1..Len(c)
      /\ \A i \in 1..Len(c) : c[i].bytes \in Seq(Byte)
  BY ChainFacts
<1>2. q \in Seq(Seq(Byte))
  BY <1>1, IsASeq DEF Bytes
<1>3. Len(q) = Len(c) /\ \A i \in 1..Len(c) : q[i] = c[i].bytes
  <2>1. DOMAIN q = 1..Len(c) /\ DOMAIN q = 1..Len(q) /\ Len(q) \in Nat
    BY <1>1, <1>2, LenProperties DEF Bytes
  <2>2. QED BY <1>1, <2>1 DEF Bytes
<1> HIDE DEF q
<1>4. PICK p : PiecesOf(q, p, FlattenSeq(q))
  BY <1>2, FlattenPieces
<1>5. FlattenSeq(q) \in Seq(Byte) /\ FlattenSeq(q) = Data(c)
  BY <1>2, FlattenPieces DEF Data, Bytes, q
<1>6. IsSum(p, Len(c), Lengths(c))
  BY <1>3, <1>4 DEF PiecesOf, IsSum, Lengths
<1>7. p = Starts(c)
  BY <1>6, SumIsUpto
<1>8. Len(Data(c)) = Total(c)
  <2>1. p[Len(c)] = Len(Data(c))
    BY <1>3, <1>4, <1>5 DEF PiecesOf
  <2>2. Len(c) \in 0..Len(c)
    BY <1>1
  <2>3. p[Len(c)] = Upto(c, Len(c))
    BY <1>7, <2>2 DEF Starts
  <2>4. QED BY <2>1, <2>3, UptoFacts
<1>9. QED BY <1>4, <1>5, <1>7, <1>8 DEF q

\* p counts the bytes in front of each mbuf of c, and t has those of every
\* mbuf at its place.
LaidOut(c, p, t) ==
  /\ p \in [0..Len(c) -> Nat] /\ p[0] = 0 /\ p[Len(c)] = Len(t)
  /\ \A k \in 1..Len(c) :
       /\ p[k] = p[k - 1] + Len(c[k].bytes)
       /\ \A j \in 1..Len(c[k].bytes) : t[p[k - 1] + j] = c[k].bytes[j]

LEMMA LaidOutIsPieces ==
  ASSUME NEW c \in Seq(Mbuf), NEW p, NEW t
  PROVE  LaidOut(c, p, t) <=> PiecesOf(Bytes(c), p, t)
<1> DEFINE q == Bytes(c)
<1>3. Len(q) = Len(c) /\ \A i \in 1..Len(c) : q[i] = c[i].bytes
  BY BytesFacts
<1> HIDE DEF q
<1>4. LaidOut(c, p, t) <=> PiecesOf(q, p, t)
  <2>1. ASSUME NEW k \in 1..Len(c)
        PROVE  (/\ p[k] = p[k - 1] + Len(c[k].bytes)
                /\ \A j \in 1..Len(c[k].bytes) : t[p[k - 1] + j] = c[k].bytes[j])
               <=> (/\ p[k] = p[k - 1] + Len(q[k])
                    /\ \A j \in 1..Len(q[k]) : t[p[k - 1] + j] = q[k][j])
    <3>1. q[k] = c[k].bytes
      BY <1>3
    <3>2. QED BY <3>1
  <2>2. Len(q) = Len(c)
    BY <1>3
  <2>3. QED BY <2>1, <2>2 DEF LaidOut, PiecesOf
<1>5. QED BY <1>4 DEF q

\* Two chains laid out alike over the same bytes, one of them a chain's data.
LEMMA DataIs ==
  ASSUME NEW c \in Seq(Mbuf), NEW t \in Seq(Byte), NEW p, LaidOut(c, p, t)
  PROVE  Data(c) = t /\ Total(c) = Len(t) /\ p = Starts(c)
<1>1. Bytes(c) \in Seq(Seq(Byte))
  BY BytesFacts
<1>2. PiecesOf(Bytes(c), p, t)
  BY LaidOutIsPieces
<1>3. FlattenSeq(Bytes(c)) = t
  BY <1>1, <1>2, FlattenIs
<1>4. Data(c) = t
  BY <1>3 DEF Data, Bytes
<1>5. IsSum(p, Len(c), Lengths(c))
  BY ChainFacts DEF LaidOut, IsSum
<1>6. QED BY <1>4, <1>5, SumIsUpto, ChainLayout

LEMMA Layout ==
  ASSUME NEW c \in Seq(Mbuf)
  PROVE  /\ LaidOut(c, Starts(c), Data(c))
         /\ Data(c) \in Seq(Byte) /\ Len(Data(c)) = Total(c)
         /\ \A k \in 1..Len(c) : \A j \in 1..Len(c[k].bytes) :
              Data(c)[Upto(c, k - 1) + j] = c[k].bytes[j]
<1>1. LaidOut(c, Starts(c), Data(c))
  BY ChainLayout, LaidOutIsPieces
<1>2. \A k \in 1..Len(c) : Starts(c)[k - 1] = Upto(c, k - 1)
  BY UptoFacts DEF Starts
<1>3. QED BY <1>1, <1>2, ChainLayout DEF LaidOut

\* Where the data has a byte of an mbuf.
LEMMA ByteAt ==
  ASSUME NEW c \in Seq(Mbuf), NEW k \in 1..Len(c), NEW j \in 1..Len(c[k].bytes)
  PROVE  Data(c)[Upto(c, k - 1) + j] = c[k].bytes[j]
<1>1. \A x \in 1..Len(c) : \A y \in 1..Len(c[x].bytes) :
        Data(c)[Upto(c, x - 1) + y] = c[x].bytes[y]
  BY Layout
<1>2. QED BY <1>1

\* Every byte of the data is in some mbuf.
LEMMA EveryByte ==
  ASSUME NEW c \in Seq(Mbuf), NEW x \in 1..Total(c)
  PROVE  \E k \in 1..Len(c) : \E j \in 1..Len(c[k].bytes) :
           x = Upto(c, k - 1) + j /\ Data(c)[x] = c[k].bytes[j]
<1> DEFINE n == Len(c)
           T == {k \in 0..n : Upto(c, k) >= x}
<1>1. n \in T /\ n \in Nat
  BY UptoFacts, ChainFacts
<1>2. T \in SUBSET Nat /\ T # {}
  BY <1>1
<1>3. PICK k \in T : \A y \in T : k <= y
  BY <1>2, LeastNumber
<1>4. k # 0
  BY <1>3, UptoFacts
<1>5. k \in 1..n /\ k - 1 \in 0..n /\ k - 1 \notin T
  BY <1>1, <1>3, <1>4
<1>6. Upto(c, k - 1) < x /\ x <= Upto(c, k) /\ Upto(c, k - 1) \in Nat
  BY <1>3, <1>5, UptoFacts
<1>7. Upto(c, k) = Upto(c, k - 1) + Len(c[k].bytes) /\ Len(c[k].bytes) \in Nat
  BY <1>5, UptoFacts, ChainFacts, MbufFields
<1> DEFINE j == x - Upto(c, k - 1)
<1>8. j \in 1..Len(c[k].bytes) /\ x = Upto(c, k - 1) + j
  BY <1>6, <1>7
<1>9. Data(c)[Upto(c, k - 1) + j] = c[k].bytes[j]
  <2> HIDE DEF j
  <2>1. QED BY <1>5, <1>8, Layout
<1>10. QED BY <1>5, <1>8, <1>9

\* Only the bytes of the mbufs count.
LEMMA SameBytes ==
  ASSUME NEW c \in Seq(Mbuf), NEW d \in Seq(Mbuf), Len(d) = Len(c),
         \A i \in 1..Len(c) : d[i].bytes = c[i].bytes
  PROVE  /\ Data(d) = Data(c) /\ Total(d) = Total(c)
         /\ \A i \in 0..Len(c) : Upto(d, i) = Upto(c, i)
<1>1. LaidOut(c, Starts(c), Data(c)) /\ Data(c) \in Seq(Byte) /\ Len(Data(c)) = Total(c)
  BY Layout
<1>2. LaidOut(d, Starts(c), Data(c))
  <2> DEFINE p == Starts(c)
             t == Data(c)
  <2>1. /\ p \in [0..Len(c) -> Nat] /\ p[0] = 0 /\ p[Len(c)] = Len(t)
        /\ \A k \in 1..Len(c) :
             /\ p[k] = p[k - 1] + Len(c[k].bytes)
             /\ \A j \in 1..Len(c[k].bytes) : t[p[k - 1] + j] = c[k].bytes[j]
    BY <1>1 DEF LaidOut
  <2> HIDE DEF p, t
  <2>2. ASSUME NEW k \in 1..Len(d)
        PROVE  /\ p[k] = p[k - 1] + Len(d[k].bytes)
               /\ \A j \in 1..Len(d[k].bytes) : t[p[k - 1] + j] = d[k].bytes[j]
    <3>1. k \in 1..Len(c) /\ d[k].bytes = c[k].bytes
      OBVIOUS
    <3>2. QED BY <2>1, <3>1
  <2>3. LaidOut(d, p, t)
    BY <2>1, <2>2 DEF LaidOut
  <2>4. QED BY <2>3 DEF p, t
<1>3. Data(d) = Data(c) /\ Total(d) = Total(c) /\ Starts(c) = Starts(d)
  BY <1>1, <1>2, DataIs
<1>4. \A i \in 0..Len(c) : Starts(c)[i] = Upto(c, i) /\ Starts(d)[i] = Upto(d, i)
  BY DEF Starts
<1>5. QED BY <1>3, <1>4

\* Changing one mbuf.
LEMMA Replaced ==
  ASSUME NEW c \in Seq(Mbuf), NEW k \in 1..Len(c), NEW m \in Mbuf
  PROVE  /\ [c EXCEPT ![k] = m] \in Seq(Mbuf) /\ Len([c EXCEPT ![k] = m]) = Len(c)
         /\ \A i \in 1..Len(c) : [c EXCEPT ![k] = m][i] = IF i = k THEN m ELSE c[i]
BY ExceptSeq

\* Changing the packet length alone.
LEMMA Recounted ==
  ASSUME NEW c \in Seq(Mbuf), Len(c) > 0, NEW v \in Int
  PROVE  LET d == [c EXCEPT ![1].plen = v]
         IN  /\ d \in Seq(Mbuf) /\ Len(d) = Len(c)
             /\ d[1] = [c[1] EXCEPT !.plen = v] /\ d[1] \in Mbuf
             /\ \A i \in 2..Len(c) : d[i] = c[i]
             /\ Data(d) = Data(c) /\ Total(d) = Total(c)
             /\ \A i \in 0..Len(c) : Upto(d, i) = Upto(c, i)
<1> DEFINE m == [c[1] EXCEPT !.plen = v]
           d == [c EXCEPT ![1] = m]
<1>1. /\ Len(c) \in Nat /\ 1 \in 1..Len(c)
      /\ \A i \in 1..Len(c) : c[i] \in Mbuf
  BY ChainFacts
<1>2. m \in Mbuf /\ m.bytes = c[1].bytes
  BY <1>1 DEF Mbuf
<1> HIDE DEF m
<1>3. /\ d \in Seq(Mbuf) /\ Len(d) = Len(c)
      /\ \A i \in 1..Len(c) : d[i] = IF i = 1 THEN m ELSE c[i]
  BY <1>1, <1>2, Replaced
<1> HIDE DEF d
<1>4. \A i \in 1..Len(c) : d[i].bytes = c[i].bytes
  BY <1>2, <1>3
<1>5. /\ Data(d) = Data(c) /\ Total(d) = Total(c)
      /\ \A i \in 0..Len(c) : Upto(d, i) = Upto(c, i)
  BY <1>3, <1>4, SameBytes
<1>6. d[1] = m /\ \A i \in 2..Len(c) : d[i] = c[i]
  BY <1>1, <1>3
<1>7. d = [c EXCEPT ![1].plen = v]
  BY DEF d, m
<1>8. QED BY <1>2, <1>3, <1>5, <1>6, <1>7 DEF m

\* Where the loop over the mbufs stops.
LEMMA AtFacts ==
  ASSUME NEW c \in Seq(Mbuf), Len(c) > 0, NEW n \in 0..Total(c)
  PROVE  /\ At(c, n) \in 1..Len(c) /\ Upto(c, At(c, n)) >= n
         /\ \A i \in 1..Len(c) : i < At(c, n) => Upto(c, i) < n
         /\ At(c, n) = 1 \/ Upto(c, At(c, n) - 1) < n
<1> DEFINE T == {i \in DOMAIN c : Upto(c, i) >= n}
<1>1. Len(c) \in Nat /\ DOMAIN c = 1..Len(c) /\ Len(c) \in 1..Len(c)
  BY ChainFacts
<1>2. Upto(c, Len(c)) = Total(c) /\ \A i \in 1..Len(c) : i \in 0..Len(c) /\ Upto(c, i) \in Nat
  BY <1>1, UptoFacts
<1>3. T \in SUBSET Nat /\ T # {}
  <2>1. Total(c) \in Nat
    BY UptoFacts
  <2>2. Len(c) \in T
    BY <1>1, <1>2, <2>1
  <2>3. QED BY <1>1, <2>2
<1>4. Min(T) \in T /\ \A y \in T : Min(T) <= y
  BY <1>3, MinFacts
<1> DEFINE k == Min(T)
<1>5. k = At(c, n)
  BY DEF At
<1>6. k \in 1..Len(c) /\ Upto(c, k) >= n
  BY <1>1, <1>4
<1>7. \A i \in 1..Len(c) : i < k => Upto(c, i) < n
  <2>1. ASSUME NEW i \in 1..Len(c), i < k PROVE ~(i \in T)
    <3> HIDE DEF T
    <3>1. i \in T => k <= i
      BY <1>4
    <3> HIDE DEF k
    <3>2. QED BY <1>1, <1>6, <2>1, <3>1
  <2>2. QED BY <1>1, <1>2, <2>1
<1> HIDE DEF k
<1>8. k = 1 \/ Upto(c, k - 1) < n
  <2>1. k = 1 \/ (k - 1 \in 1..Len(c) /\ k - 1 < k)
    BY <1>1, <1>6
  <2>2. QED BY <1>7, <2>1
<1>9. QED BY <1>5, <1>6, <1>7, <1>8

\* Chains end to end.
LEMMA Concatenated ==
  ASSUME NEW c \in Seq(Mbuf), NEW d \in Seq(Mbuf)
  PROVE  /\ c \o d \in Seq(Mbuf) /\ Len(c \o d) = Len(c) + Len(d)
         /\ Data(c \o d) = Data(c) \o Data(d) /\ Total(c \o d) = Total(c) + Total(d)
<1> DEFINE e == c \o d
           t == Data(c) \o Data(d)
           p == [i \in 0..Len(e) |->
                  IF i <= Len(c) THEN Upto(c, i) ELSE Total(c) + Upto(d, i - Len(c))]
<1>1. /\ e \in Seq(Mbuf) /\ Len(e) = Len(c) + Len(d)
      /\ \A i \in 1..Len(c) + Len(d) : e[i] = IF i <= Len(c) THEN c[i] ELSE d[i - Len(c)]
  BY ConcatProperties
<1>2. Len(c) \in Nat /\ Len(d) \in Nat
  BY ChainFacts
<1>3. /\ Data(c) \in Seq(Byte) /\ Len(Data(c)) = Total(c)
      /\ Data(d) \in Seq(Byte) /\ Len(Data(d)) = Total(d)
      /\ Total(c) \in Nat /\ Total(d) \in Nat
  BY Layout, UptoFacts
<1>4. /\ t \in Seq(Byte) /\ Len(t) = Total(c) + Total(d)
      /\ \A i \in 1..Total(c) + Total(d) :
           t[i] = IF i <= Total(c) THEN Data(c)[i] ELSE Data(d)[i - Total(c)]
  <2> DEFINE a == Data(c)
             b == Data(d)
  <2> HIDE DEF a, b
  <2>1. a \in Seq(Byte) /\ b \in Seq(Byte) /\ Len(a) = Total(c) /\ Len(b) = Total(d)
    BY <1>3 DEF a, b
  <2>2. /\ a \o b \in Seq(Byte) /\ Len(a \o b) = Len(a) + Len(b)
        /\ \A i \in 1..Len(a) + Len(b) : (a \o b)[i] = IF i <= Len(a) THEN a[i] ELSE b[i - Len(a)]
    BY <2>1, ConcatProperties
  <2>3. t = a \o b
    BY DEF a, b
  <2> HIDE DEF t
  <2>4. QED BY <2>1, <2>2, <2>3 DEF a, b
<1> HIDE DEF e, t
<1>5. p \in [0..Len(e) -> Nat]
  <2>1. ASSUME NEW i \in 0..Len(e) PROVE p[i] \in Nat
    <3>1. CASE i <= Len(c)
      BY <1>1, <1>2, <3>1, UptoFacts
    <3>2. CASE ~(i <= Len(c))
      <4>1. i - Len(c) \in 0..Len(d)
        BY <1>1, <1>2, <3>2
      <4>2. Upto(d, i - Len(c)) \in Nat
        BY <4>1, UptoFacts
      <4>3. QED BY <1>3, <3>2, <4>2
    <3>3. QED BY <3>1, <3>2
  <2>2. QED BY <2>1
<1>6. p[0] = 0 /\ p[Len(e)] = Len(t)
  <2>1. p[0] = 0
    <3>1. 0 \in 0..Len(e) /\ 0 <= Len(c)
      BY <1>1, <1>2
    <3>2. QED BY <3>1, UptoFacts
  <2>2. p[Len(e)] = Total(c) + Total(d)
    <3>1. Len(e) \in 0..Len(e)
      BY <1>1, <1>2
    <3>2. CASE Len(d) = 0
      <4>1. p[Len(e)] = Upto(c, Len(c))
        BY <1>1, <1>2, <3>1, <3>2
      <4>2. Total(d) = 0
        BY <3>2, UptoFacts
      <4>3. Upto(c, Len(c)) = Total(c)
        BY UptoFacts
      <4> HIDE DEF p
      <4>4. QED BY <1>3, <4>1, <4>2, <4>3
    <3>3. CASE Len(d) # 0
      <4>1. ~(Len(e) <= Len(c)) /\ Len(e) - Len(c) = Len(d)
        BY <1>1, <1>2, <3>3
      <4>2. QED BY <3>1, <4>1, UptoFacts
    <3>4. QED BY <3>2, <3>3
  <2>3. QED BY <1>4, <2>1, <2>2
<1>7. ASSUME NEW k \in 1..Len(e)
      PROVE  /\ p[k] = p[k - 1] + Len(e[k].bytes)
             /\ \A j \in 1..Len(e[k].bytes) : t[p[k - 1] + j] = e[k].bytes[j]
  <2>1. k \in 0..Len(e) /\ k - 1 \in 0..Len(e)
    BY <1>1, <1>2
  <2>2. CASE k <= Len(c)
    <3>1. k \in 1..Len(c) /\ e[k] = c[k] /\ k - 1 <= Len(c)
      BY <1>1, <1>2, <2>2
    <3>2. p[k] = Upto(c, k) /\ p[k - 1] = Upto(c, k - 1)
      BY <2>1, <2>2, <3>1
    <3>3. p[k] = p[k - 1] + Len(e[k].bytes)
      BY <3>1, <3>2, UptoFacts
    <3>4. ASSUME NEW j \in 1..Len(e[k].bytes) PROVE t[p[k - 1] + j] = e[k].bytes[j]
      <4> DEFINE a == Upto(c, k - 1)
                 l == Len(c[k].bytes)
      <4>1. a \in Nat /\ l \in Nat /\ a + l <= Total(c) /\ j \in 1..l
        <5>1. /\ k \in 0..Len(c) /\ Len(c) \in 0..Len(c) /\ k <= Len(c)
              /\ Total(c) = Upto(c, Len(c)) /\ Upto(c, k) = a + l
          BY <1>2, <3>1, UptoFacts
        <5>2. Upto(c, k) <= Total(c)
          BY <5>1, UptoFacts
        <5>3. a \in Nat /\ l \in Nat
          BY <3>1, UptoFacts, ChainFacts, MbufFields
        <5>4. QED BY <3>1, <3>4, <5>1, <5>2, <5>3
      <4>2. Data(c)[a + j] = e[k].bytes[j]
        BY <3>1, <3>4, ByteAt
      <4> HIDE DEF a, l
      <4>3. a + j \in 1..Total(c) + Total(d) /\ a + j <= Total(c)
        BY <1>3, <4>1, PlaceInPiece
      <4>4. t[a + j] = Data(c)[a + j]
        BY <1>4, <4>3
      <4>5. QED BY <3>2, <4>2, <4>4 DEF a
    <3>5. QED BY <3>3, <3>4
  <2>3. CASE ~(k <= Len(c))
    <3> DEFINE x == k - Len(c)
    <3>1. x \in 1..Len(d) /\ e[k] = d[x] /\ x - 1 \in 0..Len(d)
      BY <1>1, <1>2, <2>3
    <3>2. p[k] = Total(c) + Upto(d, x) /\ p[k - 1] = Total(c) + Upto(d, x - 1)
      <4>1. p[k] = Total(c) + Upto(d, x)
        BY <2>1, <2>3
      <4>2. CASE x = 1
        <5>1. k - 1 <= Len(c) /\ k - 1 = Len(c) /\ x - 1 = 0
          BY <1>2, <4>2
        <5>2. p[k - 1] = Upto(c, Len(c)) /\ Upto(d, x - 1) = 0
          BY <2>1, <5>1, UptoFacts
        <5>3. QED BY <1>3, <4>1, <5>2, UptoFacts
      <4>3. CASE x # 1
        <5>1. ~(k - 1 <= Len(c)) /\ (k - 1) - Len(c) = x - 1
          BY <1>2, <2>3, <4>3
        <5>2. QED BY <2>1, <4>1, <5>1
      <4>4. QED BY <4>2, <4>3
    <3> HIDE DEF x
    <3>3. /\ Upto(d, x) = Upto(d, x - 1) + Len(d[x].bytes)
          /\ Upto(d, x - 1) \in Nat /\ Len(d[x].bytes) \in Nat
          /\ Upto(d, x) \in Nat
      BY <3>1, UptoFacts, ChainFacts, MbufFields
    <3>4. p[k] = p[k - 1] + Len(e[k].bytes)
      <4> DEFINE A == Total(c)
                 B == Upto(d, x - 1)
                 l == Len(d[x].bytes)
      <4>1. A \in Nat /\ B \in Nat /\ l \in Nat
        BY <1>3, <3>3
      <4>2. p[k] = A + (B + l) /\ p[k - 1] = A + B /\ Len(e[k].bytes) = l
        BY <3>1, <3>2, <3>3
      <4> HIDE DEF A, B, l
      <4>3. QED BY <4>1, <4>2
    <3>5. ASSUME NEW j \in 1..Len(e[k].bytes) PROVE t[p[k - 1] + j] = e[k].bytes[j]
      <4> DEFINE a == Upto(d, x - 1)
                 l == Len(d[x].bytes)
      <4>1. a \in Nat /\ l \in Nat /\ a + l <= Total(d) /\ j \in 1..l
        <5>1. x \in 0..Len(d) /\ Len(d) \in 0..Len(d) /\ x <= Len(d)
          BY <1>2, <3>1
        <5>2. Upto(d, x) <= Total(d)
          BY <5>1, UptoFacts
        <5>3. QED BY <3>1, <3>3, <3>5, <5>2
      <4>2. Data(d)[a + j] = e[k].bytes[j]
        BY <3>1, <3>5, ByteAt
      <4> HIDE DEF a, l
      <4>3. /\ Total(c) + (a + j) \in 1..Total(c) + Total(d)
            /\ ~(Total(c) + (a + j) <= Total(c)) /\ (Total(c) + (a + j)) - Total(c) = a + j
            /\ (Total(c) + a) + j = Total(c) + (a + j)
        <5> DEFINE A == Total(c)
                   B == Total(d)
        <5>1. A \in Nat /\ B \in Nat
          BY <1>3
        <5> HIDE DEF A, B
        <5>2. a \in Nat /\ l \in Nat /\ a + l <= B /\ j \in 1..l
          BY <4>1 DEF B
        <5>3. /\ A + (a + j) \in 1..A + B /\ ~(A + (a + j) <= A)
              /\ (A + (a + j)) - A = a + j /\ (A + a) + j = A + (a + j)
          BY <5>1, <5>2
        <5>4. QED BY <5>3 DEF A, B
      <4>4. t[Total(c) + (a + j)] = Data(d)[a + j]
        <5> DEFINE y == Total(c) + (a + j)
        <5>1. /\ y \in 1..Total(c) + Total(d) /\ ~(y <= Total(c)) /\ y - Total(c) = a + j
          BY <4>3
        <5> HIDE DEF y
        <5>2. t[y] = Data(d)[a + j]
          BY <1>4, <5>1
        <5>3. QED BY <5>2 DEF y
      <4>5. QED BY <3>2, <4>2, <4>3, <4>4 DEF a
    <3>6. QED BY <3>4, <3>5
  <2>4. QED BY <2>2, <2>3
<1> HIDE DEF p
<1>8. LaidOut(e, p, t)
  BY <1>5, <1>6, <1>7 DEF LaidOut
<1>9. Data(e) = t /\ Total(e) = Len(t)
  BY <1>1, <1>4, <1>8, DataIs
<1>10. QED BY <1>1, <1>4, <1>9 DEF e, t

\* Part of the data of a chain.
LEMMA StretchFacts ==
  ASSUME NEW s \in Seq(Byte), NEW a \in Nat, NEW l \in Nat, a + l <= Len(s)
  PROVE  /\ Stretch(s, a, l) \in Seq(Byte) /\ Len(Stretch(s, a, l)) = l
         /\ \A i \in 1..l : Stretch(s, a, l)[i] = s[a + i]
BY PartOf DEF Stretch

-----------------------------------------------------------------------------
(* Trimming at the front.                                                  *)

\* The mbufs of c up to the one in which the cut lies lose their bytes.
FrontCut(c, d, n, k, rest) ==
  /\ n \in 1..Total(c) /\ k \in 1..Len(c) /\ Len(d) = Len(c)
  /\ rest = n - Upto(c, k - 1) /\ rest <= Len(c[k].bytes)
  /\ \A i \in 1..Len(c) :
       d[i].bytes = IF i < k THEN <<>>
                    ELSE IF i = k THEN SubSeq(c[k].bytes, rest + 1, Len(c[k].bytes))
                    ELSE c[i].bytes

LEMMA CutFront ==
  ASSUME NEW c \in Seq(Mbuf), NEW d \in Seq(Mbuf), NEW n \in Nat, NEW k \in Nat,
         NEW rest \in Nat, FrontCut(c, d, n, k, rest)
  PROVE  Data(d) = Stretch(Data(c), n, Total(c) - n) /\ Total(d) = Total(c) - n
<1> DEFINE N == Len(c)
           T == Total(c)
           L == T - n
           t == Stretch(Data(c), n, L)
           u == Starts(c)
           p == [i \in 0..N |-> IF i < k THEN 0 ELSE u[i] - n]
<1> HIDE DEF N, T, L, t, u
<1>1. /\ N \in Nat /\ T \in Nat /\ n \in Nat /\ n <= T /\ n > 0
      /\ N = Len(c) /\ k \in 1..N /\ k \in Nat
  BY ChainFacts, UptoFacts DEF N, T, FrontCut
<1>2. /\ \A i \in 0..N : u[i] \in Nat
      /\ u[0] = 0 /\ u[N] = T
      /\ \A i \in 1..N : /\ i \in 0..N /\ i - 1 \in 0..N
                         /\ u[i] = u[i - 1] + Len(c[i].bytes) /\ Len(c[i].bytes) \in Nat
      /\ \A i, j \in 0..N : i <= j => u[i] <= u[j]
      /\ rest = n - u[k - 1]
  <2>1. \A i \in 0..N : u[i] = Upto(c, i)
    BY DEF Starts, u, N
  <2>2. 0 \in 0..N /\ N \in 0..N /\ \A i \in 1..N : i \in 0..N /\ i - 1 \in 0..N
    BY <1>1
  <2>3. \A i \in 1..N : Len(c[i].bytes) \in Nat
    BY ChainFacts, MbufFields DEF N
  <2>4. rest = n - Upto(c, k - 1)
    BY DEF FrontCut
  <2>5. QED BY <1>1, <2>1, <2>2, <2>3, <2>4, UptoFacts DEF N, T
<1>3. \A i \in 1..N : \A j \in 1..Len(c[i].bytes) : Data(c)[u[i - 1] + j] = c[i].bytes[j]
  BY <1>2, Layout DEF Starts, u, N
<1>4. /\ t \in Seq(Byte) /\ Len(t) = L /\ L \in Nat /\ n + L = T
      /\ \A i \in 1..L : t[i] = Data(c)[n + i]
  <2> DEFINE s == Data(c)
  <2> HIDE DEF s
  <2>1. s \in Seq(Byte) /\ Len(s) = T
    BY Layout DEF T, s
  <2>2. L \in Nat /\ n + L = T /\ n + L <= Len(s)
    BY <1>1, <2>1 DEF L
  <2>3. QED BY <1>1, <2>1, <2>2, StretchFacts DEF t, s
<1>5. n <= u[k] /\ u[k] \in Nat /\ k \in 0..N
  <2>1. k - 1 \in 0..N /\ k \in 0..N
    BY <1>1
  <2>2. u[k - 1] \in Nat /\ u[k] \in Nat
    BY <1>2, <2>1
  <2>3. u[k] = u[k - 1] + Len(c[k].bytes) /\ Len(c[k].bytes) \in Nat
    BY <1>1, <1>2
  <2>4. rest = n - u[k - 1]
    BY <1>2
  <2> DEFINE v == u[k - 1]
             w == u[k]
             l == Len(c[k].bytes)
  <2>8. rest <= l
    BY DEF FrontCut
  <2> HIDE DEF v, w, l
  <2>5. v \in Nat /\ w \in Nat /\ l \in Nat /\ w = v + l /\ rest = n - v /\ rest <= l
    BY <2>2, <2>3, <2>4, <2>8 DEF v, w, l
  <2>6. n <= w
    BY <1>1, <2>5
  <2>7. QED BY <2>1, <2>2, <2>6 DEF w
<1>6. \A i \in 1..N : d[i].bytes \in Seq(Byte)
  BY ChainFacts DEF N, FrontCut
<1>12. /\ \A i \in 1..N : i < k => d[i].bytes = <<>>
       /\ d[k].bytes = SubSeq(c[k].bytes, rest + 1, Len(c[k].bytes))
       /\ \A i \in 1..N : i > k => d[i].bytes = c[i].bytes
  <2>1. \A i \in 1..N : i < k => d[i].bytes = <<>>
    BY <1>1 DEF FrontCut
  <2>2. ~(k < k) /\ \A i \in 1..N : i > k => ~(i < k) /\ i # k
    BY <1>1
  <2>3. d[k].bytes = SubSeq(c[k].bytes, rest + 1, Len(c[k].bytes))
    BY <1>1, <2>2, Zenon DEF FrontCut
  <2>4. \A i \in 1..N : i > k => d[i].bytes = c[i].bytes
    BY <1>1, <2>2, Zenon DEF FrontCut
  <2>5. QED BY <2>1, <2>3, <2>4
<1>7. ASSUME NEW i \in 1..N
      PROVE  /\ p[i - 1] = IF i <= k THEN 0 ELSE u[i - 1] - n
             /\ p[i] = p[i - 1] + Len(d[i].bytes)
             /\ \A j \in 1..Len(d[i].bytes) : t[p[i - 1] + j] = d[i].bytes[j]
  <2>1. i \in 0..N /\ i - 1 \in 0..N
    BY <1>2
  <2>2. p[i - 1] = IF i <= k THEN 0 ELSE u[i - 1] - n
    BY <1>1, <2>1
  <2>3. p[i] = IF i < k THEN 0 ELSE u[i] - n
    BY <2>1
  <2> HIDE DEF p
  <2>4. CASE i < k
    <3>1. d[i].bytes = <<>> /\ Len(d[i].bytes) = 0
      BY <1>12, <2>4, EmptySeq
    <3>2. QED BY <2>2, <2>3, <2>4, <3>1
  <2>5. CASE i = k
    <3> DEFINE s == c[k].bytes
               l == Len(s)
    <3>1. s \in Seq(Byte) /\ l \in Nat
      BY <1>1, ChainFacts, MbufFields
    <3>2. d[i].bytes = SubSeq(s, rest + 1, l)
      BY <1>12, <2>5
    <3>3. u[k] = u[k - 1] + l /\ rest = n - u[k - 1] /\ u[k - 1] \in Nat /\ u[k] <= T
      <4>1. u[k] = u[k - 1] + l /\ u[k - 1] \in Nat
        BY <1>1, <1>2
      <4>2. k <= N /\ N \in 0..N
        BY <1>1
      <4>3. u[k] <= T
        BY <1>2, <1>5, <4>2
      <4>4. QED BY <1>2, <4>1, <4>3
    <3>4. rest <= l
      BY DEF FrontCut
    <3> DEFINE v == u[k - 1]
               w == u[k]
    <3> HIDE DEF s, l, v, w
    <3>5. v \in Nat /\ w \in Nat /\ w = v + l /\ rest = n - v /\ w <= T
      BY <1>5, <3>3 DEF v, w
    <3> DEFINE r == l - rest
    <3>11. r = l - rest
      OBVIOUS
    <3> HIDE DEF r
    <3>6. /\ r \in Nat /\ rest + r = l /\ w - n = r
          /\ \A j \in 1..r : /\ 0 + j = j /\ j \in 1..L /\ v + (rest + j) = n + j
                            /\ j \in 1..l /\ rest + j \in 1..l
      <4>1. /\ n \in Nat /\ v \in Nat /\ l \in Nat /\ rest \in Nat /\ w \in Nat /\ L \in Nat
            /\ T \in Nat /\ n + L = T /\ rest = n - v /\ rest <= l /\ w = v + l /\ w <= T
            /\ r = l - rest
        BY <1>1, <1>4, <3>1, <3>4, <3>5, <3>11
      <4>2. r \in Nat /\ rest + r = l /\ w - n = r
        BY <4>1
      <4>3. ASSUME NEW j \in 1..r
            PROVE  /\ 0 + j = j /\ j \in 1..L /\ v + (rest + j) = n + j
                   /\ j \in 1..l /\ rest + j \in 1..l
        <5>1. 0 + j = j /\ j \in 1..l /\ rest + j \in 1..l
          BY <4>1, <4>2
        <5>2. j \in 1..L
          BY <4>1, <4>2
        <5>3. v + (rest + j) = n + j
          BY <4>1, <4>2
        <5>4. QED BY <5>1, <5>2, <5>3
      <4>4. QED BY <4>2, <4>3
    <3>7. Len(d[i].bytes) = r /\ \A j \in 1..r : d[i].bytes[j] = s[rest + j]
      <4>1. rest <= Len(s)
        BY <3>4 DEF l
      <4>2. /\ Len(SubSeq(s, rest + 1, Len(s))) = Len(s) - rest
            /\ \A j \in 1..Len(s) - rest : SubSeq(s, rest + 1, Len(s))[j] = s[rest + j]
        BY <3>1, <4>1, RestOf
      <4>3. QED BY <3>2, <3>11, <4>2 DEF l
    <3>8. p[i] = r /\ p[i - 1] = 0
      BY <1>1, <2>2, <2>3, <2>5, <3>6 DEF w
    <3>9. ASSUME NEW j \in 1..Len(d[i].bytes) PROVE t[p[i - 1] + j] = d[i].bytes[j]
      <4>1. j \in 1..r
        BY <3>7
      <4>2. /\ 0 + j = j /\ j \in 1..L /\ v + (rest + j) = n + j
            /\ j \in 1..l /\ rest + j \in 1..l
        BY <3>6, <4>1
      <4>3. t[j] = Data(c)[n + j]
        BY <1>4, <4>2
      <4>4. Data(c)[v + (rest + j)] = s[rest + j]
        BY <1>1, <1>3, <4>2 DEF l, s, v
      <4>5. QED BY <3>7, <3>8, <4>1, <4>2, <4>3, <4>4
    <3>10. QED BY <2>2, <3>6, <3>7, <3>8, <3>9
  <2>6. CASE i > k
    <3> DEFINE v == u[i - 1]
               w == u[i]
               l == Len(c[i].bytes)
               x == u[k]
    <3>1. d[i].bytes = c[i].bytes
      BY <1>12, <2>6
    <3>2. w = v + l /\ l \in Nat /\ v \in Nat /\ w \in Nat /\ x \in Nat /\ n <= x
      BY <1>2, <1>5, <2>1
    <3>3. x <= v /\ w <= T
      <4>1. k <= i - 1 /\ i <= N /\ N \in 0..N
        BY <1>1, <2>6
      <4>2. QED BY <1>2, <1>5, <2>1, <4>1
    <3>4. p[i] = w - n /\ p[i - 1] = v - n
      BY <1>1, <2>2, <2>3, <2>6
    <3> HIDE DEF v, w, l, x
    <3>5. v - n \in Nat /\ w - n = (v - n) + l
      BY <1>1, <3>2, <3>3
    <3>6. ASSUME NEW j \in 1..Len(d[i].bytes) PROVE t[p[i - 1] + j] = d[i].bytes[j]
      <4>1. j \in 1..l
        BY <3>1 DEF l
      <4>2. (v - n) + j \in 1..L /\ n + ((v - n) + j) = v + j
        <5>1. L \in Nat /\ n + L = T /\ n \in Nat /\ T \in Nat
          BY <1>1, <1>4
        <5>2. v \in Nat /\ l \in Nat /\ n <= v /\ v + l <= T
          BY <3>2, <3>3, <5>1
        <5> DEFINE m == L
                   q == T
        <5>3. m \in Nat /\ q \in Nat /\ n + m = q /\ v + l <= q /\ n \in Nat
          BY <5>1, <5>2
        <5> HIDE DEF m, q, L, T
        <5>4. (v - n) + j \in 1..m /\ n + ((v - n) + j) = v + j
          BY <4>1, <5>2, <5>3
        <5>5. QED BY <5>4 DEF m
      <4>3. t[(v - n) + j] = Data(c)[v + j]
        BY <1>4, <4>2
      <4>4. Data(c)[v + j] = c[i].bytes[j]
        BY <1>3, <4>1 DEF v, l
      <4>5. QED BY <3>1, <3>4, <4>3, <4>4
    <3>7. p[i] = p[i - 1] + Len(d[i].bytes)
      BY <3>1, <3>4, <3>5 DEF l
    <3>8. QED BY <2>2, <3>6, <3>7
  <2>7. QED BY <2>4, <2>5, <2>6 DEF N
<1>8. p \in [0..N -> Nat]
  <2>1. ASSUME NEW i \in 0..N PROVE p[i] \in Nat
    <3> DEFINE x == u[k]
               y == u[i]
    <3>1. x \in Nat /\ y \in Nat /\ (i >= k => x <= y) /\ n <= x
      BY <1>1, <1>2, <1>5
    <3>2. p[i] = IF i < k THEN 0 ELSE y - n
      OBVIOUS
    <3> HIDE DEF p, x, y
    <3>3. QED BY <1>1, <3>1, <3>2
  <2>2. QED BY <2>1
<1>9. p[0] = 0 /\ p[N] = L
  <2>1. 0 \in 0..N /\ N \in 0..N /\ 0 < k /\ ~(N < k)
    BY <1>1
  <2>2. p[0] = 0 /\ p[N] = u[N] - n
    BY <2>1
  <2>3. u[N] = T
    BY <1>2
  <2>4. QED BY <2>2, <2>3 DEF L
<1>10. LaidOut(d, p, t)
  <2> HIDE DEF p
  <2>1. QED BY <1>4, <1>7, <1>8, <1>9 DEF LaidOut, N, FrontCut
<1>11. QED BY <1>4, <1>10, DataIs DEF t, T, L

\* Flags of the mbufs, which most operations leave alone.
SameFlags(c, d) == \A i \in 1..Len(c) : d[i].hdr = c[i].hdr /\ d[i].ext = c[i].ext

LEMMA TrimFrontFacts ==
  ASSUME NEW c \in Seq(Mbuf), NEW n \in 1..Total(c)
  PROVE  LET d == TrimFront(c, n)
         IN  /\ d \in Seq(Mbuf) /\ Len(d) = Len(c) /\ Len(c) > 0
             /\ Data(d) = Stretch(Data(c), n, Total(c) - n) /\ Total(d) = Total(c) - n
             /\ SameFlags(c, d)
             /\ d[1].plen = (IF c[1].hdr THEN c[1].plen - n ELSE c[1].plen)
             /\ AllFit(c) => AllFit(d)
<1> DEFINE k == At(c, n)
           rest == n - Upto(c, k - 1)
           Cut(m) == [m EXCEPT !.off = @ + rest, !.bytes = SubSeq(@, rest + 1, Len(@))]
           cut == [i \in DOMAIN c |-> IF i < k THEN [c[i] EXCEPT !.bytes = <<>>]
                                     ELSE IF i = k THEN Cut(c[i]) ELSE c[i]]
<1>1. /\ Len(c) \in Nat /\ DOMAIN c = 1..Len(c) /\ n \in Nat /\ n \in 0..Total(c)
      /\ \A i \in 1..Len(c) : c[i] \in Mbuf
  BY ChainFacts, UptoFacts
<1>2. Len(c) > 0
  <2>1. CASE Len(c) = 0
    <3>1. Total(c) = 0
      BY <2>1, UptoFacts
    <3>2. QED BY <3>1
  <2>2. QED BY <1>1, <2>1
<1>3. /\ k \in 1..Len(c) /\ Upto(c, k) >= n /\ (k = 1 \/ Upto(c, k - 1) < n)
  BY <1>1, <1>2, AtFacts
<1> HIDE DEF k
<1>4. rest \in Nat /\ rest <= Len(c[k].bytes)
  <2>1. k - 1 \in 0..Len(c) /\ k \in Nat /\ (k = 1 => k - 1 = 0)
    BY <1>1, <1>3
  <2> DEFINE a == Upto(c, k - 1)
             b == Upto(c, k)
             l == Len(c[k].bytes)
  <2>2. a \in Nat /\ b \in Nat /\ l \in Nat /\ b = a + l
    BY <1>3, <2>1, UptoFacts, ChainFacts, MbufFields
  <2>3. a <= n
    <3>1. CASE k = 1
      BY <1>1, <2>1, <3>1, UptoFacts
    <3>2. CASE k # 1
      BY <1>1, <1>3, <2>2, <3>2
    <3>3. QED BY <3>1, <3>2
  <2>4. b >= n /\ rest = n - a
    BY <1>3
  <2> HIDE DEF a, b, l, rest
  <2>5. rest \in Nat /\ rest <= l
    BY <1>1, <2>2, <2>3, <2>4
  <2>6. QED BY <2>5 DEF l
<1>5. rest = n - Upto(c, k - 1)
  OBVIOUS
<1> HIDE DEF rest
<1>6. ASSUME NEW m \in Mbuf
      PROVE  [m EXCEPT !.bytes = <<>>] \in Mbuf
  <2>1. <<>> \in Seq(Nat \cup {JUNK})
    BY EmptySeq
  <2>2. QED BY <2>1 DEF Mbuf
<1>7. ASSUME NEW m \in Mbuf, rest <= Len(m.bytes)
      PROVE  /\ Cut(m) \in Mbuf /\ Cut(m).hdr = m.hdr /\ Cut(m).ext = m.ext
             /\ Cut(m).plen = m.plen /\ Cut(m).off = m.off + rest
             /\ Cut(m).bytes = SubSeq(m.bytes, rest + 1, Len(m.bytes))
             /\ Len(Cut(m).bytes) = Len(m.bytes) - rest
  <2> DEFINE e == SubSeq(m.bytes, rest + 1, Len(m.bytes))
  <2>1. m.bytes \in Seq(Byte) /\ m.off \in Nat /\ m.off + rest \in Nat
    BY <1>4, MbufFields
  <2>2. e \in Seq(Byte) /\ Len(e) = Len(m.bytes) - rest
    BY <1>4, <1>7, <2>1, RestOf
  <2>3. e \in Seq(Nat \cup {JUNK})
    BY <2>2 DEF Byte
  <2> HIDE DEF e
  <2>4. Cut(m) = [m EXCEPT !.off = m.off + rest, !.bytes = e]
    BY DEF e
  <2>5. QED BY <2>1, <2>2, <2>3, <2>4 DEF Mbuf, e
<1> HIDE DEF Cut
<1>8. /\ cut \in Seq(Mbuf) /\ Len(cut) = Len(c)
      /\ \A i \in 1..Len(c) : cut[i] = IF i < k THEN [c[i] EXCEPT !.bytes = <<>>]
                                       ELSE IF i = k THEN Cut(c[i]) ELSE c[i]
  <2>1. cut \in [1..Len(c) -> Mbuf]
    BY <1>1, <1>3, <1>4, <1>6, <1>7
  <2> HIDE DEF cut
  <2>2. cut \in Seq(Mbuf) /\ Len(cut) = Len(c)
    BY <1>1, <2>1, SequenceFrom
  <2>3. QED BY <1>1, <2>2 DEF cut
<1> HIDE DEF cut
<1>9. \A i \in 1..Len(c) :
        /\ cut[i].hdr = c[i].hdr /\ cut[i].ext = c[i].ext /\ cut[i].plen = c[i].plen
        /\ cut[i].bytes = IF i < k THEN <<>>
                          ELSE IF i = k THEN SubSeq(c[k].bytes, rest + 1, Len(c[k].bytes))
                          ELSE c[i].bytes
        /\ cut[i].off = IF i = k THEN c[i].off + rest ELSE c[i].off
  <2>1. SUFFICES ASSUME NEW i \in 1..Len(c)
        PROVE /\ cut[i].hdr = c[i].hdr /\ cut[i].ext = c[i].ext /\ cut[i].plen = c[i].plen
              /\ cut[i].bytes = IF i < k THEN <<>>
                                ELSE IF i = k THEN SubSeq(c[k].bytes, rest + 1, Len(c[k].bytes))
                                ELSE c[i].bytes
              /\ cut[i].off = IF i = k THEN c[i].off + rest ELSE c[i].off
    OBVIOUS
  <2>2. c[i] \in Mbuf
    BY <1>1
  <2>3. CASE i < k
    <3>1. cut[i] = [c[i] EXCEPT !.bytes = <<>>] /\ i # k
      BY <1>3, <1>8, <2>3
    <3>2. QED BY <2>2, <2>3, <3>1 DEF Mbuf
  <2>4. CASE i = k
    <3>1. cut[k] = Cut(c[k]) /\ ~(i < k) /\ c[k] \in Mbuf
      <4>1. ~(k < k)
        BY <1>3
      <4>2. QED BY <1>1, <1>3, <1>8, <2>4, <4>1
    <3>2. QED BY <1>4, <1>7, <2>4, <3>1
  <2>5. CASE ~(i < k) /\ i # k
    BY <1>8, <2>5
  <2>6. QED BY <2>3, <2>4, <2>5
<1>10. FrontCut(c, cut, n, k, rest)
  BY <1>3, <1>4, <1>5, <1>8, <1>9 DEF FrontCut
<1>11. Data(cut) = Stretch(Data(c), n, Total(c) - n) /\ Total(cut) = Total(c) - n
  <2>1. k \in Nat
    BY <1>3
  <2>2. QED BY <1>1, <1>4, <1>8, <1>10, <2>1, CutFront
<1>12. AllFit(c) => AllFit(cut)
  <2>1. SUFFICES ASSUME AllFit(c), NEW i \in 1..Len(c) PROVE HasRoom(cut[i])
    BY <1>8, ChainFacts DEF AllFit
  <2>2. c[i] \in Mbuf /\ HasRoom(c[i])
    BY <1>1, <2>1 DEF AllFit
  <2>3. /\ c[i].off \in Nat /\ Len(c[i].bytes) \in Nat /\ MCLBYTES \in Nat /\ MLEN \in Nat
        /\ PKTHDR \in Nat
    BY <2>2, MbufFields, SizesAreNumbers
  <2>4. CASE i < k
    <3>1. Len(cut[i].bytes) = 0 /\ cut[i].off = c[i].off
      BY <1>3, <1>9, <2>4, EmptySeq
    <3>2. QED BY <1>9, <2>2, <2>3, <3>1 DEF HasRoom
  <2>5. CASE i = k
    <3>1. cut[k] = Cut(c[k]) /\ ~(k < k) /\ c[k] \in Mbuf
      <4>1. ~(k < k)
        BY <1>3
      <4>2. QED BY <1>1, <1>3, <1>8, <4>1
    <3>2. /\ Len(cut[i].bytes) = Len(c[i].bytes) - rest /\ cut[i].off = c[i].off + rest
          /\ rest <= Len(c[i].bytes)
      BY <1>4, <1>7, <2>5, <3>1
    <3> DEFINE o == c[i].off
               l == Len(c[i].bytes)
               o1 == cut[i].off
               l1 == Len(cut[i].bytes)
    <3>3. o \in Nat /\ l \in Nat /\ l1 = l - rest /\ o1 = o + rest
      BY <2>3, <3>2
    <3> HIDE DEF o, l, o1, l1
    <3>4. o1 >= o /\ o1 + l1 = o + l /\ o1 \in Nat /\ l1 \in Int
      BY <1>4, <3>3
    <3>5. (l <= MCLBYTES - o => l1 <= MCLBYTES - o1) /\ (o + l <= MLEN => o1 + l1 <= MLEN)
      BY <1>4, <2>3, <3>3
    <3>6. (o >= PKTHDR => o1 >= PKTHDR) /\ o1 >= 0
      BY <1>4, <2>3, <3>3
    <3>7. cut[i].hdr = c[i].hdr /\ cut[i].ext = c[i].ext
      BY <1>9
    <3>8. CASE c[i].ext
      BY <2>2, <3>5, <3>7, <3>8 DEF HasRoom, o, l, o1, l1
    <3>9. CASE ~c[i].ext /\ c[i].hdr
      BY <2>2, <3>5, <3>6, <3>7, <3>9 DEF HasRoom, o, l, o1, l1
    <3>10. CASE ~c[i].ext /\ ~c[i].hdr
      BY <2>2, <3>5, <3>6, <3>7, <3>10 DEF HasRoom, o, l, o1, l1
    <3>11. QED BY <3>8, <3>9, <3>10
  <2>6. CASE ~(i < k) /\ i # k
    <3>1. cut[i] = c[i]
      BY <1>8, <2>6
    <3>2. QED BY <2>2, <3>1
  <2>7. QED BY <2>4, <2>5, <2>6
<1> DEFINE w == IF c[1].hdr THEN cut[1].plen - n ELSE cut[1].plen
           d == [cut EXCEPT ![1].plen = w]
<1>13. 1 \in 1..Len(c) /\ c[1] \in Mbuf /\ w \in Int /\ cut[1].plen = c[1].plen
  <2>1. 1 \in 1..Len(c)
    BY <1>1, <1>2
  <2>2. c[1].plen \in Int /\ cut[1].plen = c[1].plen /\ c[1] \in Mbuf
    BY <1>1, <1>9, <2>1, MbufFields
  <2>3. QED BY <1>1, <2>1, <2>2
<1>14. TrimFront(c, n) = d
  BY DEF TrimFront, d, cut, Cut, rest, k
<1> HIDE DEF w
<1>15. /\ d \in Seq(Mbuf) /\ Len(d) = Len(cut)
       /\ d[1] = [cut[1] EXCEPT !.plen = w] /\ \A i \in 2..Len(cut) : d[i] = cut[i]
       /\ Data(d) = Data(cut) /\ Total(d) = Total(cut)
  BY <1>2, <1>8, <1>13, Recounted
<1> HIDE DEF d
<1>16. \A i \in 1..Len(c) :
         /\ d[i].hdr = cut[i].hdr /\ d[i].ext = cut[i].ext
         /\ d[i].bytes = cut[i].bytes /\ d[i].off = cut[i].off
  <2>1. SUFFICES ASSUME NEW i \in 1..Len(c)
                 PROVE  /\ d[i].hdr = cut[i].hdr /\ d[i].ext = cut[i].ext
                        /\ d[i].bytes = cut[i].bytes /\ d[i].off = cut[i].off
    OBVIOUS
  <2>2. cut[i] \in Mbuf
    BY <1>8, ChainFacts
  <2>3. CASE i = 1
    BY <1>15, <2>2, <2>3 DEF Mbuf
  <2>4. CASE i # 1
    BY <1>1, <1>8, <1>15, <2>4
  <2>5. QED BY <2>3, <2>4
<1>17. AllFit(cut) => AllFit(d)
  BY <1>8, <1>15, <1>16, ChainFacts DEF AllFit, HasRoom
<1>18. SameFlags(c, d)
  BY <1>9, <1>16 DEF SameFlags
<1>19. d[1].plen = IF c[1].hdr THEN c[1].plen - n ELSE c[1].plen
  <2>1. cut[1] \in Mbuf
    BY <1>8, <1>13, ChainFacts
  <2>2. d[1].plen = w
    BY <1>15, <2>1 DEF Mbuf
  <2>3. QED BY <1>13, <2>2 DEF w
<1>20. QED BY <1>2, <1>8, <1>11, <1>12, <1>14, <1>15, <1>17, <1>18, <1>19

-----------------------------------------------------------------------------
(* Making room in front.                                                   *)

LEMMA Division ==
  ASSUME NEW a \in Nat, NEW b \in Nat, b > 0
  PROVE  a \div b \in Nat /\ b * (a \div b) <= a /\ a < b * (a \div b) + b
OBVIOUS

\* A chain of one mbuf.
LEMMA One ==
  ASSUME NEW m \in Mbuf
  PROVE  /\ <<m>> \in Seq(Mbuf) /\ Len(<<m>>) = 1 /\ <<m>>[1] = m
         /\ Data(<<m>>) = m.bytes /\ Total(<<m>>) = Len(m.bytes)
<1> DEFINE c == <<m>>
           t == m.bytes
           p == [i \in 0..1 |-> IF i = 0 THEN 0 ELSE Len(t)]
<1>1. c \in Seq(Mbuf) /\ Len(c) = 1 /\ c[1] = m
  OBVIOUS
<1>2. t \in Seq(Byte) /\ Len(t) \in Nat
  BY MbufFields
<1> HIDE DEF c, t
<1>3. p \in [0..1 -> Nat] /\ p[0] = 0 /\ p[1] = Len(t)
  BY <1>2
<1> HIDE DEF p
<1>4. c[1].bytes = t
  BY <1>1 DEF t
<1>5. /\ p[1] = p[1 - 1] + Len(t)
      /\ \A j \in 1..Len(t) : t[p[1 - 1] + j] = t[j]
  <2>1. 1 - 1 = 0 /\ 0 + Len(t) = Len(t) /\ \A j \in 1..Len(t) : 0 + j = j
    BY <1>2
  <2>2. QED BY <1>3, <2>1
<1>6. LaidOut(c, p, t)
  <2>1. \A k \in 1..1 : k = 1
    OBVIOUS
  <2>2. \A k \in 1..1 : /\ p[k] = p[k - 1] + Len(c[k].bytes)
                        /\ \A j \in 1..Len(c[k].bytes) : t[p[k - 1] + j] = c[k].bytes[j]
    BY <1>4, <1>5, <2>1
  <2>3. QED BY <1>1, <1>3, <2>2 DEF LaidOut
<1>7. Data(c) = t /\ Total(c) = Len(t)
  BY <1>1, <1>2, <1>6, DataIs
<1>8. QED BY <1>1, <1>7 DEF c, t

\* A chain is its first mbuf and the rest.
LEMMA FirstAndRest ==
  ASSUME NEW c \in Seq(Mbuf), Len(c) > 0
  PROVE  /\ c[1] \in Mbuf /\ Tail(c) \in Seq(Mbuf) /\ c = <<c[1]>> \o Tail(c)
         /\ Len(Tail(c)) = Len(c) - 1
         /\ \A i \in 1..Len(Tail(c)) : Tail(c)[i] = c[i + 1]
         /\ Data(c) = c[1].bytes \o Data(Tail(c))
         /\ Total(c) = Len(c[1].bytes) + Total(Tail(c))
<1>1. Len(c) \in Nat /\ c[1] \in Mbuf /\ 1 \in 1..Len(c) /\ c # <<>>
  <2>1. Len(c) \in Nat /\ 1 \in 1..Len(c)
    BY ChainFacts
  <2>2. c # <<>>
    BY EmptySeq
  <2>3. QED BY <2>1, <2>2, ChainFacts
<1> DEFINE d == Tail(c)
           o == <<c[1]>>
           e == o \o d
<1>2. /\ d \in Seq(Mbuf) /\ Len(d) = Len(c) - 1
      /\ \A i \in 1..Len(d) : d[i] = c[i + 1]
  BY <1>1, HeadTailProperties
<1>3. /\ o \in Seq(Mbuf) /\ Len(o) = 1 /\ o[1] = c[1]
      /\ Data(o) = c[1].bytes /\ Total(o) = Len(c[1].bytes)
  BY <1>1, One
<1> HIDE DEF d, o
<1>4. /\ e \in Seq(Mbuf) /\ Len(e) = 1 + Len(d)
      /\ \A i \in 1..1 + Len(d) : e[i] = IF i <= 1 THEN o[i] ELSE d[i - 1]
  <2>1. /\ o \o d \in Seq(Mbuf) /\ Len(o \o d) = Len(o) + Len(d)
        /\ \A i \in 1..Len(o) + Len(d) : (o \o d)[i] = IF i <= Len(o) THEN o[i] ELSE d[i - Len(o)]
    <3>1. o \in Seq(Mbuf) /\ d \in Seq(Mbuf)
      BY <1>2, <1>3
    <3>2. QED BY <3>1, ConcatProperties
  <2>2. e = o \o d
    OBVIOUS
  <2> HIDE DEF e
  <2>3. QED BY <1>3, <2>1, <2>2
<1>5. Data(e) = Data(o) \o Data(d) /\ Total(e) = Total(o) + Total(d)
  BY <1>2, <1>3, Concatenated
<1> HIDE DEF e
<1>6. Len(e) = Len(c) /\ Len(d) \in Nat
  BY <1>1, <1>2, <1>4
<1>7. \A i \in 1..Len(e) : e[i] = c[i]
  <2>1. SUFFICES ASSUME NEW i \in 1..Len(e) PROVE e[i] = c[i]
    OBVIOUS
  <2>2. CASE i = 1
    BY <1>3, <1>4, <1>6, <2>2
  <2>3. CASE i # 1
    <3>1. i - 1 \in 1..Len(d) /\ ~(i <= 1) /\ (i - 1) + 1 = i /\ i \in 1..1 + Len(d)
      BY <1>4, <1>6, <2>3
    <3>2. QED BY <1>2, <1>4, <3>1
  <2>4. QED BY <2>2, <2>3
<1>8. e = c
  BY <1>4, <1>6, <1>7, SeqEqual
<1>9. QED BY <1>1, <1>2, <1>3, <1>5, <1>8 DEF d, o, e

NoBoth(c) == \A i \in 1..Len(c) : ~(c[i].hdr /\ c[i].ext)

\* An mbuf in front of a chain.
LEMMA InFront ==
  ASSUME NEW m \in Mbuf, NEW c \in Seq(Mbuf)
  PROVE  LET d == <<m>> \o c
         IN  /\ d \in Seq(Mbuf) /\ Len(d) = 1 + Len(c) /\ d[1] = m
             /\ Data(d) = m.bytes \o Data(c) /\ Total(d) = Len(m.bytes) + Total(c)
             /\ AllFit(d) <=> HasRoom(m) /\ AllFit(c)
             /\ NoBoth(d) <=> ~(m.hdr /\ m.ext) /\ NoBoth(c)
<1> DEFINE o == <<m>>
           d == o \o c
<1>1. /\ o \in Seq(Mbuf) /\ Len(o) = 1 /\ o[1] = m
      /\ Data(o) = m.bytes /\ Total(o) = Len(m.bytes)
  BY One
<1>2. Len(c) \in Nat
  BY ChainFacts
<1> HIDE DEF o
<1>3. /\ d \in Seq(Mbuf) /\ Len(d) = 1 + Len(c)
      /\ \A i \in 1..1 + Len(c) : d[i] = IF i <= 1 THEN o[i] ELSE c[i - 1]
  <2>1. /\ o \o c \in Seq(Mbuf) /\ Len(o \o c) = Len(o) + Len(c)
        /\ \A i \in 1..Len(o) + Len(c) : (o \o c)[i] = IF i <= Len(o) THEN o[i] ELSE c[i - Len(o)]
    <3>1. o \in Seq(Mbuf)
      BY <1>1
    <3>2. QED BY <3>1, ConcatProperties
  <2>2. d = o \o c
    OBVIOUS
  <2> HIDE DEF d
  <2>3. QED BY <1>1, <2>1, <2>2
<1>4. Data(d) = m.bytes \o Data(c) /\ Total(d) = Len(m.bytes) + Total(c)
  BY <1>1, Concatenated
<1> HIDE DEF d
<1>5. d[1] = m
  BY <1>1, <1>2, <1>3
<1>6. \A i \in 1..Len(c) : d[i + 1] = c[i] /\ i + 1 \in 1..Len(d)
  <2>1. \A i \in 1..Len(c) : i + 1 \in 1..1 + Len(c) /\ ~(i + 1 <= 1) /\ (i + 1) - 1 = i
    BY <1>2
  <2>2. QED BY <1>3, <2>1
<1>7. \A i \in 1..Len(d) : i = 1 \/ (i - 1 \in 1..Len(c) /\ d[i] = c[i - 1])
  <2>1. \A i \in 1..1 + Len(c) : i = 1 \/ (~(i <= 1) /\ i - 1 \in 1..Len(c))
    BY <1>2
  <2>2. QED BY <1>3, <2>1
<1>8. 1 \in 1..Len(d)
  BY <1>2, <1>3
<1>9. DOMAIN d = 1..Len(d) /\ DOMAIN c = 1..Len(c)
  BY <1>3, ChainFacts
<1>10. AllFit(d) <=> HasRoom(m) /\ AllFit(c)
  <2>1. AllFit(d) => HasRoom(m) /\ AllFit(c)
    BY <1>5, <1>6, <1>8, <1>9, Zenon DEF AllFit
  <2>2. HasRoom(m) /\ AllFit(c) => AllFit(d)
    BY <1>5, <1>7, <1>9, Zenon DEF AllFit
  <2>3. QED BY <2>1, <2>2
<1>11. NoBoth(d) <=> ~(m.hdr /\ m.ext) /\ NoBoth(c)
  <2>1. NoBoth(d) => ~(m.hdr /\ m.ext) /\ NoBoth(c)
    BY <1>5, <1>6, <1>8, <1>9, Zenon DEF NoBoth
  <2>2. ~(m.hdr /\ m.ext) /\ NoBoth(c) => NoBoth(d)
    BY <1>5, <1>7, <1>9, Zenon DEF NoBoth
  <2>3. QED BY <2>1, <2>2
<1>12. QED BY <1>3, <1>4, <1>5, <1>10, <1>11 DEF d, o

LEMMA JunkFacts ==
  ASSUME NEW n \in Nat
  PROVE  Junk(n) \in Seq(Byte) /\ Len(Junk(n)) = n
<1> DEFINE q == [i \in 1..n |-> JUNK]
<1>1. q \in [1..n -> Byte]
  BY DEF Byte
<1>2. q \in Seq(Byte) /\ Len(q) = n
  BY <1>1, SequenceFrom
<1>3. QED BY <1>2 DEF Junk

\* Where MH_ALIGN puts n bytes they end before the room does.
LEMMA Aligned ==
  ASSUME NEW n \in 1..MHLEN
  PROVE  LET a == IF n < MHLEN THEN LONG * ((MHLEN - n) \div LONG) ELSE 0
         IN  a \in Nat /\ a + n <= MHLEN
<1>1. MHLEN \in Nat /\ LONG \in Nat /\ LONG > 0 /\ n \in Nat /\ n <= MHLEN /\ MHLEN - n \in Nat
  BY SizesAreNumbers
<1> DEFINE r == MHLEN - n
           q == r \div LONG
<1>2. r \in Nat /\ r + n = MHLEN
  BY <1>1
<1> HIDE DEF r
<1>3. q \in Nat /\ LONG * q <= r
  BY <1>1, <1>2, Division
<1> HIDE DEF q
<1>4. LONG * q \in Nat
  BY <1>1, <1>3
<1> DEFINE x == LONG * q
<1>5. x \in Nat /\ x <= r
  BY <1>3, <1>4
<1>6. n < MHLEN => (LONG * ((MHLEN - n) \div LONG)) = x
  BY DEF q, r
<1> HIDE DEF x
<1>7. x + n <= MHLEN /\ 0 + n <= MHLEN
  BY <1>1, <1>2, <1>5
<1>8. CASE n < MHLEN
  BY <1>5, <1>6, <1>7, <1>8
<1>9. CASE ~(n < MHLEN)
  BY <1>7, <1>9
<1>10. QED BY <1>8, <1>9

\* m_prepend: a new mbuf of n bytes in front.
LEMMA NewInFront ==
  ASSUME NEW c \in Seq(Mbuf), Len(c) > 0, NEW n \in 1..MHLEN
  PROVE  LET d == m_prepend(c, n)
         IN  /\ d \in Seq(Mbuf) /\ Len(d) = 1 + Len(c)
             /\ Data(d) = Junk(n) \o Data(c) /\ Total(d) = n + Total(c)
             /\ AllFit(c) => AllFit(d)
             /\ NoBoth(c) => NoBoth(d)
             /\ d[1] \in Mbuf /\ d[1].hdr = c[1].hdr
             /\ c[1].hdr => d[1].plen = c[1].plen
<1> DEFINE old == [c EXCEPT ![1].hdr = FALSE, ![1].plen = 0]
           new == IF c[1].hdr THEN M_COPY_PKTHDR(c[1]) ELSE MGET
           a == IF n < MHLEN THEN LONG * ((MHLEN - n) \div LONG) ELSE 0
           m == [new EXCEPT !.off = new.off + a, !.bytes = Junk(n)]
           o == [c[1] EXCEPT !.hdr = FALSE, !.plen = 0]
<1>1. /\ Len(c) \in Nat /\ 1 \in 1..Len(c) /\ c[1] \in Mbuf
      /\ \A i \in 1..Len(c) : c[i] \in Mbuf
      /\ n \in Nat /\ DOMAIN c = 1..Len(c)
  BY ChainFacts, SizesAreNumbers
<1>2. a \in Nat /\ a + n <= MHLEN
  BY Aligned
<1>3. /\ new \in Mbuf /\ new.hdr = c[1].hdr /\ new.ext = FALSE
      /\ new.off = (IF c[1].hdr THEN PKTHDR ELSE 0)
      /\ (c[1].hdr => new.plen = c[1].plen)
  <2>1. <<>> \in Seq(Nat \cup {JUNK}) /\ PKTHDR \in Nat
    BY EmptySeq, SizesAreNumbers
  <2>2. CASE c[1].hdr
    BY <1>1, <2>1, <2>2 DEF M_COPY_PKTHDR, MGETHDR, MGET, Mbuf
  <2>3. CASE ~c[1].hdr
    <3>1. c[1].hdr = FALSE
      BY <1>1, <2>3, MbufFields
    <3>2. new = MGET
      BY <2>3
    <3>3. MGET \in Mbuf /\ MGET.hdr = FALSE /\ MGET.ext = FALSE /\ MGET.off = 0
      BY <2>1 DEF MGET, Mbuf
    <3> HIDE DEF new
    <3>4. QED BY <3>1, <3>2, <3>3
  <2>4. QED BY <2>2, <2>3
<1>4. m_prepend(c, n) = <<m>> \o old
  <2>1. new.off + 0 = new.off
    <3>1. new.off \in Nat
      BY <1>3, MbufFields
    <3> HIDE DEF new
    <3>2. QED BY <3>1
  <2>2. n < MHLEN => m_prepend(c, n) = <<m>> \o old
    BY DEF m_prepend, MH_ALIGN
  <2>3. ~(n < MHLEN) => m_prepend(c, n) = <<m>> \o old
    <3>1. SUFFICES ASSUME ~(n < MHLEN) PROVE m_prepend(c, n) = <<m>> \o old
      OBVIOUS
    <3>2. m_prepend(c, n) = <<[new EXCEPT !.bytes = Junk(n)]>> \o old
      BY <3>1 DEF m_prepend
    <3>3. a = 0
      BY <3>1
    <3> HIDE DEF a, old
    <3>4. m = [new EXCEPT !.bytes = Junk(n)]
      <4> HIDE DEF new
      <4>1. new.off + a = new.off
        BY <2>1, <3>3
      <4>2. QED BY <1>3, <4>1 DEF Mbuf
    <3>5. QED BY <3>2, <3>4
  <2>4. QED BY <2>2, <2>3
<1> HIDE DEF new, a
<1>5. /\ m \in Mbuf /\ m.hdr = c[1].hdr /\ m.ext = FALSE /\ m.plen = new.plen
      /\ m.off = new.off + a /\ m.bytes = Junk(n)
  <2>1. Junk(n) \in Seq(Nat \cup {JUNK})
    BY <1>1, JunkFacts DEF Byte
  <2>2. new.off \in Nat /\ new.off + a \in Nat
    BY <1>2, <1>3, MbufFields
  <2>3. QED BY <1>3, <2>1, <2>2 DEF Mbuf
<1> HIDE DEF m
<1>6. /\ o \in Mbuf /\ o.bytes = c[1].bytes /\ o.hdr = FALSE
      /\ o.ext = c[1].ext /\ o.off = c[1].off
  <2> DEFINE f == c[1]
  <2>1. f \in Mbuf
    BY <1>1
  <2>2. o = [f EXCEPT !.hdr = FALSE, !.plen = 0]
    OBVIOUS
  <2> HIDE DEF f, o
  <2>3. /\ f = [hdr |-> f.hdr, ext |-> f.ext, plen |-> f.plen, off |-> f.off, bytes |-> f.bytes]
        /\ f.ext \in BOOLEAN /\ f.off \in Nat /\ f.bytes \in Seq(Nat \cup {JUNK})
    BY <2>1 DEF Mbuf
  <2>4. o = [hdr |-> FALSE, ext |-> f.ext, plen |-> 0, off |-> f.off, bytes |-> f.bytes]
    BY <2>2, <2>3
  <2>5. o \in Mbuf
    BY <2>3, <2>4 DEF Mbuf
  <2>6. o.bytes = f.bytes /\ o.hdr = FALSE /\ o.ext = f.ext /\ o.off = f.off
    BY <2>4
  <2>7. QED BY <2>5, <2>6 DEF f
<1>7. old = [c EXCEPT ![1] = o]
  OBVIOUS
<1> HIDE DEF o, old
<1>8. /\ old \in Seq(Mbuf) /\ Len(old) = Len(c)
      /\ \A i \in 1..Len(c) : old[i] = IF i = 1 THEN o ELSE c[i]
  <2>1. o \in Mbuf
    BY <1>6
  <2>2. QED BY <1>1, <1>7, <2>1, Replaced
<1>9. \A i \in 1..Len(c) : old[i].bytes = c[i].bytes
  BY <1>6, <1>8
<1>10. Data(old) = Data(c) /\ Total(old) = Total(c)
  BY <1>8, <1>9, SameBytes
<1>11. Len(Junk(n)) = n
  BY <1>1, JunkFacts
<1>12. HasRoom(m)
  <2>1. m.off = (IF m.hdr THEN PKTHDR ELSE 0) + a /\ Len(m.bytes) = n /\ m.ext = FALSE
    BY <1>3, <1>5, <1>11
  <2>2. PKTHDR \in Nat /\ MHLEN \in Nat /\ MHLEN + PKTHDR = MLEN
    BY SizesAreNumbers
  <2>3. CASE m.hdr
    BY <1>1, <1>2, <2>1, <2>2, <2>3 DEF HasRoom
  <2>4. CASE ~m.hdr
    BY <1>1, <1>2, <2>1, <2>2, <2>4 DEF HasRoom
  <2>5. QED BY <2>3, <2>4
<1>13. AllFit(c) => AllFit(old)
  <2>1. SUFFICES ASSUME AllFit(c), NEW i \in 1..Len(c) PROVE HasRoom(old[i])
    BY <1>8, ChainFacts DEF AllFit
  <2>2. HasRoom(c[i]) /\ c[i] \in Mbuf
    BY <1>1, <2>1 DEF AllFit
  <2>3. CASE i = 1
    <3>1. old[i] = o
      BY <1>8, <2>3
    <3>2. c[1].off \in Nat /\ PKTHDR \in Nat
      BY <1>1, MbufFields, SizesAreNumbers
    <3>3. QED BY <1>6, <2>2, <2>3, <3>1, <3>2 DEF HasRoom
  <2>4. CASE i # 1
    BY <1>8, <2>2, <2>4
  <2>5. QED BY <2>3, <2>4
<1>14. NoBoth(c) => NoBoth(old)
  BY <1>6, <1>8 DEF NoBoth
<1>15. QED
  <2> DEFINE d == <<m>> \o old
  <2>1. /\ d \in Seq(Mbuf) /\ Len(d) = 1 + Len(old) /\ d[1] = m
        /\ Data(d) = m.bytes \o Data(old) /\ Total(d) = Len(m.bytes) + Total(old)
        /\ AllFit(d) <=> HasRoom(m) /\ AllFit(old)
        /\ NoBoth(d) <=> ~(m.hdr /\ m.ext) /\ NoBoth(old)
    BY <1>5, <1>8, InFront
  <2>2. d = m_prepend(c, n)
    BY <1>4
  <2> HIDE DEF d
  <2>3. Len(d) = 1 + Len(c) /\ Data(d) = Junk(n) \o Data(c) /\ Total(d) = n + Total(c)
    BY <1>5, <1>8, <1>10, <1>11, <2>1
  <2>4. AllFit(c) => AllFit(d)
    BY <1>12, <1>13, <2>1
  <2>5. NoBoth(c) => NoBoth(d)
    BY <1>5, <1>14, <2>1
  <2>6. d[1] \in Mbuf /\ d[1].hdr = c[1].hdr /\ (c[1].hdr => d[1].plen = c[1].plen)
    BY <1>3, <1>5, <2>1
  <2>7. QED BY <2>1, <2>2, <2>3, <2>4, <2>5, <2>6

\* The space in front of the data of the first mbuf is used.
Widened(c, n) == [c EXCEPT ![1].off = @ - n, ![1].bytes = Junk(n) \o @]

LEMMA InPlace ==
  ASSUME NEW c \in Seq(Mbuf), Len(c) > 0, NEW n \in 1..MHLEN, M_LEADINGSPACE(c[1]) > n
  PROVE  LET d == Widened(c, n)
         IN  /\ d \in Seq(Mbuf) /\ Len(d) = Len(c)
             /\ Data(d) = Junk(n) \o Data(c) /\ Total(d) = n + Total(c)
             /\ AllFit(c) => AllFit(d)
             /\ NoBoth(c) => NoBoth(d)
             /\ d[1] \in Mbuf /\ d[1].hdr = c[1].hdr
             /\ d[1].plen = c[1].plen
<1> DEFINE f == c[1]
           j == Junk(n)
           m == [f EXCEPT !.off = f.off - n, !.bytes = j \o f.bytes]
           d == Widened(c, n)
           r == Tail(c)
<1>1. /\ f \in Mbuf /\ r \in Seq(Mbuf) /\ c = <<f>> \o r
      /\ Data(c) = f.bytes \o Data(r) /\ Total(c) = Len(f.bytes) + Total(r)
      /\ Len(r) = Len(c) - 1 /\ \A i \in 1..Len(r) : r[i] = c[i + 1]
  BY FirstAndRest
<1>2. Len(c) \in Nat /\ 1 \in 1..Len(c) /\ n \in Nat /\ n > 0
  BY ChainFacts, SizesAreNumbers
<1>3. j \in Seq(Byte) /\ Len(j) = n
  BY <1>2, JunkFacts
<1>4. d = [c EXCEPT ![1] = m]
  BY DEF Widened
<1>5. ~f.ext /\ f.off - n > (IF f.hdr THEN PKTHDR ELSE 0)
  <2>1. M_LEADINGSPACE(f) > n /\ PKTHDR \in Nat
    BY SizesAreNumbers
  <2>2. f.off \in Nat
    BY <1>1, MbufFields
  <2> HIDE DEF f
  <2>3. ~f.ext
    BY <1>2, <2>1 DEF M_LEADINGSPACE
  <2>4. CASE f.hdr
    <3>1. f.off - PKTHDR > n
      BY <2>1, <2>3, <2>4 DEF M_LEADINGSPACE
    <3> DEFINE x == f.off
    <3>2. x \in Nat /\ x - PKTHDR > n
      BY <2>2, <3>1
    <3> HIDE DEF x
    <3>3. x - n > PKTHDR
      BY <1>2, <2>1, <3>2
    <3>4. QED BY <2>3, <2>4, <3>3 DEF x
  <2>5. CASE ~f.hdr
    <3>1. f.off > n
      BY <2>1, <2>3, <2>5 DEF M_LEADINGSPACE
    <3> DEFINE x == f.off
    <3>2. x \in Nat /\ x > n
      BY <2>2, <3>1
    <3> HIDE DEF x
    <3>3. x - n > 0
      BY <1>2, <3>2
    <3>4. QED BY <2>3, <2>5, <3>3 DEF x
  <2>6. QED BY <2>4, <2>5
<1>6. f.off - n \in Nat /\ (f.off - n) + n = f.off
  <2> DEFINE x == f.off
  <2>1. x \in Nat /\ PKTHDR \in Nat
    BY <1>1, MbufFields, SizesAreNumbers
  <2>2. x - n > PKTHDR \/ x - n > 0
    BY <1>5
  <2> HIDE DEF x
  <2>3. x - n \in Nat /\ (x - n) + n = x
    BY <1>2, <2>1, <2>2
  <2>4. QED BY <2>3 DEF x
<1> HIDE DEF f, j, r
<1>7. /\ j \o f.bytes \in Seq(Byte) /\ Len(j \o f.bytes) = n + Len(f.bytes)
      /\ f.bytes \in Seq(Byte) /\ Len(f.bytes) \in Nat
  <2>1. f.bytes \in Seq(Byte) /\ Len(f.bytes) \in Nat
    BY <1>1, MbufFields
  <2> DEFINE b == f.bytes
  <2> HIDE DEF b
  <2>2. b \in Seq(Byte)
    BY <2>1 DEF b
  <2>3. j \o b \in Seq(Byte) /\ Len(j \o b) = n + Len(b)
    BY <1>3, <2>2, ConcatProperties
  <2>4. QED BY <2>1, <2>3 DEF b
<1>8. /\ m \in Mbuf /\ m.hdr = f.hdr /\ m.ext = f.ext /\ m.plen = f.plen
      /\ m.off = f.off - n /\ m.bytes = j \o f.bytes
  <2> DEFINE b == j \o f.bytes
             x == f.off - n
  <2>1. b \in Seq(Nat \cup {JUNK}) /\ x \in Nat
    BY <1>6, <1>7 DEF Byte
  <2>2. m = [f EXCEPT !.off = x, !.bytes = b]
    OBVIOUS
  <2> HIDE DEF b, x, m
  <2>3. /\ m \in Mbuf /\ m.hdr = f.hdr /\ m.ext = f.ext /\ m.plen = f.plen
        /\ m.off = x /\ m.bytes = b
    BY <1>1, <2>1, <2>2 DEF Mbuf
  <2>4. QED BY <2>3 DEF b, x
<1> HIDE DEF m
<1>9. /\ d \in Seq(Mbuf) /\ Len(d) = Len(c)
      /\ \A i \in 1..Len(c) : d[i] = IF i = 1 THEN m ELSE c[i]
  <2>1. m \in Mbuf
    BY <1>8
  <2> HIDE DEF d
  <2>2. QED BY <1>2, <1>4, <2>1, Replaced
<1> HIDE DEF d
<1> DEFINE e == <<m>> \o r
<1>10. /\ e \in Seq(Mbuf) /\ Len(e) = 1 + Len(r) /\ e[1] = m
       /\ Data(e) = m.bytes \o Data(r) /\ Total(e) = Len(m.bytes) + Total(r)
       /\ (AllFit(e) <=> HasRoom(m) /\ AllFit(r))
       /\ (NoBoth(e) <=> ~(m.hdr /\ m.ext) /\ NoBoth(r))
  <2>1. m \in Mbuf /\ r \in Seq(Mbuf)
    BY <1>1, <1>8
  <2>2. QED BY <2>1, InFront
<1>11. /\ (AllFit(c) <=> HasRoom(f) /\ AllFit(r))
       /\ (NoBoth(c) <=> ~(f.hdr /\ f.ext) /\ NoBoth(r))
  <2> DEFINE x == <<f>> \o r
  <2>1. f \in Mbuf /\ r \in Seq(Mbuf) /\ c = x
    BY <1>1
  <2>2. /\ (AllFit(x) <=> HasRoom(f) /\ AllFit(r))
        /\ (NoBoth(x) <=> ~(f.hdr /\ f.ext) /\ NoBoth(r))
    BY <2>1, InFront
  <2> HIDE DEF x
  <2>3. QED BY <2>1, <2>2
<1>12. e = d
  <2> DEFINE x == Tail(d)
  <2>1. Len(d) > 0 /\ d \in Seq(Mbuf) /\ d[1] = m
    BY <1>2, <1>9
  <2>2. /\ x \in Seq(Mbuf) /\ d = <<d[1]>> \o x /\ Len(x) = Len(d) - 1
        /\ \A i \in 1..Len(x) : x[i] = d[i + 1]
    BY <2>1, FirstAndRest
  <2> HIDE DEF x
  <2>3. Len(x) = Len(r) /\ \A i \in 1..Len(r) : x[i] = r[i]
    <3>1. Len(x) = Len(r)
      BY <1>1, <1>9, <2>2
    <3>2. \A i \in 1..Len(r) : i + 1 \in 1..Len(c) /\ i + 1 # 1
      BY <1>1, <1>2
    <3>3. QED BY <1>1, <1>9, <2>2, <3>1, <3>2
  <2>4. x = r
    BY <1>1, <2>2, <2>3, SeqEqual
  <2>5. QED BY <2>1, <2>2, <2>4
<1>13. Data(d) = j \o Data(c)
  <2> DEFINE b == f.bytes
             x == Data(r)
  <2>1. b \in Seq(Byte) /\ x \in Seq(Byte)
    BY <1>1, <1>7, Layout
  <2>2. Data(d) = (j \o b) \o x /\ Data(c) = b \o x
    BY <1>1, <1>8, <1>10, <1>12
  <2> HIDE DEF b, x
  <2>3. (j \o b) \o x = j \o (b \o x)
    BY <1>3, <2>1, BytesJoin
  <2>4. QED BY <2>2, <2>3
<1>14. Total(d) = n + Total(c)
  <2>1. Total(r) \in Nat
    BY <1>1, UptoFacts
  <2>2. Total(d) = (n + Len(f.bytes)) + Total(r)
    BY <1>7, <1>8, <1>10, <1>12
  <2> DEFINE b == Len(f.bytes)
             y == Total(r)
  <2>3. b \in Nat /\ y \in Nat /\ Total(d) = (n + b) + y /\ Total(c) = b + y
    BY <1>1, <1>7, <2>1, <2>2
  <2> HIDE DEF b, y
  <2>4. (n + b) + y = n + (b + y)
    BY <1>2, <2>3
  <2>5. QED BY <2>3, <2>4
<1>15. AllFit(c) => AllFit(d)
  <2>1. SUFFICES ASSUME HasRoom(f) PROVE HasRoom(m)
    BY <1>10, <1>11, <1>12
  <2>2. PKTHDR \in Nat /\ MLEN \in Nat
    BY SizesAreNumbers
  <2>3. m.ext = FALSE /\ f.ext = FALSE /\ m.hdr = f.hdr /\ m.off = f.off - n
    <3>1. f.ext \in BOOLEAN
      BY <1>1, MbufFields
    <3>2. QED BY <1>5, <1>8, <3>1
  <2>4. Len(m.bytes) = n + Len(f.bytes)
    BY <1>7, <1>8
  <2> DEFINE o == f.off
             l == Len(f.bytes)
             o1 == m.off
             l1 == Len(m.bytes)
  <2>5. o + l <= MLEN
    BY <2>1, <2>3 DEF HasRoom
  <2>6. o1 = o - n /\ l1 = n + l /\ l \in Nat /\ o1 \in Nat /\ o1 + n = o
    BY <1>6, <1>7, <2>3, <2>4
  <2>7. o \in Nat
    BY <1>1, MbufFields
  <2>8. o1 >= (IF m.hdr THEN PKTHDR ELSE 0)
    <3>1. CASE m.hdr
      <4>1. o1 > PKTHDR
        BY <1>5, <2>3, <3>1
      <4> HIDE DEF o1
      <4>2. QED BY <2>2, <2>6, <3>1, <4>1
    <3>2. CASE ~m.hdr
      BY <2>6, <3>2
    <3>3. QED BY <3>1, <3>2
  <2> HIDE DEF o, l, o1, l1
  <2>9. o1 + l1 <= MLEN
    BY <1>2, <2>2, <2>5, <2>6, <2>7
  <2>10. QED BY <2>3, <2>8, <2>9 DEF HasRoom, o1, l1
<1>16. NoBoth(c) => NoBoth(d)
  BY <1>8, <1>10, <1>11, <1>12
<1>17. d[1] \in Mbuf /\ d[1].hdr = f.hdr /\ d[1].plen = f.plen
  BY <1>2, <1>8, <1>9
<1>18. QED BY <1>9, <1>13, <1>14, <1>15, <1>16, <1>17 DEF d, f, j

LEMMA PrependFacts ==
  ASSUME NEW c \in Seq(Mbuf), Len(c) > 0, NEW n \in 1..MHLEN
  PROVE  LET d == M_PREPEND(c, n)
         IN  /\ d \in Seq(Mbuf) /\ Len(d) > 0
             /\ Data(d) = Junk(n) \o Data(c) /\ Total(d) = n + Total(c)
             /\ AllFit(c) => AllFit(d)
             /\ NoBoth(c) => NoBoth(d)
             /\ d[1].hdr = c[1].hdr
             /\ c[1].hdr => d[1].plen = c[1].plen + n
<1> DEFINE e == IF M_LEADINGSPACE(c[1]) > n
                  THEN Widened(c, n)
                  ELSE m_prepend(c, n)
           v == IF e[1].hdr THEN e[1].plen + n ELSE e[1].plen
           d == [e EXCEPT ![1].plen = v]
<1>1. Len(c) \in Nat /\ n \in Nat /\ c[1] \in Mbuf
  BY ChainFacts, SizesAreNumbers
<1>2. /\ e \in Seq(Mbuf) /\ Len(e) > 0
      /\ Data(e) = Junk(n) \o Data(c) /\ Total(e) = n + Total(c)
      /\ (AllFit(c) => AllFit(e)) /\ (NoBoth(c) => NoBoth(e))
      /\ e[1] \in Mbuf /\ e[1].hdr = c[1].hdr
      /\ (c[1].hdr => e[1].plen = c[1].plen)
  <2>1. CASE M_LEADINGSPACE(c[1]) > n
    <3> DEFINE x == Widened(c, n)
    <3>1. e = x
      BY <2>1
    <3>2. /\ x \in Seq(Mbuf) /\ Len(x) = Len(c)
          /\ Data(x) = Junk(n) \o Data(c) /\ Total(x) = n + Total(c)
          /\ (AllFit(c) => AllFit(x)) /\ (NoBoth(c) => NoBoth(x))
          /\ x[1] \in Mbuf /\ x[1].hdr = c[1].hdr /\ x[1].plen = c[1].plen
      BY <2>1, InPlace
    <3> HIDE DEF x, e
    <3>3. QED BY <3>1, <3>2
  <2>2. CASE ~(M_LEADINGSPACE(c[1]) > n)
    <3> DEFINE x == m_prepend(c, n)
    <3>1. e = x
      BY <2>2
    <3>2. /\ x \in Seq(Mbuf) /\ Len(x) = 1 + Len(c)
          /\ Data(x) = Junk(n) \o Data(c) /\ Total(x) = n + Total(c)
          /\ (AllFit(c) => AllFit(x)) /\ (NoBoth(c) => NoBoth(x))
          /\ x[1] \in Mbuf /\ x[1].hdr = c[1].hdr /\ (c[1].hdr => x[1].plen = c[1].plen)
      BY NewInFront
    <3> HIDE DEF x, e
    <3>3. QED BY <1>1, <3>1, <3>2
  <2> HIDE DEF e
  <2>3. QED BY <2>1, <2>2
<1>3. d = M_PREPEND(c, n)
  BY DEF M_PREPEND, Widened
<1> HIDE DEF e
<1>4. e[1].plen \in Int /\ v \in Int /\ Len(e) \in Nat
  BY <1>1, <1>2, MbufFields, ChainFacts
<1>5. v = IF e[1].hdr THEN e[1].plen + n ELSE e[1].plen
  OBVIOUS
<1> HIDE DEF v
<1>6. /\ d \in Seq(Mbuf) /\ Len(d) = Len(e)
      /\ d[1] = [e[1] EXCEPT !.plen = v] /\ \A i \in 2..Len(e) : d[i] = e[i]
      /\ Data(d) = Data(e) /\ Total(d) = Total(e)
  BY <1>2, <1>4, Recounted
<1> HIDE DEF d
<1>7. /\ d[1].hdr = e[1].hdr /\ d[1].ext = e[1].ext /\ d[1].off = e[1].off
      /\ d[1].bytes = e[1].bytes /\ d[1].plen = v
  BY <1>2, <1>6 DEF Mbuf
<1>8. \A i \in 1..Len(e) : /\ d[i].hdr = e[i].hdr /\ d[i].ext = e[i].ext
                          /\ d[i].off = e[i].off /\ d[i].bytes = e[i].bytes
  <2>1. \A i \in 1..Len(e) : i = 1 \/ i \in 2..Len(e)
    BY <1>4
  <2>2. QED BY <1>6, <1>7, <2>1
<1>9. (AllFit(e) => AllFit(d)) /\ (NoBoth(e) => NoBoth(d))
  <2>1. DOMAIN e = 1..Len(e) /\ DOMAIN d = 1..Len(e)
    BY <1>2, <1>6, ChainFacts
  <2>2. AllFit(e) => AllFit(d)
    BY <1>8, <2>1 DEF AllFit, HasRoom
  <2>3. NoBoth(e) => NoBoth(d)
    BY <1>6, <1>8 DEF NoBoth
  <2>4. QED BY <2>2, <2>3
<1>10. c[1].hdr => d[1].plen = c[1].plen + n
  BY <1>2, <1>5, <1>7
<1>11. QED BY <1>2, <1>3, <1>6, <1>7, <1>9, <1>10

-----------------------------------------------------------------------------
(* A received frame.                                                       *)

LEMMA Products ==
  ASSUME NEW a \in Nat, NEW b \in Nat, NEW r \in Nat
  PROVE  /\ a * r \in Nat /\ (a + 1) * r = a * r + r
         /\ a <= b => a * r <= b * r
OBVIOUS

\* How many pieces of r bytes it takes to hold x.
LEMMA Ceiling ==
  ASSUME NEW x \in Nat, x > 0, NEW r \in Nat, r > 0
  PROVE  \E q \in Nat : /\ (x + r - 1) \div r = q + 1 /\ q * r < x /\ x <= (q + 1) * r
                        /\ (q + 1) * r = q * r + r
<1> DEFINE y == x + r - 1
           z == y \div r
<1>1. y \in Nat /\ y >= r
  OBVIOUS
<1> HIDE DEF y
<1>2. z \in Nat /\ r * z <= y /\ y < r * z + r
  BY <1>1, Division
<1>3. z # 0
  <2>1. CASE z = 0
    <3>1. r * z = 0
      BY <2>1
    <3>2. QED BY <1>1, <1>2, <3>1
  <2>2. QED BY <2>1
<1> HIDE DEF z
<1> DEFINE q == z - 1
<1>4. q \in Nat /\ z = q + 1
  BY <1>2, <1>3
<1> HIDE DEF q
<1>5. q * r \in Nat /\ (q + 1) * r = q * r + r /\ r * z = q * r + r
  <2>1. q * r \in Nat /\ (q + 1) * r = q * r + r
    BY <1>4, Products
  <2>2. r * z = (q + 1) * r
    BY <1>4
  <2>3. QED BY <2>1, <2>2
<1> DEFINE a == q * r
           b == (q + 1) * r
           c == r * z
<1>6. a \in Nat /\ b = a + r /\ c = a + r /\ c <= y /\ y < c + r
  BY <1>2, <1>5
<1> HIDE DEF a, b, c
<1>7. a < x /\ x <= b
  BY <1>6 DEF y
<1>8. QED BY <1>4, <1>5, <1>7 DEF a, b, y, z

\* The places at which m_devget divides len bytes: from(i) is where mbuf i
\* begins, from the second on.
Divides(from, count, len, room) ==
  /\ count \in Nat /\ from[2] = MHLEN /\ from[count + 2] >= len
  /\ \A i \in 2..count + 2 : from[i] \in Nat
  /\ \A i \in 2..count + 1 : from[i + 1] = from[i] + room /\ from[i] < len

LEMMA DevgetPlaces ==
  ASSUME NEW len \in Nat, NEW room \in Nat, room > 0
  PROVE  LET count == IF len > MHLEN THEN (len - MHLEN + room - 1) \div room ELSE 0
         IN  Divides([i \in 2..count + 2 |-> MHLEN + (i - 2) * room], count, len, room)
<1> DEFINE count == IF len > MHLEN THEN (len - MHLEN + room - 1) \div room ELSE 0
           from == [i \in 2..count + 2 |-> MHLEN + (i - 2) * room]
<1>1. MHLEN \in Nat
  BY SizesAreNumbers
<1>2. count \in Nat /\ \A k \in Nat : k < count => MHLEN + k * room < len
  <2>1. CASE len > MHLEN
    <3> DEFINE x == len - MHLEN
    <3>1. x \in Nat /\ x > 0 /\ len = MHLEN + x
      BY <1>1, <2>1
    <3>2. count = (x + room - 1) \div room
      BY <2>1
    <3> HIDE DEF x, count
    <3>3. PICK q \in Nat : (x + room - 1) \div room = q + 1 /\ q * room < x
      BY <3>1, Ceiling
    <3>4. count = q + 1
      BY <3>2, <3>3
    <3>5. ASSUME NEW k \in Nat, k < count PROVE MHLEN + k * room < len
      <4>1. k <= q
        BY <3>4, <3>5
      <4> DEFINE a == k * room
                 b == q * room
      <4>2. a \in Nat /\ b \in Nat /\ a <= b /\ b < x
        BY <3>3, <4>1, Products
      <4> HIDE DEF a, b
      <4>3. MHLEN + a < len
        BY <1>1, <3>1, <4>2
      <4>4. QED BY <4>3 DEF a
    <3>6. QED BY <3>4, <3>5
  <2>2. CASE ~(len > MHLEN)
    BY <2>2
  <2>3. QED BY <2>1, <2>2
<1>3. MHLEN + count * room >= len
  <2>1. CASE len > MHLEN
    <3> DEFINE x == len - MHLEN
    <3>1. x \in Nat /\ x > 0 /\ len = MHLEN + x
      BY <1>1, <2>1
    <3>2. count = (x + room - 1) \div room
      BY <2>1
    <3> HIDE DEF x, count
    <3>3. PICK q \in Nat : (x + room - 1) \div room = q + 1 /\ x <= (q + 1) * room
      BY <3>1, Ceiling
    <3> DEFINE b == count * room
    <3>4. b \in Nat /\ x <= b
      BY <1>2, <3>2, <3>3, Products
    <3> HIDE DEF b
    <3>5. MHLEN + b >= len
      BY <1>1, <3>1, <3>4
    <3>6. QED BY <3>5 DEF b
  <2>2. CASE ~(len > MHLEN)
    <3>1. count = 0 /\ 0 * room = 0
      BY <2>2
    <3> HIDE DEF count
    <3>2. QED BY <1>1, <2>2, <3>1
  <2>3. QED BY <2>1, <2>2
<1> HIDE DEF count
<1>4. from[2] = MHLEN
  <2>1. 2 \in 2..count + 2 /\ 2 - 2 = 0 /\ 0 * room = 0 /\ MHLEN + 0 = MHLEN
    BY <1>1, <1>2
  <2>2. QED BY <2>1
<1>5. from[count + 2] >= len
  <2>1. count + 2 \in 2..count + 2 /\ (count + 2) - 2 = count
    BY <1>2
  <2>2. QED BY <1>3, <2>1
<1>6. ASSUME NEW i \in 2..count + 2 PROVE from[i] \in Nat
  <2>1. i - 2 \in Nat
    BY <1>2
  <2>2. (i - 2) * room \in Nat
    BY <2>1, Products
  <2>3. QED BY <1>1, <2>2
<1>7. ASSUME NEW i \in 2..count + 1 PROVE from[i + 1] = from[i] + room /\ from[i] < len
  <2> DEFINE k == i - 2
  <2>1. k \in Nat /\ k < count /\ i \in 2..count + 2 /\ i + 1 \in 2..count + 2 /\ (i + 1) - 2 = k + 1
    BY <1>2
  <2>2. from[i] = MHLEN + k * room /\ from[i + 1] = MHLEN + (k + 1) * room
    BY <2>1
  <2> HIDE DEF k, from
  <2>3. MHLEN + k * room < len
    BY <1>2, <2>1
  <2> DEFINE a == k * room
             b == (k + 1) * room
  <2>4. a \in Nat /\ b = a + room
    BY <2>1, Products
  <2>5. from[i] = MHLEN + a /\ from[i + 1] = MHLEN + b /\ MHLEN + a < len
    BY <2>2, <2>3
  <2> HIDE DEF a, b
  <2>6. QED BY <1>1, <2>4, <2>5
<1> HIDE DEF from
<1>8. Divides(from, count, len, room)
  BY <1>2, <1>4, <1>5, <1>6, <1>7 DEF Divides
<1>9. QED BY <1>8 DEF from, count

\* The first mbuf of a received frame, and the others.
DevgetFirst(buf) ==
  [MGETHDR EXCEPT !.plen = Len(buf), !.bytes = SubSeq(buf, 1, Min({Len(buf), MHLEN}))]

DevgetPiece(buf, further, room, from) ==
  [further EXCEPT !.bytes = SubSeq(buf, from + 1, Min({Len(buf), from + room}))]

LEMMA DevgetFirstFacts ==
  ASSUME NEW buf \in Seq(Byte)
  PROVE  LET m == DevgetFirst(buf)
             l == IF Len(buf) <= MHLEN THEN Len(buf) ELSE MHLEN
         IN  /\ m \in Mbuf /\ m.hdr /\ ~m.ext /\ m.plen = Len(buf)
             /\ HasRoom(m) /\ Len(m.bytes) = l /\ \A j \in 1..l : m.bytes[j] = buf[j]
<1> DEFINE len == Len(buf)
           l == IF len <= MHLEN THEN len ELSE MHLEN
           e == SubSeq(buf, 1, l)
           m == DevgetFirst(buf)
<1>1. len \in Nat /\ MHLEN \in Nat /\ l \in Nat /\ l <= len /\ l <= MHLEN
  BY LenProperties, SizesAreNumbers
<1>2. Min({len, MHLEN}) = l
  BY <1>1, MinMaxOfTwo
<1> HIDE DEF l
<1>3. e \in Seq(Byte) /\ Len(e) = l /\ \A j \in 1..l : e[j] = buf[j]
  <2> DEFINE z == SubSeq(buf, 0 + 1, 0 + l)
  <2>1. z \in Seq(Byte) /\ Len(z) = l /\ \A j \in 1..l : z[j] = buf[0 + j]
    <3>1. 0 \in Nat /\ 0 + l <= Len(buf)
      BY <1>1
    <3>2. QED BY <1>1, <3>1, PartOf
  <2>2. 0 + 1 = 1 /\ 0 + l = l /\ \A j \in 1..l : 0 + j = j
    BY <1>1
  <2>3. z = e
    BY <2>2
  <2> HIDE DEF e, z
  <2>4. QED BY <2>1, <2>2, <2>3
<1>5. PKTHDR \in Nat /\ MHLEN + PKTHDR = MLEN /\ MLEN \in Nat
  BY SizesAreNumbers
<1> DEFINE g == MGETHDR
<1>4. g \in Mbuf /\ g.hdr /\ ~g.ext /\ g.off = PKTHDR
  <2>1. <<>> \in Seq(Nat \cup {JUNK})
    BY EmptySeq
  <2>2. MGET \in Mbuf /\ ~MGET.ext
    BY <2>1 DEF MGET, Mbuf
  <2>3. g = [MGET EXCEPT !.hdr = TRUE, !.off = PKTHDR]
    BY DEF MGETHDR
  <2> HIDE DEF g
  <2>4. QED BY <1>5, <2>2, <2>3 DEF Mbuf
<1>6. m = [g EXCEPT !.plen = len, !.bytes = e]
  BY <1>2 DEF DevgetFirst
<1> HIDE DEF m, e, len, g
<1>7. /\ m \in Mbuf /\ m.hdr /\ ~m.ext /\ m.plen = len
      /\ m.off = PKTHDR /\ m.bytes = e
  <2>1. e \in Seq(Nat \cup {JUNK}) /\ len \in Int
    BY <1>1, <1>3 DEF Byte
  <2>2. /\ m \in Mbuf /\ m.hdr = g.hdr /\ m.ext = g.ext /\ m.plen = len
        /\ m.off = g.off /\ m.bytes = e
    BY <1>4, <1>6, <2>1 DEF Mbuf
  <2>3. QED BY <1>4, <2>2
<1>8. HasRoom(m)
  <2>1. m.off = PKTHDR /\ Len(m.bytes) = l
    BY <1>3, <1>7
  <2>2. PKTHDR + l <= MLEN
    BY <1>1, <1>5
  <2>3. QED BY <1>1, <1>5, <1>7, <2>1, <2>2 DEF HasRoom
<1>9. QED BY <1>3, <1>7, <1>8 DEF m, l, len

\* The l bytes of buf from place from on, in an mbuf of the kind that is used
\* after the first.
IsPiece(m, buf, room, from) ==
  LET l == (IF Len(buf) <= from + room THEN Len(buf) ELSE from + room) - from
  IN  /\ m \in Mbuf /\ m.hdr = FALSE /\ HasRoom(m)
      /\ Len(m.bytes) = l /\ l > 0 /\ m.bytes # <<>>
      /\ \A j \in 1..l : m.bytes[j] = buf[from + j]

Kind(further, room) ==
  (further = MGET /\ room = MLEN) \/ (further = m_getclr /\ room = MCLBYTES)

LEMMA DevgetPieceFacts ==
  ASSUME NEW buf \in Seq(Byte), NEW room \in Nat, NEW from \in Nat, NEW further,
         from < Len(buf), room > 0, Kind(further, room)
  PROVE  IsPiece(DevgetPiece(buf, further, room, from), buf, room, from)
<1> DEFINE len == Len(buf)
           end == IF len <= from + room THEN len ELSE from + room
           l == end - from
           e == SubSeq(buf, from + 1, end)
           m == DevgetPiece(buf, further, room, from)
<1>1. len \in Nat
  BY LenProperties
<1>2. Min({len, from + room}) = end
  BY <1>1, MinMaxOfTwo
<1> HIDE DEF len
<1>9. from < len
  BY DEF len
<1>3. end \in Nat /\ l \in Nat /\ l > 0 /\ from + l = end /\ end <= len /\ l <= room
  <2>1. CASE len <= from + room
    BY <1>1, <1>9, <2>1
  <2>2. CASE ~(len <= from + room)
    BY <1>1, <1>9, <2>2
  <2>3. QED BY <2>1, <2>2
<1> HIDE DEF end, l
<1>4. e \in Seq(Byte) /\ Len(e) = l /\ \A j \in 1..l : e[j] = buf[from + j]
  <2> DEFINE z == SubSeq(buf, from + 1, from + l)
  <2>1. from + l <= Len(buf)
    BY <1>3 DEF len
  <2>2. z \in Seq(Byte) /\ Len(z) = l /\ \A j \in 1..l : z[j] = buf[from + j]
    BY <1>3, <2>1, PartOf
  <2>3. z = e
    BY <1>3
  <2> HIDE DEF e, z
  <2>4. QED BY <2>2, <2>3
<1>5. /\ further \in Mbuf /\ further.hdr = FALSE /\ further.off = 0
      /\ room = IF further.ext THEN MCLBYTES ELSE MLEN
  <2>1. <<>> \in Seq(Nat \cup {JUNK})
    BY EmptySeq
  <2>2. MGET \in Mbuf /\ MGET.hdr = FALSE /\ MGET.ext = FALSE /\ MGET.off = 0
    BY <2>1 DEF MGET, Mbuf
  <2>3. m_getclr \in Mbuf /\ m_getclr.hdr = FALSE /\ m_getclr.ext = TRUE /\ m_getclr.off = 0
    BY <2>2 DEF m_getclr, Mbuf
  <2>4. CASE further = MGET /\ room = MLEN
    BY <2>2, <2>4
  <2>5. CASE further = m_getclr /\ room = MCLBYTES
    BY <2>3, <2>5
  <2>6. QED BY <2>4, <2>5 DEF Kind
<1>6. m = [further EXCEPT !.bytes = e]
  BY <1>2 DEF DevgetPiece, len
<1> HIDE DEF m, e
<1>7. m \in Mbuf /\ m.hdr = FALSE /\ m.bytes = e /\ m.off = 0 /\ m.ext = further.ext
  BY <1>4, <1>5, <1>6 DEF Mbuf, Byte
<1>8. HasRoom(m)
  <2>1. Len(m.bytes) = l /\ l <= room /\ l \in Nat
    BY <1>3, <1>4, <1>7
  <2>2. MCLBYTES \in Nat /\ MLEN \in Nat
    BY SizesAreNumbers
  <2>3. CASE further.ext
    BY <1>5, <1>7, <2>1, <2>2, <2>3 DEF HasRoom
  <2>4. CASE ~further.ext
    BY <1>5, <1>7, <2>1, <2>2, <2>4 DEF HasRoom
  <2>5. QED BY <2>3, <2>4
<1>10. m.bytes # <<>>
  BY <1>3, <1>4, <1>7, EmptySeq
<1>11. QED BY <1>3, <1>4, <1>7, <1>8, <1>10 DEF m, l, end, len, IsPiece

\* m_devget divides the whole frame.
LEMMA DevgetFacts ==
  ASSUME NEW buf \in Seq(Byte)
  PROVE  LET d == m_devget(buf)
         IN  /\ d \in Seq(Mbuf) /\ Len(d) > 0
             /\ Data(d) = buf /\ Total(d) = Len(buf)
             /\ AllFit(d) /\ NoBoth(d)
             /\ d[1].hdr /\ d[1].plen = Len(buf)
             /\ \A i \in 2..Len(d) : d[i].bytes # <<>>
<1> DEFINE len == Len(buf)
           further == IF len >= MINCLSIZE THEN m_getclr ELSE MGET
           room == IF len >= MINCLSIZE THEN MCLBYTES ELSE MLEN
           count == IF len > MHLEN THEN (len - MHLEN + room - 1) \div room ELSE 0
           from == [i \in 2..count + 2 |-> MHLEN + (i - 2) * room]
           d == [i \in 1..(count + 1) |->
                  IF i = 1 THEN DevgetFirst(buf) ELSE DevgetPiece(buf, further, room, from[i])]
<1>1. /\ len \in Nat /\ MHLEN \in Nat /\ room \in Nat /\ room > 0
      /\ Kind(further, room)
  <2>1. MHLEN \in Nat /\ MLEN \in Nat /\ MCLBYTES \in Nat /\ MLEN > 0 /\ MCLBYTES > 0 /\ len \in Nat
    BY SizesAreNumbers, LenProperties
  <2>2. CASE len >= MINCLSIZE
    BY <2>1, <2>2 DEF Kind
  <2>3. CASE ~(len >= MINCLSIZE)
    BY <2>1, <2>3 DEF Kind
  <2>4. QED BY <2>2, <2>3
<1> HIDE DEF room, further
<1>2. Divides(from, count, len, room)
  <2> HIDE DEF len
  <2>1. QED BY <1>1, DevgetPlaces
<1>3. m_devget(buf) = d
  <2> DEFINE q == [i \in 1..(count + 1) |->
                     IF i = 1 THEN DevgetFirst(buf)
                     ELSE DevgetPiece(buf, further, room, MHLEN + (i - 2) * room)]
  <2>1. m_devget(buf) = q
    BY DEF m_devget, DevgetFirst, DevgetPiece, further, room
  <2>2. count \in Nat
    BY <1>2 DEF Divides
  <2> HIDE DEF count
  <2>3. \A i \in 1..(count + 1) : i # 1 => from[i] = MHLEN + (i - 2) * room
    <3>1. \A i \in 1..(count + 1) : i # 1 => i \in 2..count + 2
      BY <2>2
    <3>2. QED BY <3>1
  <2>4. \A i \in 1..(count + 1) : q[i] = d[i]
    <3> HIDE DEF from
    <3>1. QED BY <2>3
  <2>5. q = d
    BY <2>4
  <2>6. QED BY <2>1, <2>5
<1> HIDE DEF count, from, len
<1>4. /\ count \in Nat /\ from[2] = MHLEN /\ from[count + 2] >= len
      /\ \A i \in 2..count + 2 : from[i] \in Nat
      /\ \A i \in 2..count + 1 : from[i + 1] = from[i] + room /\ from[i] < len
  BY <1>2 DEF Divides
<1> DEFINE Upper(x) == IF len <= x THEN len ELSE x
<1>5. /\ DevgetFirst(buf) \in Mbuf /\ DevgetFirst(buf).hdr
      /\ ~DevgetFirst(buf).ext /\ DevgetFirst(buf).plen = len
      /\ HasRoom(DevgetFirst(buf)) /\ Len(DevgetFirst(buf).bytes) = Upper(MHLEN)
      /\ \A j \in 1..Upper(MHLEN) : DevgetFirst(buf).bytes[j] = buf[j]
  BY DevgetFirstFacts DEF len
<1>6. ASSUME NEW i \in 2..count + 1
      PROVE  LET m == DevgetPiece(buf, further, room, from[i])
                 l == Upper(from[i] + room) - from[i]
             IN  /\ m \in Mbuf /\ m.hdr = FALSE /\ HasRoom(m)
                 /\ Len(m.bytes) = l /\ m.bytes # <<>>
                 /\ \A j \in 1..l : m.bytes[j] = buf[from[i] + j]
  <2> DEFINE x == from[i]
  <2>1. x \in Nat /\ x < Len(buf)
    BY <1>4 DEF len
  <2> HIDE DEF x
  <2>2. IsPiece(DevgetPiece(buf, further, room, x), buf, room, x)
    BY <1>1, <2>1, DevgetPieceFacts
  <2>3. QED BY <2>2 DEF x, len, IsPiece
<1>7. /\ d \in Seq(Mbuf) /\ Len(d) = count + 1
      /\ d[1] = DevgetFirst(buf)
      /\ \A i \in 2..count + 1 : d[i] = DevgetPiece(buf, further, room, from[i])
  <2>1. \A i \in 1..count + 1 : i # 1 => i \in 2..count + 1
    BY <1>4
  <2>2. d \in [1..count + 1 -> Mbuf]
    BY <1>5, <1>6, <2>1
  <2>3. count + 1 \in Nat /\ 1 \in 1..count + 1 /\ \A i \in 2..count + 1 : i \in 1..count + 1 /\ i # 1
    BY <1>4
  <2>4. d[1] = DevgetFirst(buf) /\ \A i \in 2..count + 1 : d[i] = DevgetPiece(buf, further, room, from[i])
    BY <2>3
  <2> HIDE DEF d
  <2>5. d \in Seq(Mbuf) /\ Len(d) = count + 1
    BY <2>2, <2>3, SequenceFrom
  <2>6. QED BY <2>4, <2>5
<1> HIDE DEF d
<1> DEFINE p == [i \in 0..count + 1 |-> IF i = 0 THEN 0 ELSE Upper(from[i + 1])]
<1>8. ASSUME NEW i \in 1..count + 1
      PROVE  p[i] = Upper(from[i + 1]) /\ from[i + 1] \in Nat /\ p[i - 1] = IF i = 1 THEN 0 ELSE from[i]
  <2>1. i \in 0..count + 1 /\ i - 1 \in 0..count + 1 /\ i # 0 /\ i + 1 \in 2..count + 2
    BY <1>4
  <2>2. p[i] = Upper(from[i + 1])
    BY <2>1
  <2>3. CASE i = 1
    <3>1. i - 1 = 0
      BY <2>3
    <3>2. QED BY <1>4, <2>1, <2>2, <2>3, <3>1
  <2>4. CASE i # 1
    <3>1. i - 1 # 0 /\ (i - 1) + 1 = i /\ i \in 2..count + 1 /\ i \in 2..count + 2
      BY <1>4, <2>4
    <3>2. p[i - 1] = Upper(from[i])
      BY <2>1, <3>1
    <3>3. from[i] < len /\ from[i] \in Nat
      BY <1>4, <3>1
    <3>4. Upper(from[i]) = from[i]
      <4> DEFINE x == from[i]
      <4>1. x \in Nat /\ x < len
        BY <3>3
      <4> HIDE DEF x
      <4>2. Upper(x) = x
        BY <1>1, <4>1
      <4>3. QED BY <4>2 DEF x
    <3>5. QED BY <1>4, <2>1, <2>2, <2>4, <3>2, <3>4
  <2>5. QED BY <2>3, <2>4
<1>9. p[0] = 0 /\ p[count + 1] = len /\ p \in [0..count + 1 -> Nat]
  <2>1. 0 \in 0..count + 1 /\ count + 1 \in 0..count + 1 /\ count + 1 # 0 /\ (count + 1) + 1 = count + 2
        /\ count + 2 \in 2..count + 2
    BY <1>4
  <2>2. p[0] = 0 /\ p[count + 1] = Upper(from[count + 2])
    BY <2>1
  <2>3. Upper(from[count + 2]) = len
    <3> DEFINE x == from[count + 2]
    <3>1. x \in Nat /\ x >= len
      BY <1>4, <2>1
    <3> HIDE DEF x
    <3>2. Upper(x) = len
      BY <1>1, <3>1
    <3>3. QED BY <3>2 DEF x
  <2>4. \A i \in 0..count + 1 : i # 0 => i + 1 \in 2..count + 2
    BY <1>4
  <2>5. p \in [0..count + 1 -> Nat]
    BY <1>1, <1>4, <2>4
  <2>6. QED BY <2>2, <2>3, <2>5
<1> HIDE DEF p
<1>10. ASSUME NEW i \in 1..count + 1
       PROVE  /\ p[i] = p[i - 1] + Len(d[i].bytes)
              /\ \A j \in 1..Len(d[i].bytes) : buf[p[i - 1] + j] = d[i].bytes[j]
  <2>1. CASE i = 1
    <3>1. p[i] = Upper(MHLEN) /\ p[i - 1] = 0
      <4>1. i + 1 = 2
        BY <2>1
      <4>2. QED BY <1>4, <1>8, <2>1, <4>1
    <3>2. Upper(MHLEN) \in Nat
      BY <1>1
    <3> HIDE DEF Upper
    <3>3. p[i] = p[i - 1] + Len(d[i].bytes)
      BY <1>5, <1>7, <2>1, <3>1, <3>2
    <3>4. ASSUME NEW j \in 1..Len(d[i].bytes) PROVE buf[p[i - 1] + j] = d[i].bytes[j]
      <4>1. 0 + j = j /\ j \in 1..Upper(MHLEN)
        BY <1>5, <1>7, <2>1, <3>2
      <4>2. QED BY <1>5, <1>7, <2>1, <3>1, <4>1
    <3>5. QED BY <3>3, <3>4
  <2>2. CASE i # 1
    <3> DEFINE x == from[i]
               m == DevgetPiece(buf, further, room, from[i])
               l == Upper(x + room) - x
    <3>1. i \in 2..count + 1 /\ d[i] = m
      <4>1. i \in 2..count + 1
        BY <1>4, <2>2
      <4>2. QED BY <1>7, <4>1
    <3>2. Len(m.bytes) = l /\ \A j \in 1..l : m.bytes[j] = buf[x + j]
      BY <1>6, <3>1
    <3>3. p[i - 1] = x /\ p[i] = Upper(from[i + 1]) /\ from[i + 1] = x + room /\ x \in Nat /\ x < len
      <4>1. i \in 2..count + 2
        BY <1>4, <3>1
      <4>2. QED BY <1>4, <1>8, <2>2, <3>1, <4>1
    <3> HIDE DEF x, m
    <3>4. Upper(x + room) = x + l
      <4>1. Upper(x + room) \in Nat
        BY <1>1, <3>3
      <4> DEFINE u == Upper(x + room)
      <4> HIDE DEF u
      <4>2. u \in Nat /\ l = u - x
        BY <4>1 DEF u
      <4>3. u = x + l
        BY <3>3, <4>2
      <4>4. QED BY <4>3 DEF u
    <3> HIDE DEF l, Upper
    <3>5. QED BY <3>1, <3>2, <3>3, <3>4
  <2>3. QED BY <2>1, <2>2
<1>11. LaidOut(d, p, buf)
  BY <1>7, <1>9, <1>10 DEF LaidOut, len
<1>12. Data(d) = buf /\ Total(d) = len
  BY <1>7, <1>11, DataIs DEF len
<1>13. \A i \in 1..count + 1 : i = 1 \/ i \in 2..count + 1
  BY <1>4
<1>14. AllFit(d) /\ NoBoth(d)
  <2>1. DOMAIN d = 1..count + 1
    BY <1>7, ChainFacts
  <2>2. \A i \in 1..count + 1 : HasRoom(d[i]) /\ ~(d[i].hdr /\ d[i].ext)
    <3> HIDE DEF Upper
    <3>1. SUFFICES ASSUME NEW i \in 1..count + 1 PROVE HasRoom(d[i]) /\ ~(d[i].hdr /\ d[i].ext)
      OBVIOUS
    <3>2. CASE i = 1
      BY <1>5, <1>7, <3>2
    <3>3. CASE i \in 2..count + 1
      BY <1>6, <1>7, <3>3
    <3>4. QED BY <1>13, <3>2, <3>3
  <2>3. QED BY <1>7, <2>1, <2>2 DEF AllFit, NoBoth
<1>15. \A i \in 2..Len(d) : d[i].bytes # <<>>
  <2> HIDE DEF Upper
  <2>1. QED BY <1>6, <1>7
<1>16. Len(d) > 0
  BY <1>4, <1>7
<1>17. QED BY <1>3, <1>5, <1>7, <1>12, <1>14, <1>15, <1>16 DEF len

-----------------------------------------------------------------------------
(* Appending.                                                              *)

\* e is c with d behind it, as m_cat leaves it.
Appended(e, c, d) ==
  /\ e \in Seq(Mbuf) /\ Len(e) = Len(c) + Len(d)
  /\ Data(e) = Data(c) \o Data(d) /\ Total(e) = Total(c) + Total(d)
  /\ NoBoth(c) /\ NoBoth(d) => NoBoth(e)
  /\ e[1].hdr = c[1].hdr
  /\ c[1].hdr => e[1].plen = c[1].plen + (IF d[1].hdr THEN d[1].plen ELSE Total(d))
  /\ \A i \in 1..Len(c) : e[i].bytes = c[i].bytes
  /\ \A i \in 1..Len(e) : /\ i <= Len(c) => get_total_len(e[i]) = get_total_len(c[i])
                          /\ i > Len(c) => e[i] = d[i - Len(c)]
  /\ ~c[1].hdr => e = c \o d

LEMMA CatFacts ==
  ASSUME NEW c \in Seq(Mbuf), NEW d \in Seq(Mbuf), Len(c) > 0, Len(d) > 0
  PROVE  Appended(m_cat(c, d), c, d)
<1> DEFINE added == IF d[1].hdr THEN d[1].plen ELSE Total(d)
           v == IF c[1].hdr THEN c[1].plen + added ELSE c[1].plen
           b == [c EXCEPT ![1].plen = v]
           e == b \o d
<1>1. /\ Len(c) \in Nat /\ Len(d) \in Nat /\ 1 \in 1..Len(c) /\ c[1] \in Mbuf /\ d[1] \in Mbuf
      /\ Total(d) \in Nat /\ \A i \in 1..Len(c) : c[i] \in Mbuf
  <2>1. Len(c) \in Nat /\ Len(d) \in Nat
    BY ChainFacts
  <2>2. 1 \in 1..Len(c) /\ 1 \in 1..Len(d)
    BY <2>1
  <2>3. QED BY <2>1, <2>2, ChainFacts, UptoFacts
<1>2. v \in Int
  BY <1>1, MbufFields
<1>3. m_cat(c, d) = e
  BY DEF m_cat
<1>4. c[1].hdr => v = c[1].plen + added
  OBVIOUS
<1>13. ~c[1].hdr => v = c[1].plen
  OBVIOUS
<1> HIDE DEF v, added
<1>5. /\ b \in Seq(Mbuf) /\ Len(b) = Len(c)
      /\ b[1] = [c[1] EXCEPT !.plen = v] /\ \A i \in 2..Len(c) : b[i] = c[i]
      /\ Data(b) = Data(c) /\ Total(b) = Total(c)
  BY <1>2, Recounted
<1>14. b = [c EXCEPT ![1].plen = v]
  OBVIOUS
<1> HIDE DEF b
<1>6. b[1].hdr = c[1].hdr /\ b[1].ext = c[1].ext /\ b[1].plen = v /\ b[1].bytes = c[1].bytes
  BY <1>1, <1>5 DEF Mbuf
<1>7. \A i \in 1..Len(c) : b[i].hdr = c[i].hdr /\ b[i].ext = c[i].ext /\ b[i].bytes = c[i].bytes
  <2>1. \A i \in 1..Len(c) : i = 1 \/ i \in 2..Len(c)
    BY <1>1
  <2>2. QED BY <1>5, <1>6, <2>1
<1>8. /\ e \in Seq(Mbuf) /\ Len(e) = Len(c) + Len(d)
      /\ \A i \in 1..Len(c) + Len(d) : e[i] = IF i <= Len(c) THEN b[i] ELSE d[i - Len(c)]
  <2>1. b \in Seq(Mbuf) /\ Len(b) = Len(c)
    BY <1>5
  <2>2. /\ e \in Seq(Mbuf) /\ Len(e) = Len(b) + Len(d)
        /\ \A i \in 1..Len(b) + Len(d) : e[i] = IF i <= Len(b) THEN b[i] ELSE d[i - Len(b)]
    BY <2>1, ConcatProperties
  <2> HIDE DEF e
  <2>3. QED BY <2>1, <2>2
<1>9. Data(e) = Data(c) \o Data(d) /\ Total(e) = Total(c) + Total(d)
  <2>1. b \in Seq(Mbuf)
    BY <1>5
  <2>2. Data(b \o d) = Data(b) \o Data(d) /\ Total(b \o d) = Total(b) + Total(d)
    BY <2>1, Concatenated
  <2>3. QED BY <1>5, <2>2
<1>15. ~c[1].hdr => e = c \o d
  <2>1. SUFFICES ASSUME ~c[1].hdr PROVE b = c
    OBVIOUS
  <2>2. v = c[1].plen
    BY <1>13, <2>1
  <2>3. [c[1] EXCEPT !.plen = v] = c[1]
    BY <1>1, <2>2 DEF Mbuf
  <2>4. \A i \in 1..Len(c) : i = 1 \/ i \in 2..Len(c)
    BY <1>1
  <2>5. \A i \in 1..Len(b) : b[i] = c[i]
    BY <1>5, <2>3, <2>4
  <2>6. QED BY <1>5, <2>5, SeqEqual
<1> HIDE DEF e
<1>10. \A i \in 1..Len(c) : e[i] = b[i] /\ i \in 1..Len(e)
  BY <1>1, <1>8
<1>11. \A i \in 1..Len(e) : i > Len(c) => i - Len(c) \in 1..Len(d) /\ e[i] = d[i - Len(c)]
  BY <1>1, <1>8
<1>12. NoBoth(c) /\ NoBoth(d) => NoBoth(e)
  <2>1. \A i \in 1..Len(e) : i \in 1..Len(c) \/ i > Len(c)
    BY <1>1, <1>8
  <2>2. QED BY <1>7, <1>10, <1>11, <2>1 DEF NoBoth
<1>16. \A i \in 1..Len(e) : /\ i <= Len(c) => get_total_len(e[i]) = get_total_len(c[i])
                            /\ i > Len(c) => e[i] = d[i - Len(c)]
  <2>1. \A i \in 1..Len(e) : i <= Len(c) => i \in 1..Len(c)
    BY <1>1, <1>8
  <2>2. QED BY <1>7, <1>10, <1>11, <2>1 DEF get_total_len
<1>17. e[1].hdr = c[1].hdr /\ (c[1].hdr => e[1].plen = c[1].plen + added)
  BY <1>1, <1>4, <1>6, <1>10
<1>18. \A i \in 1..Len(c) : e[i].bytes = c[i].bytes
  BY <1>7, <1>10
<1>19. c[1].hdr => e[1].plen = c[1].plen + (IF d[1].hdr THEN d[1].plen ELSE Total(d))
  BY <1>17 DEF added
<1>20. e \in Seq(Mbuf) /\ Len(e) = Len(c) + Len(d)
  BY <1>8
<1>21. Appended(e, c, d)
  BY <1>9, <1>12, <1>15, <1>16, <1>17, <1>18, <1>19, <1>20 DEF Appended
<1>22. QED BY <1>3, <1>21

-----------------------------------------------------------------------------
(* Rooms, by which m_copyback finds its place.                             *)

Rooms(c) == [i \in 1..Len(c) |-> get_total_len(c[i])]

RoomStarts(c) == [i \in 0..Len(c) |-> RoomUpto(c, i)]

LEMMA RoomFacts ==
  ASSUME NEW m \in Mbuf
  PROVE  get_total_len(m) \in Nat /\ get_total_len(m) > 0
BY MbufFields, SizesAreNumbers DEF get_total_len

\* RoomUpto is a sum.
LEMMA RoomSum ==
  ASSUME NEW c \in Seq(Mbuf), NEW k \in 0..Len(c)
  PROVE  \E f : IsSum(f, k, Rooms(SubSeq(c, 1, k))) /\ RoomUpto(c, k) = f[k]
<1> DEFINE e == SubSeq(c, 1, k)
           w == Rooms(e)
           Q(it) == it = [s \in SUBSET DOMAIN e |->
                            IF s = {} THEN 0 ELSE it[s \ {Max(s)}] + get_total_len(e[Max(s)])]
<1>1. k \in Nat /\ e \in Seq(Mbuf) /\ Len(e) = k
  <2>1. Len(c) \in Nat /\ 0 \in Nat /\ k \in Nat /\ 0 + k <= Len(c) /\ 0 + 1 = 1 /\ 0 + k = k
    BY ChainFacts
  <2>2. SubSeq(c, 0 + 1, 0 + k) \in Seq(Mbuf) /\ Len(SubSeq(c, 0 + 1, 0 + k)) = k
    BY <2>1, PartOf
  <2>3. QED BY <2>1, <2>2
<1>2. RoomUpto(c, k) = (CHOOSE it : Q(it))[DOMAIN e]
  BY DEF RoomUpto, FoldLeft, MapThenFoldSet
<1> HIDE DEF e
<1>3. DOMAIN e = 1..k /\ w \in [1..k -> Nat] /\ \A i \in 1..k : w[i] = get_total_len(e[i])
  BY <1>1, ChainFacts, RoomFacts DEF Rooms
<1>4. ASSUME NEW it PROVE Q(it) <=> it = SumStep(it, k, w)
  <2>1. ASSUME NEW s \in SUBSET (1..k), s # {}
        PROVE  w[Max(s)] = get_total_len(e[Max(s)])
    <3>1. s \in SUBSET (0..k)
      OBVIOUS
    <3>2. Max(s) \in 1..k
      BY <1>1, <2>1, <3>1, MaxFacts
    <3>3. QED BY <1>3, <3>2
  <2> HIDE DEF w
  <2> DEFINE a == [s \in SUBSET (1..k) |->
                     IF s = {} THEN 0 ELSE it[s \ {Max(s)}] + get_total_len(e[Max(s)])]
             b == [s \in SUBSET (1..k) |-> IF s = {} THEN 0 ELSE it[s \ {Max(s)}] + w[Max(s)]]
  <2>2. a = b
    <3>1. \A s \in SUBSET (1..k) : a[s] = b[s]
      BY <2>1
    <3>2. QED BY <3>1
  <2>3. QED BY <1>3, <2>2 DEF SumStep
<1> HIDE DEF w
<1>5. PICK it : it = SumStep(it, k, w)
  BY <1>1, <1>3, SumExists
<1> DEFINE j == CHOOSE x : Q(x)
<1>6. Q(j)
  BY <1>4, <1>5
<1>7. j = SumStep(j, k, w)
  BY <1>4, <1>6
<1> HIDE DEF j
<1>8. PICK f : IsSum(f, k, w) /\ j[1..k] = f[k]
  BY <1>1, <1>3, <1>7, SumValue
<1>9. QED BY <1>2, <1>3, <1>8 DEF j, w, e

LEMMA RoomUptoFacts ==
  ASSUME NEW c \in Seq(Mbuf)
  PROVE  /\ RoomUpto(c, 0) = 0
         /\ \A i \in 0..Len(c) : RoomUpto(c, i) \in Nat
         /\ \A i \in 1..Len(c) : /\ i - 1 \in 0..Len(c)
                                 /\ RoomUpto(c, i) = RoomUpto(c, i - 1) + get_total_len(c[i])
         /\ \A i, j \in 0..Len(c) : i <= j => RoomUpto(c, i) <= RoomUpto(c, j)
<1> DEFINE n == Len(c)
           w == Rooms(c)
<1>1. n \in Nat /\ w \in [1..n -> Nat] /\ \A i \in 1..n : w[i] = get_total_len(c[i])
  BY ChainFacts, RoomFacts DEF Rooms
<1>2. PICK f : f \in [0..n -> Nat] /\ IsSum(f, n, w)
  <2>1. PICK it : it = SumStep(it, n, w)
    BY <1>1, SumExists
  <2> HIDE DEF w, n
  <2>2. PICK f : IsSum(f, n, w)
    BY <1>1, <2>1, SumValue
  <2>3. QED BY <2>2 DEF IsSum
<1>3. ASSUME NEW i \in 0..n PROVE RoomUpto(c, i) = f[i]
  <2> DEFINE u == Rooms(SubSeq(c, 1, i))
  <2>1. PICK g : IsSum(g, i, u) /\ RoomUpto(c, i) = g[i]
    BY RoomSum
  <2>2. \A k \in 1..i : u[k] = w[k]
    <3>1. 0 \in Nat /\ i \in Nat /\ 0 + i <= Len(c) /\ 0 + 1 = 1 /\ 0 + i = i
          /\ \A k \in 1..i : 0 + k = k /\ k \in 1..n
      BY <1>1
    <3>2. Len(SubSeq(c, 0 + 1, 0 + i)) = i /\ \A k \in 1..i : SubSeq(c, 0 + 1, 0 + i)[k] = c[0 + k]
      BY <3>1, PartOf
    <3>3. Len(SubSeq(c, 1, i)) = i /\ \A k \in 1..i : SubSeq(c, 1, i)[k] = c[k]
      BY <3>1, <3>2
    <3>4. QED BY <1>1, <3>1, <3>3 DEF Rooms
  <2> HIDE DEF u, w, n
  <2>3. i \in Nat /\ i <= n /\ i <= i
    BY <1>1
  <2>4. g[i] = f[i]
    <3>1. n \in Nat /\ IsSum(g, i, u) /\ IsSum(f, n, w)
      BY <1>1, <1>2, <2>1
    <3>2. i \in Nat /\ i <= n /\ i <= i /\ \A k \in 1..i : u[k] = w[k]
      BY <2>2, <2>3
    <3>3. QED BY <3>1, <3>2, SumUnique
  <2>5. QED BY <2>1, <2>4
<1> HIDE DEF w, n
<1>4. \A i, j \in 0..n : i <= j => f[i] <= f[j]
  BY <1>1, <1>2, SumGrows
<1>5. 0 \in 0..n /\ \A i \in 1..n : i \in 0..n /\ i - 1 \in 0..n
  BY <1>1
<1>6. f[0] = 0 /\ \A i \in 1..n : f[i] = f[i - 1] + w[i]
  BY <1>2 DEF IsSum
<1>7. RoomUpto(c, 0) = 0
  BY <1>3, <1>5, <1>6
<1>8. \A i \in 0..n : RoomUpto(c, i) \in Nat
  BY <1>2, <1>3
<1>9. \A i \in 1..n : i - 1 \in 0..n /\ RoomUpto(c, i) = RoomUpto(c, i - 1) + get_total_len(c[i])
  BY <1>1, <1>3, <1>5, <1>6
<1>10. \A i, j \in 0..n : i <= j => RoomUpto(c, i) <= RoomUpto(c, j)
  BY <1>3, <1>4
<1>11. QED BY <1>7, <1>8, <1>9, <1>10 DEF n

-----------------------------------------------------------------------------
(* Growing by zeroed mbufs.                                                *)

ZeroMbuf == [MGET EXCEPT !.bytes = Zeros(MLEN)]

LEMMA ZerosFacts ==
  ASSUME NEW n \in Nat
  PROVE  Zeros(n) \in Seq(Byte) /\ Len(Zeros(n)) = n /\ \A i \in 1..n : Zeros(n)[i] = 0
<1> DEFINE q == [i \in 1..n |-> 0]
<1>1. q \in [1..n -> Byte] /\ \A i \in 1..n : q[i] = 0
  BY DEF Byte
<1> HIDE DEF q
<1>2. q \in Seq(Byte) /\ Len(q) = n
  BY <1>1, SequenceFrom
<1>3. QED BY <1>1, <1>2 DEF Zeros, q

LEMMA ZerosJoin ==
  ASSUME NEW n \in Nat, NEW m \in Nat
  PROVE  Zeros(n) \o Zeros(m) = Zeros(n + m)
<1> DEFINE a == Zeros(n)
           b == Zeros(m)
           e == Zeros(n + m)
<1>1. /\ a \in Seq(Byte) /\ Len(a) = n /\ \A i \in 1..n : a[i] = 0
      /\ b \in Seq(Byte) /\ Len(b) = m /\ \A i \in 1..m : b[i] = 0
      /\ e \in Seq(Byte) /\ Len(e) = n + m /\ \A i \in 1..n + m : e[i] = 0
  BY ZerosFacts
<1> HIDE DEF a, b, e
<1>2. /\ a \o b \in Seq(Byte) /\ Len(a \o b) = Len(a) + Len(b)
      /\ \A i \in 1..Len(a) + Len(b) : (a \o b)[i] = IF i <= Len(a) THEN a[i] ELSE b[i - Len(a)]
  BY <1>1, ConcatProperties
<1> DEFINE o == a \o b
<1> HIDE DEF o
<1>3. o \in Seq(Byte) /\ Len(o) = n + m /\ \A i \in 1..n + m : o[i] = 0
  <2>1. \A i \in 1..n + m : (i <= n => i \in 1..n) /\ (~(i <= n) => i - n \in 1..m)
    OBVIOUS
  <2>2. QED BY <1>1, <1>2, <2>1 DEF o
<1>4. o = e
  BY <1>1, <1>3, SeqEqual
<1>5. QED BY <1>4 DEF o, a, b, e

LEMMA ZeroMbufFacts ==
  /\ ZeroMbuf \in Mbuf /\ ~ZeroMbuf.hdr /\ ~ZeroMbuf.ext /\ ZeroMbuf.bytes = Zeros(MLEN)
  /\ get_total_len(ZeroMbuf) = MLEN /\ NoBoth(<<ZeroMbuf>>)
  /\ Data(<<ZeroMbuf>>) = Zeros(MLEN) /\ Total(<<ZeroMbuf>>) = MLEN
<1>1. Zeros(MLEN) \in Seq(Byte) /\ Len(Zeros(MLEN)) = MLEN
  BY SizesAreNumbers, ZerosFacts
<1>2. /\ ZeroMbuf \in Mbuf /\ ~ZeroMbuf.hdr /\ ~ZeroMbuf.ext
      /\ ZeroMbuf.bytes = Zeros(MLEN)
  <2> DEFINE z == Zeros(MLEN)
  <2> HIDE DEF z
  <2>1. z \in Seq(Byte)
    BY <1>1 DEF z
  <2> DEFINE g == MGET
  <2>2. g \in Mbuf /\ ~g.hdr /\ ~g.ext
    <3>1. <<>> \in Seq(Nat \cup {JUNK})
      OBVIOUS
    <3>2. QED BY <3>1 DEF MGET, Mbuf
  <2>3. ZeroMbuf = [g EXCEPT !.bytes = z]
    BY DEF ZeroMbuf, z
  <2> HIDE DEF g
  <2>4. QED BY <2>1, <2>2, <2>3 DEF Mbuf, Byte, z
<1>3. get_total_len(ZeroMbuf) = MLEN
  BY <1>2 DEF get_total_len
<1> HIDE DEF ZeroMbuf
<1>4. /\ <<ZeroMbuf>> \in Seq(Mbuf) /\ Len(<<ZeroMbuf>>) = 1 /\ <<ZeroMbuf>>[1] = ZeroMbuf
      /\ Data(<<ZeroMbuf>>) = ZeroMbuf.bytes /\ Total(<<ZeroMbuf>>) = Len(ZeroMbuf.bytes)
  BY <1>2, One
<1>5. NoBoth(<<ZeroMbuf>>)
  BY <1>2, <1>4 DEF NoBoth
<1>6. QED BY <1>1, <1>2, <1>3, <1>4, <1>5

\* Rooms count up to where they are the same.
LEMMA SameRooms ==
  ASSUME NEW c \in Seq(Mbuf), NEW d \in Seq(Mbuf), NEW n \in Nat, n <= Len(c), n <= Len(d),
         \A i \in 1..n : get_total_len(c[i]) = get_total_len(d[i])
  PROVE  RoomUpto(c, n) = RoomUpto(d, n)
<1> DEFINE T == {k \in 0..n : RoomUpto(c, k) = RoomUpto(d, k)}
<1>1. 0 \in T
  BY RoomUptoFacts
<1>2. ASSUME NEW k \in 0..n, k \in T, k < n PROVE k + 1 \in T
  <2>1. /\ Len(c) \in Nat /\ Len(d) \in Nat
        /\ k + 1 \in 1..Len(c) /\ k + 1 \in 1..Len(d) /\ k + 1 \in 1..n /\ (k + 1) - 1 = k
    BY <1>2, ChainFacts
  <2>2. /\ RoomUpto(c, k + 1) = RoomUpto(c, k) + get_total_len(c[k + 1])
        /\ RoomUpto(d, k + 1) = RoomUpto(d, k) + get_total_len(d[k + 1])
    BY <2>1, RoomUptoFacts
  <2>3. QED BY <1>2, <2>1, <2>2
<1> HIDE DEF T
<1>3. \A k \in 0..n : k \in T
  BY <1>1, <1>2, UpTo
<1>4. QED BY <1>3 DEF T

\* e is c with z zero bytes in k mbufs behind it.
Grown(e, c, k, z) ==
  /\ e \in Seq(Mbuf) /\ Len(e) = Len(c) + k
  /\ Data(e) = Data(c) \o Zeros(z) /\ Total(e) = Total(c) + z
  /\ NoBoth(c) => NoBoth(e)
  /\ e[1].hdr = c[1].hdr /\ (c[1].hdr => e[1].plen = c[1].plen + z)
  /\ RoomUpto(e, Len(e)) = RoomUpto(c, Len(c)) + z
  /\ \A i \in 1..Len(c) : e[i].bytes = c[i].bytes

LEMMA NotGrown ==
  ASSUME NEW c \in Seq(Mbuf), Len(c) > 0
  PROVE  Grown(c, c, 0, 0)
<1>1. Len(c) \in Nat /\ Total(c) \in Nat /\ RoomUpto(c, Len(c)) \in Nat /\ 1 \in 1..Len(c)
  <2>1. Len(c) \in Nat
    BY ChainFacts
  <2>2. Len(c) \in 0..Len(c) /\ 1 \in 1..Len(c)
    BY <2>1
  <2>3. QED BY <2>1, <2>2, UptoFacts, RoomUptoFacts
<1>2. c[1] \in Mbuf /\ c[1].plen \in Int
  BY <1>1, ChainFacts, MbufFields
<1>3. Zeros(0) = <<>>
  BY ZerosFacts, EmptySeq
<1>4. Data(c) \o Zeros(0) = Data(c)
  <2>1. Data(c) \in Seq(Byte)
    BY Layout
  <2>2. QED BY <1>3, <2>1, ConcatEmptySeq
<1>5. QED BY <1>1, <1>2, <1>4 DEF Grown

LEMMA GrowsOnce ==
  ASSUME NEW c \in Seq(Mbuf), Len(c) > 0, NEW e, NEW k \in Nat, NEW z \in Nat,
         Grown(e, c, k, z)
  PROVE  Grown(m_cat(e, <<ZeroMbuf>>), c, k + 1, z + MLEN)
<1> DEFINE d == <<ZeroMbuf>>
           f == m_cat(e, d)
<1>1. /\ d \in Seq(Mbuf) /\ Len(d) = 1 /\ d[1] = ZeroMbuf /\ ~d[1].hdr /\ NoBoth(d)
      /\ Data(d) = Zeros(MLEN) /\ Total(d) = MLEN /\ get_total_len(d[1]) = MLEN
  BY ZeroMbufFacts, One
<1> HIDE DEF d
<1>2. /\ e \in Seq(Mbuf) /\ Len(e) = Len(c) + k /\ Len(c) \in Nat /\ Len(e) > 0 /\ Len(d) > 0
      /\ MLEN \in Nat
  BY <1>1, ChainFacts, SizesAreNumbers DEF Grown
<1>3. Appended(f, e, d)
  BY <1>1, <1>2, CatFacts
<1> HIDE DEF f
<1>4. f \in Seq(Mbuf) /\ Len(f) = Len(c) + (k + 1) /\ Len(f) = Len(e) + 1
  BY <1>1, <1>2, <1>3 DEF Appended
<1>5. Data(f) = Data(c) \o Zeros(z + MLEN)
  <2>1. Data(f) = (Data(c) \o Zeros(z)) \o Zeros(MLEN)
    BY <1>1, <1>3 DEF Appended, Grown
  <2>2. Data(c) \in Seq(Byte) /\ Zeros(z) \in Seq(Byte) /\ Zeros(MLEN) \in Seq(Byte)
    BY <1>2, Layout, ZerosFacts
  <2>3. (Data(c) \o Zeros(z)) \o Zeros(MLEN) = Data(c) \o (Zeros(z) \o Zeros(MLEN))
    <3> DEFINE x == Data(c)
               y == Zeros(z)
               w == Zeros(MLEN)
    <3>1. x \in Seq(Byte) /\ y \in Seq(Byte) /\ w \in Seq(Byte)
      BY <2>2
    <3> HIDE DEF x, y, w
    <3>2. (x \o y) \o w = x \o (y \o w)
      BY <3>1, BytesJoin
    <3>3. QED BY <3>2 DEF x, y, w
  <2>4. Zeros(z) \o Zeros(MLEN) = Zeros(z + MLEN)
    BY <1>2, ZerosJoin
  <2>5. QED BY <2>1, <2>3, <2>4
<1>6. Total(f) = Total(c) + (z + MLEN)
  <2>1. Total(f) = Total(e) + MLEN /\ Total(e) = Total(c) + z /\ Total(c) \in Nat
    BY <1>1, <1>3, UptoFacts DEF Appended, Grown
  <2>2. QED BY <1>2, <2>1
<1>7. NoBoth(c) => NoBoth(f)
  BY <1>1, <1>3 DEF Appended, Grown
<1>8. 1 \in 1..Len(c) /\ c[1] \in Mbuf /\ c[1].plen \in Int
  <2>1. 1 \in 1..Len(c)
    BY <1>2
  <2>2. QED BY <2>1, ChainFacts, MbufFields
<1>9. f[1].hdr = c[1].hdr /\ (c[1].hdr => f[1].plen = c[1].plen + (z + MLEN))
  <2>1. f[1].hdr = e[1].hdr /\ e[1].hdr = c[1].hdr
    BY <1>3 DEF Appended, Grown
  <2>2. ASSUME c[1].hdr PROVE f[1].plen = c[1].plen + (z + MLEN)
    <3>1. f[1].plen = e[1].plen + MLEN /\ e[1].plen = c[1].plen + z
      BY <1>1, <1>3, <2>1, <2>2 DEF Appended, Grown
    <3>2. QED BY <1>2, <1>8, <3>1
  <2>3. QED BY <2>1, <2>2
<1>10. RoomUpto(f, Len(f)) = RoomUpto(c, Len(c)) + (z + MLEN)
  <2>1. Len(e) \in Nat /\ Len(e) <= Len(e) /\ Len(e) <= Len(f) /\ Len(f) \in 1..Len(f)
        /\ Len(f) - 1 = Len(e) /\ \A i \in 1..Len(e) : i \in 1..Len(f) /\ i <= Len(e)
    BY <1>2, <1>4
  <2>2. \A i \in 1..Len(e) : get_total_len(f[i]) = get_total_len(e[i])
    BY <1>3, <2>1 DEF Appended
  <2>3. RoomUpto(f, Len(e)) = RoomUpto(e, Len(e))
    BY <1>2, <1>4, <2>1, <2>2, SameRooms
  <2>4. f[Len(f)] = d[1]
    <3>1. Len(f) > Len(e) /\ Len(f) - Len(e) = 1
      BY <1>2, <1>4
    <3>2. QED BY <1>3, <2>1, <3>1 DEF Appended
  <2>5. RoomUpto(f, Len(f)) = RoomUpto(f, Len(e)) + MLEN
    BY <1>1, <1>4, <2>1, <2>4, RoomUptoFacts
  <2>6. RoomUpto(c, Len(c)) \in Nat
    <3>1. Len(c) \in 0..Len(c)
      BY <1>2
    <3>2. QED BY <3>1, RoomUptoFacts
  <2>7. RoomUpto(e, Len(e)) = RoomUpto(c, Len(c)) + z
    BY DEF Grown
  <2>8. QED BY <1>2, <2>3, <2>5, <2>6, <2>7
<1>11. \A i \in 1..Len(c) : f[i].bytes = c[i].bytes
  <2>1. \A i \in 1..Len(c) : i \in 1..Len(e)
    BY <1>2
  <2>2. QED BY <1>3, <2>1 DEF Appended, Grown
<1>12. Grown(f, c, k + 1, z + MLEN)
  BY <1>4, <1>5, <1>6, <1>7, <1>9, <1>10, <1>11 DEF Grown
<1>13. QED BY <1>12 DEF f, d

\* The fold of Extended.
GrowFold(c, n) ==
  FoldLeft(LAMBDA d, z : m_cat(d, <<z>>), c, [i \in 1..n |-> ZeroMbuf])

LEMMA GrowFoldFacts ==
  ASSUME NEW c \in Seq(Mbuf), Len(c) > 0, NEW n \in Nat
  PROVE  Grown(GrowFold(c, n), c, n, n * MLEN) /\ (n = 0 => GrowFold(c, n) = c)
<1> DEFINE q == [i \in 1..n |-> ZeroMbuf]
           V == {d \in Seq(Mbuf) : Len(d) > 0}
           g == [x \in (1..n) \X V |-> m_cat(x[2], <<ZeroMbuf>>)]
           Q(it) == it = [s \in SUBSET DOMAIN q |->
                            IF s = {} THEN c ELSE m_cat(it[s \ {Max(s)}], <<q[Max(s)]>>)]
<1>1. GrowFold(c, n) = (CHOOSE it : Q(it))[DOMAIN q]
  BY DEF GrowFold, FoldLeft, MapThenFoldSet
<1>2. DOMAIN q = 1..n /\ \A i \in 1..n : q[i] = ZeroMbuf
  OBVIOUS
<1>3. c \in V
  OBVIOUS
<1>4. g \in [(1..n) \X V -> V]
  <2>1. ASSUME NEW x \in (1..n) \X V PROVE m_cat(x[2], <<ZeroMbuf>>) \in V
    <3> DEFINE e == x[2]
               d == <<ZeroMbuf>>
    <3>1. e \in Seq(Mbuf) /\ Len(e) > 0 /\ d \in Seq(Mbuf) /\ Len(d) = 1 /\ Len(d) > 0
      BY ZeroMbufFacts, One
    <3> HIDE DEF e, d
    <3>2. Appended(m_cat(e, d), e, d)
      BY <3>1, CatFacts
    <3>3. Len(e) \in Nat
      BY <3>1, ChainFacts
    <3>4. m_cat(e, d) \in V
      BY <3>1, <3>2, <3>3 DEF Appended
    <3>5. QED BY <3>4 DEF e, d
  <2> HIDE DEF V
  <2>2. QED BY <2>1
<1>5. ASSUME NEW it, NEW s \in SUBSET (1..n), s # {}
      PROVE  m_cat(it[s \ {Max(s)}], <<q[Max(s)]>>) = m_cat(it[s \ {Max(s)}], <<ZeroMbuf>>)
  <2>1. s \in SUBSET (0..n)
    OBVIOUS
  <2>2. Max(s) \in 1..n
    BY <1>5, <2>1, MaxFacts
  <2>3. q[Max(s)] = ZeroMbuf
    BY <1>2, <2>2
  <2> HIDE DEF q
  <2>4. QED BY <2>3
<1> DEFINE R(it) == it = [s \in SUBSET (1..n) |->
                            IF s = {} THEN c ELSE m_cat(it[s \ {Max(s)}], <<ZeroMbuf>>)]
<1>6. ASSUME NEW it PROVE Q(it) <=> R(it)
  <2> DEFINE a == [s \in SUBSET (1..n) |->
                     IF s = {} THEN c ELSE m_cat(it[s \ {Max(s)}], <<q[Max(s)]>>)]
             b == [s \in SUBSET (1..n) |->
                     IF s = {} THEN c ELSE m_cat(it[s \ {Max(s)}], <<ZeroMbuf>>)]
  <2>1. \A s \in SUBSET (1..n) : a[s] = b[s]
    <3> HIDE DEF q
    <3>1. QED BY <1>5
  <2>2. a = b
    BY <2>1
  <2>3. Q(it) <=> it = a
    BY <1>2
  <2>4. QED BY <2>2, <2>3
<1>7. PICK it \in [SUBSET (1..n) -> V] : Folds(it, n, c, g)
  <2> HIDE DEF V, g
  <2>1. QED BY <1>3, <1>4, FoldExists
<1>8. R(it)
  <2>1. ASSUME NEW s \in SUBSET (1..n), s # {}
        PROVE  g[<<Max(s), it[s \ {Max(s)}]>>] = m_cat(it[s \ {Max(s)}], <<ZeroMbuf>>)
    <3>1. s \in SUBSET (0..n)
      OBVIOUS
    <3>2. Max(s) \in 1..n
      BY <2>1, <3>1, MaxFacts
    <3>3. it[s \ {Max(s)}] \in V
      <4> HIDE DEF V
      <4>1. s \ {Max(s)} \in SUBSET (1..n)
        OBVIOUS
      <4>2. QED BY <4>1
    <3> HIDE DEF V
    <3>4. QED BY <3>2, <3>3
  <2> DEFINE a == [s \in SUBSET (1..n) |->
                     IF s = {} THEN c ELSE g[<<Max(s), it[s \ {Max(s)}]>>]]
             b == [s \in SUBSET (1..n) |->
                     IF s = {} THEN c ELSE m_cat(it[s \ {Max(s)}], <<ZeroMbuf>>)]
  <2>2. \A s \in SUBSET (1..n) : a[s] = b[s]
    <3> HIDE DEF g, V
    <3>1. QED BY <2>1
  <2>3. a = b
    BY <2>2
  <2>4. it = a
    BY <1>7 DEF Folds
  <2>5. QED BY <2>3, <2>4
<1> DEFINE j == CHOOSE x : Q(x)
<1>9. R(j)
  <2>1. Q(j)
    <3> HIDE DEF Q, R
    <3>1. Q(it)
      BY <1>6, <1>8
    <3>2. QED BY <3>1
  <2>2. QED BY <1>6, <2>1
<1> HIDE DEF j, Q, q, g, V
<1> DEFINE T == {k \in 0..n : Grown(j[1..k], c, k, k * MLEN)}
<1>14. j[1..0] = c
  <2>1. 1..0 = {} /\ {} \in SUBSET (1..n)
    OBVIOUS
  <2>2. QED BY <1>9, <2>1
<1>10. 0 \in T
  <2>1. 0 * MLEN = 0
    BY SizesAreNumbers
  <2>2. QED BY <1>14, <2>1, NotGrown
<1>11. ASSUME NEW k \in 0..n, k \in T, k < n PROVE k + 1 \in T
  <2> DEFINE s == 1..(k + 1)
  <2>1. k + 1 \in Nat /\ k + 1 # 0 /\ (k + 1) - 1 = k /\ k \in Nat /\ k + 1 \in 0..n
    BY <1>11
  <2>2. s # {} /\ Max(s) = k + 1 /\ s \ {k + 1} = 1..k /\ s \in SUBSET (1..n)
    <3>1. 1..(k + 1) \in SUBSET (1..n)
      BY <2>1
    <3>2. QED BY <2>1, <3>1, MaxOfInterval
  <2> HIDE DEF s
  <2>3. j[s] = m_cat(j[1..k], <<ZeroMbuf>>)
    BY <1>9, <2>2
  <2>4. MLEN \in Nat /\ k * MLEN \in Nat /\ (k + 1) * MLEN = k * MLEN + MLEN
    BY <2>1, SizesAreNumbers, Products
  <2>5. Grown(j[1..k], c, k, k * MLEN)
    BY <1>11
  <2> DEFINE z == k * MLEN
             e == j[1..k]
  <2> HIDE DEF z, e, T
  <2>6. Grown(m_cat(e, <<ZeroMbuf>>), c, k + 1, z + MLEN)
    BY <2>1, <2>4, <2>5, GrowsOnce DEF z, e
  <2>7. Grown(j[s], c, k + 1, (k + 1) * MLEN)
    BY <2>3, <2>4, <2>6 DEF z, e
  <2>8. QED BY <2>1, <2>7 DEF T, s
<1> HIDE DEF T
<1>12. n \in T
  <2>1. n \in 0..n
    OBVIOUS
  <2>2. QED BY <1>10, <1>11, <2>1, UpTo
<1>13. QED BY <1>1, <1>2, <1>12, <1>14 DEF T, j

\* Extended appends enough zeros, and none when nothing is missing.
LEMMA ExtendedFacts ==
  ASSUME NEW c \in Seq(Mbuf), Len(c) > 0, NEW missing \in Int
  PROVE  /\ \E k, z \in Nat : Grown(Extended(c, missing), c, k, z) /\ z >= missing
         /\ missing <= 0 => Extended(c, missing) = c
<1> DEFINE count == IF missing > 0 THEN (missing + MLEN - 1) \div MLEN ELSE 0
<1>1. Extended(c, missing) = GrowFold(c, count)
  BY DEF Extended, GrowFold, ZeroMbuf
<1>2. count \in Nat /\ count * MLEN \in Nat /\ count * MLEN >= missing
  <2>1. MLEN \in Nat /\ MLEN > 0
    BY SizesAreNumbers
  <2>2. CASE missing > 0
    <3>1. missing \in Nat
      BY <2>2
    <3>2. PICK q \in Nat : count = q + 1 /\ missing <= (q + 1) * MLEN
      BY <2>1, <2>2, <3>1, Ceiling
    <3> HIDE DEF count
    <3>3. count \in Nat
      BY <3>2
    <3>4. count * MLEN \in Nat
      BY <2>1, <3>3, Products
    <3>5. count * MLEN >= missing
      BY <3>2
    <3>6. QED BY <3>3, <3>4, <3>5
  <2>3. CASE ~(missing > 0)
    <3>1. count = 0 /\ 0 * MLEN = 0
      BY <2>1, <2>3
    <3> HIDE DEF count
    <3>2. QED BY <2>3, <3>1
  <2>4. QED BY <2>2, <2>3
<1>3. missing <= 0 => count = 0
  OBVIOUS
<1> HIDE DEF count
<1>4. Grown(GrowFold(c, count), c, count, count * MLEN)
  BY <1>2, GrowFoldFacts
<1>5. missing <= 0 => GrowFold(c, count) = c
  BY <1>2, <1>3, GrowFoldFacts
<1>6. QED BY <1>1, <1>2, <1>4, <1>5

-----------------------------------------------------------------------------
(* Writing.                                                                *)

\* The mbuf at which the rooms reach x.
RoomAt(c, x) == Min({i \in DOMAIN c : RoomUpto(c, i) >= x})

LEMMA RoomAtFacts ==
  ASSUME NEW c \in Seq(Mbuf), Len(c) > 0, NEW x \in Nat, x <= RoomUpto(c, Len(c))
  PROVE  /\ RoomAt(c, x) \in 1..Len(c) /\ RoomUpto(c, RoomAt(c, x)) >= x
         /\ \A i \in 1..Len(c) : i < RoomAt(c, x) => RoomUpto(c, i) < x
<1> DEFINE T == {i \in DOMAIN c : RoomUpto(c, i) >= x}
<1>1. Len(c) \in Nat /\ DOMAIN c = 1..Len(c) /\ Len(c) \in 1..Len(c)
  BY ChainFacts
<1>2. \A i \in 1..Len(c) : i \in 0..Len(c) /\ RoomUpto(c, i) \in Nat
  BY <1>1, RoomUptoFacts
<1>3. T \in SUBSET Nat /\ T # {}
  <2>1. Len(c) \in T
    BY <1>1, <1>2
  <2>2. QED BY <1>1, <2>1
<1>4. Min(T) \in T /\ \A y \in T : Min(T) <= y
  BY <1>3, MinFacts
<1> DEFINE k == Min(T)
<1>5. k = RoomAt(c, x)
  BY DEF RoomAt
<1>6. k \in 1..Len(c) /\ RoomUpto(c, k) >= x
  BY <1>1, <1>4
<1>7. \A i \in 1..Len(c) : i < k => RoomUpto(c, i) < x
  <2>1. ASSUME NEW i \in 1..Len(c), i < k PROVE ~(i \in T)
    <3> HIDE DEF T
    <3>1. i \in T => k <= i
      BY <1>4
    <3> HIDE DEF k
    <3>2. QED BY <1>1, <1>6, <2>1, <3>1
  <2>2. QED BY <1>1, <1>2, <2>1
<1> HIDE DEF k
<1>8. QED BY <1>5, <1>6, <1>7

\* Copying into an mbuf leaves an mbuf, of the same kind.
LEMMA CopyIntoFacts ==
  ASSUME NEW m \in Mbuf, NEW offset \in Nat, NEW len \in Nat, NEW cp \in Seq(Byte),
         offset <= get_total_len(m), len <= Len(cp)
  PROVE  /\ CopyInto(m, offset, len, cp) \in Mbuf
         /\ CopyInto(m, offset, len, cp).hdr = m.hdr
         /\ CopyInto(m, offset, len, cp).ext = m.ext
<1> DEFINE room == get_total_len(m)
           n == Min({room - offset, len})
           old == IF m.bytes = <<>> THEN Zeros(offset) ELSE m.bytes
           m_len == IF Len(old) < offset + len THEN Min({room, offset + len}) ELSE Len(old)
           q == [b \in 1..m_len |->
                  IF b > offset /\ b <= offset + n THEN cp[b - offset]
                  ELSE IF b <= Len(old) THEN old[b] ELSE JUNK]
<1>1. room \in Nat /\ m.bytes \in Seq(Byte) /\ Zeros(offset) \in Seq(Byte)
  BY RoomFacts, MbufFields, ZerosFacts
<1>2. old \in Seq(Byte) /\ Len(old) \in Nat /\ \A b \in 1..Len(old) : old[b] \in Byte
  <2>1. old \in Seq(Byte)
    BY <1>1
  <2> HIDE DEF old
  <2>2. QED BY <2>1, LenProperties
<1>3. Len(cp) \in Nat /\ \A b \in 1..Len(cp) : cp[b] \in Byte
  BY LenProperties
<1> HIDE DEF old
<1>4. n \in Nat /\ n <= Len(cp)
  <2>1. room - offset \in Int /\ room - offset >= 0
    BY <1>1 DEF room
  <2> HIDE DEF room
  <2>2. n = IF room - offset <= len THEN room - offset ELSE len
    BY <2>1, MinMaxOfTwo
  <2>3. QED BY <1>3, <2>1, <2>2
<1>5. m_len \in Nat
  <2> DEFINE y == offset + len
  <2>1. y \in Nat
    OBVIOUS
  <2> HIDE DEF y, room
  <2>2. Min({room, y}) = IF room <= y THEN room ELSE y
    BY <1>1, <2>1, MinMaxOfTwo
  <2>3. Min({room, y}) \in Nat
    BY <1>1, <2>1, <2>2
  <2>4. QED BY <1>2, <2>3 DEF y
<1> HIDE DEF n, m_len
<1>6. q \in [1..m_len -> Byte]
  <2>1. ASSUME NEW b \in 1..m_len
        PROVE  (IF b > offset /\ b <= offset + n THEN cp[b - offset]
                ELSE IF b <= Len(old) THEN old[b] ELSE JUNK) \in Byte
    <3>1. b > offset /\ b <= offset + n => b - offset \in 1..Len(cp)
      BY <1>3, <1>4
    <3>2. b <= Len(old) => b \in 1..Len(old)
      BY <1>2
    <3>3. JUNK \in Byte
      BY DEF Byte
    <3>4. QED BY <1>2, <1>3, <3>1, <3>2, <3>3
  <2>2. QED BY <2>1
<1>7. CopyInto(m, offset, len, cp) = [m EXCEPT !.bytes = q]
  BY DEF CopyInto, old, n, m_len
<1> HIDE DEF q
<1>8. q \in Seq(Nat \cup {JUNK})
  <2>1. q \in Seq(Byte)
    BY <1>5, <1>6, SequenceFrom
  <2>2. QED BY <2>1 DEF Byte
<1>9. QED BY <1>7, <1>8 DEF Mbuf

\* d has the mbufs of c with other bytes.
SameKinds(c, d) ==
  /\ d \in Seq(Mbuf) /\ Len(d) = Len(c) /\ SameFlags(c, d)

LEMMA CopybackFacts ==
  ASSUME NEW c \in Seq(Mbuf), Len(c) > 0, NEW offset \in Nat,
         offset <= RoomUpto(c, Len(c)), NEW cp \in Seq(Byte)
  PROVE  LET d == m_copyback(c, offset, cp)
         IN  /\ d \in Seq(Mbuf) /\ Len(d) > 0
             /\ NoBoth(c) => NoBoth(d)
             /\ d[1].hdr = c[1].hdr
<1> DEFINE len == Len(cp)
           source == Extended(c, offset + len - RoomUpto(c, Len(c)))
           first == RoomAt(source, offset)
           last == RoomAt(source, offset + len)
           d == [i \in DOMAIN source |->
                  IF i < first \/ i > last THEN source[i]
                  ELSE IF i = first
                    THEN CopyInto(source[i], offset - RoomUpto(source, i - 1), len, cp)
                    ELSE CopyInto(source[i], 0, offset + len - RoomUpto(source, i - 1), cp)]
<1>1. CASE len = 0
  <2>1. m_copyback(c, offset, cp) = c
    BY <1>1 DEF m_copyback
  <2>2. QED BY <2>1
<1>2. CASE len # 0
  <2>1. m_copyback(c, offset, cp) = d
    BY <1>2 DEF m_copyback, RoomAt
  <2>2. len \in Nat /\ RoomUpto(c, Len(c)) \in Nat /\ Len(c) \in Nat
    <3>1. Len(c) \in Nat
      BY ChainFacts
    <3>2. Len(c) \in 0..Len(c)
      BY <3>1
    <3>3. QED BY <3>1, <3>2, RoomUptoFacts, LenProperties
  <2> DEFINE total == RoomUpto(c, Len(c))
  <2> HIDE DEF len, total
  <2>3. PICK k, z \in Nat : Grown(source, c, k, z) /\ z >= (offset + len) - total
    <3>1. (offset + len) - total \in Int
      BY <2>2 DEF total
    <3>2. source = Extended(c, (offset + len) - total)
      <4>1. offset + len - total = (offset + len) - total
        BY <2>2 DEF total
      <4>2. QED BY <4>1 DEF total
    <3>3. QED BY <3>1, <3>2, ExtendedFacts
  <2> HIDE DEF source
  <2>4. /\ source \in Seq(Mbuf) /\ Len(source) > 0 /\ Len(source) \in Nat
        /\ (NoBoth(c) => NoBoth(source)) /\ source[1].hdr = c[1].hdr
        /\ DOMAIN source = 1..Len(source)
    BY <2>2, <2>3, ChainFacts DEF Grown
  <2>5. offset <= RoomUpto(source, Len(source)) /\ offset + len <= RoomUpto(source, Len(source))
    <3>1. RoomUpto(source, Len(source)) = total + z
      BY <2>3 DEF Grown, total
    <3>2. total \in Nat /\ offset <= total
      BY <2>2 DEF total
    <3>3. offset <= total + z /\ offset + len <= total + z
      BY <2>2, <2>3, <3>2
    <3>4. QED BY <3>1, <3>3
  <2>6. /\ first \in 1..Len(source) /\ RoomUpto(source, first) >= offset
        /\ \A i \in 1..Len(source) : i < first => RoomUpto(source, i) < offset
    BY <2>4, <2>5, RoomAtFacts
  <2>7. /\ last \in 1..Len(source)
        /\ \A i \in 1..Len(source) : i < last => RoomUpto(source, i) < offset + len
    <3>1. offset + len \in Nat
      BY <2>2
    <3>2. QED BY <2>4, <2>5, <3>1, RoomAtFacts
  <2> HIDE DEF first, last
  <2>8. ASSUME NEW i \in 1..Len(source)
        PROVE  d[i] \in Mbuf /\ d[i].hdr = source[i].hdr /\ d[i].ext = source[i].ext
    <3>1. source[i] \in Mbuf
      BY <2>4, ChainFacts
    <3>2. CASE i < first \/ i > last
      <4>1. d[i] = source[i]
        BY <2>4, <3>2
      <4>2. QED BY <3>1, <4>1
    <3>3. CASE ~(i < first \/ i > last)
      <4> DEFINE b == RoomUpto(source, i - 1)
                 room == get_total_len(source[i])
      <4>1. /\ i - 1 \in 0..Len(source) /\ b \in Nat
            /\ RoomUpto(source, i) = b + room /\ room \in Nat
        BY <2>4, <3>1, RoomFacts, RoomUptoFacts
      <4> HIDE DEF b, room
      <4>2. CASE i = first
        <5>1. b <= offset
          <6>1. CASE i = 1
            <7>1. i - 1 = 0
              BY <6>1
            <7>2. b = 0
              BY <2>4, <7>1, RoomUptoFacts DEF b
            <7>3. QED BY <7>2
          <6>2. CASE i # 1
            <7>1. i - 1 \in 1..Len(source) /\ i - 1 < first
              BY <2>4, <2>6, <4>2, <6>2
            <7>2. b < offset
              BY <2>6, <7>1 DEF b
            <7>3. QED BY <4>1, <7>2
          <6>3. QED BY <6>1, <6>2
        <5>2. b + room >= offset
          BY <2>6, <4>1, <4>2
        <5> DEFINE o == offset - b
        <5>3. o \in Nat /\ o <= room
          BY <4>1, <5>1, <5>2
        <5>4. d[i] = CopyInto(source[i], o, len, cp)
          BY <2>4, <3>3, <4>2 DEF b
        <5> HIDE DEF o, d
        <5>5. len <= Len(cp)
          BY <2>2 DEF len
        <5>6. QED BY <2>2, <3>1, <5>3, <5>4, <5>5, CopyIntoFacts DEF room
      <4>3. CASE i # first
        <5>1. /\ i > first /\ i <= last /\ i - 1 \in 1..Len(source) /\ i - 1 < last
              /\ first \in 0..Len(source) /\ first <= i - 1
          BY <2>4, <2>6, <2>7, <3>3, <4>3
        <5>2. RoomUpto(source, first) <= b
          BY <2>4, <4>1, <5>1, RoomUptoFacts DEF b
        <5>3. b < offset + len
          BY <2>7, <5>1 DEF b
        <5>4. offset <= b
          <6> DEFINE y == RoomUpto(source, first)
          <6>1. y \in Nat /\ y >= offset /\ y <= b
            BY <2>4, <2>6, <5>1, <5>2, RoomUptoFacts
          <6> HIDE DEF y
          <6>2. QED BY <4>1, <6>1
        <5> DEFINE l == (offset + len) - b
        <5>5. l \in Nat /\ l <= len
          BY <2>2, <4>1, <5>3, <5>4
        <5>6. d[i] = CopyInto(source[i], 0, l, cp)
          <6>1. offset + len - b = l
            BY <2>2, <4>1
          <6>2. d[i] = CopyInto(source[i], 0, offset + len - b, cp)
            BY <2>4, <3>3, <4>3 DEF b
          <6> HIDE DEF l, d
          <6>3. QED BY <6>1, <6>2
        <5> HIDE DEF l, d
        <5>7. l <= Len(cp) /\ 0 \in Nat /\ 0 <= room
          BY <4>1, <5>5 DEF len
        <5>8. QED BY <3>1, <5>5, <5>6, <5>7, CopyIntoFacts DEF room
      <4>4. QED BY <4>2, <4>3
    <3>4. QED BY <3>2, <3>3
  <2>9. DOMAIN d = 1..Len(source)
    BY <2>4
  <2> HIDE DEF d
  <2>10. d \in Seq(Mbuf) /\ Len(d) = Len(source)
    <3>1. d \in [1..Len(source) -> Mbuf]
      <4>1. d = [i \in 1..Len(source) |-> d[i]]
        BY <2>4 DEF d
      <4>2. QED BY <2>8, <4>1
    <3>2. QED BY <2>4, <3>1, SequenceFrom
  <2>11. NoBoth(source) => NoBoth(d)
    BY <2>8, <2>10 DEF NoBoth
  <2>12. d[1].hdr = c[1].hdr
    <3>1. 1 \in 1..Len(source)
      BY <2>4
    <3>2. QED BY <2>4, <2>8, <3>1
  <2>13. QED BY <2>1, <2>4, <2>10, <2>11, <2>12 DEF d
<1>3. QED BY <1>1, <1>2

-----------------------------------------------------------------------------
(* Trimming at the end.                                                    *)

\* A chain whose mbufs have no more bytes than those of another one has no
\* more altogether.
LEMMA Shorter ==
  ASSUME NEW c \in Seq(Mbuf), NEW d \in Seq(Mbuf), Len(d) = Len(c),
         \A i \in 1..Len(c) : Len(d[i].bytes) <= Len(c[i].bytes)
  PROVE  Total(d) <= Total(c)
<1> DEFINE n == Len(c)
           T == {k \in 0..n : Upto(d, k) <= Upto(c, k)}
<1>1. n \in Nat /\ 0 \in 0..n
  BY ChainFacts
<1>2. 0 \in T
  BY <1>1, UptoFacts
<1>3. ASSUME NEW k \in 0..n, k \in T, k < n PROVE k + 1 \in T
  <2>1. k + 1 \in 1..n /\ k + 1 \in 0..n /\ (k + 1) - 1 = k
    BY <1>1, <1>3
  <2>2. /\ Upto(c, k + 1) = Upto(c, k) + Len(c[k + 1].bytes)
        /\ Upto(d, k + 1) = Upto(d, k) + Len(d[k + 1].bytes)
        /\ Upto(c, k) \in Nat /\ Upto(d, k) \in Nat
    BY <2>1, UptoFacts
  <2>3. Len(c[k + 1].bytes) \in Nat /\ Len(d[k + 1].bytes) \in Nat
        /\ Len(d[k + 1].bytes) <= Len(c[k + 1].bytes)
    BY <2>1, ChainFacts, MbufFields
  <2> DEFINE x == Upto(c, k)
             y == Upto(d, k)
             l == Len(c[k + 1].bytes)
             m == Len(d[k + 1].bytes)
  <2>4. x \in Nat /\ y \in Nat /\ l \in Nat /\ m \in Nat /\ y <= x /\ m <= l
    BY <1>3, <2>2, <2>3
  <2> HIDE DEF x, y, l, m, T
  <2>5. y + m <= x + l
    BY <2>4
  <2>6. Upto(d, k + 1) <= Upto(c, k + 1)
    BY <2>2, <2>5 DEF x, y, l, m
  <2>7. QED BY <2>1, <2>6 DEF T
<1> HIDE DEF T
<1>4. n \in T
  <2>1. n \in 0..n
    BY <1>1
  <2>2. QED BY <1>1, <1>2, <1>3, <2>1, UpTo
<1>5. Upto(d, n) <= Upto(c, n)
  BY <1>4 DEF T
<1>6. Upto(c, n) = Total(c) /\ Upto(d, n) = Total(d)
  BY UptoFacts DEF n
<1>7. QED BY <1>5, <1>6

LEMMA TrimBackFacts ==
  ASSUME NEW c \in Seq(Mbuf), Len(c) > 0, NEW n \in Nat
  PROVE  /\ TrimBack(c, n) \in Seq(Mbuf) /\ Len(TrimBack(c, n)) = Len(c)
         /\ Total(TrimBack(c, n)) <= Total(c)
         /\ SameFlags(c, TrimBack(c, n))
<1>1. Total(c) \in Nat
  BY UptoFacts
<1>2. CASE n > Total(c)
  BY <1>1, <1>2 DEF TrimBack, SameFlags
<1>3. CASE ~(n > Total(c))
  <2> DEFINE k == At(c, n)
             rest == n - Upto(c, k - 1)
             b == c[k].bytes
             e == SubSeq(b, 1, Len(b) - rest)
             m == [c[k] EXCEPT !.bytes = e]
             d == [c EXCEPT ![k] = m]
  <2>1. TrimBack(c, n) = d
    BY <1>3 DEF TrimBack
  <2>2. n \in 0..Total(c)
    BY <1>1, <1>3
  <2>3. k \in 1..Len(c) /\ Upto(c, k) >= n /\ (k = 1 \/ Upto(c, k - 1) < n)
    BY <2>2, AtFacts
  <2> HIDE DEF k
  <2>4. /\ c[k] \in Mbuf /\ b \in Seq(Byte) /\ Len(b) \in Nat /\ Len(c) \in Nat
        /\ Upto(c, k - 1) \in Nat /\ Upto(c, k) = Upto(c, k - 1) + Len(b)
    BY <2>3, ChainFacts, MbufFields, UptoFacts
  <2>5. rest \in Nat /\ rest <= Len(b)
    <3>1. Upto(c, k - 1) <= n
      <4>1. CASE k = 1
        <5>1. k - 1 = 0
          BY <4>1
        <5>2. Upto(c, k - 1) = 0
          BY <5>1, UptoFacts
        <5>3. QED BY <5>2
      <4>2. CASE k # 1
        BY <2>3, <2>4, <4>2
      <4>3. QED BY <4>1, <4>2
    <3> DEFINE x == Upto(c, k - 1)
               y == Upto(c, k)
               l == Len(b)
    <3>2. x \in Nat /\ y = x + l /\ l \in Nat /\ y >= n /\ x <= n
      BY <2>3, <2>4, <3>1
    <3> HIDE DEF x, y, l
    <3>3. n - x \in Nat /\ n - x <= l
      BY <3>2
    <3>4. QED BY <3>3 DEF x, l
  <2> DEFINE l == Len(b) - rest
  <2>6. l \in Nat /\ l <= Len(b)
    <3> HIDE DEF rest, b
    <3>1. QED BY <2>4, <2>5
  <2>7. e \in Seq(Byte) /\ Len(e) = l
    <3>1. e = SubSeq(b, 1, l)
      OBVIOUS
    <3> HIDE DEF l, b, e
    <3>2. 0 \in Nat /\ 0 + l <= Len(b) /\ 0 + 1 = 1 /\ 0 + l = l
      BY <2>6
    <3>3. SubSeq(b, 0 + 1, 0 + l) \in Seq(Byte) /\ Len(SubSeq(b, 0 + 1, 0 + l)) = l
      BY <2>4, <2>6, <3>2, PartOf
    <3>4. QED BY <3>1, <3>2, <3>3
  <2> HIDE DEF e, l, rest
  <2>8. /\ m \in Mbuf /\ m.hdr = c[k].hdr /\ m.ext = c[k].ext /\ m.bytes = e
    <3>1. e \in Seq(Nat \cup {JUNK})
      BY <2>7 DEF Byte
    <3>2. QED BY <2>4, <3>1 DEF Mbuf
  <2> HIDE DEF m
  <2>9. /\ d \in Seq(Mbuf) /\ Len(d) = Len(c)
        /\ \A i \in 1..Len(c) : d[i] = IF i = k THEN m ELSE c[i]
    BY <2>3, <2>8, Replaced
  <2> HIDE DEF d
  <2>10. SameFlags(c, d)
    BY <2>8, <2>9 DEF SameFlags
  <2>11. Total(d) <= Total(c)
    BY <2>6, <2>7, <2>8, <2>9, Shorter DEF b
  <2>12. QED BY <2>1, <2>9, <2>10, <2>11
<1>4. QED BY <1>2, <1>3

-----------------------------------------------------------------------------
(* Copying.                                                                *)

\* The elements of s after the first a, up to the one with number b.
LEMMA Slice ==
  ASSUME NEW S, NEW s \in Seq(S), NEW a \in Nat, NEW b \in Nat, a <= b, b <= Len(s)
  PROVE  /\ SubSeq(s, a + 1, b) \in Seq(S) /\ Len(SubSeq(s, a + 1, b)) = b - a
         /\ \A j \in 1..b - a : SubSeq(s, a + 1, b)[j] = s[a + j]
<1> DEFINE l == b - a
<1>1. l \in Nat /\ a + l = b /\ a + l <= Len(s)
  BY LenProperties
<1> HIDE DEF l
<1>2. /\ SubSeq(s, a + 1, a + l) \in Seq(S) /\ Len(SubSeq(s, a + 1, a + l)) = l
      /\ \A j \in 1..l : SubSeq(s, a + 1, a + l)[j] = s[a + j]
  BY <1>1, PartOf
<1>3. QED BY <1>1, <1>2 DEF l

\* The bytes of mbuf i of c lie between Upto(c, i - 1) and Upto(c, i), those
\* that are asked for between from and to.
Within(c, i, offset, len, from, to) ==
  /\ i \in 1..Len(c)
  /\ from = IF offset >= Upto(c, i - 1) THEN offset ELSE Upto(c, i - 1)
  /\ to = IF offset + len <= Upto(c, i) THEN offset + len ELSE Upto(c, i)
  /\ from <= to

Located(c, i, offset, len, from, to) ==
  /\ c \in Seq(Mbuf) /\ offset \in Nat /\ len \in Nat /\ from \in Nat /\ to \in Nat
  /\ Within(c, i, offset, len, from, to)

LEMMA PieceFacts ==
  ASSUME NEW c, NEW i, NEW offset, NEW len, NEW from, NEW to,
         Located(c, i, offset, len, from, to)
  PROVE  /\ Piece(c, i, offset, len) \in Seq(Byte)
         /\ Len(Piece(c, i, offset, len)) = to - from
         /\ \A j \in 1..to - from : Piece(c, i, offset, len)[j] = Data(c)[from + j]
<1> DEFINE start == Upto(c, i - 1)
           stop == Upto(c, i)
           s == c[i].bytes
           a == from - start
           b == to - start
<1> /\ c \in Seq(Mbuf) /\ offset \in Nat /\ len \in Nat /\ from \in Nat /\ to \in Nat
    /\ Within(c, i, offset, len, from, to)
  BY DEF Located
<1>1. i \in 1..Len(c)
  BY DEF Within
<1>2. start \in Nat /\ stop = start + Len(s) /\ s \in Seq(Byte) /\ Len(s) \in Nat
  BY <1>1, ChainFacts, MbufFields, UptoFacts
<1>3. Piece(c, i, offset, len) = SubSeq(s, Max({offset - start, 0}) + 1,
                                        Min({offset + len - start, Len(s)}))
  BY DEF Piece
<1>4. from = (IF offset >= start THEN offset ELSE start)
      /\ to = (IF offset + len <= stop THEN offset + len ELSE stop) /\ from <= to
  BY DEF Within
<1>5. \A j \in 1..Len(s) : Data(c)[start + j] = s[j]
  BY <1>1, Layout
<1> HIDE DEF start, stop, s
<1>6. a \in Nat /\ b \in Nat /\ a <= b /\ b <= Len(s) /\ b - a = to - from
  BY <1>2, <1>4
<1>7. Max({offset - start, 0}) = a
  <2> DEFINE x == offset - start
  <2> DEFINE y == 0
  <2>1. x \in Int /\ y \in Int
    BY <1>2
  <2> HIDE DEF x, y
  <2>2. Max({x, y}) = IF x >= y THEN x ELSE y
    BY <2>1, MinMaxOfTwo
  <2>3. (IF x >= y THEN x ELSE y) = a
    BY <1>2, <1>4 DEF x, y
  <2>4. QED BY <2>2, <2>3 DEF x, y
<1>8. Min({offset + len - start, Len(s)}) = b
  <2> DEFINE x == offset + len - start
             y == Len(s)
  <2>1. x \in Int /\ y \in Int
    BY <1>2
  <2> HIDE DEF x, y
  <2>2. Min({x, y}) = IF x <= y THEN x ELSE y
    BY <2>1, MinMaxOfTwo
  <2>3. (IF x <= y THEN x ELSE y) = b
    BY <1>2, <1>4 DEF x, y
  <2>4. QED BY <2>2, <2>3 DEF x, y
<1>9. from = start + a
  BY <1>2, <1>4
<1> HIDE DEF a, b
<1> DEFINE q == SubSeq(s, a + 1, b)
<1>10. /\ q \in Seq(Byte) /\ Len(q) = b - a
       /\ \A j \in 1..b - a : q[j] = s[a + j]
  BY <1>2, <1>6, Slice
<1>11. Piece(c, i, offset, len) = q
  BY <1>3, <1>7, <1>8
<1> HIDE DEF q
<1>12. ASSUME NEW j \in 1..to - from PROVE q[j] = Data(c)[from + j]
  <2>1. j \in 1..b - a /\ a + j \in 1..Len(s) /\ start + (a + j) = from + j
    BY <1>2, <1>6, <1>9
  <2>2. q[j] = s[a + j]
    BY <1>10, <2>1
  <2>3. Data(c)[start + (a + j)] = s[a + j]
    BY <1>5, <2>1
  <2>4. QED BY <2>1, <2>2, <2>3
<1>13. QED BY <1>6, <1>10, <1>11, <1>12

\* Where the bytes from offset on, up to the one with number end, begin and
\* stop in mbuf i.
BeginIn(c, i, offset) == IF offset >= Upto(c, i - 1) THEN offset ELSE Upto(c, i - 1)

EndIn(c, i, end) == IF end <= Upto(c, i) THEN end ELSE Upto(c, i)

LEMMA CopymPlaces ==
  ASSUME NEW c \in Seq(Mbuf), Len(c) > 0, NEW offset \in Nat, NEW len \in Nat, len > 0,
         offset + len <= Total(c)
  PROVE  LET first == At(c, offset)
             last == At(c, offset + len)
         IN  /\ first \in 1..Len(c) /\ last \in 1..Len(c) /\ first <= last
             /\ \A i \in first..last :
                  /\ Within(c, i, offset, len, BeginIn(c, i, offset), EndIn(c, i, offset + len))
                  /\ BeginIn(c, i, offset) \in Nat /\ EndIn(c, i, offset + len) \in Nat
                  /\ BeginIn(c, i, offset) >= offset
                  /\ EndIn(c, i, offset + len) <= offset + len
                  /\ i < last => EndIn(c, i, offset + len) = BeginIn(c, i + 1, offset)
             /\ BeginIn(c, first, offset) = offset
             /\ EndIn(c, last, offset + len) = offset + len
<1> DEFINE end == offset + len
           first == At(c, offset)
           last == At(c, end)
           N == Len(c)
<1>1. end \in Nat /\ offset < end /\ Total(c) \in Nat /\ offset <= Total(c) /\ N \in Nat
  BY UptoFacts, ChainFacts
<1>2. offset \in 0..Total(c) /\ end \in 0..Total(c)
  BY <1>1
<1>3. /\ first \in 1..N /\ Upto(c, first) >= offset
      /\ \A i \in 1..N : i < first => Upto(c, i) < offset
      /\ first = 1 \/ Upto(c, first - 1) < offset
  BY <1>2, AtFacts
<1>4. /\ last \in 1..N /\ Upto(c, last) >= end
      /\ \A i \in 1..N : i < last => Upto(c, i) < end
  BY <1>2, AtFacts
<1> HIDE DEF first, last, end, N
<1>5. /\ \A i \in 0..N : Upto(c, i) \in Nat
      /\ \A i, j \in 0..N : i <= j => Upto(c, i) <= Upto(c, j)
      /\ Upto(c, 0) = 0
  BY UptoFacts DEF N
<1>6. first <= last
  <2>1. SUFFICES ASSUME last < first PROVE FALSE
    BY <1>1, <1>3, <1>4
  <2>2. Upto(c, last) < offset
    BY <1>3, <1>4, <2>1
  <2>3. Upto(c, last) \in Nat /\ Upto(c, last) >= end
    BY <1>1, <1>4, <1>5
  <2>4. QED BY <1>1, <2>2, <2>3
<1>7. Upto(c, first - 1) \in Nat /\ Upto(c, first - 1) <= offset
  <2>1. first - 1 \in 0..N
    BY <1>1, <1>3
  <2>2. CASE first = 1
    <3>1. first - 1 = 0
      BY <2>2
    <3>2. QED BY <1>5, <3>1
  <2>3. CASE first # 1
    BY <1>3, <1>5, <2>1, <2>3
  <2>4. QED BY <2>2, <2>3
<1>8. BeginIn(c, first, offset) = offset
  BY <1>7 DEF BeginIn
<1>9. EndIn(c, last, end) = end
  BY <1>4 DEF EndIn
<1>10. ASSUME NEW i \in first..last
       PROVE  /\ Within(c, i, offset, len, BeginIn(c, i, offset), EndIn(c, i, end))
              /\ BeginIn(c, i, offset) \in Nat /\ EndIn(c, i, end) \in Nat
              /\ BeginIn(c, i, offset) >= offset
              /\ EndIn(c, i, end) <= end
              /\ i < last => EndIn(c, i, end) = BeginIn(c, i + 1, offset)
  <2>1. /\ i \in 1..N /\ i \in 0..N /\ i - 1 \in 0..N /\ i - 1 <= i /\ first \in 0..N
        /\ first <= i /\ (i + 1) - 1 = i
    BY <1>1, <1>3, <1>4
  <2> DEFINE x == Upto(c, i - 1)
             y == Upto(c, i)
  <2>2. x \in Nat /\ y \in Nat /\ x <= y
    BY <1>5, <2>1
  <2>3. y >= offset
    <3>1. Upto(c, first) \in Nat /\ Upto(c, first) <= y /\ Upto(c, first) >= offset
      BY <1>3, <1>5, <2>1
    <3> DEFINE w == Upto(c, first)
    <3> HIDE DEF w, y
    <3>2. QED BY <2>2, <3>1 DEF w
  <2>4. x <= end
    <3>1. CASE i = first
      <4>1. x <= offset
        BY <1>7, <3>1
      <4> HIDE DEF x
      <4>2. QED BY <1>1, <2>2, <4>1
    <3>2. CASE i # first
      <4>1. i - 1 \in 1..N /\ i - 1 < last
        BY <1>1, <1>3, <1>4, <3>2
      <4>2. x < end
        BY <1>4, <4>1
      <4> HIDE DEF x
      <4>3. QED BY <1>1, <2>2, <4>2
    <3>3. QED BY <3>1, <3>2
  <2>5. i < last => y < end
    BY <1>4, <2>1
  <2>6. /\ BeginIn(c, i, offset) = IF offset >= x THEN offset ELSE x
        /\ EndIn(c, i, end) = IF end <= y THEN end ELSE y
        /\ BeginIn(c, i + 1, offset) = IF offset >= y THEN offset ELSE y
    BY <2>1 DEF BeginIn, EndIn
  <2> DEFINE a == BeginIn(c, i, offset)
             b == EndIn(c, i, end)
             a1 == BeginIn(c, i + 1, offset)
  <2> HIDE DEF a, b, a1, x, y
  <2>7. /\ a = (IF offset >= x THEN offset ELSE x) /\ b = (IF end <= y THEN end ELSE y)
        /\ a1 = (IF offset >= y THEN offset ELSE y)
    BY <2>6 DEF a, b, a1, x, y
  <2>8. a \in Nat /\ b \in Nat /\ a >= offset /\ b <= end /\ a <= b /\ (i < last => b = a1)
    BY <1>1, <2>2, <2>3, <2>4, <2>5, <2>7
  <2>9. Within(c, i, offset, len, a, b)
    BY <2>1, <2>7, <2>8 DEF Within, x, y, end, N
  <2>10. QED BY <2>8, <2>9 DEF a, b, a1
<1>11. QED BY <1>3, <1>4, <1>6, <1>8, <1>9, <1>10 DEF first, last, end, N

\* The copy that m_copym makes of source.
CopyOf(source, offset, len) ==
  LET first == At(source, offset)
      last == At(source, offset + len)
  IN [i \in 1..(last - first + 1) |->
       [IF i = 1 THEN MGETHDR ELSE MGET
          EXCEPT !.bytes = Piece(source, first + i - 1, offset, len)]]

LEMMA EmptyMbufs ==
  /\ MGET \in Mbuf /\ ~MGET.hdr /\ ~MGET.ext /\ MGET.plen = 0 /\ MGET.off = 0
  /\ MGET.bytes = <<>>
  /\ MGETHDR \in Mbuf /\ MGETHDR.hdr /\ ~MGETHDR.ext /\ MGETHDR.plen = 0
  /\ MGETHDR.off = PKTHDR /\ MGETHDR.bytes = <<>>
<1>1. <<>> \in Seq(Nat \cup {JUNK}) /\ PKTHDR \in Nat
  BY SizesAreNumbers
<1> DEFINE g == MGET
<1>2. g \in Mbuf /\ ~g.hdr /\ ~g.ext /\ g.plen = 0 /\ g.off = 0 /\ g.bytes = <<>>
  BY <1>1 DEF MGET, Mbuf
<1>3. MGETHDR = [g EXCEPT !.hdr = TRUE, !.off = PKTHDR]
  BY DEF MGETHDR
<1> HIDE DEF g
<1>4. /\ MGETHDR \in Mbuf /\ MGETHDR.hdr /\ ~MGETHDR.ext /\ MGETHDR.plen = 0
      /\ MGETHDR.off = PKTHDR /\ MGETHDR.bytes = <<>>
  BY <1>1, <1>2, <1>3 DEF Mbuf
<1>5. QED BY <1>2, <1>4 DEF g

LEMMA CopyOfFacts ==
  ASSUME NEW c \in Seq(Mbuf), Len(c) > 0, NEW offset \in Nat, NEW len \in Nat, len > 0,
         offset + len <= Total(c)
  PROVE  LET d == CopyOf(c, offset, len)
             first == At(c, offset)
             last == At(c, offset + len)
         IN  /\ d \in Seq(Mbuf) /\ Len(d) = (last - first) + 1 /\ Len(d) > 0
             /\ NoBoth(d) /\ d[1].hdr /\ ~d[1].ext
             /\ Data(d) = Stretch(Data(c), offset, len) /\ Total(d) = len
             /\ \A i \in 1..Len(d) : d[i].bytes = Piece(c, first + i - 1, offset, len)
<1> DEFINE d == CopyOf(c, offset, len)
           end == offset + len
           first == At(c, offset)
           last == At(c, end)
           count == (last - first) + 1
           a == [i \in first..last |-> BeginIn(c, i, offset)]
           b == [i \in first..last |-> EndIn(c, i, end)]
           q == [i \in 1..count |-> Piece(c, first + i - 1, offset, len)]
           t == Stretch(Data(c), offset, len)
           p == [k \in 0..count |-> IF k = 0 THEN 0 ELSE b[first + k - 1] - offset]
<1>1. /\ first \in 1..Len(c) /\ last \in 1..Len(c) /\ first <= last
      /\ \A i \in first..last :
           /\ Within(c, i, offset, len, a[i], b[i])
           /\ a[i] \in Nat /\ b[i] \in Nat /\ a[i] >= offset /\ b[i] <= end
           /\ i < last => b[i] = BeginIn(c, i + 1, offset)
      /\ BeginIn(c, first, offset) = offset /\ EndIn(c, last, end) = end
  BY CopymPlaces
<1>2. first \in Nat /\ last \in Nat /\ count \in Nat /\ count > 0
  <2>1. Len(c) \in Nat
    BY ChainFacts
  <2> HIDE DEF first, last
  <2>2. QED BY <1>1, <2>1
<1>3. a[first] = offset /\ b[last] = end /\ \A i \in first..last : i < last => b[i] = a[i + 1]
  <2> HIDE DEF first, last
  <2>1. first \in first..last /\ last \in first..last
        /\ \A i \in first..last : i < last => i + 1 \in first..last
    BY <1>1, <1>2
  <2>2. QED BY <1>1, <2>1
<1> HIDE DEF a, b, first, last
<1>4. \A i \in 1..count : /\ first + i - 1 \in first..last
                          /\ (i > 1 => /\ i - 1 \in 1..count /\ i - 1 # 0
                                       /\ first + (i - 1) - 1 \in first..last
                                       /\ first + (i - 1) - 1 < last
                                       /\ (first + (i - 1) - 1) + 1 = first + i - 1)
  BY <1>2
<1>5. ASSUME NEW i \in 1..count
      PROVE  /\ q[i] \in Seq(Byte) /\ Len(q[i]) = b[first + i - 1] - a[first + i - 1]
             /\ \A j \in 1..b[first + i - 1] - a[first + i - 1] :
                  q[i][j] = Data(c)[a[first + i - 1] + j]
  <2> DEFINE x == first + i - 1
  <2>1. x \in first..last
    BY <1>4
  <2> HIDE DEF x
  <2>2. a[x] \in Nat /\ b[x] \in Nat /\ Within(c, x, offset, len, a[x], b[x])
    BY <1>1, <2>1
  <2>3. /\ Piece(c, x, offset, len) \in Seq(Byte)
        /\ Len(Piece(c, x, offset, len)) = b[x] - a[x]
        /\ \A j \in 1..b[x] - a[x] : Piece(c, x, offset, len)[j] = Data(c)[a[x] + j]
    <3> DEFINE A == a[x]
               B == b[x]
    <3>1. Located(c, x, offset, len, A, B)
      BY <2>2 DEF Located
    <3> HIDE DEF A, B
    <3>2. /\ Piece(c, x, offset, len) \in Seq(Byte)
          /\ Len(Piece(c, x, offset, len)) = B - A
          /\ \A j \in 1..B - A : Piece(c, x, offset, len)[j] = Data(c)[A + j]
      BY <3>1, PieceFacts
    <3>3. QED BY <3>2 DEF A, B
  <2>4. q[i] = Piece(c, x, offset, len)
    BY DEF x
  <2> HIDE DEF q
  <2>5. QED BY <2>3, <2>4 DEF x
<1>6. d = [i \in 1..count |-> [IF i = 1 THEN MGETHDR ELSE MGET EXCEPT !.bytes = q[i]]]
  <2>1. d = [i \in 1..(last - first + 1) |->
       [IF i = 1 THEN MGETHDR ELSE MGET
          EXCEPT !.bytes = Piece(c, first + i - 1, offset, len)]]
    BY DEF CopyOf, first, last
  <2>2. last - first + 1 = count
    BY <1>2
  <2> HIDE DEF count
  <2>3. \A i \in 1..count : q[i] = Piece(c, first + i - 1, offset, len)
    OBVIOUS
  <2> HIDE DEF q, d
  <2>4. QED BY <2>1, <2>2, <2>3
<1> HIDE DEF d, count
<1>7. ASSUME NEW i \in 1..count
      PROVE  /\ d[i] \in Mbuf /\ d[i].bytes = q[i] /\ ~d[i].ext
             /\ i = 1 => d[i].hdr
  <2>1. q[i] \in Seq(Nat \cup {JUNK})
    BY <1>5 DEF Byte
  <2> DEFINE g == IF i = 1 THEN MGETHDR ELSE MGET
  <2>2. g \in Mbuf /\ ~g.ext /\ (i = 1 => g.hdr)
    BY EmptyMbufs
  <2>3. d[i] = [g EXCEPT !.bytes = q[i]]
    BY <1>6
  <2> HIDE DEF g, d, q
  <2>4. QED BY <2>1, <2>2, <2>3 DEF Mbuf
<1>8. d \in Seq(Mbuf) /\ Len(d) = count
  <2>1. d = [i \in 1..count |-> d[i]]
    BY <1>6
  <2>2. d \in [1..count -> Mbuf]
    <3> HIDE DEF q
    <3>1. QED BY <1>7, <2>1
  <2>3. QED BY <1>2, <2>2, SequenceFrom
<1>9. Data(c) \in Seq(Byte) /\ Len(Data(c)) = Total(c) /\ offset + len <= Len(Data(c))
  BY Layout
<1>10. t \in Seq(Byte) /\ Len(t) = len /\ \A i \in 1..len : t[i] = Data(c)[offset + i]
  BY <1>9, StretchFacts
<1> HIDE DEF t, q
<1>11. p \in [0..count -> Nat] /\ p[0] = 0 /\ p[count] = len
  <2>1. ASSUME NEW k \in 0..count PROVE (IF k = 0 THEN 0 ELSE b[first + k - 1] - offset) \in Nat
    <3>1. CASE k = 0
      BY <3>1
    <3>2. CASE k # 0
      <4>1. k \in 1..count
        BY <1>2, <3>2
      <4> DEFINE x == first + k - 1
      <4>2. x \in first..last
        BY <1>4, <4>1
      <4> HIDE DEF x
      <4>3. a[x] \in Nat /\ b[x] \in Nat /\ a[x] >= offset /\ a[x] <= b[x]
        BY <1>1, <4>2 DEF Within
      <4> DEFINE y == b[x]
                 w == a[x]
      <4> HIDE DEF y, w
      <4>4. y - offset \in Nat
        BY <4>3 DEF y, w
      <4>5. QED BY <3>2, <4>4 DEF x, y
    <3>3. QED BY <3>1, <3>2
  <2>2. 0 \in 0..count /\ count \in 0..count /\ count # 0 /\ first + count - 1 = last
    BY <1>2 DEF count
  <2>3. p[count] = b[last] - offset
    BY <2>2
  <2>4. b[last] - offset = len
    BY <1>3
  <2>5. QED BY <2>1, <2>2, <2>3, <2>4
<1>12. ASSUME NEW k \in 1..count
       PROVE  /\ p[k] = b[first + k - 1] - offset
              /\ p[k - 1] = a[first + k - 1] - offset
  <2>1. k \in 0..count /\ k - 1 \in 0..count /\ k # 0
    BY <1>2
  <2>2. p[k] = b[first + k - 1] - offset
    BY <2>1
  <2>3. CASE k = 1
    <3>1. k - 1 = 0 /\ first + k - 1 = first
      BY <1>2, <2>3
    <3>2. offset - offset = 0
      OBVIOUS
    <3> HIDE DEF p
    <3>3. QED BY <1>3, <1>11, <2>2, <3>1, <3>2
  <2>4. CASE k # 1
    <3>1. k > 1
      BY <1>2, <2>4
    <3>2. p[k - 1] = b[first + (k - 1) - 1] - offset
      BY <1>4, <2>1, <3>1
    <3>3. b[first + (k - 1) - 1] = a[first + k - 1]
      BY <1>3, <1>4, <3>1
    <3> HIDE DEF p
    <3>4. QED BY <2>2, <3>2, <3>3
  <2>5. QED BY <2>3, <2>4
<1> HIDE DEF p
<1>13. ASSUME NEW k \in 1..count
       PROVE  /\ p[k] = p[k - 1] + Len(d[k].bytes)
              /\ \A j \in 1..Len(d[k].bytes) : t[p[k - 1] + j] = d[k].bytes[j]
  <2> DEFINE x == first + k - 1
             A == a[x]
             B == b[x]
             P == p[k - 1]
  <2>1. /\ A \in Nat /\ B \in Nat /\ A >= offset /\ B <= end /\ A <= B
    <3>1. x \in first..last
      BY <1>4
    <3> HIDE DEF x
    <3>2. QED BY <1>1, <3>1 DEF Within
  <2>2. p[k] = B - offset /\ P = A - offset
    BY <1>12
  <2>3. Len(d[k].bytes) = B - A /\ \A j \in 1..B - A : d[k].bytes[j] = Data(c)[A + j]
    BY <1>5, <1>7
  <2> HIDE DEF A, B, P, x
  <2>4. p[k] = P + (B - A)
    BY <2>1, <2>2
  <2>5. ASSUME NEW j \in 1..B - A PROVE t[P + j] = d[k].bytes[j]
    <3>1. P + j \in 1..len /\ offset + (P + j) = A + j
      BY <2>1, <2>2, <2>5
    <3>2. t[P + j] = Data(c)[A + j]
      BY <1>10, <3>1
    <3>3. QED BY <2>3, <3>2
  <2>6. QED BY <2>3, <2>4, <2>5 DEF P
<1>14. LaidOut(d, p, t)
  BY <1>8, <1>10, <1>11, <1>13 DEF LaidOut
<1>15. Data(d) = t /\ Total(d) = len
  BY <1>8, <1>10, <1>14, DataIs
<1>16. NoBoth(d) /\ d[1].hdr /\ ~d[1].ext
  <2>1. 1 \in 1..count
    BY <1>2
  <2>2. QED BY <1>7, <1>8, <2>1 DEF NoBoth
<1>17. \A i \in 1..count : d[i].bytes = Piece(c, first + i - 1, offset, len)
  BY <1>7 DEF q
<1>18. QED BY <1>2, <1>8, <1>15, <1>16, <1>17 DEF d, t, count, first, last

\* r is what m_copym makes of c: the source, lengthened by zeros if it had to
\* be, and the copy of the bytes asked for.
Copied(r, c, offset, len) ==
  /\ \E k, z \in Nat : Grown(r.source, c, k, z)
  /\ r.copy \in Seq(Mbuf) /\ Len(r.copy) > 0 /\ NoBoth(r.copy) /\ r.copy[1].hdr
  /\ offset + len <= Total(r.source)
  /\ Data(r.copy) = Stretch(Data(r.source), offset, len)
  /\ offset + len <= Total(c) => r.source = c

LEMMA CopymFacts ==
  ASSUME NEW c \in Seq(Mbuf), Len(c) > 0, NEW offset \in Nat, NEW len \in Nat,
         offset <= Total(c)
  PROVE  Copied(m_copym(c, offset, len), c, offset, len)
<1>1. Total(c) \in Nat /\ Data(c) \in Seq(Byte) /\ Len(Data(c)) = Total(c)
  BY Layout, UptoFacts
<1>2. CASE len = 0
  <2> DEFINE r == m_copym(c, offset, len)
             d == <<MGETHDR>>
  <2>1. r = [source |-> c, copy |-> d]
    BY <1>2 DEF m_copym
  <2>2. d \in Seq(Mbuf) /\ Len(d) = 1 /\ d[1] = MGETHDR /\ Data(d) = <<>>
    BY EmptyMbufs, One
  <2>3. NoBoth(d) /\ d[1].hdr
    BY <2>2, EmptyMbufs DEF NoBoth
  <2>4. Stretch(Data(c), offset, len) = <<>>
    <3>1. /\ Stretch(Data(c), offset, len) \in Seq(Byte)
          /\ Len(Stretch(Data(c), offset, len)) = 0
      BY <1>1, <1>2, StretchFacts
    <3>2. QED BY <3>1, EmptySeq
  <2>5. \E k, z \in Nat : Grown(c, c, k, z)
    BY NotGrown
  <2>6. r.source = c /\ r.copy = d
    BY <2>1
  <2> HIDE DEF r, d
  <2>7. \E k, z \in Nat : Grown(r.source, c, k, z)
    BY <2>5, <2>6
  <2>8. /\ r.copy \in Seq(Mbuf) /\ Len(r.copy) > 0 /\ NoBoth(r.copy) /\ r.copy[1].hdr
        /\ Data(r.copy) = Stretch(Data(r.source), offset, len)
    <3>1. Data(d) = Stretch(Data(c), offset, len) /\ Len(d) > 0
      BY <2>2, <2>4
    <3>2. QED BY <2>2, <2>3, <2>6, <3>1
  <2>9. offset + len <= Total(r.source)
    <3>1. offset + len <= Total(c)
      BY <1>1, <1>2
    <3>2. QED BY <2>6, <3>1
  <2>10. QED BY <2>6, <2>7, <2>8, <2>9 DEF Copied, r
<1>3. CASE len # 0
  <2> DEFINE r == m_copym(c, offset, len)
             missing == offset + len - Total(c)
             source == Extended(c, missing)
             d == CopyOf(source, offset, len)
  <2>1. r = [source |-> source, copy |-> d]
    BY <1>3 DEF m_copym, CopyOf
  <2>2. missing \in Int /\ len > 0 /\ (offset + len <= Total(c) <=> missing <= 0)
        /\ missing = (offset + len) - Total(c)
    BY <1>1, <1>3
  <2>3. r.source = source /\ r.copy = d
    BY <2>1
  <2> HIDE DEF missing
  <2>4. /\ \E k, z \in Nat : Grown(source, c, k, z) /\ z >= missing
        /\ missing <= 0 => source = c
    BY <2>2, ExtendedFacts
  <2> HIDE DEF source
  <2>5. PICK k, z \in Nat : Grown(source, c, k, z) /\ z >= missing
    BY <2>4
  <2>6. Len(c) \in Nat
    BY ChainFacts
  <2>7. source \in Seq(Mbuf) /\ Len(source) = Len(c) + k /\ Total(source) = Total(c) + z
    BY <2>5 DEF Grown
  <2>8. Len(source) > 0 /\ offset + len <= Total(source)
    BY <1>1, <2>2, <2>5, <2>6, <2>7
  <2>9. /\ d \in Seq(Mbuf) /\ Len(d) > 0 /\ NoBoth(d) /\ d[1].hdr
        /\ Data(d) = Stretch(Data(source), offset, len)
    BY <2>2, <2>7, <2>8, CopyOfFacts
  <2> HIDE DEF r, d
  <2>10. \E i, j \in Nat : Grown(r.source, c, i, j)
    BY <2>3, <2>4
  <2>11. /\ r.copy \in Seq(Mbuf) /\ Len(r.copy) > 0 /\ NoBoth(r.copy) /\ r.copy[1].hdr
         /\ Data(r.copy) = Stretch(Data(r.source), offset, len)
    BY <2>3, <2>9
  <2>12. offset + len <= Total(r.source) /\ (offset + len <= Total(c) => r.source = c)
    BY <2>2, <2>3, <2>4, <2>8
  <2>13. QED BY <2>10, <2>11, <2>12 DEF Copied, r
<1>4. QED BY <1>2, <1>3

-----------------------------------------------------------------------------
(* The specification.                                                      *)

LEMMA FillFacts ==
  ASSUME NEW n \in Nat
  PROVE  Fill(n) \in Seq(Byte) /\ Len(Fill(n)) = n
<1> DEFINE q == [i \in 1..n |-> i]
<1>1. q \in [1..n -> Byte]
  BY DEF Byte
<1>2. q \in Seq(Byte) /\ Len(q) = n
  BY <1>1, SequenceFrom
<1>3. QED BY <1>2 DEF Fill

LEMMA BoundsAreNumbers ==
  MaxMbufs \in Nat /\ MaxMbufs > 0 /\ MaxBytes \in Nat /\ MaxOps \in Nat
BY MbufAssumption

LEMMA Started == Init => TypeOK
<1> SUFFICES ASSUME Init PROVE TypeOK
  OBVIOUS
<1>1. chain = <<>> /\ chain \in Seq(Mbuf) /\ Len(chain) = 0 /\ DOMAIN chain = {}
  BY DEF Init
<1>2. Total(chain) = 0
  <2>1. Len(chain) \in 0..Len(chain)
    BY <1>1
  <2>2. QED BY <1>1, UptoFacts
<1>3. 0 \in 0..MaxOps /\ Small(chain)
  BY <1>1, <1>2, BoundsAreNumbers DEF Small
<1>4. QED BY <1>1, <1>3 DEF Init, TypeOK

\* What an operation on a held chain has to leave.
LEMMA StaysTyped ==
  ASSUME TypeOK, NEW c, Becomes(c), c \in Seq(Mbuf), NoBoth(c)
  PROVE  TypeOK'
<1>1. chain' = c /\ Small(c) /\ ops' = ops + 1 /\ ops < MaxOps /\ ops \in 0..MaxOps
  BY DEF Becomes, TypeOK
<1>2. ops' \in 0..MaxOps
  BY <1>1, BoundsAreNumbers
<1>3. Small(chain)'
  BY <1>1 DEF Small
<1>4. \A i \in DOMAIN c : ~(c[i].hdr /\ c[i].ext)
  BY ChainFacts DEF NoBoth
<1>5. QED BY <1>1, <1>2, <1>3, <1>4 DEF TypeOK

LEMMA Held ==
  ASSUME TypeOK
  PROVE  /\ chain \in Seq(Mbuf) /\ NoBoth(chain) /\ Len(chain) \in Nat
         /\ Total(chain) \in Nat /\ (chain # <<>> => Len(chain) > 0)
<1>1. chain \in Seq(Mbuf)
  BY DEF TypeOK
<1>2. Len(chain) \in Nat /\ DOMAIN chain = 1..Len(chain) /\ Total(chain) \in Nat
  BY <1>1, ChainFacts, UptoFacts
<1>3. chain # <<>> => Len(chain) > 0
  BY <1>1, <1>2, EmptySeq
<1>4. NoBoth(chain)
  BY <1>2 DEF TypeOK, NoBoth
<1>5. QED BY <1>1, <1>2, <1>3, <1>4

\* The types hold after every step: each operation makes mbufs of mbufs, and
\* none gives an mbuf with a cluster a header.
LEMMA Typed == TypeOK /\ [Next]_vars => TypeOK'
<1> SUFFICES ASSUME TypeOK, [Next]_vars PROVE TypeOK'
  OBVIOUS
<1>1. /\ chain \in Seq(Mbuf) /\ NoBoth(chain) /\ Len(chain) \in Nat
      /\ Total(chain) \in Nat /\ (chain # <<>> => Len(chain) > 0)
  BY Held
<1>2. CASE Get
  <2>1. 0 \in 0..MaxOps /\ 1 <= MaxMbufs /\ 0 <= MaxBytes
    BY BoundsAreNumbers
  <2>2. ASSUME NEW m \in Mbuf, chain' = <<m>>, ~m.ext, m.bytes = <<>> PROVE TypeOK'
    <3> DEFINE c == <<m>>
    <3>1. c \in Seq(Mbuf) /\ Len(c) = 1 /\ c[1] = m /\ Total(c) = Len(m.bytes)
      BY One
    <3>2. Len(m.bytes) = 0
      BY <2>2
    <3>3. DOMAIN c = 1..1
      BY <3>1, ChainFacts
    <3> HIDE DEF c
    <3>4. Small(c) /\ \A i \in DOMAIN c : ~(c[i].hdr /\ c[i].ext)
      BY <2>1, <2>2, <3>1, <3>2, <3>3 DEF Small
    <3>5. chain' = c /\ ops' = 0
      BY <1>2, <2>2 DEF Get, c
    <3>6. QED BY <2>1, <3>1, <3>4, <3>5 DEF TypeOK, Small
  <2>3. QED BY <1>2, <2>2, EmptyMbufs DEF Get
<1>3. CASE Devget
  <2>1. PICK n \in 0..MaxBytes : chain' = m_devget(Fill(n)) /\ Small(chain')
    BY <1>3 DEF Devget
  <2> DEFINE c == m_devget(Fill(n))
  <2>2. n \in Nat
    BY BoundsAreNumbers
  <2>3. c \in Seq(Mbuf) /\ NoBoth(c)
    BY <2>2, FillFacts, DevgetFacts
  <2>4. \A i \in DOMAIN c : ~(c[i].hdr /\ c[i].ext)
    BY <2>3, ChainFacts DEF NoBoth
  <2>5. 0 \in 0..MaxOps /\ ops' = 0 /\ chain' = c
    BY <1>3, <2>1, BoundsAreNumbers DEF Devget
  <2> HIDE DEF c
  <2>6. QED BY <2>1, <2>3, <2>4, <2>5 DEF TypeOK, Small
<1>4. CASE Copyback
  <2>1. PICK offset \in 0..RoomUpto(chain, Len(chain)), n \in 1..(MLEN + 1) :
          Becomes(m_copyback(chain, offset, Fill(n)))
    BY <1>4 DEF Copyback
  <2>2. Len(chain) > 0 /\ n \in Nat
    BY <1>1, <2>1, SizesAreNumbers DEF Becomes
  <2>3. offset \in Nat /\ offset <= RoomUpto(chain, Len(chain))
    <3>1. RoomUpto(chain, Len(chain)) \in Nat
      <4>1. Len(chain) \in 0..Len(chain)
        BY <1>1
      <4>2. QED BY <1>1, <4>1, RoomUptoFacts
    <3>2. QED BY <3>1
  <2> DEFINE c == m_copyback(chain, offset, Fill(n))
  <2>4. c \in Seq(Mbuf) /\ NoBoth(c)
    BY <1>1, <2>2, <2>3, FillFacts, CopybackFacts
  <2> HIDE DEF c
  <2>5. QED BY <2>1, <2>4, StaysTyped DEF c
<1>5. CASE Adj
  <2>1. PICK n \in -(Total(chain) + 1)..Total(chain) : Becomes(m_adj(chain, n))
    BY <1>5 DEF Adj
  <2>2. Len(chain) > 0
    BY <1>1, <2>1 DEF Becomes
  <2>3. CASE n > 0
    <3>1. n \in 1..Total(chain) /\ m_adj(chain, n) = TrimFront(chain, n)
      BY <1>1, <2>3 DEF m_adj
    <3> DEFINE c == TrimFront(chain, n)
    <3>2. c \in Seq(Mbuf) /\ Len(c) = Len(chain) /\ SameFlags(chain, c)
      BY <1>1, <3>1, TrimFrontFacts
    <3> HIDE DEF c
    <3>3. NoBoth(c)
      BY <1>1, <3>2 DEF NoBoth, SameFlags
    <3>4. QED BY <2>1, <3>1, <3>2, <3>3, StaysTyped DEF c
  <2>4. CASE ~(n > 0)
    <3> DEFINE j == -n
               c == TrimBack(chain, j)
    <3>1. j \in Nat /\ m_adj(chain, n) = c
      BY <1>1, <2>4 DEF m_adj
    <3> HIDE DEF j
    <3>2. c \in Seq(Mbuf) /\ Len(c) = Len(chain) /\ SameFlags(chain, c)
      BY <1>1, <2>2, <3>1, TrimBackFacts
    <3> HIDE DEF c
    <3>3. NoBoth(c)
      BY <1>1, <3>2 DEF NoBoth, SameFlags
    <3>4. QED BY <2>1, <3>1, <3>2, <3>3, StaysTyped
  <2>5. QED BY <2>3, <2>4
<1>6. CASE Prepend
  <2>1. PICK n \in 1..MHLEN : Becomes(M_PREPEND(chain, n))
    BY <1>6 DEF Prepend
  <2>2. Len(chain) > 0
    BY <1>1, <2>1 DEF Becomes
  <2> DEFINE c == M_PREPEND(chain, n)
  <2>3. c \in Seq(Mbuf) /\ NoBoth(c)
    BY <1>1, <2>2, PrependFacts
  <2> HIDE DEF c
  <2>4. QED BY <2>1, <2>3, StaysTyped DEF c
<1>7. CASE Copym
  <2>1. PICK offset \in 0..Total(chain), len \in 0..(MLEN + 1) :
          LET r == m_copym(chain, offset, len)
          IN Becomes(r.source) \/ Becomes(m_cat(r.source, r.copy))
    BY <1>7 DEF Copym
  <2> DEFINE r == m_copym(chain, offset, len)
  <2>2. Len(chain) > 0 /\ offset \in Nat /\ offset <= Total(chain) /\ len \in Nat
    BY <1>1, <2>1, SizesAreNumbers DEF Becomes
  <2>3. Copied(r, chain, offset, len)
    BY <1>1, <2>2, CopymFacts
  <2> HIDE DEF r
  <2>4. /\ r.source \in Seq(Mbuf) /\ NoBoth(r.source) /\ Len(r.source) > 0
        /\ r.copy \in Seq(Mbuf) /\ NoBoth(r.copy) /\ Len(r.copy) > 0
    <3>1. PICK k, z \in Nat : Grown(r.source, chain, k, z)
      BY <2>3 DEF Copied
    <3>2. QED BY <1>1, <2>2, <2>3, <3>1 DEF Grown, Copied
  <2>5. CASE Becomes(r.source)
    BY <2>4, <2>5, StaysTyped
  <2>6. CASE Becomes(m_cat(r.source, r.copy))
    <3>1. Appended(m_cat(r.source, r.copy), r.source, r.copy)
      BY <2>4, CatFacts
    <3>2. m_cat(r.source, r.copy) \in Seq(Mbuf) /\ NoBoth(m_cat(r.source, r.copy))
      BY <2>4, <3>1 DEF Appended
    <3>3. QED BY <2>6, <3>2, StaysTyped
  <2>7. QED BY <2>1, <2>5, <2>6 DEF r
<1>8. CASE Cat
  <2>1. PICK n \in 0..MaxBytes :
          Becomes(m_cat(chain, m_devget(Fill(n)))) \/ Becomes(m_cat(chain, <<MGET>>))
    BY <1>8 DEF Cat
  <2>2. Len(chain) > 0 /\ n \in Nat
    BY <1>1, <2>1, BoundsAreNumbers DEF Becomes
  <2>3. ASSUME NEW d \in Seq(Mbuf), Len(d) > 0, NoBoth(d), Becomes(m_cat(chain, d))
        PROVE  TypeOK'
    <3>1. Appended(m_cat(chain, d), chain, d)
      BY <1>1, <2>2, <2>3, CatFacts
    <3>2. m_cat(chain, d) \in Seq(Mbuf) /\ NoBoth(m_cat(chain, d))
      BY <1>1, <2>3, <3>1 DEF Appended
    <3>3. QED BY <2>3, <3>2, StaysTyped
  <2>4. CASE Becomes(m_cat(chain, m_devget(Fill(n))))
    <3>1. /\ m_devget(Fill(n)) \in Seq(Mbuf) /\ Len(m_devget(Fill(n))) > 0
          /\ NoBoth(m_devget(Fill(n)))
      BY <2>2, FillFacts, DevgetFacts
    <3>2. QED BY <2>3, <2>4, <3>1
  <2>5. CASE Becomes(m_cat(chain, <<MGET>>))
    <3>1. <<MGET>> \in Seq(Mbuf) /\ Len(<<MGET>>) = 1 /\ <<MGET>>[1] = MGET
      BY EmptyMbufs, One
    <3>2. NoBoth(<<MGET>>)
      BY <3>1, EmptyMbufs DEF NoBoth
    <3> DEFINE d == <<MGET>>
    <3>3. d \in Seq(Mbuf) /\ Len(d) > 0 /\ NoBoth(d) /\ Becomes(m_cat(chain, d))
      BY <2>5, <3>1, <3>2
    <3> HIDE DEF d
    <3>4. QED BY <2>3, <3>3
  <2>6. QED BY <2>1, <2>4, <2>5
<1>9. CASE Freem
  <2>1. chain' = <<>> /\ ops' = 0
    BY <1>9 DEF Freem
  <2>2. <<>> \in Seq(Mbuf) /\ Len(<<>>) = 0 /\ DOMAIN <<>> = {}
    OBVIOUS
  <2>3. Total(<<>>) = 0
    <3> DEFINE c == <<>>
    <3>1. c \in Seq(Mbuf) /\ Len(c) = 0
      BY <2>2
    <3> HIDE DEF c
    <3>2. Total(c) = 0
      BY <3>1, UptoFacts
    <3>3. QED BY <3>2 DEF c
  <2>4. Small(<<>>) /\ 0 \in 0..MaxOps
    BY <2>2, <2>3, BoundsAreNumbers DEF Small
  <2>5. QED BY <2>1, <2>2, <2>4 DEF TypeOK, Small
<1>10. CASE UNCHANGED vars
  BY <1>10 DEF vars, TypeOK, Small
<1>11. QED
  BY <1>2, <1>3, <1>4, <1>5, <1>6, <1>7, <1>8, <1>9, <1>10 DEF Next

\* The chain is always a sequence of mbufs, none of which has both a packet
\* header and a cluster, within the bounds of the model.
THEOREM TypeCorrect == Spec => []TypeOK
<1>1. QED BY Started, Typed, PTL DEF Spec

-----------------------------------------------------------------------------
(* What the operations do to the chain that is held.                       *)

LEMMA TrimFrontIsExact == TypeOK => TrimFrontExact
<1> SUFFICES ASSUME TypeOK, NEW n \in 1..Total(chain)
             PROVE  LET c == m_adj(chain, n)
                    IN  /\ Data(c) = Stretch(Data(chain), n, Total(chain) - n)
                        /\ AllFit(chain) => AllFit(c)
                        /\ LengthRight(chain) => LengthRight(c)
  BY DEF TrimFrontExact
<1> DEFINE c == TrimFront(chain, n)
<1>1. chain \in Seq(Mbuf) /\ Total(chain) \in Nat /\ Len(chain) \in Nat
  BY Held
<1>2. m_adj(chain, n) = c
  BY <1>1 DEF m_adj
<1>3. /\ c \in Seq(Mbuf) /\ Len(c) = Len(chain) /\ Len(chain) > 0
      /\ Data(c) = Stretch(Data(chain), n, Total(chain) - n) /\ Total(c) = Total(chain) - n
      /\ SameFlags(chain, c)
      /\ c[1].plen = (IF chain[1].hdr THEN chain[1].plen - n ELSE chain[1].plen)
      /\ AllFit(chain) => AllFit(c)
  BY <1>1, TrimFrontFacts
<1> HIDE DEF c
<1>4. 1 \in 1..Len(chain) /\ chain # <<>>
  BY <1>1, <1>3, EmptySeq
<1>5. c[1].hdr = chain[1].hdr
  BY <1>3, <1>4 DEF SameFlags
<1>6. LengthRight(chain) => LengthRight(c)
  BY <1>3, <1>4, <1>5 DEF LengthRight
<1>7. QED BY <1>2, <1>3, <1>6

LEMMA PrependIsExact == TypeOK => PrependExact
<1> SUFFICES ASSUME TypeOK, chain # <<>>, NEW n \in 1..MHLEN
             PROVE  LET c == M_PREPEND(chain, n)
                    IN  /\ Data(c) = Junk(n) \o Data(chain)
                        /\ AllFit(chain) => AllFit(c)
                        /\ LengthRight(chain) => LengthRight(c)
                        /\ c[1].hdr <=> chain[1].hdr
  BY DEF PrependExact
<1> DEFINE c == M_PREPEND(chain, n)
<1>1. /\ chain \in Seq(Mbuf) /\ Len(chain) > 0 /\ Total(chain) \in Nat /\ n \in Int
  BY Held, SizesAreNumbers
<1>2. /\ Data(c) = Junk(n) \o Data(chain) /\ Total(c) = n + Total(chain)
      /\ AllFit(chain) => AllFit(c)
      /\ c[1].hdr = chain[1].hdr
      /\ chain[1].hdr => c[1].plen = chain[1].plen + n
  BY <1>1, PrependFacts
<1> HIDE DEF c
<1>3. LengthRight(chain) => LengthRight(c)
  <2>1. ASSUME LengthRight(chain), chain[1].hdr PROVE c[1].plen = Total(c)
    <3>1. chain[1].plen = Total(chain)
      BY <2>1 DEF LengthRight
    <3>2. QED BY <1>1, <1>2, <2>1, <3>1
  <2>2. QED BY <1>2, <2>1 DEF LengthRight
<1>4. QED BY <1>2, <1>3 DEF c

LEMMA DevgetIsExact == DevgetExact
<1> SUFFICES ASSUME NEW n \in 0..(MINCLSIZE + MCLBYTES)
             PROVE  LET c == m_devget(Fill(n))
                    IN  /\ Data(c) = Fill(n) /\ AllFit(c) /\ c[1].hdr /\ c[1].plen = n
                        /\ \A i \in 2..Len(c) : c[i].bytes # <<>>
  BY DEF DevgetExact
<1>1. n \in Nat
  BY SizesAreNumbers
<1>2. Fill(n) \in Seq(Byte) /\ Len(Fill(n)) = n
  BY <1>1, FillFacts
<1>3. QED BY <1>2, DevgetFacts

\* m_adj with a positive count takes exactly that many bytes off the front of
\* every chain the operations can build, keeps every mbuf within its room and
\* m_pkthdr.len right.
THEOREM FrontIsTrimmedExactly == Spec => []TrimFrontExact
<1>1. QED BY TypeCorrect, TrimFrontIsExact, PTL

\* M_PREPEND puts the bytes asked for in front of the same data, in place or in
\* a new mbuf that is aligned within its room, and counts them.
THEOREM PrependsExactly == Spec => []PrependExact
<1>1. QED BY TypeCorrect, PrependIsExact, PTL

\* m_devget divides a frame of any length into mbufs that hold it, with and
\* without clusters, and counts it in m_pkthdr.len.
THEOREM ReceivesExactly == Spec => []DevgetExact
<1>1. DevgetExact
  BY DevgetIsExact
<1>2. QED BY TypeCorrect, <1>1, DevgetIsExact, PTL

-----------------------------------------------------------------------------
(* m_cat and m_free.                                                       *)

LEMMA CatIsCounted == TypeOK => CatCounts
<1> SUFFICES ASSUME TypeOK, chain # <<>>, NEW n \in 0..MaxBytes,
                    NEW d \in {m_devget(Fill(n)), m_copyback(<<MGET>>, 0, Fill(n + 1))},
                    LengthRight(chain)
             PROVE  /\ LengthRight(m_cat(chain, d))
                    /\ Data(m_cat(chain, d)) = Data(chain) \o Data(d)
  BY DEF CatCounts
<1> DEFINE e == m_cat(chain, d)
<1>1. chain \in Seq(Mbuf) /\ Len(chain) > 0 /\ Total(chain) \in Nat /\ n \in Nat /\ n + 1 \in Nat
  BY Held, BoundsAreNumbers
<1>2. d \in Seq(Mbuf) /\ Len(d) > 0 /\ (d[1].hdr => d[1].plen = Total(d))
  <2>1. CASE d = m_devget(Fill(n))
    BY <1>1, <2>1, FillFacts, DevgetFacts
  <2>2. CASE d = m_copyback(<<MGET>>, 0, Fill(n + 1))
    <3> DEFINE c == <<MGET>>
    <3>1. c \in Seq(Mbuf) /\ Len(c) = 1 /\ Len(c) > 0 /\ ~c[1].hdr
      BY EmptyMbufs, One
    <3> HIDE DEF c
    <3>2. 0 \in Nat /\ 0 <= RoomUpto(c, Len(c))
      <4>1. Len(c) \in 0..Len(c)
        BY <3>1
      <4>2. RoomUpto(c, Len(c)) \in Nat
        BY <3>1, <4>1, RoomUptoFacts
      <4>3. QED BY <4>2
    <3>3. Fill(n + 1) \in Seq(Byte)
      BY <1>1, FillFacts
    <3> DEFINE b == m_copyback(c, 0, Fill(n + 1))
    <3>4. b \in Seq(Mbuf) /\ Len(b) > 0 /\ b[1].hdr = c[1].hdr
      BY <3>1, <3>2, <3>3, CopybackFacts
    <3>5. d = b
      BY <2>2 DEF c
    <3> HIDE DEF b
    <3>6. QED BY <3>1, <3>4, <3>5
  <2>3. QED BY <2>1, <2>2
<1>3. Appended(e, chain, d)
  BY <1>1, <1>2, CatFacts
<1> HIDE DEF e
<1>4. Total(d) \in Nat /\ Total(e) = Total(chain) + Total(d)
  BY <1>2, <1>3, UptoFacts DEF Appended
<1>5. LengthRight(e)
  <2>1. SUFFICES ASSUME e[1].hdr PROVE e[1].plen = Total(e)
    BY DEF LengthRight
  <2>2. chain[1].hdr /\ e[1].plen = chain[1].plen + (IF d[1].hdr THEN d[1].plen ELSE Total(d))
    BY <1>3, <2>1 DEF Appended
  <2>3. chain[1].plen = Total(chain)
    BY <2>2 DEF LengthRight
  <2>4. (IF d[1].hdr THEN d[1].plen ELSE Total(d)) = Total(d)
    BY <1>2
  <2>5. QED BY <1>4, <2>2, <2>3, <2>4
<1>6. Data(e) = Data(chain) \o Data(d)
  BY <1>3 DEF Appended
<1>7. QED BY <1>5, <1>6 DEF e

LEMMA SameLengths ==
  ASSUME NEW c \in Seq(Mbuf), NEW d \in Seq(Mbuf), Len(d) = Len(c),
         \A i \in 1..Len(c) : Len(d[i].bytes) = Len(c[i].bytes)
  PROVE  Total(d) = Total(c) /\ \A k \in 0..Len(c) : Upto(d, k) = Upto(c, k)
<1> DEFINE n == Len(c)
<1>1. IsSum(Starts(c), n, Lengths(c)) /\ IsSum(Starts(d), n, Lengths(d)) /\ n \in Nat
  BY StartsAreSums, ChainFacts
<1>2. Lengths(d) = Lengths(c)
  BY DEF Lengths
<1>3. Starts(c) = Starts(d)
  BY <1>1, <1>2, SumIsUpto
<1>4. \A k \in 0..n : Starts(c)[k] = Upto(c, k) /\ Starts(d)[k] = Upto(d, k)
  BY DEF Starts
<1>5. n \in 0..n
  BY <1>1
<1>6. \A k \in 0..n : Upto(d, k) = Upto(c, k)
  BY <1>3, <1>4
<1>7. Upto(d, n) = Total(d) /\ Upto(c, n) = Total(c)
  BY UptoFacts
<1>8. QED BY <1>5, <1>6, <1>7

\* What the mbuf that follows inherits changes the bytes at most where a
\* header is, or would be.
Spoilt(n) == IF n.ext THEN 0 ELSE Min({Max({PKTHDR - n.off, 0}), Len(n.bytes)})

LEMMA InheritsFacts ==
  ASSUME NEW n \in Mbuf, NEW m \in Mbuf
  PROVE  LET h == Inherits(n, m)
         IN  /\ h \in Mbuf /\ Len(h.bytes) = Len(n.bytes) /\ Spoilt(n) \in Nat
             /\ Spoilt(n) <= Len(n.bytes)
             /\ \A b \in 1..Len(n.bytes) : b > Spoilt(n) => h.bytes[b] = n.bytes[b]
             /\ m.hdr => h.hdr /\ h.plen = m.plen - Len(m.bytes)
<1> DEFINE from == IF m.hdr THEN 0 ELSE PKTHDR \div 2
           Hit(b) == ~n.ext /\ n.off + b > from /\ n.off + b <= PKTHDR
           q == [b \in DOMAIN n.bytes |-> IF Hit(b) THEN JUNK ELSE n.bytes[b]]
           h == Inherits(n, m)
           v == IF m.hdr THEN m.plen - Len(m.bytes) ELSE n.plen
           hd == n.hdr \/ m.hdr
           ex == n.ext \/ m.ext
<1>1. h = [n EXCEPT !.hdr = hd, !.ext = ex, !.plen = v, !.bytes = q]
  BY DEF Inherits
<1>2. /\ n.off \in Nat /\ n.bytes \in Seq(Byte) /\ Len(n.bytes) \in Nat /\ m.plen \in Int
      /\ Len(m.bytes) \in Nat /\ n.plen \in Int /\ PKTHDR \in Nat
      /\ n.hdr \in BOOLEAN /\ m.hdr \in BOOLEAN /\ n.ext \in BOOLEAN /\ m.ext \in BOOLEAN
  BY MbufFields, SizesAreNumbers
<1>3. DOMAIN n.bytes = 1..Len(n.bytes) /\ \A b \in 1..Len(n.bytes) : n.bytes[b] \in Byte
  BY <1>2, LenProperties
<1>4. q \in Seq(Byte) /\ Len(q) = Len(n.bytes)
  <2>1. q = [b \in 1..Len(n.bytes) |-> IF Hit(b) THEN JUNK ELSE n.bytes[b]]
    BY <1>3
  <2> HIDE DEF Hit, q
  <2>2. q \in [1..Len(n.bytes) -> Byte]
    BY <1>3, <2>1 DEF Byte
  <2>3. QED BY <1>2, <2>2, SequenceFrom
<1>5. v \in Int /\ hd \in BOOLEAN /\ ex \in BOOLEAN
  BY <1>2
<1>6. m.hdr => hd /\ v = m.plen - Len(m.bytes)
  OBVIOUS
<1>7. Spoilt(n) \in Nat /\ Spoilt(n) <= Len(n.bytes)
      /\ \A b \in 1..Len(n.bytes) : b > Spoilt(n) => ~Hit(b)
  <2>1. CASE n.ext
    BY <1>2, <2>1 DEF Spoilt
  <2>2. CASE ~n.ext
    <3> DEFINE x == PKTHDR - n.off
               z == 0
               y == Max({x, z})
               l == Len(n.bytes)
    <3>1. x \in Int /\ z \in Int /\ l \in Nat
      BY <1>2
    <3>2. Spoilt(n) = Min({y, l})
      BY <2>2 DEF Spoilt
    <3> HIDE DEF x, z, l
    <3>3. y = IF x >= z THEN x ELSE z
      BY <3>1, MinMaxOfTwo
    <3> HIDE DEF y
    <3>4. y \in Int /\ l \in Int
      BY <3>1, <3>3
    <3>5. Min({y, l}) = IF y <= l THEN y ELSE l
      BY <3>4, MinMaxOfTwo
    <3> DEFINE s == Spoilt(n)
    <3>6. s = IF y <= l THEN y ELSE l
      BY <3>2, <3>5
    <3> HIDE DEF s
    <3>7. s \in Nat /\ s <= l /\ \A b \in 1..l : b > s => b > x
      BY <3>1, <3>3, <3>6 DEF z
    <3>8. \A b \in 1..l : b > x => ~(n.off + b <= PKTHDR)
      BY <1>2 DEF x
    <3>9. QED BY <3>7, <3>8 DEF s, l
  <2>3. QED BY <2>1, <2>2
<1>8. \A b \in 1..Len(n.bytes) : b > Spoilt(n) => q[b] = n.bytes[b]
  BY <1>3, <1>7
<1> HIDE DEF q, v, hd, ex, h, Hit
<1>9. h \in Mbuf /\ h.hdr = hd /\ h.plen = v /\ h.bytes = q
  BY <1>1, <1>4, <1>5 DEF Mbuf, Byte
<1>10. QED BY <1>4, <1>6, <1>7, <1>8, <1>9 DEF h

\* The first mbuf is gone; the rest has as many bytes, and the same ones
\* behind what is spoilt.
LEMMA FreeKeeps == TypeOK => FreeKeepsRest
<1> SUFFICES ASSUME TypeOK, Len(chain) >= 2 PROVE FreeKeepsRest
  BY DEF FreeKeepsRest
<1> DEFINE a == chain[1]
           n == chain[2]
           h == Inherits(n, a)
           rest == Tail(chain)
           c == m_free(chain)
           s == Spoilt(n)
           T == Total(c)
<1>1. chain \in Seq(Mbuf) /\ Len(chain) \in Nat /\ Len(chain) > 0 /\ chain # <<>>
  BY Held, EmptySeq
<1>2. a \in Mbuf /\ n \in Mbuf
  <2>1. 1 \in 1..Len(chain) /\ 2 \in 1..Len(chain)
    BY <1>1
  <2>2. QED BY <1>1, <2>1, ChainFacts
<1>3. /\ rest \in Seq(Mbuf) /\ Len(rest) = Len(chain) - 1 /\ chain = <<a>> \o rest
      /\ \A i \in 1..Len(chain) - 1 : rest[i] = chain[i + 1]
  <2>1. rest \in Seq(Mbuf) /\ Len(rest) = Len(chain) - 1 /\ chain = <<a>> \o rest
    BY <1>1, FirstAndRest
  <2>2. \A i \in 1..Len(rest) : rest[i] = chain[i + 1]
    BY <1>1, HeadTailProperties
  <2>3. QED BY <2>1, <2>2
<1>4. /\ h \in Mbuf /\ Len(h.bytes) = Len(n.bytes) /\ s \in Nat /\ s <= Len(n.bytes)
      /\ \A b \in 1..Len(n.bytes) : b > s => h.bytes[b] = n.bytes[b]
      /\ a.hdr => h.hdr /\ h.plen = a.plen - Len(a.bytes)
  BY <1>2, InheritsFacts
<1>5. c = <<h>> \o SubSeq(chain, 3, Len(chain))
  BY <1>1 DEF m_free
<1> HIDE DEF c, h, a, n, rest, s
<1>6. /\ c \in Seq(Mbuf) /\ Len(c) = Len(rest) /\ Len(rest) > 0
      /\ \A i \in 1..Len(rest) : c[i] = IF i = 1 THEN h ELSE rest[i]
  <2> DEFINE t == SubSeq(chain, 3, Len(chain))
             L == Len(chain)
             o == <<h>>
  <2>1. /\ t \in Seq(Mbuf) /\ Len(t) = L - 2 /\ L - 2 \in Nat
        /\ \A i \in 1..L - 2 : t[i] = chain[2 + i]
    <3>1. 2 \in Nat /\ 2 <= Len(chain) /\ 2 + 1 = 3
      BY <1>1
    <3>2. /\ SubSeq(chain, 2 + 1, L) \in Seq(Mbuf) /\ Len(SubSeq(chain, 2 + 1, L)) = L - 2
          /\ L - 2 \in Nat /\ \A i \in 1..L - 2 : SubSeq(chain, 2 + 1, L)[i] = chain[2 + i]
      BY <1>1, <3>1, RestOf
    <3>3. QED BY <3>1, <3>2
  <2>2. o \in Seq(Mbuf) /\ Len(o) = 1 /\ o[1] = h
    BY <1>4, One
  <2>3. c = o \o t
    BY <1>5
  <2> HIDE DEF o, t, L
  <2>4. /\ o \o t \in Seq(Mbuf) /\ Len(o \o t) = Len(o) + Len(t)
        /\ \A i \in 1..Len(o) + Len(t) : (o \o t)[i] = IF i <= Len(o) THEN o[i] ELSE t[i - Len(o)]
    BY <2>1, <2>2, ConcatProperties
  <2>5. Len(o) + Len(t) = Len(rest) /\ Len(rest) > 0 /\ Len(rest) \in Nat
    BY <1>1, <1>3, <2>1, <2>2 DEF L
  <2>6. ASSUME NEW i \in 1..Len(rest) PROVE (o \o t)[i] = IF i = 1 THEN h ELSE rest[i]
    <3>1. CASE i = 1
      BY <2>2, <2>4, <2>5, <3>1
    <3>2. CASE i # 1
      <4>1. ~(i <= 1) /\ i - 1 \in 1..L - 2 /\ 2 + (i - 1) = i + 1 /\ i \in 1..Len(chain) - 1
        BY <1>1, <1>3, <2>1, <2>5, <3>2 DEF L
      <4>2. (o \o t)[i] = t[i - 1]
        BY <2>2, <2>4, <2>5, <4>1
      <4>3. t[i - 1] = chain[i + 1]
        BY <2>1, <4>1
      <4>4. QED BY <1>3, <3>2, <4>1, <4>2, <4>3
    <3>3. QED BY <3>1, <3>2
  <2>7. QED BY <2>3, <2>4, <2>5, <2>6
<1>7. rest[1] = n /\ 1 \in 1..Len(rest)
  <2>1. 1 \in 1..Len(chain) - 1 /\ 1 + 1 = 2
    BY <1>1
  <2>2. QED BY <1>3, <2>1 DEF n
<1>8. \A i \in 1..Len(rest) : Len(c[i].bytes) = Len(rest[i].bytes)
  BY <1>4, <1>6, <1>7
<1>9. T = Total(rest) /\ \A k \in 0..Len(rest) : Upto(c, k) = Upto(rest, k)
  BY <1>3, <1>6, <1>8, SameLengths
<1>10. /\ Data(c) \in Seq(Byte) /\ Len(Data(c)) = T /\ T \in Nat
       /\ Data(rest) \in Seq(Byte) /\ Len(Data(rest)) = T
  BY <1>3, <1>6, <1>9, Layout, UptoFacts
<1> HIDE DEF T
<1>11. s <= T
  <2>1. /\ Upto(rest, 1) = Upto(rest, 1 - 1) + Len(rest[1].bytes) /\ 1 - 1 = 0
        /\ Upto(rest, 0) = 0
    BY <1>3, <1>7, UptoFacts
  <2>2. Upto(rest, 1) <= Upto(rest, Len(rest)) /\ Upto(rest, Len(rest)) = Total(rest)
    <3>1. 1 \in 0..Len(rest) /\ Len(rest) \in 0..Len(rest) /\ 1 <= Len(rest)
      BY <1>1, <1>3, <1>7
    <3>2. QED BY <1>3, <3>1, UptoFacts
  <2>3. Len(n.bytes) \in Nat
    BY <1>2, MbufFields
  <2> DEFINE l == Len(n.bytes)
  <2>4. Upto(rest, 1) = l
    BY <1>7, <2>1, <2>3
  <2>5. l <= T
    BY <1>9, <2>2, <2>4
  <2> HIDE DEF l
  <2>6. s <= l /\ l \in Nat
    BY <1>4, <2>3 DEF l
  <2>7. QED BY <1>4, <1>10, <2>5, <2>6
<1>12. \A x \in 1..T : x > s => Data(c)[x] = Data(rest)[x]
  <2>1. SUFFICES ASSUME NEW x \in 1..T, x > s PROVE Data(c)[x] = Data(rest)[x]
    OBVIOUS
  <2>2. PICK k \in 1..Len(c) : \E j \in 1..Len(c[k].bytes) :
               x = Upto(c, k - 1) + j /\ Data(c)[x] = c[k].bytes[j]
    BY <1>6, EveryByte DEF T
  <2>3. PICK j \in 1..Len(c[k].bytes) :
               x = Upto(c, k - 1) + j /\ Data(c)[x] = c[k].bytes[j]
    BY <2>2
  <2>4. k \in 1..Len(rest) /\ k - 1 \in 0..Len(rest) /\ j \in 1..Len(rest[k].bytes)
    BY <1>3, <1>6, <1>8
  <2>5. Data(rest)[Upto(rest, k - 1) + j] = rest[k].bytes[j]
    BY <1>3, <2>4, Layout
  <2>6. Data(rest)[x] = rest[k].bytes[j]
    BY <1>9, <2>3, <2>4, <2>5
  <2>7. CASE k = 1
    <3>1. Upto(c, k - 1) = 0
      <4>1. k - 1 = 0
        BY <2>7
      <4>2. QED BY <1>6, <4>1, UptoFacts
    <3>2. Len(n.bytes) \in Nat /\ c[k] = h /\ rest[k] = n
      BY <1>2, <1>6, <1>7, <2>4, <2>7, MbufFields
    <3>3. x = j /\ j \in 1..Len(n.bytes)
      BY <2>3, <2>4, <3>1, <3>2
    <3>4. h.bytes[j] = n.bytes[j]
      BY <1>4, <2>1, <3>3
    <3>5. QED BY <2>3, <2>6, <3>2, <3>4
  <2>8. CASE k # 1
    BY <1>6, <2>3, <2>4, <2>6, <2>8
  <2>9. QED BY <2>7, <2>8
<1>13. Stretch(Data(c), s, T - s) = Stretch(Data(rest), s, T - s)
  <2> DEFINE l == T - s
             d == Data(c)
             e == Data(rest)
  <2>1. l \in Nat /\ s + l <= T /\ s \in Nat
    BY <1>4, <1>10, <1>11
  <2>2. \A i \in 1..l : s + i \in 1..T /\ s + i > s
    BY <1>4, <1>10
  <2> HIDE DEF l, d, e
  <2>3. d \in Seq(Byte) /\ Len(d) = T /\ e \in Seq(Byte) /\ Len(e) = T
    BY <1>10 DEF d, e
  <2>4. /\ Stretch(d, s, l) \in Seq(Byte) /\ Len(Stretch(d, s, l)) = l
        /\ \A i \in 1..l : Stretch(d, s, l)[i] = d[s + i]
        /\ Stretch(e, s, l) \in Seq(Byte) /\ Len(Stretch(e, s, l)) = l
        /\ \A i \in 1..l : Stretch(e, s, l)[i] = e[s + i]
    BY <2>1, <2>3, StretchFacts
  <2>5. \A i \in 1..l : d[s + i] = e[s + i]
    BY <1>12, <2>2 DEF d, e
  <2>6. Stretch(d, s, l) = Stretch(e, s, l)
    BY <2>4, <2>5, SeqEqual
  <2>7. QED BY <2>6 DEF d, e, l
<1>14. a.hdr /\ LengthRight(chain) => c[1].hdr /\ LengthRight(c)
  <2>1. SUFFICES ASSUME a.hdr, LengthRight(chain) PROVE c[1].hdr /\ c[1].plen = T
    BY DEF LengthRight, T
  <2>2. c[1] = h
    BY <1>6, <1>7
  <2>3. a.plen = Total(chain)
    BY <1>1, <2>1 DEF LengthRight, a
  <2>4. Total(chain) = Len(a.bytes) + T
    <3>1. <<a>> \in Seq(Mbuf) /\ Total(<<a>>) = Len(a.bytes)
      BY <1>2, One
    <3>2. Total(<<a>> \o rest) = Total(<<a>>) + Total(rest)
      BY <1>3, <3>1, Concatenated
    <3>3. QED BY <1>3, <1>9, <3>1, <3>2
  <2>5. Len(a.bytes) \in Nat
    BY <1>2, MbufFields
  <2>6. QED BY <1>4, <1>10, <2>1, <2>2, <2>3, <2>4, <2>5
<1>15. s = (IF chain[2].ext THEN 0
            ELSE Min({Max({PKTHDR - chain[2].off, 0}), Len(chain[2].bytes)}))
  BY DEF s, n, Spoilt
<1>16. FreeKeepsRest
  BY <1>9, <1>13, <1>14, <1>15 DEF FreeKeepsRest, c, T, rest, a
<1>17. QED BY <1>16

-----------------------------------------------------------------------------
(* m_copydata.                                                             *)

\* The loop of m_copydata: its state, a round of it, and how it begins.
CopyStates ==
  {s \in [skipping : BOOLEAN, offset : Nat, len : Nat, cp : Seq(Byte)] :
     ~s.skipping => s.offset = 0}

CopyRound(s, m) ==
  IF s.skipping /\ Len(m.bytes) < s.offset
    THEN [s EXCEPT !.offset = @ - Len(m.bytes)]
    ELSE LET n == Min({Len(m.bytes) - s.offset, s.len})
         IN [skipping |-> FALSE, offset |-> 0, len |-> s.len - n,
             cp |-> s.cp \o SubSeq(m.bytes, s.offset + 1, s.offset + n)]

CopyBegin(offset, len) == [skipping |-> TRUE, offset |-> offset, len |-> len, cp |-> <<>>]

\* What a round that copies does.
CopyTakes(s, m, t, n, q) ==
  /\ t \in CopyStates /\ ~t.skipping /\ t.offset = 0
  /\ n = (IF Len(m.bytes) - s.offset <= s.len THEN Len(m.bytes) - s.offset ELSE s.len)
  /\ n \in Nat /\ n <= s.len /\ s.offset + n <= Len(m.bytes)
  /\ t.len = s.len - n /\ t.cp = s.cp \o q
  /\ q \in Seq(Byte) /\ Len(q) = n
  /\ \A i \in 1..n : q[i] = m.bytes[s.offset + i]

LEMMA CopyRoundSkips ==
  ASSUME NEW s \in CopyStates, NEW m \in Mbuf, s.skipping, Len(m.bytes) < s.offset
  PROVE  LET t == CopyRound(s, m)
         IN  /\ t \in CopyStates /\ t.skipping /\ t.offset = s.offset - Len(m.bytes)
             /\ t.len = s.len /\ t.cp = s.cp
<1>1. Len(m.bytes) \in Nat /\ s.offset \in Nat
  BY MbufFields DEF CopyStates
<1> DEFINE x == s.offset - Len(m.bytes)
           t == [s EXCEPT !.offset = x]
<1>2. x \in Nat
  BY <1>1
<1>3. CopyRound(s, m) = t
  BY DEF CopyRound
<1> HIDE DEF x
<1>4. t \in CopyStates /\ t.skipping /\ t.offset = x /\ t.len = s.len /\ t.cp = s.cp
  BY <1>2 DEF CopyStates
<1>5. QED BY <1>3, <1>4 DEF x

LEMMA CopyRoundTakes ==
  ASSUME NEW s \in CopyStates, NEW m \in Mbuf, ~(s.skipping /\ Len(m.bytes) < s.offset)
  PROVE  \E n, q : CopyTakes(s, m, CopyRound(s, m), n, q)
<1> DEFINE b == m.bytes
           L == Len(b)
           o == s.offset
           l == s.len
           x == L - o
           n == Min({x, l})
           q == SubSeq(b, o + 1, o + n)
           t == [skipping |-> FALSE, offset |-> 0, len |-> l - n, cp |-> s.cp \o q]
<1>1. b \in Seq(Byte) /\ L \in Nat
  BY MbufFields
<1>2. o \in Nat /\ l \in Nat /\ s.cp \in Seq(Byte) /\ (~s.skipping => o = 0)
  BY DEF CopyStates
<1>3. CopyRound(s, m) = t
  BY DEF CopyRound
<1> HIDE DEF b, L, o, l
<1>4. x \in Int /\ l \in Int /\ x >= 0
  BY <1>1, <1>2 DEF b, L, o
<1> HIDE DEF x
<1>5. n = IF x <= l THEN x ELSE l
  BY <1>4, MinMaxOfTwo
<1> HIDE DEF n
<1>6. n \in Nat /\ n <= l /\ n <= x
  BY <1>2, <1>4, <1>5
<1>7. o + n <= L /\ l - n \in Nat
  BY <1>1, <1>2, <1>6 DEF x
<1>8. q \in Seq(Byte) /\ Len(q) = n /\ \A i \in 1..n : q[i] = b[o + i]
  BY <1>1, <1>2, <1>6, <1>7, PartOf DEF L
<1> HIDE DEF q
<1>9. s.cp \o q \in Seq(Byte)
  BY <1>2, <1>8, ConcatProperties
<1>10. t \in CopyStates /\ ~t.skipping /\ t.offset = 0 /\ t.len = l - n /\ t.cp = s.cp \o q
  BY <1>7, <1>9 DEF CopyStates
<1> HIDE DEF t
<1>11. CopyTakes(s, m, t, n, q)
  BY <1>5, <1>6, <1>7, <1>8, <1>10 DEF CopyTakes, x, b, L, o, l
<1>12. QED BY <1>3, <1>11

LEMMA CopyRoundType ==
  ASSUME NEW s \in CopyStates, NEW m \in Mbuf
  PROVE  CopyRound(s, m) \in CopyStates
BY CopyRoundSkips, CopyRoundTakes DEF CopyTakes

\* The rounds, one for each mbuf.
CopyRounds(f, c, offset, len) ==
  /\ f[0] = CopyBegin(offset, len)
  /\ \A k \in 1..Len(c) : f[k] = CopyRound(f[k - 1], c[k])

LEMMA CopyFold ==
  ASSUME NEW c \in Seq(Mbuf), NEW offset \in Nat, NEW len \in Nat
  PROVE  \E f : CopyRounds(f, c, offset, len) /\ m_copydata(c, offset, len) = f[Len(c)].cp
<1> DEFINE n == Len(c)
           v == CopyBegin(offset, len)
           V == CopyStates
           g == [x \in (1..n) \X V |-> CopyRound(x[2], c[x[1]])]
           Q(it) == it = [s \in SUBSET (1..n) |->
                            IF s = {} THEN v ELSE CopyRound(it[s \ {Max(s)}], c[Max(s)])]
<1>1. n \in Nat /\ DOMAIN c = 1..n /\ \A i \in 1..n : c[i] \in Mbuf
  BY ChainFacts
<1>2. m_copydata(c, offset, len) = (CHOOSE it : Q(it))[1..n].cp
  <2> DEFINE P(it) == it = [s \in SUBSET DOMAIN c |->
                              IF s = {} THEN v ELSE CopyRound(it[s \ {Max(s)}], c[Max(s)])]
  <2>1. m_copydata(c, offset, len) = (CHOOSE it : P(it))[DOMAIN c].cp
    BY DEF m_copydata, FoldLeft, MapThenFoldSet, CopyRound, CopyBegin
  <2> HIDE DEF n, v
  <2>2. QED BY <1>1, <2>1
<1>3. v \in V
  BY DEF CopyBegin, CopyStates
<1> HIDE DEF v, n
<1>4. g \in [(1..n) \X V -> V]
  BY <1>1, CopyRoundType
<1>5. PICK it \in [SUBSET (1..n) -> V] : Folds(it, n, v, g)
  <2> HIDE DEF V, g
  <2>1. QED BY <1>1, <1>3, <1>4, FoldExists
<1>6. Q(it)
  <2>1. ASSUME NEW s \in SUBSET (1..n), s # {}
        PROVE  g[<<Max(s), it[s \ {Max(s)}]>>] = CopyRound(it[s \ {Max(s)}], c[Max(s)])
    <3>1. s \in SUBSET (0..n)
      OBVIOUS
    <3>2. Max(s) \in 1..n
      BY <1>1, <2>1, <3>1, MaxFacts
    <3> HIDE DEF V
    <3>3. it[s \ {Max(s)}] \in V
      <4>1. s \ {Max(s)} \in SUBSET (1..n)
        OBVIOUS
      <4>2. QED BY <4>1
    <3>4. QED BY <3>2, <3>3
  <2> DEFINE a == [s \in SUBSET (1..n) |->
                     IF s = {} THEN v ELSE g[<<Max(s), it[s \ {Max(s)}]>>]]
             b == [s \in SUBSET (1..n) |->
                     IF s = {} THEN v ELSE CopyRound(it[s \ {Max(s)}], c[Max(s)])]
  <2>2. \A s \in SUBSET (1..n) : a[s] = b[s]
    <3> HIDE DEF g, V
    <3>1. QED BY <2>1
  <2>3. a = b
    BY <2>2
  <2>4. it = a
    BY <1>5 DEF Folds
  <2>5. QED BY <2>3, <2>4
<1> DEFINE j == CHOOSE x : Q(x)
<1>7. Q(j)
  <2> HIDE DEF Q
  <2>1. QED BY <1>6
<1> HIDE DEF j, g, V
<1> DEFINE f == [k \in 0..n |-> j[1..k]]
<1>8. f[0] = v
  <2>1. 1..0 = {} /\ {} \in SUBSET (1..n) /\ 0 \in 0..n
    BY <1>1
  <2>2. QED BY <1>7, <2>1
<1>9. ASSUME NEW k \in 1..n PROVE f[k] = CopyRound(f[k - 1], c[k])
  <2> DEFINE s == 1..k
  <2>1. k \in Nat /\ k # 0 /\ k \in 0..n /\ k - 1 \in 0..n /\ s \in SUBSET (1..n)
    BY <1>1
  <2>2. s # {} /\ Max(s) = k /\ s \ {k} = 1..(k - 1)
    BY <2>1, MaxOfInterval
  <2>3. f[k] = j[s] /\ f[k - 1] = j[1..(k - 1)]
    BY <2>1
  <2> HIDE DEF s, f
  <2>4. j[s] = CopyRound(j[s \ {Max(s)}], c[Max(s)])
    BY <1>7, <2>1, <2>2
  <2>5. QED BY <2>2, <2>3, <2>4
<1>10. n \in 0..n
  BY <1>1
<1>11. f[n] = j[1..n]
  BY <1>10
<1> HIDE DEF f, Q
<1>12. CopyRounds(f, c, offset, len)
  BY <1>8, <1>9 DEF CopyRounds, n, v
<1>13. QED BY <1>2, <1>11, <1>12 DEF j, n

\* A stretch, and the bytes that follow it.
Follows(d, a, l, n, q) ==
  /\ d \in Seq(Byte) /\ a \in Nat /\ l \in Nat /\ n \in Nat /\ q \in Seq(Byte)
  /\ a + (l + n) <= Len(d) /\ Len(q) = n
  /\ \A i \in 1..n : q[i] = d[a + (l + i)]

LEMMA Longer ==
  ASSUME NEW d, NEW a, NEW l, NEW n, NEW q, Follows(d, a, l, n, q)
  PROVE  Stretch(d, a, l) \o q = Stretch(d, a, l + n)
<1> USE DEF Follows
<1> DEFINE s == Stretch(d, a, l)
           t == Stretch(d, a, l + n)
           o == s \o q
<1>1. Len(d) \in Nat /\ a + l <= Len(d) /\ l + n \in Nat
  BY LenProperties
<1>2. s \in Seq(Byte) /\ Len(s) = l /\ \A i \in 1..l : s[i] = d[a + i]
  BY <1>1, StretchFacts
<1>3. t \in Seq(Byte) /\ Len(t) = l + n /\ \A i \in 1..l + n : t[i] = d[a + i]
  BY <1>1, StretchFacts
<1> HIDE DEF s, t
<1>4. /\ s \o q \in Seq(Byte) /\ Len(s \o q) = Len(s) + Len(q)
      /\ \A i \in 1..Len(s) + Len(q) : (s \o q)[i] = IF i <= Len(s) THEN s[i] ELSE q[i - Len(s)]
  BY <1>2, ConcatProperties
<1>5. /\ o \in Seq(Byte) /\ Len(o) = l + n
      /\ \A i \in 1..l + n : o[i] = IF i <= l THEN s[i] ELSE q[i - l]
  <2>1. Len(s) + Len(q) = l + n
    BY <1>2
  <2>2. QED BY <1>2, <1>4, <2>1
<1> HIDE DEF o
<1>6. ASSUME NEW i \in 1..l + n PROVE o[i] = t[i]
  <2>1. CASE i <= l
    <3>1. i \in 1..l
      BY <2>1
    <3>2. QED BY <1>2, <1>3, <1>5, <2>1, <3>1
  <2>2. CASE ~(i <= l)
    <3>1. i - l \in 1..n /\ l + (i - l) = i
      BY <2>2
    <3>2. QED BY <1>3, <1>5, <2>2, <3>1
  <2>3. QED BY <2>1, <2>2
<1>7. o = t
  BY <1>3, <1>5, <1>6, SeqEqual
<1>8. QED BY <1>7 DEF o, s, t

\* What the loop of m_copydata has done when u bytes of mbufs are behind it:
\* it is still looking for the offset, or it has copied up to e.
CopiedUpto(s, d, offset, len, u) ==
  /\ s \in CopyStates
  /\ s.skipping => /\ s.len = len /\ s.cp = <<>> /\ s.offset = offset - u
                   /\ u = 0 \/ u < offset
  /\ ~s.skipping => \E e \in Nat : /\ offset <= e /\ e <= offset + len /\ offset <= u
                                   /\ e = (IF offset + len <= u THEN offset + len ELSE u)
                                   /\ s.len = (offset + len) - e
                                   /\ s.cp = Stretch(d, offset, e - offset)

LEMMA CopiesOn ==
  ASSUME NEW d \in Seq(Byte), NEW offset \in Nat, NEW len \in Nat, offset + len <= Len(d),
         NEW u \in Nat, NEW s, CopiedUpto(s, d, offset, len, u), NEW m \in Mbuf,
         \A j \in 1..Len(m.bytes) : d[u + j] = m.bytes[j]
  PROVE  CopiedUpto(CopyRound(s, m), d, offset, len, u + Len(m.bytes))
<1> DEFINE L == Len(m.bytes)
           t == CopyRound(s, m)
           end == offset + len
<1>1. L \in Nat /\ s \in CopyStates /\ s.offset \in Nat /\ s.len \in Nat /\ Len(d) \in Nat
  BY MbufFields, LenProperties DEF CopiedUpto, CopyStates
<1>2. CASE s.skipping /\ L < s.offset
  <2>1. /\ t \in CopyStates /\ t.skipping /\ t.offset = s.offset - L
        /\ t.len = s.len /\ t.cp = s.cp
    BY <1>1, <1>2, CopyRoundSkips
  <2>2. s.len = len /\ s.cp = <<>> /\ s.offset = offset - u
    BY <1>2 DEF CopiedUpto
  <2> HIDE DEF t, L
  <2>3. u + L < offset /\ s.offset - L = offset - (u + L)
    BY <1>1, <1>2, <2>2
  <2>4. CopiedUpto(t, d, offset, len, u + L)
    BY <2>1, <2>2, <2>3 DEF CopiedUpto
  <2>5. QED BY <2>4 DEF t, L
<1>3. CASE ~(s.skipping /\ L < s.offset)
  <2>1. PICK n, q : CopyTakes(s, m, t, n, q)
    BY <1>1, <1>3, CopyRoundTakes
  <2>2. /\ t \in CopyStates /\ ~t.skipping
        /\ n = (IF L - s.offset <= s.len THEN L - s.offset ELSE s.len)
        /\ n \in Nat /\ n <= s.len /\ s.offset + n <= L
        /\ t.len = s.len - n /\ t.cp = s.cp \o q
        /\ q \in Seq(Byte) /\ Len(q) = n
        /\ \A i \in 1..n : q[i] = m.bytes[s.offset + i]
    BY <2>1 DEF CopyTakes
  <2>3. \A i \in 1..n : q[i] = d[u + (s.offset + i)]
    <3> DEFINE o == s.offset
    <3>1. o \in Nat /\ n \in Nat /\ o + n <= L
      BY <1>1, <2>2
    <3> HIDE DEF o
    <3>2. \A i \in 1..n : o + i \in 1..L
      BY <3>1
    <3>3. QED BY <2>2, <3>2 DEF o
  <2> HIDE DEF t, L
  \* From e on the round copies n bytes.
  <2>4. \E e \in Nat : /\ offset <= e /\ e <= end /\ e + n <= end
                       /\ s.len = end - e /\ s.cp = Stretch(d, offset, e - offset)
                       /\ e + n = (IF end <= u + L THEN end ELSE u + L)
                       /\ (n > 0 => e = u + s.offset) /\ offset <= u + L
    <3>1. CASE s.skipping
      <4>1. s.len = len /\ s.cp = <<>> /\ s.offset = offset - u
        BY <3>1 DEF CopiedUpto
      <4>2. Stretch(d, offset, offset - offset) = <<>>
        <5>1. offset - offset = 0 /\ offset + 0 <= Len(d) /\ 0 \in Nat
          BY <1>1
        <5>2. Stretch(d, offset, 0) \in Seq(Byte) /\ Len(Stretch(d, offset, 0)) = 0
          BY <5>1, StretchFacts
        <5>3. QED BY <5>1, <5>2, EmptySeq
      <4>3. /\ offset <= end /\ offset + n <= end /\ len = end - offset
            /\ offset + n = (IF end <= u + L THEN end ELSE u + L)
            /\ offset = u + s.offset /\ offset <= u + L
        BY <1>1, <1>3, <2>2, <3>1, <4>1
      <4>4. QED BY <4>1, <4>2, <4>3
    <3>2. CASE ~s.skipping
      <4>1. PICK e \in Nat :
              /\ offset <= e /\ e <= end /\ offset <= u
              /\ e = (IF end <= u THEN end ELSE u)
              /\ s.len = end - e
              /\ s.cp = Stretch(d, offset, e - offset)
        BY <3>2 DEF CopiedUpto
      <4>2. s.offset = 0
        BY <1>1, <3>2 DEF CopyStates
      <4>3. /\ e + n <= end /\ offset <= u + L
            /\ e + n = (IF end <= u + L THEN end ELSE u + L)
            /\ (n > 0 => e = u + s.offset)
        BY <1>1, <2>2, <4>1, <4>2
      <4>4. QED BY <4>1, <4>3
    <3>3. QED BY <3>1, <3>2
  <2>5. PICK e \in Nat :
              /\ offset <= e /\ e <= end /\ e + n <= end
              /\ s.len = end - e /\ s.cp = Stretch(d, offset, e - offset)
              /\ e + n = (IF end <= u + L THEN end ELSE u + L)
              /\ (n > 0 => e = u + s.offset) /\ offset <= u + L
    BY <2>4
  <2> DEFINE l == e - offset
  <2>6. /\ l \in Nat /\ offset + (l + n) <= Len(d) /\ (e + n) - offset = l + n
        /\ end - (e + n) = s.len - n /\ e + n \in Nat /\ offset <= e + n
    <3> DEFINE y == s.len
               D == Len(d)
    <3>1. /\ y = end - e /\ end \in Nat /\ end <= D /\ D \in Nat /\ n \in Nat
          /\ offset <= e /\ e + n <= end
      BY <1>1, <2>2, <2>5
    <3> HIDE DEF y, D, end
    <3>2. /\ l \in Nat /\ offset + (l + n) <= D /\ (e + n) - offset = l + n
          /\ end - (e + n) = y - n /\ e + n \in Nat /\ offset <= e + n
      BY <3>1
    <3>3. QED BY <3>2 DEF y, D
  <2>7. \A i \in 1..n : q[i] = d[offset + (l + i)]
    <3> DEFINE o == s.offset
    <3>1. o \in Nat /\ n \in Nat /\ offset <= e /\ (n > 0 => e = u + o)
      BY <1>1, <2>2, <2>5
    <3> HIDE DEF o
    <3>2. \A i \in 1..n : offset + (l + i) = u + (o + i)
      BY <3>1
    <3>3. \A i \in 1..n : q[i] = d[u + (o + i)]
      BY <2>3 DEF o
    <3> HIDE DEF l
    <3>4. QED BY <3>2, <3>3
  <2> HIDE DEF l
  <2>8. Stretch(d, offset, l) \o q = Stretch(d, offset, l + n)
    <3>1. l \in Nat /\ n \in Nat /\ offset + (l + n) <= Len(d) /\ q \in Seq(Byte) /\ Len(q) = n
      BY <2>2, <2>6
    <3>2. Follows(d, offset, l, n, q)
      BY <2>7, <3>1 DEF Follows
    <3>3. QED BY <3>2, Longer
  <2>9. t.cp = Stretch(d, offset, (e + n) - offset)
    BY <2>2, <2>5, <2>6, <2>8 DEF l
  <2> DEFINE x == e + n
             v == u + L
  <2>10. /\ x \in Nat /\ offset <= x /\ x <= offset + len /\ offset <= v
         /\ x = (IF offset + len <= v THEN offset + len ELSE v)
         /\ t.len = (offset + len) - x /\ t.cp = Stretch(d, offset, x - offset)
    BY <2>2, <2>5, <2>6, <2>9
  <2> HIDE DEF x, v
  <2>11. CopiedUpto(t, d, offset, len, v)
    BY <2>2, <2>10 DEF CopiedUpto
  <2>12. QED BY <2>11 DEF t, L, v
<1>4. QED BY <1>2, <1>3

\* m_copydata delivers the bytes asked for.
LEMMA CopydataFacts ==
  ASSUME NEW c \in Seq(Mbuf), NEW offset \in Nat, NEW len \in Nat,
         offset + len <= Total(c)
  PROVE  m_copydata(c, offset, len) = Stretch(Data(c), offset, len)
<1> DEFINE d == Data(c)
           N == Len(c)
           T == Total(c)
<1>1. /\ d \in Seq(Byte) /\ Len(d) = T /\ T \in Nat /\ N \in Nat
      /\ Upto(c, 0) = 0 /\ Upto(c, N) = T
  BY ChainFacts, Layout, UptoFacts
<1>2. PICK f : CopyRounds(f, c, offset, len) /\ m_copydata(c, offset, len) = f[N].cp
  BY CopyFold
<1> HIDE DEF d, N, T
<1> DEFINE I(k) == CopiedUpto(f[k], d, offset, len, Upto(c, k))
           P == {k \in 0..N : I(k)}
<1>3. 0 \in P
  <2>1. f[0] = CopyBegin(offset, len)
    BY <1>2 DEF CopyRounds
  <2> DEFINE s == CopyBegin(offset, len)
  <2>2. s \in CopyStates /\ s.skipping /\ s.len = len /\ s.cp = <<>> /\ s.offset = offset
    BY DEF CopyBegin, CopyStates
  <2> HIDE DEF s
  <2>3. offset = offset - 0
    OBVIOUS
  <2>4. CopiedUpto(s, d, offset, len, 0)
    BY <2>2, <2>3 DEF CopiedUpto
  <2>5. QED BY <1>1, <2>1, <2>4 DEF s
<1>4. ASSUME NEW k \in 0..N, k \in P, k < N PROVE k + 1 \in P
  <2>1. k + 1 \in 1..N /\ k + 1 \in 0..N /\ (k + 1) - 1 = k
    BY <1>1, <1>4
  <2> DEFINE m == c[k + 1]
             u == Upto(c, k)
  <2>2. m \in Mbuf /\ u \in Nat /\ Upto(c, k + 1) = u + Len(m.bytes)
        /\ \A j \in 1..Len(m.bytes) : d[u + j] = m.bytes[j]
    BY <2>1, ChainFacts, UptoFacts, Layout DEF N, d
  <2>3. f[k + 1] = CopyRound(f[k], m)
    BY <1>2, <2>1 DEF CopyRounds, N
  <2>4. CopiedUpto(f[k], d, offset, len, u)
    BY <1>4
  <2> DEFINE s == f[k]
  <2> HIDE DEF m, u, s, P, I
  <2>5. CopiedUpto(s, d, offset, len, u) /\ offset + len <= Len(d) /\ d \in Seq(Byte)
    BY <1>1, <2>4 DEF T, s
  <2>6. CopiedUpto(CopyRound(s, m), d, offset, len, u + Len(m.bytes))
    BY <2>2, <2>5, CopiesOn
  <2>7. CopiedUpto(f[k + 1], d, offset, len, Upto(c, k + 1))
    BY <2>2, <2>3, <2>6 DEF s
  <2>8. QED BY <2>1, <2>7 DEF P, I
<1> HIDE DEF P
<1>5. N \in P
  <2>1. N \in 0..N
    BY <1>1
  <2>2. QED BY <1>1, <1>3, <1>4, <2>1, UpTo
<1>6. CopiedUpto(f[N], d, offset, len, T)
  BY <1>1, <1>5 DEF P
<1> DEFINE s == f[N]
<1>7. s.cp = Stretch(d, offset, len)
  <2>1. offset + len <= T
    BY DEF T
  <2> HIDE DEF s
  <2>2. CASE s.skipping
    <3>1. s.cp = <<>> /\ (T = 0 \/ T < offset)
      BY <1>6, <2>2 DEF CopiedUpto, s
    <3>2. len = 0
      BY <1>1, <2>1, <3>1
    <3>3. Stretch(d, offset, len) \in Seq(Byte) /\ Len(Stretch(d, offset, len)) = 0
      BY <1>1, <2>1, <3>2, StretchFacts
    <3>4. QED BY <3>1, <3>3, EmptySeq
  <2>3. CASE ~s.skipping
    <3>1. PICK e \in Nat : /\ e = (IF offset + len <= T THEN offset + len ELSE T)
                           /\ s.cp = Stretch(d, offset, e - offset)
      BY <1>6, <2>3 DEF CopiedUpto, s
    <3>2. e - offset = len
      BY <2>1, <3>1
    <3>3. QED BY <3>1, <3>2
  <2>4. QED BY <2>2, <2>3
<1>8. QED BY <1>2, <1>7 DEF s, d

LEMMA CopydataIsExact == TypeOK => CopydataExact
<1> SUFFICES ASSUME TypeOK, NEW offset \in 0..Total(chain),
                    NEW len \in 0..(Total(chain) - offset)
             PROVE  m_copydata(chain, offset, len) = Stretch(Data(chain), offset, len)
  BY DEF CopydataExact
<1>1. chain \in Seq(Mbuf) /\ Total(chain) \in Nat
  BY Held
<1>2. offset \in Nat /\ len \in Nat /\ offset + len <= Total(chain)
  BY <1>1
<1>3. QED BY <1>1, <1>2, CopydataFacts

LEMMA CopymIsExact == TypeOK => CopymExact
<1> SUFFICES ASSUME TypeOK, chain # <<>>, NEW offset \in 0..Total(chain),
                    NEW len \in 0..(2 * MLEN)
             PROVE  LET r == m_copym(chain, offset, len)
                        added == Total(r.source) - Total(chain)
                    IN  /\ Data(r.source) = Data(chain) \o Zeros(added)
                        /\ offset + len <= Total(chain) => r.source = chain
                        /\ Data(r.copy) = Stretch(Data(r.source), offset, len)
  BY DEF CopymExact
<1> DEFINE r == m_copym(chain, offset, len)
<1>1. chain \in Seq(Mbuf) /\ Len(chain) > 0 /\ Total(chain) \in Nat
  BY Held
<1>2. offset \in Nat /\ len \in Nat /\ offset <= Total(chain)
  BY <1>1, SizesAreNumbers
<1>3. Copied(r, chain, offset, len)
  BY <1>1, <1>2, CopymFacts
<1> HIDE DEF r
<1>4. PICK k, z \in Nat : Grown(r.source, chain, k, z)
  BY <1>3 DEF Copied
<1>5. Data(r.source) = Data(chain) \o Zeros(z) /\ Total(r.source) = Total(chain) + z
  BY <1>4 DEF Grown
<1>6. Total(r.source) - Total(chain) = z
  BY <1>1, <1>5
<1>7. QED BY <1>3, <1>5, <1>6 DEF Copied, r

\* The copy of a whole chain has its mbufs, up to the last that has data.
LEMMA WholePieces ==
  ASSUME NEW c \in Seq(Mbuf), NEW i \in 1..Len(c)
  PROVE  Piece(c, i, 0, Total(c)) = c[i].bytes
<1> DEFINE from == Upto(c, i - 1)
           to == Upto(c, i)
           T == Total(c)
           L == Len(c[i].bytes)
           q == Piece(c, i, 0, T)
           b == c[i].bytes
<1>1. /\ from \in Nat /\ to = from + L /\ L \in Nat /\ b \in Seq(Byte) /\ T \in Nat
  BY ChainFacts, MbufFields, UptoFacts
<1>2. to <= T
  <2>1. i \in 0..Len(c) /\ Len(c) \in 0..Len(c) /\ i <= Len(c)
    BY ChainFacts
  <2>2. QED BY <2>1, UptoFacts
<1>3. Within(c, i, 0, T, from, to) /\ to \in Nat
  <2>1. 0 + T = T
    BY <1>1
  <2>2. from = (IF 0 >= Upto(c, i - 1) THEN 0 ELSE Upto(c, i - 1))
    BY <1>1
  <2> DEFINE y == to
  <2>3. y \in Nat /\ y <= T /\ from <= y
    BY <1>1, <1>2
  <2> HIDE DEF y, T, from
  <2>4. y = IF 0 + T <= y THEN 0 + T ELSE y
    BY <1>1, <2>3
  <2>5. QED BY <2>2, <2>3, <2>4 DEF Within, y
<1>4. \A j \in 1..L : Data(c)[from + j] = b[j]
  BY Layout
<1> HIDE DEF from, to, T, q, b, L
<1>5. q \in Seq(Byte) /\ Len(q) = to - from /\ \A j \in 1..to - from : q[j] = Data(c)[from + j]
  <2> DEFINE z == 0
  <2>1. Located(c, i, z, T, from, to)
    BY <1>1, <1>3 DEF Located
  <2> HIDE DEF z
  <2>2. /\ Piece(c, i, z, T) \in Seq(Byte) /\ Len(Piece(c, i, z, T)) = to - from
        /\ \A j \in 1..to - from : Piece(c, i, z, T)[j] = Data(c)[from + j]
    BY <2>1, PieceFacts
  <2>3. QED BY <2>2 DEF q, z
<1>6. to - from = L
  BY <1>1
<1>7. q = b
  <2>1. Len(q) = L /\ \A j \in 1..L : q[j] = b[j]
    BY <1>4, <1>5, <1>6
  <2>2. L = Len(b)
    BY DEF L, b
  <2> HIDE DEF L
  <2>3. q \in Seq(Byte) /\ b \in Seq(Byte) /\ Len(q) = Len(b) /\ \A j \in 1..Len(q) : q[j] = b[j]
    BY <1>1, <1>5, <2>1, <2>2
  <2>4. QED BY <2>3, SeqEqual
<1>8. QED BY <1>7 DEF q, b, T

\* The loop over the mbufs reaches the last one exactly if that one has data.
LEMMA LastWithData ==
  ASSUME NEW c \in Seq(Mbuf), Len(c) > 0, Total(c) > 0
  PROVE  /\ At(c, 0) = 1 /\ At(c, Total(c)) \in 1..Len(c)
         /\ At(c, Total(c)) = Len(c) <=> c[Len(c)].bytes # <<>>
<1> DEFINE T == Total(c)
           N == Len(c)
           k == At(c, T)
<1>1. T \in Nat /\ N \in Nat /\ 0 \in 0..T /\ T \in 0..T /\ Upto(c, N) = T
      /\ 1 \in 1..N /\ N \in 1..N /\ N - 1 \in 0..N
  BY UptoFacts, ChainFacts
<1>2. At(c, 0) = 1
  <2>1. /\ At(c, 0) \in 1..N
        /\ \A i \in 1..N : i < At(c, 0) => Upto(c, i) < 0
    BY <1>1, AtFacts
  <2>2. Upto(c, 1) \in Nat
    <3>1. 1 \in 0..N
      BY <1>1
    <3>2. QED BY <3>1, UptoFacts
  <2>3. ~(Upto(c, 1) < 0)
    BY <2>2
  <2>4. ~(1 < At(c, 0))
    BY <1>1, <2>1, <2>3
  <2>5. QED BY <1>1, <2>1, <2>4
<1>3. /\ k \in 1..N /\ Upto(c, k) >= T
      /\ \A i \in 1..N : i < k => Upto(c, i) < T
  BY <1>1, AtFacts
<1> HIDE DEF k
<1> DEFINE l == Len(c[N].bytes)
<1>4. /\ Upto(c, N) = Upto(c, N - 1) + l /\ l \in Nat /\ Upto(c, N - 1) \in Nat
      /\ c[N].bytes \in Seq(Byte)
  BY <1>1, ChainFacts, MbufFields, UptoFacts
<1>5. l = 0 <=> c[N].bytes = <<>>
  BY <1>4, EmptySeq
<1>6. k = N <=> l # 0
  <2> DEFINE x == Upto(c, N - 1)
  <2> HIDE DEF l, T, N
  <2>1. T = x + l /\ x \in Nat
    BY <1>1, <1>4
  <2>2. ASSUME k = N, l = 0 PROVE FALSE
    <3>1. x = T
      BY <1>4, <2>1, <2>2
    <3>2. N # 1
      <4>1. ASSUME N = 1 PROVE FALSE
        <5>1. N - 1 = 0
          BY <4>1
        <5>2. x = 0
          BY <5>1, UptoFacts
        <5>3. QED BY <3>1, <5>2 DEF T
      <4>2. QED BY <4>1
    <3>3. N - 1 \in 1..N /\ N - 1 < k
      BY <1>1, <2>2, <3>2
    <3>4. x < T
      BY <1>3, <3>3
    <3>5. QED BY <1>1, <3>1, <3>4
  <2>3. ASSUME k # N, l # 0 PROVE FALSE
    <3>1. k \in 0..N /\ k <= N - 1
      BY <1>1, <1>3, <2>3
    <3>2. Upto(c, k) \in Nat /\ Upto(c, k) <= x
      BY <1>1, <3>1, UptoFacts DEF N
    <3> DEFINE y == Upto(c, k)
    <3>3. y \in Nat /\ y <= x /\ y >= T
      BY <1>3, <3>2
    <3> HIDE DEF y, x
    <3>4. l > 0
      BY <1>4, <2>3
    <3>5. QED BY <1>4, <2>1, <3>3, <3>4
  <2>4. QED BY <2>2, <2>3
<1>7. QED BY <1>2, <1>3, <1>5, <1>6 DEF k

LEMMA CopyIsComparedRight == TypeOK => CopyIsEqual
<1> SUFFICES ASSUME TypeOK, chain # <<>>, Total(chain) > 0
             PROVE  mbuf_equal(chain, m_copym(chain, 0, Total(chain)).copy) <=>
                      chain[1].hdr /\ ~chain[1].ext /\ chain[Len(chain)].bytes # <<>>
  BY DEF CopyIsEqual
<1> DEFINE c == chain
           T == Total(c)
           N == Len(c)
           r == m_copym(c, 0, T)
           d == CopyOf(c, 0, T)
           last == At(c, T)
<1>1. c \in Seq(Mbuf) /\ N > 0 /\ N \in Nat /\ T \in Nat /\ DOMAIN c = 1..N
  BY Held, ChainFacts
<1>2. r.copy = d
  <2>1. Extended(c, 0 + T - Total(c)) = c
    <3>1. 0 + T - Total(c) = 0 /\ 0 \in Int
      BY <1>1
    <3>2. QED BY <1>1, <3>1, ExtendedFacts
  <2>2. T # 0
    OBVIOUS
  <2>3. r = [source |-> Extended(c, 0 + T - Total(c)),
             copy |-> CopyOf(Extended(c, 0 + T - Total(c)), 0, T)]
    BY <2>2 DEF m_copym, CopyOf
  <2>4. QED BY <2>1, <2>3
<1>3. At(c, 0) = 1 /\ last \in 1..N /\ (last = N <=> c[N].bytes # <<>>)
  BY <1>1, LastWithData
<1>4. /\ d \in Seq(Mbuf) /\ Len(d) = last /\ Len(d) > 0 /\ d[1].hdr /\ ~d[1].ext
      /\ \A i \in 1..last : d[i].bytes = c[i].bytes
  <2>1. 0 + T = T /\ 0 \in Nat /\ 0 + T <= T
    BY <1>1
  <2>2. /\ d \in Seq(Mbuf) /\ Len(d) = (At(c, 0 + T) - At(c, 0)) + 1 /\ Len(d) > 0
        /\ d[1].hdr /\ ~d[1].ext
        /\ \A i \in 1..Len(d) : d[i].bytes = Piece(c, At(c, 0) + i - 1, 0, T)
    BY <1>1, <2>1, CopyOfFacts
  <2> HIDE DEF d, last, T, N, c
  <2>3. Len(d) = last
    <3>1. Len(d) = (last - 1) + 1
      BY <1>3, <2>1, <2>2 DEF last
    <3>2. QED BY <1>1, <1>3, <3>1
  <2>4. \A i \in 1..last : i \in 1..N /\ 1 + i - 1 = i
    BY <1>1, <1>3
  <2>5. ASSUME NEW i \in 1..last PROVE d[i].bytes = c[i].bytes
    <3>1. d[i].bytes = Piece(c, i, 0, T)
      BY <1>3, <2>2, <2>3, <2>4
    <3>2. QED BY <1>1, <2>4, <3>1, WholePieces DEF T, N
  <2>6. QED BY <2>2, <2>3, <2>5
<1>5. DOMAIN d = 1..last
  BY <1>4, ChainFacts
<1> DEFINE B == [i \in DOMAIN c |-> c[i].bytes]
           E == [i \in DOMAIN d |-> d[i].bytes]
<1>6. mbuf_equal(c, d) <=> c[1].hdr = d[1].hdr /\ c[1].ext = d[1].ext /\ B = E
  BY DEF mbuf_equal
<1> HIDE DEF c, d, T, N, last, r
<1>7. B = E <=> last = N
  <2>1. ASSUME B = E PROVE last = N
    <3>1. DOMAIN B = 1..N /\ DOMAIN E = 1..last
      BY <1>1, <1>5
    <3>2. 1..N = 1..last
      BY <2>1, <3>1
    <3>3. N \in 1..last /\ last \in 1..N
      BY <1>1, <1>3, <3>2
    <3>4. QED BY <1>1, <1>3, <3>3
  <2>2. ASSUME last = N PROVE B = E
    BY <1>1, <1>4, <1>5, <2>2
  <2>3. QED BY <2>1, <2>2
<1>8. c[1].hdr \in BOOLEAN /\ c[1].ext \in BOOLEAN /\ d[1].hdr \in BOOLEAN /\ d[1].ext \in BOOLEAN
  <2>1. 1 \in 1..N /\ 1 \in 1..last
    BY <1>1, <1>3
  <2>2. c[1] \in Mbuf /\ d[1] \in Mbuf
    BY <1>1, <1>4, <2>1, ChainFacts DEF N
  <2>3. QED BY <2>2, MbufFields
<1>9. mbuf_equal(c, d) <=> c[1].hdr /\ ~c[1].ext /\ c[N].bytes # <<>>
  <2> HIDE DEF B, E
  <2>1. QED BY <1>3, <1>4, <1>6, <1>7, <1>8
<1>10. QED BY <1>2, <1>9 DEF c, T, N, r

-----------------------------------------------------------------------------
(* The room of a copy.                                                     *)

\* The share of an mbuf, by where it begins and stops.
LEMMA ShareFacts ==
  ASSUME NEW c \in Seq(Mbuf), NEW i \in 1..Len(c), NEW offset \in Nat, NEW len \in Nat
  PROVE  LET from == BeginIn(c, i, offset)
             to == EndIn(c, i, offset + len)
         IN  /\ from \in Nat /\ to \in Nat
             /\ Share(c, i, offset, len) = IF from < to THEN to - from ELSE 0
             /\ Share(c, i, offset, len) \in Nat /\ Share(c, i, offset, len) <= len
             /\ Share(c, i, offset, len) <= Len(c[i].bytes)
<1> DEFINE u == Upto(c, i - 1)
           v == Upto(c, i)
           end == offset + len
           from == BeginIn(c, i, offset)
           to == EndIn(c, i, end)
           l == Len(c[i].bytes)
           S == ((offset + 1)..end) \cap ((u + 1)..v)
<1>1. u \in Nat /\ v = u + l /\ l \in Nat /\ end \in Nat
  BY ChainFacts, MbufFields, UptoFacts
<1>2. from = (IF offset >= u THEN offset ELSE u) /\ to = (IF end <= v THEN end ELSE v)
  BY DEF BeginIn, EndIn
<1>3. Share(c, i, offset, len) = Cardinality(S)
  BY DEF Share
<1>4. end = offset + len
  OBVIOUS
<1> HIDE DEF u, v, end, from, to, l
<1>5. from \in Nat /\ to \in Nat /\ from + 1 \in Int /\ to \in Int
  BY <1>1, <1>2
<1>6. S = (from + 1)..to
  BY <1>1, <1>2, <1>5
<1> HIDE DEF S
<1>7. Cardinality(S) = IF from + 1 > to THEN 0 ELSE to - (from + 1) + 1
  <2> DEFINE b == from + 1
  <2>1. b \in Int
    BY <1>5
  <2> HIDE DEF b
  <2>2. Cardinality(b..to) = IF b > to THEN 0 ELSE to - b + 1
    BY <1>5, <2>1, FS_Interval
  <2>3. QED BY <1>6, <2>2 DEF b
<1>8. Cardinality(S) = IF from < to THEN to - from ELSE 0
  BY <1>5, <1>7
<1>9. Cardinality(S) \in Nat /\ Cardinality(S) <= len /\ Cardinality(S) <= l
  BY <1>1, <1>2, <1>4, <1>5, <1>8
<1>10. QED BY <1>3, <1>5, <1>8, <1>9 DEF from, to, end, l

\* The shares have room in the mbufs of the copy.
RoomFor(c, i, offset) == IF i = At(c, offset) THEN MHLEN ELSE MLEN

SharesFit(c, offset, len) ==
  \A i \in 1..Len(c) : Share(c, i, offset, len) <= RoomFor(c, i, offset)

\* An mbuf of the copy has the share of one of the source, and no mbuf outside
\* the stretch has a share.
LEMMA CopyHasShares ==
  ASSUME NEW c \in Seq(Mbuf), Len(c) > 0, NEW offset \in Nat, NEW len \in Nat, len > 0,
         offset + len <= Total(c)
  PROVE  LET d == CopyOf(c, offset, len)
             first == At(c, offset)
             last == At(c, offset + len)
         IN  /\ first \in 1..Len(c) /\ last \in 1..Len(c) /\ first <= last
             /\ \A i \in first..last :
                  HasRoom(d[i - first + 1]) <=> Share(c, i, offset, len) <= RoomFor(c, i, offset)
             /\ \A i \in 1..Len(c) : ~(i \in first..last) => Share(c, i, offset, len) = 0
             /\ d[1].plen = 0
<1> DEFINE d == CopyOf(c, offset, len)
           end == offset + len
           first == At(c, offset)
           last == At(c, end)
           N == Len(c)
<1>1. /\ first \in 1..N /\ last \in 1..N /\ first <= last
      /\ \A i \in first..last :
           /\ Within(c, i, offset, len, BeginIn(c, i, offset), EndIn(c, i, end))
           /\ BeginIn(c, i, offset) \in Nat /\ EndIn(c, i, end) \in Nat
  BY CopymPlaces
<1>2. N \in Nat /\ end \in Nat /\ Total(c) \in Nat /\ offset \in 0..Total(c) /\ end \in 0..Total(c)
  BY ChainFacts, UptoFacts
<1>3. /\ \A i \in 1..N : i < first => Upto(c, i) < offset
      /\ Upto(c, last) >= end
  BY <1>2, AtFacts
<1>4. d = [k \in 1..(last - first + 1) |->
             [IF k = 1 THEN MGETHDR ELSE MGET
                EXCEPT !.bytes = Piece(c, first + k - 1, offset, len)]]
  BY DEF CopyOf
<1> HIDE DEF d, end, first, last, N
<1>5. ASSUME NEW i \in first..last
      PROVE  HasRoom(d[i - first + 1]) <=> Share(c, i, offset, len) <= RoomFor(c, i, offset)
  <2> DEFINE k == i - first + 1
             g == IF k = 1 THEN MGETHDR ELSE MGET
             p == Piece(c, i, offset, len)
             from == BeginIn(c, i, offset)
             to == EndIn(c, i, end)
             s == Share(c, i, offset, len)
  <2>1. k \in 1..(last - first + 1) /\ first + k - 1 = i /\ (k = 1 <=> i = first)
        /\ i \in 1..N
    BY <1>1, <1>2
  <2>2. d[k] = [g EXCEPT !.bytes = p]
    BY <1>4, <2>1
  <2>3. from \in Nat /\ to \in Nat /\ Within(c, i, offset, len, from, to)
    BY <1>1
  <2>4. s = IF from < to THEN to - from ELSE 0
    BY <2>1, ShareFacts DEF N, end
  <2> HIDE DEF from, to, s
  <2>5. Len(p) = to - from /\ from <= to
    <3>1. from <= to
      BY <2>3 DEF Within
    <3>2. Located(c, i, offset, len, from, to)
      BY <2>3 DEF Located
    <3>3. Len(Piece(c, i, offset, len)) = to - from
      BY <3>2, PieceFacts
    <3>4. QED BY <3>1, <3>3
  <2>6. Len(p) = s
    BY <2>3, <2>4, <2>5
  <2>7. /\ g \in Mbuf /\ ~g.ext
        /\ g.hdr => g.off = PKTHDR
        /\ ~g.hdr => g.off = 0
        /\ g.hdr <=> k = 1
    BY EmptyMbufs
  <2> DEFINE e == d[k]
             lp == Len(p)
  <2>8. ~e.ext /\ e.off = g.off /\ e.hdr = g.hdr /\ e.bytes = p
    <3> HIDE DEF g, p
    <3>1. QED BY <2>2, <2>7 DEF Mbuf
  <2>9. g.hdr \in BOOLEAN /\ lp \in Nat
    BY <2>3, <2>5, <2>7, MbufFields
  <2> HIDE DEF e, g, p, k
  <2>10. HasRoom(e) <=> /\ e.off >= (IF e.hdr THEN PKTHDR ELSE 0)
                       /\ e.off + lp <= MLEN
    BY <2>8 DEF HasRoom
  <2> HIDE DEF lp
  <2>11. CASE i = first
    <3>1. HasRoom(e) <=> PKTHDR >= PKTHDR /\ PKTHDR + lp <= MLEN
      BY <2>1, <2>7, <2>8, <2>9, <2>10, <2>11
    <3>2. PKTHDR + lp <= MLEN <=> lp <= MHLEN
      BY <2>9, SizesAreNumbers
    <3>3. RoomFor(c, i, offset) = MHLEN
      BY <2>11 DEF RoomFor, first
    <3>4. PKTHDR >= PKTHDR
      BY SizesAreNumbers
    <3>5. QED BY <2>6, <3>1, <3>2, <3>3, <3>4 DEF e, k, s, lp
  <2>12. CASE i # first
    <3>1. HasRoom(e) <=> 0 >= 0 /\ 0 + lp <= MLEN
      BY <2>1, <2>7, <2>8, <2>9, <2>10, <2>12
    <3>2. 0 + lp = lp /\ 0 >= 0
      BY <2>9
    <3>3. RoomFor(c, i, offset) = MLEN
      BY <2>12 DEF RoomFor, first
    <3>4. QED BY <2>6, <3>1, <3>2, <3>3 DEF e, k, s, lp
  <2>13. QED BY <2>11, <2>12
<1>6. ASSUME NEW i \in 1..N, ~(i \in first..last) PROVE Share(c, i, offset, len) = 0
  <2> DEFINE from == BeginIn(c, i, offset)
             to == EndIn(c, i, end)
             u == Upto(c, i - 1)
             v == Upto(c, i)
             w == Upto(c, last)
  <2>1. /\ from \in Nat /\ to \in Nat
        /\ Share(c, i, offset, len) = IF from < to THEN to - from ELSE 0
    BY ShareFacts DEF N, end
  <2>2. i - 1 \in 0..N /\ i \in 0..N /\ last \in 0..N
    BY <1>1, <1>2
  <2>3. u \in Nat /\ v \in Nat /\ w \in Nat /\ (last <= i - 1 => w <= u)
    BY <2>2, UptoFacts DEF N
  <2>4. from = (IF offset >= u THEN offset ELSE u) /\ to = (IF end <= v THEN end ELSE v)
    BY DEF BeginIn, EndIn
  <2>5. i < first => v < offset
    BY <1>3
  <2>6. w >= end
    BY <1>3
  <2>7. i < first \/ last <= i - 1
    BY <1>1, <1>2, <1>6
  <2> HIDE DEF from, to, u, v, w
  <2>8. ~(from < to)
    BY <1>2, <2>1, <2>3, <2>4, <2>5, <2>6, <2>7
  <2>9. QED BY <2>1, <2>8
<1>7. d[1].plen = 0
  <2>1. 1 \in 1..(last - first + 1)
    BY <1>1, <1>2
  <2> DEFINE p == Piece(c, first + 1 - 1, offset, len)
  <2>2. d[1] = [MGETHDR EXCEPT !.bytes = p]
    BY <1>4, <2>1
  <2>3. MGETHDR \in Mbuf /\ MGETHDR.plen = 0
    BY EmptyMbufs
  <2> DEFINE g == MGETHDR
  <2> HIDE DEF p, g
  <2>4. d[1].plen = g.plen
    BY <2>2, <2>3 DEF Mbuf, g
  <2>5. QED BY <2>3, <2>4 DEF g
<1>8. QED BY <1>1, <1>5, <1>6, <1>7 DEF d, end, first, last, N

LEMMA CopyOfFits ==
  ASSUME NEW c \in Seq(Mbuf), Len(c) > 0, NEW offset \in Nat, NEW len \in Nat, len > 0,
         offset + len <= Total(c)
  PROVE  AllFit(CopyOf(c, offset, len)) <=> SharesFit(c, offset, len)
<1> DEFINE d == CopyOf(c, offset, len)
           first == At(c, offset)
           last == At(c, offset + len)
           N == Len(c)
<1>1. /\ first \in 1..N /\ last \in 1..N /\ first <= last
      /\ \A i \in first..last :
           HasRoom(d[i - first + 1]) <=> Share(c, i, offset, len) <= RoomFor(c, i, offset)
      /\ \A i \in 1..N : ~(i \in first..last) => Share(c, i, offset, len) = 0
  BY CopyHasShares
<1>2. d \in Seq(Mbuf) /\ Len(d) = (last - first) + 1 /\ N \in Nat
  BY CopyOfFacts, ChainFacts
<1>3. DOMAIN d = 1..Len(d)
  BY <1>2, ChainFacts
<1> HIDE DEF d, first, last, N
<1>4. ASSUME SharesFit(c, offset, len) PROVE AllFit(d)
  <2> SUFFICES ASSUME NEW k \in 1..Len(d) PROVE HasRoom(d[k])
    BY <1>3 DEF AllFit
  <2> DEFINE i == first + k - 1
  <2>1. i \in first..last /\ i \in 1..N /\ i - first + 1 = k
    BY <1>1, <1>2
  <2> HIDE DEF i
  <2>2. Share(c, i, offset, len) <= RoomFor(c, i, offset)
    BY <1>4, <2>1 DEF SharesFit, N
  <2>3. QED BY <1>1, <2>1, <2>2
<1>5. ASSUME AllFit(d) PROVE SharesFit(c, offset, len)
  <2> SUFFICES ASSUME NEW i \in 1..N PROVE Share(c, i, offset, len) <= RoomFor(c, i, offset)
    BY DEF SharesFit, N
  <2>1. CASE i \in first..last
    <3>1. i - first + 1 \in 1..Len(d)
      BY <1>1, <1>2, <2>1
    <3>2. HasRoom(d[i - first + 1])
      BY <1>3, <1>5, <3>1 DEF AllFit
    <3>3. QED BY <1>1, <2>1, <3>2
  <2>2. CASE ~(i \in first..last)
    <3>1. Share(c, i, offset, len) = 0
      BY <1>1, <2>2
    <3>2. RoomFor(c, i, offset) \in Nat
      BY SizesAreNumbers DEF RoomFor
    <3>3. QED BY <3>1, <3>2
  <2>3. QED BY <2>1, <2>2
<1>6. QED BY <1>4, <1>5 DEF d

\* A short copy fits.
LEMMA ShortFits ==
  ASSUME NEW c \in Seq(Mbuf), NEW offset \in Nat, NEW len \in Nat, len <= MHLEN
  PROVE  SharesFit(c, offset, len)
<1> SUFFICES ASSUME NEW i \in 1..Len(c)
             PROVE  Share(c, i, offset, len) <= RoomFor(c, i, offset)
  BY DEF SharesFit
<1>1. Share(c, i, offset, len) <= len /\ Share(c, i, offset, len) \in Nat
  BY ShareFacts
<1> DEFINE s == Share(c, i, offset, len)
           r == RoomFor(c, i, offset)
<1>2. r \in Nat /\ MHLEN <= r
  BY SizesAreNumbers DEF RoomFor
<1> HIDE DEF s, r
<1>3. s <= r
  BY <1>1, <1>2, SizesAreNumbers DEF s
<1>4. QED BY <1>3 DEF s, r

\* The front of a packet without clusters fits.
LEMMA PacketFits ==
  ASSUME NEW c \in Seq(Mbuf), Len(c) > 0, IsPacket(c), NEW len \in Nat, len > 0, len <= Total(c)
  PROVE  SharesFit(c, 0, len)
<1> SUFFICES ASSUME NEW i \in 1..Len(c) PROVE Share(c, i, 0, len) <= RoomFor(c, i, 0)
  BY DEF SharesFit
<1> DEFINE s == Share(c, i, 0, len)
           l == Len(c[i].bytes)
<1>1. s <= l /\ s \in Nat
  <2>1. 0 \in Nat
    OBVIOUS
  <2>2. QED BY <2>1, ShareFacts
<1>2. c[i] \in Mbuf /\ DOMAIN c = 1..Len(c) /\ 1 \in 1..Len(c) /\ l \in Nat
  BY ChainFacts, MbufFields
<1>3. HasRoom(c[i]) /\ ~c[i].ext /\ c[1].hdr
  BY <1>2 DEF IsPacket, AllFit
<1> DEFINE o == c[i].off
<1>4. o \in Nat /\ o + l <= MLEN /\ (i = 1 => o >= PKTHDR)
  <2>1. c[i].off >= (IF c[i].hdr THEN PKTHDR ELSE 0) /\ c[i].off + l <= MLEN
    BY <1>3 DEF HasRoom
  <2>2. c[i].off \in Nat
    BY <1>2, MbufFields
  <2>3. QED BY <1>3, <2>1, <2>2
<1>5. At(c, 0) = 1
  <2>1. Total(c) > 0
    BY UptoFacts
  <2>2. QED BY <2>1, LastWithData
<1> HIDE DEF s, l, o
<1>6. CASE i = 1
  <2>1. RoomFor(c, i, 0) = MHLEN
    BY <1>5, <1>6 DEF RoomFor
  <2>2. s <= MHLEN
    BY <1>1, <1>2, <1>4, <1>6, SizesAreNumbers
  <2>3. QED BY <2>1, <2>2 DEF s
<1>7. CASE i # 1
  <2>1. RoomFor(c, i, 0) = MLEN
    BY <1>5, <1>7 DEF RoomFor
  <2>2. s <= MLEN
    BY <1>1, <1>2, <1>4, SizesAreNumbers
  <2>3. QED BY <2>1, <2>2 DEF s
<1>8. QED BY <1>6, <1>7

\* What m_copym returns for a length that is not 0.
LEMMA CopymIs ==
  ASSUME NEW c \in Seq(Mbuf), Len(c) > 0, NEW offset \in Nat, NEW len \in Nat, len > 0,
         offset <= Total(c)
  PROVE  LET r == m_copym(c, offset, len)
         IN  /\ r.source \in Seq(Mbuf) /\ Len(r.source) > 0
             /\ offset + len <= Total(r.source)
             /\ r.copy = CopyOf(r.source, offset, len)
             /\ offset + len <= Total(c) => r.source = c
<1> DEFINE r == m_copym(c, offset, len)
           source == Extended(c, offset + len - Total(c))
<1>1. Copied(r, c, offset, len)
  BY CopymFacts
<1>2. r = [source |-> source, copy |-> CopyOf(source, offset, len)]
  BY DEF m_copym, CopyOf
<1> HIDE DEF source
<1>3. r.source = source /\ r.copy = CopyOf(source, offset, len)
  BY <1>2
<1> HIDE DEF r
<1>4. PICK k, z \in Nat : Grown(r.source, c, k, z)
  BY <1>1 DEF Copied
<1>5. r.source \in Seq(Mbuf) /\ Len(r.source) > 0
  <2>1. r.source \in Seq(Mbuf) /\ Len(r.source) = Len(c) + k /\ Len(c) \in Nat
    BY <1>4, ChainFacts DEF Grown
  <2>2. QED BY <2>1
<1>6. offset + len <= Total(r.source) /\ (offset + len <= Total(c) => r.source = c)
  BY <1>1 DEF Copied
<1>7. QED BY <1>3, <1>5, <1>6 DEF r

LEMMA CopyFitsExactly == TypeOK => CopyFits
<1> SUFFICES ASSUME TypeOK, chain # <<>>, NEW offset \in 0..Total(chain),
                    NEW len \in 1..(2 * MLEN)
             PROVE  LET r == m_copym(chain, offset, len)
                        Room(i) == IF i = At(r.source, offset) THEN MHLEN ELSE MLEN
                    IN  /\ AllFit(r.copy) <=> \A i \in DOMAIN r.source :
                                               Share(r.source, i, offset, len) <= Room(i)
                        /\ len <= MHLEN => AllFit(r.copy)
                        /\ offset = 0 /\ len <= Total(chain) /\ IsPacket(chain)
                             => AllFit(r.copy)
                        /\ r.copy[1].hdr /\ r.copy[1].plen = 0
  BY DEF CopyFits
<1> DEFINE r == m_copym(chain, offset, len)
           s == r.source
<1>1. chain \in Seq(Mbuf) /\ Len(chain) > 0 /\ Total(chain) \in Nat
  BY Held
<1>2. offset \in Nat /\ len \in Nat /\ len > 0 /\ offset <= Total(chain)
  BY <1>1, SizesAreNumbers
<1>3. /\ s \in Seq(Mbuf) /\ Len(s) > 0 /\ offset + len <= Total(s)
      /\ r.copy = CopyOf(s, offset, len)
      /\ offset + len <= Total(chain) => s = chain
  BY <1>1, <1>2, CopymIs
<1>4. AllFit(r.copy) <=> SharesFit(s, offset, len)
  <2> HIDE DEF r, s
  <2>1. QED BY <1>2, <1>3, CopyOfFits
<1>5. r.copy[1].hdr /\ r.copy[1].plen = 0
  <2> HIDE DEF r, s
  <2>1. QED BY <1>2, <1>3, CopyOfFacts, CopyHasShares
<1>6. DOMAIN s = 1..Len(s)
  BY <1>3, ChainFacts
<1>7. SharesFit(s, offset, len) <=>
        \A i \in DOMAIN s : Share(s, i, offset, len) <=
                              IF i = At(s, offset) THEN MHLEN ELSE MLEN
  <2> HIDE DEF s
  <2>1. QED BY <1>6 DEF SharesFit, RoomFor
<1>8. len <= MHLEN => SharesFit(s, offset, len)
  <2> HIDE DEF s
  <2>1. QED BY <1>2, <1>3, ShortFits
<1>9. offset = 0 /\ len <= Total(chain) /\ IsPacket(chain) => SharesFit(s, offset, len)
  <2> HIDE DEF s, r
  <2> SUFFICES ASSUME offset = 0, len <= Total(chain), IsPacket(chain)
               PROVE  SharesFit(s, offset, len)
    OBVIOUS
  <2>1. offset + len <= Total(chain)
    BY <1>1, <1>2
  <2>2. s = chain
    BY <1>3, <2>1
  <2>3. SharesFit(chain, 0, len)
    BY <1>1, <1>2, PacketFits
  <2>4. QED BY <2>2, <2>3
<1> HIDE DEF r
<1>10. QED BY <1>4, <1>5, <1>7, <1>8, <1>9, Zenon DEF s, r

\* The three ways to copy out of a chain are exact: m_copydata for every
\* offset and length within it, m_copym with the zeros it lengthens the source
\* by, and the comparison of the tests tells a copy from its source exactly
\* when flags or trailing empty mbufs differ.  A copy by m_copym keeps within
\* its mbufs exactly if every share of the source does.
THEOREM CopiesAreExact == Spec => []CopiesExact
<1>1. TypeOK => CopiesExact
  BY CopydataIsExact, CopymIsExact, CopyFitsExactly, CopyIsComparedRight DEF CopiesExact
<1>2. QED BY <1>1, TypeCorrect, PTL

-----------------------------------------------------------------------------
(* m_pullup.                                                               *)

\* The loop of m_pullup: its state, a round of it, and how it begins.
PullStates ==
  [n : Mbuf, len : Int, stop : BOOLEAN, trap : BOOLEAN, own : BOOLEAN]

PullRound(s, m) ==
  IF s.stop \/ Len(s.n.bytes) >= s.len THEN [s EXCEPT !.stop = TRUE]
  ELSE LET from == IF s.own THEN s.n ELSE m
           k == Min({Len(from.bytes), s.len - Len(from.bytes)})
       IN IF k < 0 THEN [s EXCEPT !.stop = TRUE, !.trap = TRUE]
          ELSE [s EXCEPT !.own = FALSE, !.len = @ - k,
                 !.n.bytes = @ \o SubSeq(from.bytes, 1, k)]

PullBegin(c, n, len) ==
  [n |-> n, len |-> len, stop |-> FALSE, trap |-> FALSE, own |-> ~c[1].ext]

\* t comes from s by a round that pulls k bytes, or none at all.
Pulls(s, t, k) ==
  /\ t \in PullStates /\ k \in Nat
  /\ Len(t.n.bytes) = Len(s.n.bytes) + k /\ t.len = s.len - k
  /\ s.stop \/ Len(s.n.bytes) >= s.len => t.n = s.n /\ k = 0 /\ t.trap = s.trap

LEMMA PullRoundFacts ==
  ASSUME NEW s \in PullStates, NEW m \in Mbuf
  PROVE  \E k : Pulls(s, PullRound(s, m), k)
<1> DEFINE t == PullRound(s, m)
           L == Len(s.n.bytes)
<1>1. /\ s.n \in Mbuf /\ s.len \in Int /\ s.stop \in BOOLEAN /\ s.trap \in BOOLEAN
      /\ s.own \in BOOLEAN /\ s.n.bytes \in Seq(Byte) /\ L \in Nat
  <2>1. /\ s.n \in Mbuf /\ s.len \in Int /\ s.stop \in BOOLEAN /\ s.trap \in BOOLEAN
        /\ s.own \in BOOLEAN
    BY DEF PullStates
  <2>2. QED BY <2>1, MbufFields
<1>2. CASE s.stop \/ L >= s.len
  <2>1. t = [s EXCEPT !.stop = TRUE]
    BY <1>2 DEF PullRound
  <2>2. t \in PullStates /\ t.n = s.n /\ t.len = s.len /\ t.trap = s.trap
    BY <2>1 DEF PullStates
  <2> HIDE DEF t
  <2>3. L = L + 0 /\ s.len = s.len - 0 /\ 0 \in Nat
    BY <1>1
  <2>4. Pulls(s, t, 0)
    BY <2>2, <2>3 DEF Pulls
  <2>5. QED BY <2>4 DEF t
<1>3. CASE ~(s.stop \/ L >= s.len)
  <2> DEFINE from == IF s.own THEN s.n ELSE m
             b == from.bytes
             x == s.len - Len(b)
             k == Min({Len(b), x})
             e == SubSeq(b, 1, k)
             q == s.n.bytes \o e
             n == [s.n EXCEPT !.bytes = q]
             l == s.len - k
  <2>1. from \in Mbuf /\ b \in Seq(Byte) /\ Len(b) \in Nat
    <3>1. from \in Mbuf
      BY <1>1
    <3> HIDE DEF from
    <3>2. QED BY <3>1, MbufFields
  <2>2. k \in Int /\ k <= Len(b)
    <3> DEFINE y == Len(b)
    <3>1. x \in Int /\ y \in Int
      BY <1>1, <2>1
    <3> HIDE DEF x, y
    <3>2. Min({y, x}) = IF y <= x THEN y ELSE x
      BY <3>1, MinMaxOfTwo
    <3>3. Min({y, x}) \in Int /\ Min({y, x}) <= y
      BY <3>1, <3>2
    <3>4. QED BY <3>3 DEF y
  <2>3. t = IF k < 0 THEN [s EXCEPT !.stop = TRUE, !.trap = TRUE]
            ELSE [s EXCEPT !.own = FALSE, !.len = l, !.n = n]
    <3>1. t = IF k < 0 THEN [s EXCEPT !.stop = TRUE, !.trap = TRUE]
              ELSE [s EXCEPT !.own = FALSE, !.len = @ - k,
                      !.n.bytes = @ \o SubSeq(from.bytes, 1, k)]
      BY <1>3 DEF PullRound
    <3>2. [s EXCEPT !.own = FALSE, !.len = @ - k, !.n.bytes = @ \o SubSeq(from.bytes, 1, k)]
            = [s EXCEPT !.own = FALSE, !.len = l, !.n = n]
      <4> HIDE DEF from, k
      <4>1. QED BY <1>1 DEF PullStates
    <3>3. QED BY <3>1, <3>2
  <2> HIDE DEF k, t, from
  <2>4. CASE k < 0
    <3>1. t = [s EXCEPT !.stop = TRUE, !.trap = TRUE]
      BY <2>3, <2>4
    <3>2. t \in PullStates /\ t.n = s.n /\ t.len = s.len
      BY <3>1 DEF PullStates
    <3>3. L = L + 0 /\ s.len = s.len - 0 /\ 0 \in Nat
      BY <1>1
    <3>4. Pulls(s, t, 0)
      BY <1>3, <3>2, <3>3 DEF Pulls
    <3>5. QED BY <3>4 DEF t
  <2>5. CASE ~(k < 0)
    <3>1. k \in Nat /\ 0 \in Nat /\ 0 + k <= Len(b) /\ 0 + 1 = 1 /\ 0 + k = k
      BY <2>1, <2>2, <2>5
    <3> HIDE DEF b
    <3>2. SubSeq(b, 0 + 1, 0 + k) \in Seq(Byte) /\ Len(SubSeq(b, 0 + 1, 0 + k)) = k
      BY <2>1, <3>1, PartOf
    <3>3. e \in Seq(Byte) /\ Len(e) = k
      BY <3>1, <3>2
    <3> HIDE DEF e
    <3>4. q \in Seq(Byte) /\ Len(q) = L + k
      BY <1>1, <3>3, ConcatProperties
    <3> HIDE DEF q
    <3>5. n \in Mbuf /\ n.bytes = q
      BY <1>1, <3>4 DEF Mbuf, Byte
    <3>6. l \in Int
      BY <1>1, <3>1
    <3> HIDE DEF n, l
    <3>7. t = [s EXCEPT !.own = FALSE, !.len = l, !.n = n]
      BY <2>3, <2>5
    <3>8. t \in PullStates /\ t.n = n /\ t.len = l
      BY <3>5, <3>6, <3>7 DEF PullStates
    <3>9. Pulls(s, t, k)
      BY <1>3, <3>1, <3>4, <3>5, <3>8 DEF Pulls, l
    <3>10. QED BY <3>9 DEF t
  <2>6. QED BY <2>4, <2>5
<1>4. QED BY <1>2, <1>3

\* The rounds, one for each mbuf.
PullRounds(f, c, n, len) ==
  /\ f[0] = PullBegin(c, n, len)
  /\ \A k \in 1..Len(c) : f[k] = PullRound(f[k - 1], c[k])

LEMMA PullFold ==
  ASSUME NEW c \in Seq(Mbuf), Len(c) > 0, NEW m \in Mbuf, NEW len \in Int
  PROVE  \E f : PullRounds(f, c, m, len) /\ Pulled(c, m, len) = f[Len(c)]
<1> DEFINE n == Len(c)
           v == PullBegin(c, m, len)
           V == PullStates
           g == [x \in (1..n) \X V |-> PullRound(x[2], c[x[1]])]
           Q(it) == it = [s \in SUBSET (1..n) |->
                            IF s = {} THEN v ELSE PullRound(it[s \ {Max(s)}], c[Max(s)])]
<1>1. n \in Nat /\ DOMAIN c = 1..n /\ \A i \in 1..n : c[i] \in Mbuf
  BY ChainFacts
<1>2. Pulled(c, m, len) = (CHOOSE it : Q(it))[1..n]
  <2> DEFINE P(it) == it = [s \in SUBSET DOMAIN c |->
                              IF s = {} THEN v ELSE PullRound(it[s \ {Max(s)}], c[Max(s)])]
  <2>1. Pulled(c, m, len) = (CHOOSE it : P(it))[DOMAIN c]
    BY DEF Pulled, FoldLeft, MapThenFoldSet, PullRound, PullBegin
  <2> HIDE DEF n, v
  <2>2. QED BY <1>1, <2>1
<1>3. v \in V
  <2>1. (~c[1].ext) \in BOOLEAN
    OBVIOUS
  <2>2. QED BY <2>1 DEF PullBegin, PullStates
<1> HIDE DEF v, n
<1>4. g \in [(1..n) \X V -> V]
  BY <1>1, PullRoundFacts DEF Pulls
<1>5. PICK it \in [SUBSET (1..n) -> V] : Folds(it, n, v, g)
  <2> HIDE DEF V, g
  <2>1. QED BY <1>1, <1>3, <1>4, FoldExists
<1>6. Q(it)
  <2>1. ASSUME NEW s \in SUBSET (1..n), s # {}
        PROVE  g[<<Max(s), it[s \ {Max(s)}]>>] = PullRound(it[s \ {Max(s)}], c[Max(s)])
    <3>1. s \in SUBSET (0..n)
      OBVIOUS
    <3>2. Max(s) \in 1..n
      BY <1>1, <2>1, <3>1, MaxFacts
    <3> HIDE DEF V
    <3>3. it[s \ {Max(s)}] \in V
      <4>1. s \ {Max(s)} \in SUBSET (1..n)
        OBVIOUS
      <4>2. QED BY <4>1
    <3>4. QED BY <3>2, <3>3
  <2> DEFINE a == [s \in SUBSET (1..n) |->
                     IF s = {} THEN v ELSE g[<<Max(s), it[s \ {Max(s)}]>>]]
             b == [s \in SUBSET (1..n) |->
                     IF s = {} THEN v ELSE PullRound(it[s \ {Max(s)}], c[Max(s)])]
  <2>2. \A s \in SUBSET (1..n) : a[s] = b[s]
    <3> HIDE DEF g, V
    <3>1. QED BY <2>1
  <2>3. a = b
    BY <2>2
  <2>4. it = a
    BY <1>5 DEF Folds
  <2>5. QED BY <2>3, <2>4
<1> DEFINE j == CHOOSE x : Q(x)
<1>7. Q(j)
  <2> HIDE DEF Q
  <2>1. QED BY <1>6
<1> HIDE DEF j, g, V
<1> DEFINE f == [k \in 0..n |-> j[1..k]]
<1>8. f[0] = v
  <2>1. 1..0 = {} /\ {} \in SUBSET (1..n) /\ 0 \in 0..n
    BY <1>1
  <2>2. QED BY <1>7, <2>1
<1>9. ASSUME NEW k \in 1..n PROVE f[k] = PullRound(f[k - 1], c[k])
  <2> DEFINE s == 1..k
  <2>1. k \in Nat /\ k # 0 /\ k \in 0..n /\ k - 1 \in 0..n /\ s \in SUBSET (1..n)
    BY <1>1
  <2>2. s # {} /\ Max(s) = k /\ s \ {k} = 1..(k - 1)
    BY <2>1, MaxOfInterval
  <2>3. f[k] = j[s] /\ f[k - 1] = j[1..(k - 1)]
    BY <2>1
  <2> HIDE DEF s, f
  <2>4. j[s] = PullRound(j[s \ {Max(s)}], c[Max(s)])
    BY <1>7, <2>1, <2>2
  <2>5. QED BY <2>2, <2>3, <2>4
<1>10. n \in 0..n
  BY <1>1
<1>11. f[n] = j[1..n]
  BY <1>10
<1> HIDE DEF f, Q
<1>12. PullRounds(f, c, m, len)
  BY <1>8, <1>9 DEF PullRounds, n, v
<1>13. QED BY <1>2, <1>11, <1>12 DEF j, n

\* What holds of the loop when the first mbuf, with L bytes, is pulled up to len.
Pulling(s, a, len) ==
  /\ s \in PullStates /\ s.len <= len
  /\ Len(s.n.bytes) + s.len = Len(a.bytes) + len
  /\ Len(a.bytes) >= len => s.n = a /\ s.len = len /\ ~s.trap

LEMMA PullsOn ==
  ASSUME NEW a \in Mbuf, NEW len \in Nat, NEW s, Pulling(s, a, len), NEW m \in Mbuf
  PROVE  Pulling(PullRound(s, m), a, len)
<1> DEFINE t == PullRound(s, m)
<1>1. s \in PullStates
  BY DEF Pulling
<1>2. PICK k : Pulls(s, t, k)
  BY <1>1, PullRoundFacts
<1> HIDE DEF t
<1> DEFINE L == Len(a.bytes)
           x == Len(s.n.bytes)
           y == s.len
           u == Len(t.n.bytes)
           v == t.len
<1>3. L \in Nat /\ x \in Nat /\ y \in Int /\ k \in Nat
      /\ u = x + k /\ v = y - k /\ y <= len /\ x + y = L + len
  <2>1. s.n \in Mbuf /\ s.len \in Int
    BY <1>1 DEF PullStates
  <2>2. QED BY <1>2, <2>1, MbufFields DEF Pulls, Pulling
<1>4. L >= len => t.n = a /\ v = len /\ ~t.trap
  <2>1. SUFFICES ASSUME L >= len PROVE t.n = a /\ v = len /\ ~t.trap
    OBVIOUS
  <2>2. s.n = a /\ y = len /\ ~s.trap
    BY <2>1 DEF Pulling
  <2>3. x >= y
    BY <2>1, <2>2
  <2>4. t.n = s.n /\ k = 0 /\ t.trap = s.trap
    BY <1>2, <2>3 DEF Pulls
  <2> HIDE DEF v, y
  <2>5. v = len
    BY <1>3, <2>2, <2>4
  <2>6. QED BY <2>2, <2>4, <2>5
<1> HIDE DEF L, x, y, u, v
<1>5. v <= len /\ u + v = L + len
  BY <1>3
<1>6. t \in PullStates
  BY <1>2 DEF Pulls
<1>7. Pulling(t, a, len)
  BY <1>4, <1>5, <1>6 DEF Pulling, L, u, v
<1>8. QED BY <1>7 DEF t

LEMMA PulledFacts ==
  ASSUME NEW c \in Seq(Mbuf), Len(c) > 0, ~c[1].ext, NEW len \in Nat
  PROVE  Pulling(Pulled(c, c[1], len), c[1], len)
<1> DEFINE N == Len(c)
           a == c[1]
<1>1. N \in Nat /\ a \in Mbuf /\ \A i \in 1..N : c[i] \in Mbuf
  <2>1. N \in Nat /\ 1 \in 1..N
    BY ChainFacts
  <2>2. QED BY <2>1, ChainFacts
<1> HIDE DEF a
<1>2. PICK f : PullRounds(f, c, a, len) /\ Pulled(c, a, len) = f[N]
  BY <1>1, PullFold
<1> HIDE DEF N
<1> DEFINE P == {k \in 0..N : Pulling(f[k], a, len)}
<1>3. 0 \in P
  <2> DEFINE s == PullBegin(c, a, len)
  <2>1. s \in PullStates /\ s.n = a /\ s.len = len /\ ~s.trap
    <3>1. (~c[1].ext) \in BOOLEAN
      OBVIOUS
    <3>2. QED BY <1>1, <3>1 DEF PullBegin, PullStates
  <2>2. f[0] = s
    BY <1>2 DEF PullRounds
  <2> HIDE DEF s
  <2>3. Pulling(s, a, len)
    BY <2>1 DEF Pulling
  <2>4. QED BY <1>1, <2>2, <2>3
<1>4. ASSUME NEW k \in 0..N, k \in P, k < N PROVE k + 1 \in P
  <2>1. k + 1 \in 1..N /\ k + 1 \in 0..N /\ (k + 1) - 1 = k /\ c[k + 1] \in Mbuf
    BY <1>1, <1>4
  <2>2. f[k + 1] = PullRound(f[k], c[k + 1])
    BY <1>2, <2>1 DEF PullRounds, N
  <2>3. Pulling(PullRound(f[k], c[k + 1]), a, len)
    BY <1>1, <1>4, <2>1, PullsOn
  <2>4. QED BY <2>1, <2>2, <2>3
<1> HIDE DEF P
<1>5. N \in P
  <2>1. N \in 0..N
    BY <1>1
  <2>2. QED BY <1>1, <1>3, <1>4, <2>1, UpTo
<1>6. Pulling(f[N], a, len)
  BY <1>5 DEF P
<1>7. QED BY <1>2, <1>6 DEF a

LEMMA PullupPullsNothing == TypeOK => PullupNeverPulls
<1> SUFFICES ASSUME TypeOK, chain # <<>>, ~chain[1].ext, NEW len \in 1..(Total(chain) + 1)
             PROVE  LET r == m_pullup(chain, len)
                        good == r # <<>> /\ Len(r[1].bytes) = len
                    IN  /\ good <=> len = Len(chain[1].bytes)
                        /\ good => r = chain
  BY DEF PullupNeverPulls
<1> DEFINE c == chain
           a == c[1]
           L == Len(a.bytes)
           s == Pulled(c, a, len)
           r == m_pullup(c, len)
           x == Len(s.n.bytes)
           good == r # <<>> /\ Len(r[1].bytes) = len
<1>1. c \in Seq(Mbuf) /\ Len(c) > 0 /\ Total(c) \in Nat /\ len \in Nat
  BY Held
<1>2. a \in Mbuf /\ Tail(c) \in Seq(Mbuf) /\ c = <<a>> \o Tail(c) /\ L \in Nat
  BY <1>1, FirstAndRest, MbufFields
<1>3. r = IF s.trap \/ x # s.len THEN <<>> ELSE <<s.n>> \o Tail(c)
  BY DEF m_pullup
<1>4. Pulling(s, a, len)
  BY <1>1, PulledFacts
<1> HIDE DEF s, r, c, a
<1>5. /\ s \in PullStates /\ s.len <= len /\ x + s.len = L + len
      /\ L >= len => s.n = a /\ s.len = len /\ ~s.trap
  BY <1>4 DEF Pulling
<1>6. s.n \in Mbuf /\ s.len \in Int /\ x \in Nat
  <2>1. s.n \in Mbuf /\ s.len \in Int
    BY <1>5 DEF PullStates
  <2>2. QED BY <2>1, MbufFields
<1>7. ~(s.trap \/ x # s.len) => r # <<>> /\ r[1] = s.n
  <2>1. SUFFICES ASSUME ~(s.trap \/ x # s.len) PROVE r # <<>> /\ r[1] = s.n
    OBVIOUS
  <2> DEFINE o == <<s.n>>
             d == Tail(c)
  <2>2. r = o \o d
    BY <1>3, <2>1
  <2>3. o \in Seq(Mbuf) /\ Len(o) = 1 /\ o[1] = s.n /\ d \in Seq(Mbuf) /\ Len(d) \in Nat
    BY <1>2, <1>6, One, ChainFacts
  <2> HIDE DEF o, d
  <2>4. /\ o \o d \in Seq(Mbuf) /\ Len(o \o d) = Len(o) + Len(d)
        /\ \A i \in 1..Len(o) + Len(d) : (o \o d)[i] = IF i <= Len(o) THEN o[i] ELSE d[i - Len(o)]
    BY <2>3, ConcatProperties
  <2>5. 1 \in 1..Len(o) + Len(d) /\ 1 <= Len(o)
    BY <2>3
  <2>6. r[1] = s.n /\ r \in Seq(Mbuf) /\ Len(r) # 0
    BY <2>2, <2>3, <2>4, <2>5
  <2>7. QED BY <2>6, EmptySeq
<1>8. good <=> ~(s.trap \/ x # s.len) /\ x = len
  <2>1. s.trap \/ x # s.len => r = <<>>
    BY <1>3
  <2>2. QED BY <1>7, <2>1
<1>9. L >= len => x = L /\ s.len = len /\ ~s.trap
  BY <1>5
<1>10. good <=> len = L
  <2> DEFINE l == s.len
  <2>1. l \in Int /\ x \in Nat /\ L \in Nat /\ l <= len /\ x + l = L + len
    BY <1>2, <1>5, <1>6
  <2> HIDE DEF l, x, L, good
  <2>2. ASSUME good PROVE len = L
    <3>1. x = l /\ x = len
      BY <1>8, <2>2 DEF l
    <3>2. QED BY <1>1, <2>1, <3>1
  <2>3. ASSUME len = L PROVE good
    <3>1. x = L /\ l = len /\ ~s.trap
      BY <1>1, <1>9, <2>3 DEF l
    <3>2. QED BY <1>8, <2>3, <3>1 DEF l
  <2>4. QED BY <2>2, <2>3
<1>11. good => r = c
  <2>1. SUFFICES ASSUME good PROVE r = c
    OBVIOUS
  <2>2. len = L /\ L >= len
    <3> HIDE DEF good, L
    <3>1. QED BY <1>1, <1>2, <1>10, <2>1
  <2>3. s.n = a /\ ~(s.trap \/ x # s.len)
    BY <1>5, <1>8, <2>1, <2>2
  <2>4. QED BY <1>2, <1>3, <2>3
<1>12. QED BY <1>10, <1>11 DEF r, c, a

\* m_cat keeps the count of a chain right and joins the data, m_free hands the
\* header on to the rest and keeps its data, and m_pullup succeeds exactly when
\* there is nothing to pull.
THEOREM RelinkingIsExact == Spec => []RelinkingExact
<1>1. TypeOK => RelinkingExact
  BY CatIsCounted, FreeKeeps, PullupPullsNothing DEF RelinkingExact
<1>2. QED BY <1>1, TypeCorrect, PTL

-----------------------------------------------------------------------------
(* Characters on the line.                                                 *)

Char == Byte \cup {FRAME_END, FRAME_ESCAPE, TRANS_FRAME_END, TRANS_FRAME_ESCAPE}

\* What slstart copies of an mbuf.
Kept(bytes) == IF bytes = <<>> THEN <<>> ELSE Front(bytes)

LEMMA CharsJoin ==
  \A x, y, z \in Seq(Char) : (x \o y) \o z = x \o (y \o z)
BY ConcatAssociative

\* Bytes and codes are characters, and so is what they stand for.
LEMMA BytesAreChars ==
  /\ FRAME_END \in Char /\ JUNK \in Char /\ Seq(Byte) \subseteq Seq(Char)
  /\ \A c \in Char, e \in BOOLEAN : Meaning(c, e) \in Char
<1>1. Byte \subseteq Char
  BY DEF Char
<1>2. ASSUME NEW s \in Seq(Byte) PROVE s \in Seq(Char)
  <2>1. Len(s) \in Nat /\ s \in [1..Len(s) -> Byte]
    BY LenProperties
  <2>2. s \in [1..Len(s) -> Char]
    BY <1>1, <2>1
  <2>3. QED BY <2>1, <2>2, SequenceFrom
<1>3. QED BY <1>2 DEF Char, Byte, Meaning

\* All but the last byte, if there is one.
LEMMA KeptFacts ==
  ASSUME NEW b \in Seq(Byte)
  PROVE  /\ Kept(b) \in Seq(Byte) /\ Kept(b) \in Seq(Char) /\ Len(Kept(b)) \in Nat
         /\ b = <<>> => Kept(b) = <<>> /\ Len(Kept(b)) = 0 /\ Len(b) = 0
         /\ b # <<>> => Len(Kept(b)) = Len(b) - 1 /\ Len(b) > 0
<1>1. Len(b) \in Nat /\ (b = <<>> <=> Len(b) = 0) /\ b \in Seq(Char)
  BY LenProperties, EmptySeq, BytesAreChars
<1>2. CASE b = <<>>
  <2>1. Kept(b) = b
    BY <1>2 DEF Kept
  <2>2. QED BY <1>1, <1>2, <2>1
<1>3. CASE b # <<>>
  <2> DEFINE n == Len(b) - 1
  <2>1. n \in Nat /\ Kept(b) = SubSeq(b, 1, n)
    BY <1>1, <1>3 DEF Kept, Front
  <2> DEFINE z == 0
  <2>2. z \in Nat /\ z + n <= Len(b) /\ z + 1 = 1 /\ z + n = n
    BY <1>1
  <2> HIDE DEF z, n
  <2>3. SubSeq(b, z + 1, z + n) \in Seq(Byte) /\ Len(SubSeq(b, z + 1, z + n)) = n
    BY <2>1, <2>2, PartOf
  <2>4. Kept(b) \in Seq(Byte) /\ Len(Kept(b)) = n
    BY <2>1, <2>2, <2>3
  <2>5. Kept(b) \in Seq(Char)
    BY <2>4, BytesAreChars
  <2>6. n = Len(b) - 1 /\ Len(b) > 0
    BY <1>1, <1>3 DEF n
  <2>7. QED BY <1>3, <2>1, <2>4, <2>5, <2>6
<1>4. QED BY <1>2, <1>3

\* Output that fits into the clists.
Fitting(room) == {q \in Seq(Char) : Len(q) <= room}

\* t begins with q.
Begins(q, t) == Len(q) <= Len(t) /\ \A i \in 1..Len(q) : t[i] = q[i]

\* One mbuf goes behind what is there, whole when there is room for it.
LEMMA PutFacts ==
  ASSUME NEW room \in Nat, NEW q \in Fitting(room), NEW b \in Seq(Byte)
  PROVE  /\ PutMbuf(q, b, room) \in Fitting(room)
         /\ Begins(q, PutMbuf(q, b, room))
         /\ Len(q) + Len(Kept(b)) <= room => PutMbuf(q, b, room) = q \o Kept(b)
<1> DEFINE k == Kept(b)
           r == PutMbuf(q, b, room)
           m == Min({Len(k), room - Len(q)})
           s == SubSeq(k, 1, m)
<1>1. q \in Seq(Char) /\ Len(q) \in Nat /\ Len(q) <= room
  BY LenProperties DEF Fitting
<1>2. k \in Seq(Char) /\ Len(k) \in Nat
  BY KeptFacts
<1>3. CASE b = <<>>
  <2>1. r = q /\ k = <<>>
    BY <1>3 DEF PutMbuf, Kept
  <2>2. q \o <<>> = q
    BY <1>1, ConcatEmptySeq
  <2>3. QED BY <1>1, <2>1, <2>2 DEF Begins
<1>4. CASE b # <<>>
  <2>1. r = q \o s
    BY <1>4 DEF PutMbuf, b_to_q, Kept
  <2> HIDE DEF k, r
  <2>2. m = IF Len(k) <= room - Len(q) THEN Len(k) ELSE room - Len(q)
    <3> DEFINE x == Len(k)
               y == room - Len(q)
    <3>1. x \in Int /\ y \in Int
      BY <1>1, <1>2
    <3> HIDE DEF x, y
    <3>2. Min({x, y}) = IF x <= y THEN x ELSE y
      BY <3>1, MinMaxOfTwo
    <3>3. QED BY <3>2 DEF x, y
  <2> HIDE DEF m
  <2>3. m \in Nat /\ m <= Len(k) /\ Len(q) + m <= room
    BY <1>1, <1>2, <2>2
  <2>4. s \in Seq(Char) /\ Len(s) = m
    <3> DEFINE z == 0
    <3>1. z \in Nat /\ z + m <= Len(k) /\ z + 1 = 1 /\ z + m = m
      BY <2>3
    <3> HIDE DEF z
    <3>2. SubSeq(k, z + 1, z + m) \in Seq(Char) /\ Len(SubSeq(k, z + 1, z + m)) = m
      BY <1>2, <2>3, <3>1, PartOf
    <3>3. QED BY <3>1, <3>2
  <2> HIDE DEF s
  <2>5. /\ q \o s \in Seq(Char) /\ Len(q \o s) = Len(q) + Len(s)
        /\ \A i \in 1..Len(q) + Len(s) : (q \o s)[i] = IF i <= Len(q) THEN q[i] ELSE s[i - Len(q)]
    BY <1>1, <2>4, ConcatProperties
  <2>6. r \in Fitting(room) /\ Begins(q, r)
    <3>1. r \in Seq(Char) /\ Len(r) = Len(q) + m
      BY <2>1, <2>4, <2>5
    <3>2. \A i \in 1..Len(q) : r[i] = q[i]
      BY <1>1, <2>1, <2>3, <2>4, <2>5
    <3>3. QED BY <1>1, <2>3, <3>1, <3>2 DEF Fitting, Begins
  <2>7. ASSUME Len(q) + Len(k) <= room
        PROVE  r = q \o k
    <3>1. m = Len(k)
      BY <1>1, <1>2, <2>2, <2>7
    <3>2. s = k
      BY <1>2, <3>1, SubSeqFull DEF s
    <3>3. QED BY <2>1, <3>2
  <2>8. QED BY <2>6, <2>7 DEF r, k
<1>5. QED BY <1>3, <1>4

\* The mbufs of c, one in each round.
PutRounds(f, c, begun, room) ==
  /\ f \in [0..Len(c) -> Fitting(room)]
  /\ f[0] = begun
  /\ \A k \in 1..Len(c) : f[k] = PutMbuf(f[k - 1], c[k].bytes, room)

PutAll(c, begun, room) == FoldLeft(LAMBDA r, m : PutMbuf(r, m.bytes, room), begun, c)

\* PutFrame takes one mbuf in each round.
LEMMA PutFold ==
  ASSUME NEW c \in Seq(Mbuf), NEW room \in Nat, NEW begun \in Fitting(room)
  PROVE  \E f : PutRounds(f, c, begun, room) /\ PutAll(c, begun, room) = f[Len(c)]
<1> DEFINE n == Len(c)
           V == Fitting(room)
           R(r, m) == PutMbuf(r, m.bytes, room)
           g == [x \in (1..n) \X V |-> R(x[2], c[x[1]])]
           Q(it) == it = [s \in SUBSET (1..n) |->
                            IF s = {} THEN begun ELSE R(it[s \ {Max(s)}], c[Max(s)])]
<1>1. n \in Nat /\ DOMAIN c = 1..n /\ \A i \in 1..n : c[i].bytes \in Seq(Byte)
  BY ChainFacts
<1>2. PutAll(c, begun, room) = (CHOOSE it : Q(it))[1..n]
  <2> DEFINE P(it) == it = [s \in SUBSET DOMAIN c |->
                              IF s = {} THEN begun ELSE R(it[s \ {Max(s)}], c[Max(s)])]
  <2>1. PutAll(c, begun, room) = (CHOOSE it : P(it))[DOMAIN c]
    BY DEF PutAll, FoldLeft, MapThenFoldSet
  <2> HIDE DEF n
  <2>2. QED BY <1>1, <2>1
<1> HIDE DEF n
<1>3. \A r \in V : \A i \in 1..n : R(r, c[i]) \in V
  BY <1>1, PutFacts
<1> HIDE DEF R, V
<1>4. g \in [(1..n) \X V -> V]
  BY <1>3
<1>5. PICK it \in [SUBSET (1..n) -> V] : Folds(it, n, begun, g)
  <2> HIDE DEF g
  <2>1. begun \in V
    BY DEF V
  <2>2. QED BY <1>1, <1>4, <2>1, FoldExists
<1>6. Q(it)
  <2>1. ASSUME NEW s \in SUBSET (1..n), s # {}
        PROVE  g[<<Max(s), it[s \ {Max(s)}]>>] = R(it[s \ {Max(s)}], c[Max(s)])
    <3>1. s \in SUBSET (0..n)
      OBVIOUS
    <3>2. Max(s) \in 1..n
      BY <1>1, <2>1, <3>1, MaxFacts
    <3>3. it[s \ {Max(s)}] \in V
      <4>1. s \ {Max(s)} \in SUBSET (1..n)
        OBVIOUS
      <4>2. QED BY <4>1
    <3>4. QED BY <3>2, <3>3
  <2> DEFINE a == [s \in SUBSET (1..n) |->
                     IF s = {} THEN begun ELSE g[<<Max(s), it[s \ {Max(s)}]>>]]
             b == [s \in SUBSET (1..n) |->
                     IF s = {} THEN begun ELSE R(it[s \ {Max(s)}], c[Max(s)])]
  <2>2. \A s \in SUBSET (1..n) : a[s] = b[s]
    <3> HIDE DEF g
    <3>1. QED BY <2>1
  <2>3. a = b
    BY <2>2
  <2>4. it = a
    BY <1>5 DEF Folds
  <2>5. QED BY <2>3, <2>4
<1> DEFINE j == CHOOSE x : Q(x)
<1>7. Q(j)
  <2> HIDE DEF Q
  <2>1. QED BY <1>6
<1> HIDE DEF j, g
<1> DEFINE f == [k \in 0..n |-> j[1..k]]
<1>8. f[0] = begun
  <2>1. 1..0 = {} /\ {} \in SUBSET (1..n) /\ 0 \in 0..n
    BY <1>1
  <2>2. QED BY <1>7, <2>1
<1>9. ASSUME NEW k \in 1..n PROVE f[k] = R(f[k - 1], c[k])
  <2> DEFINE s == 1..k
  <2>1. k \in Nat /\ k # 0 /\ k \in 0..n /\ k - 1 \in 0..n /\ s \in SUBSET (1..n)
    BY <1>1
  <2>2. s # {} /\ Max(s) = k /\ s \ {k} = 1..(k - 1)
    BY <2>1, MaxOfInterval
  <2>3. f[k] = j[s] /\ f[k - 1] = j[1..(k - 1)]
    BY <2>1
  <2> HIDE DEF s, f
  <2>4. j[s] = R(j[s \ {Max(s)}], c[Max(s)])
    BY <1>7, <2>1, <2>2
  <2>5. QED BY <2>2, <2>3, <2>4
<1>10. n \in 0..n /\ f[n] = j[1..n] /\ DOMAIN f = 0..n /\ f = [k \in 0..n |-> f[k]]
  BY <1>1
<1> HIDE DEF f, Q
<1>11. \A k \in 0..n : f[k] \in V
  <2> DEFINE T == {k \in 0..n : f[k] \in V}
  <2>1. 0 \in T
    BY <1>1, <1>8 DEF V
  <2>2. ASSUME NEW k \in 0..n, k \in T, k < n PROVE k + 1 \in T
    <3>1. k + 1 \in 1..n /\ k + 1 \in 0..n /\ (k + 1) - 1 = k
      BY <1>1, <2>2
    <3>2. f[k + 1] = R(f[k], c[k + 1])
      BY <1>9, <3>1
    <3>3. QED BY <1>3, <2>2, <3>1, <3>2
  <2> HIDE DEF T
  <2>3. \A k \in 0..n : k \in T
    BY <1>1, <2>1, <2>2, UpTo
  <2>4. QED BY <2>3 DEF T
<1>12. PutRounds(f, c, begun, room)
  <2>1. f \in [0..n -> V]
    BY <1>10, <1>11
  <2>2. QED BY <1>8, <1>9, <2>1 DEF PutRounds, R, V, n
<1>13. QED BY <1>2, <1>10, <1>12 DEF j, n

\* However little room there is, what was there stays in front.
LEMMA PutKeepsFront ==
  ASSUME NEW c \in Seq(Mbuf), NEW room \in Nat, NEW begun \in Fitting(room)
  PROVE  PutAll(c, begun, room) \in Fitting(room) /\ Begins(begun, PutAll(c, begun, room))
<1> DEFINE n == Len(c)
<1>1. PICK f : PutRounds(f, c, begun, room) /\ PutAll(c, begun, room) = f[n]
  BY PutFold
<1>2. n \in Nat /\ \A k \in 1..n : c[k].bytes \in Seq(Byte)
  BY ChainFacts
<1>3. /\ \A k \in 0..n : f[k] \in Fitting(room)
      /\ f[0] = begun
      /\ \A k \in 1..n : f[k] = PutMbuf(f[k - 1], c[k].bytes, room)
  BY <1>1 DEF PutRounds
<1> HIDE DEF n
<1> DEFINE T == {k \in 0..n : Begins(begun, f[k])}
<1>4. \A q \in Fitting(room) : Len(q) \in Nat
  BY LenProperties DEF Fitting
<1>5. 0 \in T
  BY <1>2, <1>3, <1>4 DEF Begins
<1>6. ASSUME NEW k \in 0..n, k \in T, k < n PROVE k + 1 \in T
  <2>1. k + 1 \in 1..n /\ k + 1 \in 0..n /\ (k + 1) - 1 = k
    BY <1>2, <1>6
  <2> DEFINE p == f[k]
             r == f[k + 1]
  <2>2. p \in Fitting(room) /\ r = PutMbuf(p, c[k + 1].bytes, room) /\ Begins(begun, p)
    BY <1>3, <1>6, <2>1
  <2> HIDE DEF p, r
  <2>3. Begins(p, r) /\ r \in Fitting(room)
    BY <1>2, <2>1, <2>2, PutFacts
  <2>4. Len(begun) \in Nat /\ Len(p) \in Nat /\ Len(r) \in Nat
    BY <1>4, <2>2, <2>3
  <2>5. Begins(begun, r)
    BY <2>2, <2>3, <2>4 DEF Begins
  <2>6. QED BY <2>1, <2>5 DEF r
<1> HIDE DEF T
<1>7. \A k \in 0..n : k \in T
  BY <1>2, <1>5, <1>6, UpTo
<1>8. n \in 0..n /\ n \in T
  BY <1>2, <1>7
<1>9. QED BY <1>1, <1>3, <1>8 DEF T

KeptOf(c) == [i \in DOMAIN c |-> Kept(c[i].bytes)]

\* With room for everything, all but the last characters go out.
LEMMA PutWhole ==
  ASSUME NEW c \in Seq(Mbuf), NEW room \in Nat, NEW begun \in Seq(Char),
         Len(begun) + Total(c) <= room
  PROVE  LET kept == FlattenSeq(KeptOf(c))
         IN  /\ PutAll(c, begun, room) = begun \o kept
             /\ kept \in Seq(Byte) /\ Len(kept) \in Nat /\ Len(kept) <= Total(c)
             /\ Total(c) > 0 => Len(kept) < Total(c)
<1> DEFINE n == Len(c)
           q == KeptOf(c)
           kept == FlattenSeq(q)
           a == Len(begun)
           U(k) == Upto(c, k)
<1>1. /\ n \in Nat /\ DOMAIN c = 1..n
      /\ \A k \in 1..n : c[k].bytes \in Seq(Byte) /\ Len(c[k].bytes) \in Nat
  BY ChainFacts, LenProperties
<1>2. /\ U(0) = 0 /\ U(n) = Total(c) /\ \A k \in 0..n : U(k) \in Nat /\ U(k) <= U(n)
      /\ \A k \in 1..n : U(k) = U(k - 1) + Len(c[k].bytes)
  <2>1. \A k \in 0..n : k <= n /\ n \in 0..n
    BY <1>1
  <2>2. QED BY <2>1, UptoFacts
<1>3. /\ q \in Seq(Seq(Byte)) /\ Len(q) = n
      /\ \A k \in 1..n : q[k] = Kept(c[k].bytes)
  <2>1. q = [k \in 1..n |-> Kept(c[k].bytes)]
    BY <1>1 DEF KeptOf
  <2> HIDE DEF q, n
  <2>2. q \in [1..n -> Seq(Byte)]
    BY <1>1, <2>1, KeptFacts
  <2>3. QED BY <1>1, <2>1, <2>2, SequenceFrom
<1>4. a \in Nat /\ a <= room /\ begun \in Fitting(room)
  BY <1>1, <1>2, LenProperties DEF Fitting
<1>5. PICK f : PutRounds(f, c, begun, room) /\ PutAll(c, begun, room) = f[n]
  BY <1>4, PutFold
<1>6. /\ \A k \in 0..n : f[k] \in Fitting(room)
      /\ f[0] = begun
      /\ \A k \in 1..n : f[k] = PutMbuf(f[k - 1], c[k].bytes, room)
  BY <1>5 DEF PutRounds
<1>7. PICK h \in [0..n -> Seq(Byte)] : Joined(h, q) /\ h[n] = kept
  BY <1>3, FlattenJoins
<1>8. h[0] = <<>> /\ \A k \in 1..n : h[k] = h[k - 1] \o q[k]
  BY <1>3, <1>7 DEF Joined
<1> HIDE DEF n, q, kept, a, U
<1> DEFINE T == {k \in 0..n : /\ f[k] = begun \o h[k]
                              /\ Len(h[k]) <= U(k)
                              /\ U(k) > 0 => Len(h[k]) < U(k)}
<1>9. 0 \in T
  <2>1. begun \o <<>> = begun /\ Len(<<>>) = 0
    BY ConcatEmptySeq, EmptySeq
  <2>2. 0 \in 0..n
    BY <1>1
  <2>3. QED BY <1>2, <1>6, <1>8, <2>1, <2>2
<1>10. ASSUME NEW k \in 0..n, k \in T, k < n PROVE k + 1 \in T
  <2> DEFINE i == k + 1
             b == c[i].bytes
             l == Len(Kept(b))
             m == Len(h[k])
  <2>1. i \in 1..n /\ i \in 0..n /\ i - 1 = k
    BY <1>1, <1>10
  <2> HIDE DEF i
  <2>2. /\ b \in Seq(Byte) /\ Len(b) \in Nat /\ l \in Nat /\ Kept(b) \in Seq(Byte)
        /\ Kept(b) \in Seq(Char)
        /\ Len(b) = 0 => l = 0
        /\ Len(b) # 0 => l = Len(b) - 1
    <3> HIDE DEF b
    <3>1. b \in Seq(Byte) /\ Len(b) \in Nat /\ (b = <<>> <=> Len(b) = 0)
      BY <1>1, <2>1, LenProperties, EmptySeq DEF b
    <3>2. QED BY <3>1, KeptFacts
  <2>3. /\ h[k] \in Seq(Byte) /\ h[k] \in Seq(Char) /\ m \in Nat /\ h[i] = h[k] \o Kept(b)
    BY <1>3, <1>7, <1>8, <2>1, LenProperties, BytesAreChars
  <2>4. Len(h[i]) = m + l
    BY <2>2, <2>3, ConcatProperties
  <2>5. U(i) = U(k) + Len(b) /\ U(k) \in Nat /\ U(i) \in Nat /\ U(i) <= U(n) /\ U(n) \in Nat
    <3>1. U(k) \in Nat /\ U(i) \in Nat /\ U(n) \in Nat
      BY <1>1, <1>2, <2>1
    <3>2. U(i) <= U(n)
      BY <1>1, <1>2, <2>1
    <3>3. U(i) = U(k) + Len(b)
      BY <1>1, <1>2, <2>1
    <3>4. QED BY <3>1, <3>2, <3>3
  <2>6. f[k] = begun \o h[k] /\ m <= U(k) /\ (U(k) > 0 => m < U(k))
    BY <1>10
  <2>7. Len(f[k]) = a + m /\ f[k] \in Fitting(room)
    <3>1. Len(begun \o h[k]) = Len(begun) + Len(h[k])
      BY <2>3, ConcatProperties
    <3>2. f[k] \in Fitting(room)
      BY <1>6
    <3>3. QED BY <2>6, <3>1, <3>2 DEF a
  <2> HIDE DEF b
  <2>8. f[i] = PutMbuf(f[k], b, room)
    BY <1>6, <2>1 DEF b
  <2>9. a + U(n) <= room
    BY <1>2 DEF a
  <2> HIDE DEF l, m
  <2>10. m + l <= U(i) /\ (U(i) > 0 => m + l < U(i))
    <3>1. CASE Len(b) = 0
      BY <2>2, <2>3, <2>5, <2>6, <3>1
    <3>2. CASE Len(b) # 0
      BY <2>2, <2>3, <2>5, <2>6, <3>2
    <3>3. QED BY <3>1, <3>2
  <2>11. Len(f[k]) + l <= room
    BY <1>4, <2>2, <2>3, <2>5, <2>7, <2>9, <2>10
  <2>12. f[i] = f[k] \o Kept(b)
    BY <2>2, <2>7, <2>8, <2>11, PutFacts DEF l
  <2>13. f[i] = begun \o h[i]
    <3>1. (begun \o h[k]) \o Kept(b) = begun \o (h[k] \o Kept(b))
      <4> DEFINE x == h[k]
                 y == Kept(b)
      <4>1. begun \in Seq(Char) /\ x \in Seq(Char) /\ y \in Seq(Char)
        BY <2>2, <2>3
      <4> HIDE DEF x, y
      <4>2. (begun \o x) \o y = begun \o (x \o y)
        BY <4>1, CharsJoin
      <4>3. QED BY <4>2 DEF x, y
    <3>2. QED BY <2>3, <2>6, <2>12, <3>1
  <2>14. i \in T
    BY <2>1, <2>4, <2>10, <2>13
  <2>15. QED BY <2>14 DEF i
<1> HIDE DEF T
<1>11. \A k \in 0..n : k \in T
  BY <1>1, <1>9, <1>10, UpTo
<1>12. n \in T /\ n \in 0..n
  BY <1>1, <1>11
<1>13. f[n] = begun \o kept /\ Len(kept) <= U(n) /\ (U(n) > 0 => Len(kept) < U(n))
  BY <1>7, <1>12 DEF T
<1>14. kept \in Seq(Byte) /\ Len(kept) \in Nat
  BY <1>7, <1>12, LenProperties
<1>15. QED BY <1>2, <1>5, <1>13, <1>14 DEF kept, q

-----------------------------------------------------------------------------
(* Frames.                                                                 *)

\* The packet behind what is on t_outq, by the parts of PutFrame.
Begun(q, room) == IF q = <<>> THEN putc(q, FRAME_END, room) ELSE q

\* PutFrame, by these parts.
LEMMA PutFrameIs ==
  ASSUME NEW q, NEW c, NEW room
  PROVE  LET body == PutAll(c, Begun(q, room), room)
         IN PutFrame(q, c, room) =
              IF Len(body) < room THEN putc(body, FRAME_END, room)
                                  ELSE putc(unputc(body), FRAME_END, room)
BY DEF PutFrame, PutAll, Begun

\* What is on t_outq, which ends with FRAME_END if it is not empty, stays there.
LEMMA FrameCloses ==
  ASSUME NEW c \in Seq(Mbuf), NEW room \in Nat, room >= 1,
         NEW q \in Fitting(room), q # <<>> => q[Len(q)] = FRAME_END
  PROVE  IsPrefix(q, PutFrame(q, c, room)) /\ Last(PutFrame(q, c, room)) = FRAME_END
<1> DEFINE begun == Begun(q, room)
           body == PutAll(c, begun, room)
           cut == IF Len(body) < room THEN body ELSE unputc(body)
           sent == PutFrame(q, c, room)
<1>1. q \in Seq(Char) /\ Len(q) \in Nat /\ Len(q) <= room /\ (q = <<>> <=> Len(q) = 0)
  BY LenProperties, EmptySeq DEF Fitting
<1>2. begun \in Fitting(room) /\ Len(begun) \in Nat /\ Len(begun) >= 1
      /\ Len(q) <= Len(begun) /\ \A i \in 1..Len(q) : begun[i] = q[i]
  <2>1. CASE q = <<>>
    <3>1. begun = Append(q, FRAME_END)
      BY <1>1, <2>1 DEF Begun, putc
    <3>2. begun \in Seq(Char) /\ Len(begun) = Len(q) + 1
      BY <1>1, <3>1, BytesAreChars, AppendProperties
    <3> HIDE DEF begun
    <3>3. Len(q) = 0 /\ Len(begun) = 1
      BY <1>1, <2>1, <3>2
    <3>4. begun \in Fitting(room)
      BY <3>2, <3>3 DEF Fitting
    <3>5. QED BY <3>3, <3>4
  <2>2. CASE q # <<>>
    <3>1. begun = q
      BY <2>2 DEF Begun
    <3>2. QED BY <1>1, <2>2, <3>1
  <2>3. QED BY <2>1, <2>2
<1> HIDE DEF begun
<1>3. body \in Fitting(room) /\ Begins(begun, body)
  BY <1>2, PutKeepsFront
<1>4. sent = putc(cut, FRAME_END, room)
  BY PutFrameIs DEF begun
<1> HIDE DEF body
<1>5. /\ body \in Seq(Char) /\ Len(body) \in Nat /\ Len(body) <= room /\ Len(body) >= 1
      /\ Len(q) <= Len(body) /\ \A i \in 1..Len(q) : body[i] = q[i]
  <2>1. body \in Seq(Char) /\ Len(body) \in Nat /\ Len(body) <= room
    BY <1>3, LenProperties DEF Fitting
  <2>2. QED BY <1>1, <1>2, <1>3, <2>1 DEF Begins
<1>6. /\ cut \in Seq(Char) /\ Len(cut) \in Nat /\ Len(cut) < room
      /\ Len(q) <= Len(cut) + 1 /\ \A i \in 1..Len(q) : i <= Len(cut) => cut[i] = q[i]
  <2>1. CASE Len(body) < room
    BY <1>1, <1>5, <2>1
  <2>2. CASE ~(Len(body) < room)
    <3> DEFINE n == Len(body) - 1
               z == 0
               t == SubSeq(body, z + 1, z + n)
    <3>1. cut = SubSeq(body, 1, n) /\ n \in Nat
      BY <1>5, <2>2 DEF unputc, Front
    <3>2. z \in Nat /\ z + n <= Len(body) /\ z + 1 = 1 /\ z + n = n
      BY <1>5
    <3> HIDE DEF z, n, cut
    <3>3. t \in Seq(Char) /\ Len(t) = n /\ \A i \in 1..n : t[i] = body[z + i]
      BY <1>5, <3>1, <3>2, PartOf
    <3>4. t = cut
      BY <3>1, <3>2
    <3> HIDE DEF t
    <3>5. \A i \in 1..n : t[i] = body[i]
      BY <3>1, <3>3 DEF z
    <3>6. cut \in Seq(Char) /\ Len(cut) = n /\ \A i \in 1..n : cut[i] = body[i]
      BY <3>3, <3>4, <3>5
    <3>7. n < room /\ Len(q) <= n + 1
      BY <1>1, <1>5, <2>2 DEF n
    <3>8. QED BY <1>1, <1>5, <3>1, <3>6, <3>7
  <2>3. QED BY <2>1, <2>2
<1> HIDE DEF cut
<1>7. sent = Append(cut, FRAME_END)
  BY <1>4, <1>6 DEF putc
<1> HIDE DEF sent
<1>8. /\ sent \in Seq(Char) /\ Len(sent) = Len(cut) + 1
      /\ \A i \in 1..Len(cut) : sent[i] = cut[i]
      /\ sent[Len(cut) + 1] = FRAME_END
  BY <1>6, <1>7, BytesAreChars, AppendProperties
<1>9. \A i \in 1..Len(q) : sent[i] = q[i]
  <2> TAKE i \in 1..Len(q)
  <2>1. CASE i <= Len(cut)
    BY <1>1, <1>6, <1>8, <2>1
  <2>2. CASE ~(i <= Len(cut))
    <3>1. i = Len(cut) + 1 /\ i = Len(q) /\ q # <<>>
      BY <1>1, <1>6, <2>2
    <3>2. QED BY <1>8, <3>1
  <2>3. QED BY <2>1, <2>2
<1>10. SubSeq(sent, 1, Len(q)) = q
  <2> DEFINE z == 0
             n == Len(q)
             t == SubSeq(sent, z + 1, z + n)
  <2>1. z \in Nat /\ z + n <= Len(sent) /\ z + 1 = 1 /\ z + n = n /\ n \in Nat
    BY <1>1, <1>6, <1>8
  <2> HIDE DEF z, n
  <2>2. t \in Seq(Char) /\ Len(t) = n /\ \A i \in 1..n : t[i] = sent[z + i]
    BY <1>8, <2>1, PartOf
  <2>3. t = SubSeq(sent, 1, n)
    BY <2>1
  <2> HIDE DEF t
  <2>4. \A i \in 1..n : t[i] = q[i]
    BY <1>9, <2>1, <2>2 DEF z, n
  <2>5. t = q
    BY <1>1, <2>2, <2>4, SeqEqual DEF n
  <2>6. QED BY <2>3, <2>5 DEF n
<1>11. SubSeq(q, 1, Len(q)) = q
  BY <1>1, SubSeqFull
<1>12. IsPrefix(q, sent)
  BY <1>1, <1>6, <1>8, <1>10, <1>11 DEF IsPrefix
<1>13. Last(sent) = FRAME_END
  BY <1>8 DEF Last
<1>14. QED BY <1>12, <1>13 DEF sent

\* The two outputs FramesStayApart begins with are of that form.
LEMMA FramesApart == TypeOK => FramesStayApart
<1> SUFFICES ASSUME TypeOK PROVE FramesStayApart
  OBVIOUS
<1> DEFINE t == <<FRAME_END, JUNK, FRAME_END>>
<1>1. chain \in Seq(Mbuf) /\ Total(chain) \in Nat
  BY Held
<1>2. ASSUME NEW q \in {<<>>, t},
             NEW room \in Max({1, Len(q)})..(Len(q) + Total(chain) + 2)
      PROVE  IsPrefix(q, PutFrame(q, chain, room)) /\ Last(PutFrame(q, chain, room)) = FRAME_END
  <2>1. q \in Seq(Char) /\ Len(q) \in Nat /\ (q # <<>> => q[Len(q)] = FRAME_END)
    <3>1. CASE q = <<>>
      BY <3>1, EmptySeq
    <3>2. CASE q = t
      <4>1. FRAME_END \in Char /\ JUNK \in Char
        BY BytesAreChars
      <4>2. t \in Seq(Char) /\ Len(t) = 3 /\ t[3] = FRAME_END
        BY <4>1
      <4> HIDE DEF t
      <4>3. QED BY <3>2, <4>2
    <3>3. QED BY <3>1, <3>2
  <2> DEFINE x == Len(q)
  <2>2. room \in Nat /\ room >= 1 /\ x <= room
    <3>1. 1 \in Int /\ x \in Int
      BY <2>1
    <3> HIDE DEF x
    <3>2. Max({1, x}) = IF 1 >= x THEN 1 ELSE x
      BY <3>1, MinMaxOfTwo
    <3>3. room \in Max({1, x})..(x + Total(chain) + 2)
      BY DEF x
    <3>4. x \in Nat
      BY <2>1 DEF x
    <3>5. QED BY <1>1, <3>2, <3>3, <3>4
  <2>3. q \in Fitting(room)
    BY <2>1, <2>2 DEF Fitting
  <2>4. QED BY <1>1, <2>1, <2>2, <2>3, FrameCloses
<1>3. QED BY <1>2 DEF FramesStayApart

-----------------------------------------------------------------------------
(* The receiver of RFC 1055.                                               *)

RecStates == [frames : Seq(Seq(Char)), now : Seq(Char), escaped : BOOLEAN]

RecBegin == [frames |-> <<>>, now |-> <<>>, escaped |-> FALSE]

RecRound(s, c) ==
  IF c = FRAME_END
    THEN [frames |-> IF s.now = <<>> THEN s.frames ELSE Append(s.frames, s.now),
          now |-> <<>>, escaped |-> FALSE]
  ELSE IF c = FRAME_ESCAPE THEN [s EXCEPT !.escaped = TRUE]
  ELSE [s EXCEPT !.now = Append(@, Meaning(c, s.escaped)), !.escaped = FALSE]

\* A FRAME_END closes a frame that is not empty, any other character but
\* FRAME_ESCAPE goes to the end of the frame.
LEMMA RecRoundFacts ==
  ASSUME NEW s \in RecStates, NEW c \in Char
  PROVE  LET t == RecRound(s, c)
         IN  /\ t \in RecStates
             /\ c = FRAME_END =>
                  /\ t.now = <<>> /\ ~t.escaped
                  /\ t.frames = IF s.now = <<>> THEN s.frames ELSE Append(s.frames, s.now)
             /\ c # FRAME_END => t.frames = s.frames
             /\ c # FRAME_END /\ c = FRAME_ESCAPE => t.now = s.now
             /\ c # FRAME_END /\ c # FRAME_ESCAPE =>
                  t.now = Append(s.now, Meaning(c, s.escaped)) /\ ~t.escaped
<1> DEFINE t == RecRound(s, c)
<1>1. /\ s.frames \in Seq(Seq(Char)) /\ s.now \in Seq(Char) /\ s.escaped \in BOOLEAN
  BY DEF RecStates
<1>2. CASE c = FRAME_END
  <2> DEFINE x == IF s.now = <<>> THEN s.frames ELSE Append(s.frames, s.now)
  <2>1. t = [frames |-> x, now |-> <<>>, escaped |-> FALSE]
    BY <1>2 DEF RecRound
  <2>2. x \in Seq(Seq(Char)) /\ <<>> \in Seq(Char)
    BY <1>1, AppendProperties, EmptySeq
  <2>3. x = IF s.now = <<>> THEN s.frames ELSE Append(s.frames, s.now)
    OBVIOUS
  <2> HIDE DEF x, t
  <2>4. t \in RecStates /\ t.now = <<>> /\ ~t.escaped /\ t.frames = x
    BY <2>1, <2>2 DEF RecStates
  <2>5. QED BY <1>2, <2>3, <2>4 DEF t
<1>3. CASE c # FRAME_END /\ c = FRAME_ESCAPE
  <2>1. t = [s EXCEPT !.escaped = TRUE]
    BY <1>3 DEF RecRound
  <2> HIDE DEF t
  <2>2. t \in RecStates /\ t.frames = s.frames /\ t.now = s.now
    BY <2>1 DEF RecStates
  <2>3. QED BY <1>3, <2>2 DEF t
<1>4. CASE c # FRAME_END /\ c # FRAME_ESCAPE
  <2> DEFINE x == Append(s.now, Meaning(c, s.escaped))
  <2>1. t = [s EXCEPT !.now = x, !.escaped = FALSE]
    BY <1>4 DEF RecRound
  <2>2. x \in Seq(Char)
    BY <1>1, BytesAreChars, AppendProperties
  <2> HIDE DEF x, t
  <2>3. t \in RecStates /\ t.frames = s.frames /\ t.now = x /\ ~t.escaped
    BY <2>1, <2>2 DEF RecStates
  <2>4. QED BY <1>4, <2>3 DEF t, x
<1>5. QED BY <1>2, <1>3, <1>4

RecRounds(f, q) ==
  /\ f \in [0..Len(q) -> RecStates]
  /\ f[0] = RecBegin
  /\ \A k \in 1..Len(q) : f[k] = RecRound(f[k - 1], q[k])

\* The receiver, character by character.
LEMMA RecFold ==
  ASSUME NEW q \in Seq(Char)
  PROVE  \E f : RecRounds(f, q) /\ Unframed(q) = f[Len(q)]
<1> DEFINE n == Len(q)
           V == RecStates
           v == RecBegin
           g == [x \in (1..n) \X V |-> RecRound(x[2], q[x[1]])]
           Q(it) == it = [s \in SUBSET (1..n) |->
                            IF s = {} THEN v ELSE RecRound(it[s \ {Max(s)}], q[Max(s)])]
<1>1. n \in Nat /\ DOMAIN q = 1..n /\ \A i \in 1..n : q[i] \in Char
  BY LenProperties, ElementOfSeq
<1>2. Unframed(q) = (CHOOSE it : Q(it))[1..n]
  <2> DEFINE P(it) == it = [s \in SUBSET DOMAIN q |->
                              IF s = {} THEN v ELSE RecRound(it[s \ {Max(s)}], q[Max(s)])]
  <2>1. Unframed(q) = (CHOOSE it : P(it))[DOMAIN q]
    BY DEF Unframed, FoldLeft, MapThenFoldSet, RecRound, RecBegin
  <2> HIDE DEF n, v
  <2>2. QED BY <1>1, <2>1
<1>3. v \in V
  <2>1. <<>> \in Seq(Char) /\ <<>> \in Seq(Seq(Char))
    BY EmptySeq
  <2>2. QED BY <2>1 DEF RecBegin, RecStates
<1> HIDE DEF n, v
<1>4. \A r \in V : \A i \in 1..n : RecRound(r, q[i]) \in V
  BY <1>1, RecRoundFacts
<1> HIDE DEF V
<1>5. g \in [(1..n) \X V -> V]
  BY <1>4
<1>6. PICK it \in [SUBSET (1..n) -> V] : Folds(it, n, v, g)
  <2> HIDE DEF g
  <2>1. QED BY <1>1, <1>3, <1>5, FoldExists
<1>7. Q(it)
  <2>1. ASSUME NEW s \in SUBSET (1..n), s # {}
        PROVE  g[<<Max(s), it[s \ {Max(s)}]>>] = RecRound(it[s \ {Max(s)}], q[Max(s)])
    <3>1. s \in SUBSET (0..n)
      OBVIOUS
    <3>2. Max(s) \in 1..n
      BY <1>1, <2>1, <3>1, MaxFacts
    <3>3. it[s \ {Max(s)}] \in V
      <4>1. s \ {Max(s)} \in SUBSET (1..n)
        OBVIOUS
      <4>2. QED BY <4>1
    <3>4. QED BY <3>2, <3>3
  <2> DEFINE a == [s \in SUBSET (1..n) |->
                     IF s = {} THEN v ELSE g[<<Max(s), it[s \ {Max(s)}]>>]]
             b == [s \in SUBSET (1..n) |->
                     IF s = {} THEN v ELSE RecRound(it[s \ {Max(s)}], q[Max(s)])]
  <2>2. \A s \in SUBSET (1..n) : a[s] = b[s]
    <3> HIDE DEF g
    <3>1. QED BY <2>1
  <2>3. a = b
    BY <2>2
  <2>4. it = a
    BY <1>6 DEF Folds
  <2>5. QED BY <2>3, <2>4
<1> DEFINE j == CHOOSE x : Q(x)
<1>8. Q(j)
  <2> HIDE DEF Q
  <2>1. QED BY <1>7
<1> HIDE DEF j, g
<1> DEFINE f == [k \in 0..n |-> j[1..k]]
<1>9. f[0] = v
  <2>1. 1..0 = {} /\ {} \in SUBSET (1..n) /\ 0 \in 0..n
    BY <1>1
  <2>2. QED BY <1>8, <2>1
<1>10. ASSUME NEW k \in 1..n PROVE f[k] = RecRound(f[k - 1], q[k])
  <2> DEFINE s == 1..k
  <2>1. k \in Nat /\ k # 0 /\ k \in 0..n /\ k - 1 \in 0..n /\ s \in SUBSET (1..n)
    BY <1>1
  <2>2. s # {} /\ Max(s) = k /\ s \ {k} = 1..(k - 1)
    BY <2>1, MaxOfInterval
  <2>3. f[k] = j[s] /\ f[k - 1] = j[1..(k - 1)]
    BY <2>1
  <2> HIDE DEF s, f
  <2>4. j[s] = RecRound(j[s \ {Max(s)}], q[Max(s)])
    BY <1>8, <2>1, <2>2
  <2>5. QED BY <2>2, <2>3, <2>4
<1>11. n \in 0..n /\ f[n] = j[1..n] /\ f = [k \in 0..n |-> f[k]]
  BY <1>1
<1> HIDE DEF f, Q
<1>12. \A k \in 0..n : f[k] \in V
  <2> DEFINE T == {k \in 0..n : f[k] \in V}
  <2>1. 0 \in T
    BY <1>1, <1>3, <1>9
  <2>2. ASSUME NEW k \in 0..n, k \in T, k < n PROVE k + 1 \in T
    <3>1. k + 1 \in 1..n /\ k + 1 \in 0..n /\ (k + 1) - 1 = k
      BY <1>1, <2>2
    <3>2. f[k + 1] = RecRound(f[k], q[k + 1])
      BY <1>10, <3>1
    <3>3. QED BY <1>4, <2>2, <3>1, <3>2
  <2> HIDE DEF T
  <2>3. \A k \in 0..n : k \in T
    BY <1>1, <2>1, <2>2, UpTo
  <2>4. QED BY <2>3 DEF T
<1>13. RecRounds(f, q)
  <2>1. f \in [0..n -> V]
    BY <1>11, <1>12
  <2>2. QED BY <1>9, <1>10, <2>1 DEF RecRounds, V, v, n
<1>14. QED BY <1>2, <1>11, <1>13 DEF j, n

\* After the k-th character the frame that is received has at most k - 1
\* characters when the first was a FRAME_END, and a finished one two less
\* than k.
Short(s, k) ==
  Len(s.now) <= k - 1 /\ \A i \in 1..Len(s.frames) : Len(s.frames[i]) <= k - 2

\* A character makes a frame longer by at most one.
LEMMA ShortStays ==
  ASSUME NEW s \in RecStates, NEW c \in Char, NEW k \in Nat, Short(s, k)
  PROVE  Short(RecRound(s, c), k + 1)
<1> DEFINE t == RecRound(s, c)
           L == Len(s.frames)
<1>1. /\ s.frames \in Seq(Seq(Char)) /\ s.now \in Seq(Char) /\ L \in Nat
      /\ Len(s.now) \in Nat /\ Len(<<>>) = 0 /\ s.escaped \in BOOLEAN
      /\ \A i \in 1..L : Len(s.frames[i]) \in Nat
  <2>1. s.frames \in Seq(Seq(Char)) /\ s.now \in Seq(Char) /\ s.escaped \in BOOLEAN
    BY DEF RecStates
  <2>2. L \in Nat /\ Len(s.now) \in Nat /\ Len(<<>>) = 0
    BY <2>1, LenProperties, EmptySeq
  <2>3. QED BY <2>1, <2>2, PieceLengths
<1>2. Len(s.now) <= k - 1 /\ \A i \in 1..L : Len(s.frames[i]) <= k - 2
  BY DEF Short
<1>3. CASE c = FRAME_END
  <2>1. /\ t.now = <<>>
        /\ t.frames = IF s.now = <<>> THEN s.frames ELSE Append(s.frames, s.now)
    BY <1>3, RecRoundFacts
  <2> HIDE DEF t
  <2>2. Len(t.now) <= (k + 1) - 1
    BY <1>1, <2>1
  <2>3. CASE s.now = <<>>
    <3>1. t.frames = s.frames
      BY <2>1, <2>3
    <3>2. \A i \in 1..Len(t.frames) : Len(t.frames[i]) <= (k + 1) - 2
      BY <1>1, <1>2, <3>1
    <3>3. QED BY <2>2, <3>2 DEF Short, t
  <2>4. CASE s.now # <<>>
    <3>1. t.frames = Append(s.frames, s.now)
      BY <2>1, <2>4
    <3>2. /\ Len(t.frames) = L + 1 /\ t.frames[L + 1] = s.now
          /\ \A i \in 1..L : t.frames[i] = s.frames[i]
      BY <1>1, <3>1, AppendProperties
    <3>3. \A i \in 1..Len(t.frames) : Len(t.frames[i]) <= (k + 1) - 2
      <4> TAKE i \in 1..Len(t.frames)
      <4>1. CASE i = L + 1
        BY <1>1, <1>2, <3>2, <4>1
      <4>2. CASE i # L + 1
        <5>1. i \in 1..L
          BY <1>1, <3>2, <4>2
        <5> DEFINE l == Len(s.frames[i])
        <5>2. l \in Nat /\ l <= k - 2
          BY <1>1, <1>2, <5>1
        <5>3. Len(t.frames[i]) = l
          BY <3>2, <5>1
        <5> HIDE DEF l
        <5>4. l <= (k + 1) - 2
          BY <5>2
        <5>5. QED BY <5>3, <5>4
      <4>3. QED BY <4>1, <4>2
    <3>4. QED BY <2>2, <3>3 DEF Short, t
  <2>5. QED BY <2>3, <2>4
<1>4. CASE c # FRAME_END
  <2>1. /\ t.frames = s.frames
        /\ t.now = s.now \/ t.now = Append(s.now, Meaning(c, s.escaped))
    BY <1>4, RecRoundFacts
  <2> HIDE DEF t
  <2>2. Meaning(c, s.escaped) \in Char
    BY <1>1, BytesAreChars
  <2>3. Len(Append(s.now, Meaning(c, s.escaped))) = Len(s.now) + 1
    BY <1>1, <2>2, AppendProperties
  <2>4. Len(t.now) <= (k + 1) - 1
    BY <1>1, <1>2, <2>1, <2>3
  <2>5. \A i \in 1..Len(t.frames) : Len(t.frames[i]) <= (k + 1) - 2
    BY <1>1, <1>2, <2>1
  <2>6. QED BY <2>4, <2>5 DEF Short, t
<1>5. QED BY <1>3, <1>4

\* What goes out for a packet when t_outq is empty and there is room.
LEMMA SentFacts ==
  ASSUME NEW c \in Seq(Mbuf)
  PROVE  LET kept == FlattenSeq(KeptOf(c))
             sent == PutFrame(<<>>, c, Total(c) + 2)
             K == Len(kept)
         IN  /\ sent \in Seq(Char) /\ Len(sent) = K + 2
             /\ sent[1] = FRAME_END /\ sent[K + 2] = FRAME_END
             /\ \A j \in 1..K : sent[j + 1] = kept[j]
             /\ kept \in Seq(Byte) /\ K \in Nat
             /\ Total(c) > 0 => K < Total(c)
<1> DEFINE kept == FlattenSeq(KeptOf(c))
           room == Total(c) + 2
           sent == PutFrame(<<>>, c, room)
           K == Len(kept)
           first == <<FRAME_END>>
           body == PutAll(c, first, room)
<1>1. Total(c) \in Nat /\ room \in Nat /\ room > 0
  BY UptoFacts
<1>2. first \in Seq(Char) /\ Len(first) = 1 /\ first[1] = FRAME_END
  BY BytesAreChars, OneElement
<1>3. Begun(<<>>, room) = first
  <2>1. Len(<<>>) < room
    BY <1>1, EmptySeq
  <2> HIDE DEF room
  <2>2. Begun(<<>>, room) = Append(<<>>, FRAME_END)
    BY <2>1 DEF Begun, putc
  <2>3. QED BY <2>2
<1> HIDE DEF first
<1>4. /\ body = first \o kept
      /\ kept \in Seq(Byte) /\ K \in Nat /\ K <= Total(c)
      /\ Total(c) > 0 => K < Total(c)
  <2>1. Len(first) + Total(c) <= room
    BY <1>1, <1>2
  <2> HIDE DEF room
  <2>2. QED BY <1>1, <1>2, <2>1, PutWhole
<1> HIDE DEF kept
<1>5. /\ body \in Seq(Char) /\ Len(body) = 1 + K
      /\ \A i \in 1..1 + K : body[i] = IF i <= 1 THEN first[i] ELSE kept[i - 1]
  <2>1. kept \in Seq(Char)
    BY <1>4, BytesAreChars
  <2>2. /\ first \o kept \in Seq(Char) /\ Len(first \o kept) = Len(first) + K
        /\ \A i \in 1..Len(first) + K :
             (first \o kept)[i] = IF i <= Len(first) THEN first[i] ELSE kept[i - Len(first)]
    BY <1>2, <2>1, ConcatProperties
  <2>3. QED BY <1>2, <1>4, <2>2
<1>6. Len(body) < room
  BY <1>1, <1>4, <1>5
<1>7. sent = Append(body, FRAME_END)
  <2>1. sent = putc(body, FRAME_END, room)
    BY <1>3, <1>6, PutFrameIs
  <2> HIDE DEF body, room, sent
  <2>2. QED BY <1>6, <2>1 DEF putc
<1> HIDE DEF body, room, sent
<1>8. /\ sent \in Seq(Char) /\ Len(sent) = (1 + K) + 1
      /\ \A i \in 1..1 + K : sent[i] = body[i]
      /\ sent[(1 + K) + 1] = FRAME_END
  BY <1>5, <1>7, BytesAreChars, AppendProperties
<1>9. (1 + K) + 1 = K + 2 /\ 1 \in 1..1 + K /\ \A j \in 1..K : j + 1 \in 1..1 + K /\ j + 1 > 1
      /\ (j + 1) - 1 = j
  BY <1>4
<1>10. sent[1] = FRAME_END
  BY <1>2, <1>5, <1>8, <1>9
<1>11. \A j \in 1..K : sent[j + 1] = kept[j]
  <2> TAKE j \in 1..K
  <2> DEFINE i == j + 1
  <2>1. i \in 1..1 + K /\ ~(i <= 1) /\ i - 1 = j
    BY <1>4
  <2> HIDE DEF i
  <2>2. sent[i] = kept[i - 1]
    BY <1>5, <1>8, <2>1
  <2>3. QED BY <2>1, <2>2 DEF i
<1>12. QED BY <1>4, <1>8, <1>9, <1>10, <1>11 DEF kept, room, sent

\* The far end gets no packet with data whole: its frames are too short.
LEMMA NeverWhole ==
  ASSUME NEW c \in Seq(Mbuf), Data(c) # <<>>
  PROVE  Unframed(PutFrame(<<>>, c, Total(c) + 2)).frames # <<Data(c)>>
<1> DEFINE kept == FlattenSeq(KeptOf(c))
           sent == PutFrame(<<>>, c, Total(c) + 2)
           K == Len(kept)
           d == Data(c)
<1>1. d \in Seq(Byte) /\ Len(d) = Total(c) /\ Total(c) \in Nat /\ Total(c) > 0
  <2>1. d \in Seq(Byte) /\ Len(d) = Total(c) /\ Total(c) \in Nat
    BY ChainLayout, UptoFacts
  <2>2. Len(d) # 0
    BY <2>1, EmptySeq
  <2>3. QED BY <2>1, <2>2
<1>2. /\ sent \in Seq(Char) /\ Len(sent) = K + 2 /\ K \in Nat /\ K < Total(c)
      /\ sent[1] = FRAME_END
  BY <1>1, SentFacts
<1> HIDE DEF sent, K, d
<1> DEFINE n == Len(sent)
<1>3. PICK f : RecRounds(f, sent) /\ Unframed(sent) = f[n]
  BY <1>2, RecFold
<1>4. /\ \A k \in 0..n : f[k] \in RecStates
      /\ f[0] = RecBegin
      /\ \A k \in 1..n : f[k] = RecRound(f[k - 1], sent[k])
  BY <1>3 DEF RecRounds
<1>5. n \in Nat /\ n = K + 2 /\ n >= 1 /\ \A k \in 1..n : sent[k] \in Char
  BY <1>2, ElementOfSeq
<1> HIDE DEF n
<1> DEFINE T == {k \in 0..n : k = 0 \/ Short(f[k], k)}
<1>6. Short(f[1], 1)
  <2> DEFINE s == f[0]
             t == f[1]
  <2>1. 1 \in 1..n /\ 1 - 1 = 0 /\ 0 \in 0..n
    BY <1>5
  <2>2. s = RecBegin /\ s \in RecStates /\ t = RecRound(s, sent[1]) /\ sent[1] \in Char
    BY <1>4, <1>5, <2>1
  <2> HIDE DEF s, t
  <2>3. t.now = <<>> /\ t.frames = IF s.now = <<>> THEN s.frames ELSE Append(s.frames, s.now)
    BY <1>2, <2>2, RecRoundFacts
  <2>4. s.now = <<>> /\ s.frames = <<>>
    BY <2>2 DEF RecBegin
  <2>5. t.now = <<>> /\ t.frames = <<>> /\ Len(<<>>) = 0
    BY <2>3, <2>4, EmptySeq
  <2>6. Short(t, 1)
    BY <2>5 DEF Short
  <2>7. QED BY <2>6 DEF t
<1>7. ASSUME NEW k \in 0..n, k \in T, k < n PROVE k + 1 \in T
  <2>1. k + 1 \in 1..n /\ k + 1 \in 0..n /\ (k + 1) - 1 = k /\ k \in Nat
    BY <1>5, <1>7
  <2>2. CASE k = 0
    BY <1>6, <2>1, <2>2
  <2>3. CASE k # 0
    <3>1. Short(f[k], k)
      BY <1>7, <2>3
    <3>2. f[k + 1] = RecRound(f[k], sent[k + 1]) /\ f[k] \in RecStates /\ sent[k + 1] \in Char
      BY <1>4, <1>5, <2>1
    <3>3. Short(f[k + 1], k + 1)
      BY <2>1, <3>1, <3>2, ShortStays
    <3>4. QED BY <2>1, <3>3
  <2>4. QED BY <2>2, <2>3
<1>8. 0 \in T
  BY <1>5
<1> HIDE DEF T
<1>9. \A k \in 0..n : k \in T
  BY <1>5, <1>7, <1>8, UpTo
<1>10. Short(f[n], n)
  <2>1. n \in 0..n /\ n # 0
    BY <1>5
  <2>2. n \in T
    BY <1>9, <2>1
  <2>3. QED BY <2>1, <2>2 DEF T
<1>11. SUFFICES ASSUME f[n].frames = <<d>> PROVE FALSE
  BY <1>3 DEF sent, d
<1>12. Len(<<d>>) = 1 /\ <<d>>[1] = d
  BY <1>1, OneElement
<1>13. Len(d) <= n - 2
  <2> DEFINE r == f[n].frames
  <2>1. \A i \in 1..Len(r) : Len(r[i]) <= n - 2
    BY <1>10 DEF Short
  <2>2. Len(r) = 1 /\ r[1] = d
    BY <1>11, <1>12
  <2> HIDE DEF r
  <2>3. QED BY <2>1, <2>2
<1>14. QED BY <1>1, <1>2, <1>5, <1>13

\* What is received of a packet without the two codes.
Collected(s, kept, j) ==
  /\ s.frames = <<>> /\ ~s.escaped /\ Len(s.now) = j
  /\ \A i \in 1..j : s.now[i] = kept[i]

\* Character by character, without a code on the way.
LEMMA PlainArrives ==
  ASSUME NEW c \in Seq(Mbuf),
         ToSet(FlattenSeq(KeptOf(c))) \cap {FRAME_END, FRAME_ESCAPE} = {}
  PROVE  LET kept == FlattenSeq(KeptOf(c))
         IN Unframed(PutFrame(<<>>, c, Total(c) + 2)).frames =
              IF kept = <<>> THEN <<>> ELSE <<kept>>
<1> DEFINE kept == FlattenSeq(KeptOf(c))
           sent == PutFrame(<<>>, c, Total(c) + 2)
           K == Len(kept)
           n == Len(sent)
<1>1. /\ sent \in Seq(Char) /\ n = K + 2 /\ K \in Nat /\ kept \in Seq(Byte)
      /\ sent[1] = FRAME_END /\ sent[K + 2] = FRAME_END
      /\ \A j \in 1..K : sent[j + 1] = kept[j]
  BY SentFacts
<1> HIDE DEF sent
<1>2. kept \in Seq(Char) /\ \A j \in 1..K : kept[j] \in Char
  BY <1>1, BytesAreChars, ElementOfSeq
<1>3. \A j \in 1..K : kept[j] # FRAME_END /\ kept[j] # FRAME_ESCAPE
  <2>1. DOMAIN kept = 1..K
    BY <1>1, LenProperties
  <2> HIDE DEF kept
  <2>2. \A j \in 1..K : kept[j] \in ToSet(kept)
    BY <2>1 DEF ToSet
  <2>3. ToSet(kept) \cap {FRAME_END, FRAME_ESCAPE} = {}
    BY DEF kept
  <2>4. QED BY <2>2, <2>3
<1> HIDE DEF kept
<1>4. PICK f : RecRounds(f, sent) /\ Unframed(sent) = f[n]
  BY <1>1, RecFold
<1>5. /\ \A k \in 0..n : f[k] \in RecStates
      /\ f[0] = RecBegin
      /\ \A k \in 1..n : f[k] = RecRound(f[k - 1], sent[k])
      /\ \A k \in 1..n : sent[k] \in Char
  BY <1>1, <1>4, ElementOfSeq DEF RecRounds
<1> HIDE DEF n, K
<1> DEFINE T == {j \in 0..K : Collected(f[j + 1], kept, j)}
<1>6. 0 \in T
  <2> DEFINE s == f[0]
             t == f[1]
  <2>1. 1 \in 1..n /\ 1 - 1 = 0 /\ 0 \in 0..n /\ 0 + 1 = 1 /\ 0 \in 0..K
    BY <1>1
  <2>2. s = RecBegin /\ s \in RecStates /\ t = RecRound(s, sent[1]) /\ sent[1] \in Char
    BY <1>5, <2>1
  <2> HIDE DEF s, t
  <2>3. /\ t.now = <<>> /\ ~t.escaped
        /\ t.frames = IF s.now = <<>> THEN s.frames ELSE Append(s.frames, s.now)
    BY <1>1, <2>2, RecRoundFacts
  <2>4. s.now = <<>> /\ s.frames = <<>>
    BY <2>2 DEF RecBegin
  <2>5. t.now = <<>> /\ t.frames = <<>> /\ ~t.escaped /\ Len(<<>>) = 0
    BY <2>3, <2>4, EmptySeq
  <2>6. Collected(t, kept, 0)
    BY <2>5 DEF Collected
  <2>7. QED BY <2>1, <2>6 DEF t
<1>7. ASSUME NEW j \in 0..K, j \in T, j < K PROVE j + 1 \in T
  <2> DEFINE k == j + 1
             s == f[k]
             t == f[k + 1]
             e == sent[k + 1]
  <2>1. k \in 1..K /\ k \in 0..n /\ k + 1 \in 1..n /\ (k + 1) - 1 = k /\ k \in 0..K
    BY <1>1, <1>7
  <2>2. s \in RecStates /\ t = RecRound(s, e) /\ e \in Char
    BY <1>5, <2>1
  <2>3. e = kept[k]
    BY <1>1, <2>1
  <2>4. Collected(s, kept, j)
    BY <1>7
  <2> HIDE DEF k, s, t, e
  <2>5. e # FRAME_END /\ e # FRAME_ESCAPE
    BY <1>3, <2>1, <2>3
  <2>6. Meaning(e, s.escaped) = e
    BY <2>4 DEF Collected, Meaning
  <2>7. t.frames = s.frames /\ t.now = Append(s.now, e) /\ ~t.escaped
    BY <2>2, <2>5, <2>6, RecRoundFacts
  <2>8. s.now \in Seq(Char) /\ Len(s.now) = j /\ s.frames = <<>>
        /\ \A i \in 1..j : s.now[i] = kept[i]
    BY <2>2, <2>4 DEF RecStates, Collected
  <2>9. /\ Len(t.now) = j + 1 /\ t.now[j + 1] = e
        /\ \A i \in 1..j : t.now[i] = s.now[i]
    <3> DEFINE x == s.now
    <3>1. x \in Seq(Char) /\ Len(x) = j /\ t.now = Append(x, e)
      BY <2>7, <2>8
    <3> HIDE DEF x
    <3>2. /\ Len(Append(x, e)) = Len(x) + 1 /\ Append(x, e)[Len(x) + 1] = e
          /\ \A i \in 1..Len(x) : Append(x, e)[i] = x[i]
      BY <2>2, <3>1, AppendProperties
    <3>3. QED BY <3>1, <3>2 DEF x
  <2>10. \A i \in 1..k : t.now[i] = kept[i]
    <3> TAKE i \in 1..k
    <3>1. CASE i = k
      BY <2>3, <2>9, <3>1 DEF k
    <3>2. CASE i # k
      <4>1. i \in 1..j
        BY <1>7, <3>2 DEF k
      <4>2. QED BY <2>8, <2>9, <4>1
    <3>3. QED BY <3>1, <3>2
  <2>11. Collected(t, kept, k)
    BY <2>7, <2>8, <2>9, <2>10 DEF Collected, k
  <2>12. k \in T
    BY <2>1, <2>11 DEF t
  <2>13. QED BY <2>12 DEF k
<1> HIDE DEF T
<1>8. \A j \in 0..K : j \in T
  BY <1>1, <1>6, <1>7, UpTo
<1> DEFINE k == K + 1
           s == f[k]
           t == f[n]
<1>9. Collected(s, kept, K)
  <2>1. K \in 0..K
    BY <1>1
  <2>2. QED BY <1>8, <2>1 DEF T
<1>10. s \in RecStates /\ t = RecRound(s, FRAME_END)
  <2>1. k \in 0..n /\ n \in 1..n /\ n - 1 = k
    BY <1>1
  <2>2. sent[n] = FRAME_END
    BY <1>1
  <2>3. QED BY <1>5, <2>1, <2>2
<1> HIDE DEF k, s, t
<1>11. t.frames = IF s.now = <<>> THEN s.frames ELSE Append(s.frames, s.now)
  BY <1>10, BytesAreChars, RecRoundFacts
<1>12. s.now = kept /\ s.frames = <<>>
  <2>1. s.now \in Seq(Char) /\ Len(s.now) = K /\ s.frames = <<>>
        /\ \A i \in 1..K : s.now[i] = kept[i]
    BY <1>9, <1>10 DEF RecStates, Collected
  <2>2. s.now = kept
    BY <1>2, <2>1, SeqEqual DEF K
  <2>3. QED BY <2>1, <2>2
<1>13. t.frames = IF kept = <<>> THEN <<>> ELSE <<kept>>
  BY <1>11, <1>12
<1>14. QED BY <1>4, <1>13 DEF t, sent, kept

\* The FRAME_END in front leaves the receiver as it begins.
LEMMA BeginsAgain == RecRound(RecBegin, FRAME_END) = RecBegin
BY DEF RecRound, RecBegin

\* What is received is what the receiver makes of the bytes that were kept.
LEMMA RawArrives ==
  ASSUME NEW c \in Seq(Mbuf)
  PROVE  Unframed(PutFrame(<<>>, c, Total(c) + 2)) =
           Unframed(Append(FlattenSeq(KeptOf(c)), FRAME_END))
<1> DEFINE kept == FlattenSeq(KeptOf(c))
           sent == PutFrame(<<>>, c, Total(c) + 2)
           q == Append(kept, FRAME_END)
           K == Len(kept)
           n == Len(sent)
           m == Len(q)
<1>1. /\ sent \in Seq(Char) /\ n = K + 2 /\ K \in Nat /\ kept \in Seq(Byte)
      /\ sent[1] = FRAME_END /\ sent[K + 2] = FRAME_END
      /\ \A j \in 1..K : sent[j + 1] = kept[j]
  BY SentFacts
<1> HIDE DEF sent, kept
<1>2. kept \in Seq(Char) /\ FRAME_END \in Char
  BY <1>1, BytesAreChars
<1>3. q \in Seq(Char) /\ m = K + 1 /\ q[K + 1] = FRAME_END /\ \A j \in 1..K : q[j] = kept[j]
  BY <1>2, AppendProperties
<1> HIDE DEF q
<1>4. PICK f : RecRounds(f, sent) /\ Unframed(sent) = f[n]
  BY <1>1, RecFold
<1>5. PICK g : RecRounds(g, q) /\ Unframed(q) = g[m]
  BY <1>3, RecFold
<1>6. f[0] = RecBegin /\ \A k \in 1..n : f[k] = RecRound(f[k - 1], sent[k])
  BY <1>4 DEF RecRounds
<1>7. g[0] = RecBegin /\ \A k \in 1..m : g[k] = RecRound(g[k - 1], q[k])
  BY <1>5 DEF RecRounds
<1> HIDE DEF K, n, m
<1> DEFINE T == {k \in 0..m : f[k + 1] = g[k]}
<1>8. 0 \in T
  <2>1. 1 \in 1..n /\ 1 - 1 = 0 /\ 0 + 1 = 1 /\ 0 \in 0..m
    BY <1>1, <1>3
  <2>2. f[1] = RecRound(f[0], sent[1])
    BY <1>6, <2>1
  <2>3. f[1] = g[0]
    BY <1>1, <1>6, <1>7, <2>2, BeginsAgain
  <2>4. QED BY <2>1, <2>3
<1>9. ASSUME NEW k \in 0..m, k \in T, k < m PROVE k + 1 \in T
  <2> DEFINE j == k + 1
  <2>1. j \in 1..m /\ j \in 0..m /\ j + 1 \in 1..n /\ (j + 1) - 1 = j /\ j - 1 = k
    BY <1>1, <1>3, <1>9
  <2>2. f[k + 1] = g[k]
    BY <1>9
  <2>3. f[j] = g[j - 1]
    BY <2>1, <2>2
  <2> HIDE DEF j, T
  <2>4. f[j + 1] = RecRound(f[j], sent[j + 1]) /\ g[j] = RecRound(g[j - 1], q[j])
    BY <1>6, <1>7, <2>1
  <2>5. sent[j + 1] = q[j]
    <3>1. CASE j = K + 1
      <4>1. j + 1 = K + 2
        BY <1>1, <3>1
      <4>2. QED BY <1>1, <1>3, <3>1, <4>1
    <3>2. CASE j # K + 1
      <4>1. j \in 1..K
        BY <1>1, <1>3, <2>1, <3>2
      <4>2. QED BY <1>1, <1>3, <4>1
    <3>3. QED BY <3>1, <3>2
  <2>6. f[j + 1] = g[j]
    BY <2>3, <2>4, <2>5
  <2>7. QED BY <2>1, <2>6 DEF T, j
<1> HIDE DEF T
<1>10. \A k \in 0..m : k \in T
  <2>1. m \in Nat
    BY <1>1, <1>3
  <2>2. QED BY <1>8, <1>9, <2>1, UpTo
<1>11. m \in 0..m /\ m + 1 = n
  BY <1>1, <1>3
<1>12. f[m + 1] = g[m]
  BY <1>10, <1>11 DEF T
<1>13. Unframed(sent) = Unframed(q)
  BY <1>4, <1>5, <1>11, <1>12
<1>14. QED BY <1>13 DEF sent, q, kept

\* Neither the frame that is received nor a finished one is longer than a.
NoLonger(s, a) == Len(s.now) <= a /\ \A i \in 1..Len(s.frames) : Len(s.frames[i]) <= a

\* Only a character that is no code makes a frame longer.
LEMMA LongerByNoCode ==
  ASSUME NEW s \in RecStates, NEW c \in Char, NEW a \in Nat, NoLonger(s, a)
  PROVE  /\ NoLonger(RecRound(s, c), a + 1)
         /\ c \in {FRAME_END, FRAME_ESCAPE} => NoLonger(RecRound(s, c), a)
<1> DEFINE t == RecRound(s, c)
           L == Len(s.frames)
<1>1. /\ s.frames \in Seq(Seq(Char)) /\ s.now \in Seq(Char) /\ L \in Nat
      /\ Len(s.now) \in Nat /\ Len(<<>>) = 0 /\ s.escaped \in BOOLEAN
      /\ \A i \in 1..L : Len(s.frames[i]) \in Nat
  <2>1. s.frames \in Seq(Seq(Char)) /\ s.now \in Seq(Char) /\ s.escaped \in BOOLEAN
    BY DEF RecStates
  <2>2. L \in Nat /\ Len(s.now) \in Nat /\ Len(<<>>) = 0
    BY <2>1, LenProperties, EmptySeq
  <2>3. QED BY <2>1, <2>2, PieceLengths
<1>2. Len(s.now) <= a /\ \A i \in 1..L : Len(s.frames[i]) <= a
  BY DEF NoLonger
<1>3. NoLonger(s, a + 1)
  <2>1. \A i \in 1..L : Len(s.frames[i]) <= a + 1
    <3> TAKE i \in 1..L
    <3> DEFINE l == Len(s.frames[i])
    <3>1. l \in Nat /\ l <= a
      BY <1>1, <1>2
    <3> HIDE DEF l
    <3>2. l <= a + 1
      BY <3>1
    <3>3. QED BY <3>2 DEF l
  <2>2. Len(s.now) <= a + 1
    BY <1>1, <1>2
  <2>3. QED BY <2>1, <2>2 DEF NoLonger
<1>4. CASE c = FRAME_END
  <2>1. /\ t.now = <<>>
        /\ t.frames = IF s.now = <<>> THEN s.frames ELSE Append(s.frames, s.now)
    BY <1>4, RecRoundFacts
  <2> HIDE DEF t
  <2>2. CASE s.now = <<>>
    <3>1. t.frames = s.frames /\ t.now = s.now
      BY <2>1, <2>2
    <3>2. NoLonger(t, a) /\ NoLonger(t, a + 1)
      BY <1>2, <1>3, <3>1 DEF NoLonger
    <3>3. QED BY <3>2 DEF t
  <2>3. CASE s.now # <<>>
    <3>1. t.frames = Append(s.frames, s.now)
      BY <2>1, <2>3
    <3>2. /\ Len(t.frames) = L + 1 /\ t.frames[L + 1] = s.now
          /\ \A i \in 1..L : t.frames[i] = s.frames[i]
      BY <1>1, <3>1, AppendProperties
    <3>3. \A i \in 1..Len(t.frames) : Len(t.frames[i]) <= a /\ Len(t.frames[i]) <= a + 1
      <4> TAKE i \in 1..Len(t.frames)
      <4>1. CASE i = L + 1
        BY <1>1, <1>2, <3>2, <4>1
      <4>2. CASE i # L + 1
        <5>1. i \in 1..L
          BY <1>1, <3>2, <4>2
        <5>2. Len(s.frames[i]) <= a /\ Len(s.frames[i]) <= a + 1
          BY <1>2, <1>3, <5>1 DEF NoLonger
        <5>3. QED BY <3>2, <5>1, <5>2
      <4>3. QED BY <4>1, <4>2
    <3>4. Len(t.now) <= a /\ Len(t.now) <= a + 1
      BY <1>1, <2>1
    <3>5. QED BY <3>3, <3>4 DEF NoLonger, t
  <2>4. QED BY <2>2, <2>3
<1>5. CASE c # FRAME_END /\ c = FRAME_ESCAPE
  <2>1. t.frames = s.frames /\ t.now = s.now
    BY <1>5, RecRoundFacts
  <2> HIDE DEF t
  <2>2. NoLonger(t, a) /\ NoLonger(t, a + 1)
    BY <1>2, <1>3, <2>1 DEF NoLonger
  <2>3. QED BY <2>2 DEF t
<1>6. CASE c # FRAME_END /\ c # FRAME_ESCAPE
  <2>1. t.frames = s.frames /\ t.now = Append(s.now, Meaning(c, s.escaped))
    BY <1>6, RecRoundFacts
  <2> HIDE DEF t
  <2>2. Meaning(c, s.escaped) \in Char
    BY <1>1, BytesAreChars
  <2>3. Len(Append(s.now, Meaning(c, s.escaped))) = Len(s.now) + 1
    BY <1>1, <2>2, AppendProperties
  <2>4. Len(t.now) <= a + 1
    BY <1>1, <1>2, <2>1, <2>3
  <2>5. \A i \in 1..Len(t.frames) : Len(t.frames[i]) <= a + 1
    BY <1>3, <2>1 DEF NoLonger
  <2>6. NoLonger(t, a + 1)
    BY <2>4, <2>5 DEF NoLonger
  <2>7. QED BY <1>6, <2>6 DEF t
<1>7. QED BY <1>4, <1>5, <1>6

\* A code among the bytes that are kept makes every frame shorter than these.
LEMMA CodesSpoil ==
  ASSUME NEW kept \in Seq(Char), NEW p \in 1..Len(kept),
         kept[p] \in {FRAME_END, FRAME_ESCAPE}
  PROVE  Unframed(Append(kept, FRAME_END)).frames # <<kept>>
<1> DEFINE q == Append(kept, FRAME_END)
           K == Len(kept)
           n == Len(q)
<1>1. /\ FRAME_END \in Char /\ K \in Nat /\ p \in Nat /\ 1 <= p /\ p <= K
  BY BytesAreChars, LenProperties
<1>2. q \in Seq(Char) /\ n = K + 1 /\ q[K + 1] = FRAME_END /\ \A j \in 1..K : q[j] = kept[j]
  BY <1>1, AppendProperties
<1> HIDE DEF q
<1>3. PICK f : RecRounds(f, q) /\ Unframed(q) = f[n]
  BY <1>2, RecFold
<1>4. /\ \A k \in 0..n : f[k] \in RecStates
      /\ f[0] = RecBegin
      /\ \A k \in 1..n : f[k] = RecRound(f[k - 1], q[k])
      /\ \A k \in 1..n : q[k] \in Char
  BY <1>2, <1>3, ElementOfSeq DEF RecRounds
<1>5. q[p] \in {FRAME_END, FRAME_ESCAPE}
  BY <1>1, <1>2
<1> HIDE DEF K, n
<1> DEFINE B(k) == IF k < p THEN k ELSE k - 1
           T == {k \in 0..n : NoLonger(f[k], B(k))}
<1>6. 0 \in T
  <2>1. f[0].now = <<>> /\ f[0].frames = <<>> /\ Len(<<>>) = 0
    BY <1>4, EmptySeq DEF RecBegin
  <2>2. 0 \in 0..n /\ B(0) = 0
    BY <1>1, <1>2
  <2> HIDE DEF B
  <2>3. NoLonger(f[0], 0)
    BY <2>1 DEF NoLonger
  <2>4. QED BY <2>2, <2>3
<1>7. ASSUME NEW k \in 0..n, k \in T, k < n PROVE k + 1 \in T
  <2> DEFINE j == k + 1
             a == B(k)
             s == f[k]
             t == f[j]
  <2>1. j \in 1..n /\ j \in 0..n /\ j - 1 = k /\ a \in Nat
    BY <1>1, <1>2, <1>7
  <2>2. NoLonger(s, a)
    BY <1>7
  <2>3. s \in RecStates /\ t = RecRound(s, q[j]) /\ q[j] \in Char
    BY <1>4, <2>1
  <2>4. B(j) = IF j = p THEN a ELSE a + 1
    BY <1>1, <1>2, <1>7
  <2> HIDE DEF T, B, a, s, t, j
  <2>5. NoLonger(t, a + 1) /\ (q[j] \in {FRAME_END, FRAME_ESCAPE} => NoLonger(t, a))
    BY <2>1, <2>2, <2>3, LongerByNoCode
  <2>6. NoLonger(t, B(j))
    BY <1>5, <2>4, <2>5
  <2>7. j \in T
    BY <2>1, <2>6 DEF T, t
  <2>8. QED BY <2>7 DEF j
<1> HIDE DEF T
<1>8. \A k \in 0..n : k \in T
  <2>1. n \in Nat
    BY <1>1, <1>2
  <2>2. QED BY <1>6, <1>7, <2>1, UpTo
<1>9. NoLonger(f[K], K - 1)
  <2>1. K \in 0..n /\ B(K) = K - 1
    BY <1>1, <1>2
  <2> HIDE DEF B
  <2>2. QED BY <1>8, <2>1 DEF T
<1>10. NoLonger(f[n], K - 1)
  <2> DEFINE a == K - 1
             s == f[K]
             t == f[n]
  <2>1. n \in 1..n /\ n - 1 = K /\ K \in 0..n /\ a \in Nat
    BY <1>1, <1>2
  <2>2. s \in RecStates /\ t = RecRound(s, FRAME_END) /\ NoLonger(s, a)
    BY <1>2, <1>4, <1>9, <2>1
  <2> HIDE DEF a, s, t
  <2>3. NoLonger(t, a)
    BY <1>1, <2>1, <2>2, LongerByNoCode
  <2>4. QED BY <2>3 DEF t, a
<1>11. SUFFICES ASSUME f[n].frames = <<kept>> PROVE FALSE
  BY <1>3 DEF q
<1> DEFINE r == f[n].frames
<1>12. Len(r) = 1 /\ r[1] = kept
  BY <1>11
<1>13. \A i \in 1..Len(r) : Len(r[i]) <= K - 1
  BY <1>10 DEF NoLonger
<1> HIDE DEF r
<1>14. K <= K - 1
  BY <1>12, <1>13 DEF K
<1>15. QED BY <1>1, <1>14

\* Both halves of what the line does to a packet.
LEMMA LinesLose == TypeOK => LineLosesLastBytes
<1> SUFFICES ASSUME TypeOK, chain # <<>> PROVE LineLosesLastBytes
  BY DEF LineLosesLastBytes
<1> DEFINE kept == FlattenSeq(KeptOf(chain))
           got == Unframed(PutFrame(<<>>, chain, Total(chain) + 2)).frames
           plain == ToSet(kept) \cap {FRAME_END, FRAME_ESCAPE} = {}
<1>1. chain \in Seq(Mbuf)
  BY Held
<1>2. KeptOf(chain) = [i \in DOMAIN chain |->
        IF chain[i].bytes = <<>> THEN <<>> ELSE Front(chain[i].bytes)]
  BY DEF KeptOf, Kept
<1>3. got = Unframed(Append(kept, FRAME_END)).frames
  BY <1>1, RawArrives
<1>4. Data(chain) # <<>> => got # <<Data(chain)>>
  BY <1>1, NeverWhole
<1>5. plain => got = IF kept = <<>> THEN <<>> ELSE <<kept>>
  BY <1>1, PlainArrives
<1>6. kept \in Seq(Char)
  BY <1>1, SentFacts, BytesAreChars
<1> HIDE DEF got, kept
<1>7. kept = <<>> => plain
  <2> SUFFICES ASSUME kept = <<>> PROVE plain
    OBVIOUS
  <2>1. ToSet(kept) = {}
    BY DEF ToSet
  <2>2. QED BY <2>1
<1>8. ~plain => got # <<kept>>
  <2> SUFFICES ASSUME ~plain PROVE got # <<kept>>
    OBVIOUS
  <2>1. DOMAIN kept = 1..Len(kept)
    BY <1>6, LenProperties
  <2>2. PICK p \in 1..Len(kept) : kept[p] \in {FRAME_END, FRAME_ESCAPE}
    BY <2>1 DEF ToSet
  <2>3. QED BY <1>3, <1>6, <2>2, CodesSpoil
<1> HIDE DEF plain
<1>9. kept = <<>> => got = <<>>
  BY <1>5, <1>7
<1>10. kept # <<>> => (got = <<kept>> <=> plain)
  BY <1>5, <1>8
<1>11. QED
  <2>1. /\ got = Unframed(Append(kept, FRAME_END)).frames
        /\ Data(chain) # <<>> => got # <<Data(chain)>>
        /\ kept = <<>> => got = <<>>
        /\ kept # <<>> => (got = <<kept>> <=> plain)
    BY <1>3, <1>4, <1>9, <1>10
  <2>2. QED BY <1>2, <2>1, Zenon DEF LineLosesLastBytes, got, kept, plain

\* For chains of any length and mbufs of any size, whatever their bytes are: a
\* frame is closed and the frames in front of it stay, however little room the
\* clists have; with room, the far end gets what it makes of the packet's bytes
\* without the last of each mbuf, and that is one frame exactly if no code is
\* among them.
THEOREM FramesOnTheLine == Spec => []LineFrames
<1>1. TypeOK => LineFrames
  BY FramesApart, LinesLose DEF LineFrames
<1>2. QED BY <1>1, TypeCorrect, PTL
=============================================================================
