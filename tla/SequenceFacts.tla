---------------------------- MODULE SequenceFacts ----------------------------
(***************************************************************************)
(* Facts about the folds of the community modules, about FlattenSeq and    *)
(* about sequences that are cut into pieces, for the proofs of the other   *)
(* modules.  Induction is stated for sets of numbers: a property P of the  *)
(* numbers up to n is put in as {k \in 0..n : P(k)}.                       *)
(***************************************************************************)
EXTENDS Integers, SequencesExt, FiniteSetsExt, SequenceTheorems, NaturalsInduction,
        WellFoundedInduction, TLAPS

-----------------------------------------------------------------------------
(* Numbers.                                                                *)

LEMMA PlaceInPiece ==
  ASSUME NEW a \in Nat, NEW l \in Nat, NEW b \in Nat, NEW m \in Nat, a + l <= b, NEW j \in 1..l
  PROVE  a + j \in 1..b + m /\ a + j <= b
OBVIOUS

\* Every nonempty set of natural numbers has a least element.
LEMMA LeastNumber ==
  ASSUME NEW T \in SUBSET Nat, T # {}
  PROVE  \E x \in T : \A y \in T : x <= y
<1> DEFINE R == OpToRel(<, Nat)
<1>1. \E x \in T : \A y \in T : ~(<<y, x>> \in R)
  <2>1. IsWellFoundedOn(R, Nat)
    BY NatLessThanWellFounded
  <2> HIDE DEF R
  <2>2. QED BY <2>1, WFMin
<1>2. \A x, y \in Nat : y < x => <<y, x>> \in R
  BY DEF OpToRel
<1> HIDE DEF R
<1>3. PICK x \in T : \A y \in T : ~(<<y, x>> \in R)
  BY <1>1
<1>4. \A y \in T : ~(y < x)
  BY <1>2, <1>3
<1>5. QED BY <1>4

\* Induction from 0 up to n.
LEMMA UpTo ==
  ASSUME NEW n \in Nat, NEW T, 0 \in T, \A k \in 0..n : k \in T /\ k < n => k + 1 \in T
  PROVE  \A k \in 0..n : k \in T
<1> DEFINE D == {k \in 0..n : k \notin T}
<1>1. CASE D = {}
  BY <1>1
<1>2. CASE D # {}
  <2>1. D \in SUBSET Nat
    OBVIOUS
  <2> HIDE DEF D
  <2>2. PICK x \in D : \A y \in D : x <= y
    BY <1>2, <2>1, LeastNumber
  <2> USE DEF D
  <2>3. x # 0 /\ x - 1 \in 0..n /\ x - 1 < n
    BY <2>2
  <2>4. x - 1 \in T
    BY <2>2, <2>3
  <2>5. (x - 1) + 1 \in T
    BY <2>3, <2>4
  <2>6. QED BY <2>2, <2>5
<1>3. QED BY <1>1, <1>2

\* The greatest of finitely many numbers.
LEMMA MaxFacts ==
  ASSUME NEW n \in Nat, NEW s \in SUBSET (0..n), s # {}
  PROVE  Max(s) \in s /\ \A y \in s : Max(s) >= y
<1> DEFINE T == {n - x : x \in s}
<1>1. T \in SUBSET Nat /\ T # {}
  <2>1. \A x \in s : x \in 0..n /\ n - x \in Nat
    OBVIOUS
  <2>2. PICK x \in s : TRUE
    OBVIOUS
  <2>3. n - x \in T
    OBVIOUS
  <2>4. QED BY <2>1, <2>3
<1>2. PICK t \in T : \A u \in T : t <= u
  BY <1>1, LeastNumber
<1>3. n - t \in s /\ \A y \in s : n - t >= y
  BY <1>2
<1>4. \E x \in s : \A y \in s : x >= y
  BY <1>3
<1>5. QED BY <1>4 DEF Max

\* The least of a set of natural numbers.
LEMMA MinFacts ==
  ASSUME NEW s \in SUBSET Nat, s # {}
  PROVE  Min(s) \in s /\ \A y \in s : Min(s) <= y
BY LeastNumber DEF Min

LEMMA MinMaxOfTwo ==
  ASSUME NEW a \in Int, NEW b \in Int
  PROVE  /\ Min({a, b}) = IF a <= b THEN a ELSE b
         /\ Max({a, b}) = IF a >= b THEN a ELSE b
<1>1. \E x \in {a, b} : \A y \in {a, b} : x <= y
  <2>1. CASE a <= b
    BY <2>1
  <2>2. CASE ~(a <= b)
    BY <2>2
  <2>3. QED BY <2>1, <2>2
<1>2. \E x \in {a, b} : \A y \in {a, b} : x >= y
  <2>1. CASE a >= b
    BY <2>1
  <2>2. CASE ~(a >= b)
    BY <2>2
  <2>3. QED BY <2>1, <2>2
<1>3. Min({a, b}) \in {a, b} /\ \A y \in {a, b} : Min({a, b}) <= y
  BY <1>1, Zenon DEF Min
<1>4. Max({a, b}) \in {a, b} /\ \A y \in {a, b} : Max({a, b}) >= y
  BY <1>2, Zenon DEF Max
<1> DEFINE u == Min({a, b})
           v == Max({a, b})
<1> HIDE DEF u, v
<1>5. u \in {a, b} /\ u <= a /\ u <= b /\ v \in {a, b} /\ v >= a /\ v >= b
  BY <1>3, <1>4 DEF u, v
<1>6. u = (IF a <= b THEN a ELSE b) /\ v = IF a >= b THEN a ELSE b
  BY <1>5
<1>7. QED BY <1>6 DEF u, v

-----------------------------------------------------------------------------
(* Sequences.                                                              *)

LEMMA SequenceFrom ==
  ASSUME NEW S, NEW n \in Nat, NEW q \in [1..n -> S]
  PROVE  q \in Seq(S) /\ Len(q) = n
<1>1. q \in Seq(S)
  BY SeqDef
<1>2. DOMAIN q = 1..n /\ DOMAIN q = 1..Len(q) /\ Len(q) \in Nat
  BY <1>1, LenProperties
<1>3. QED BY <1>1, <1>2

\* l elements of s after the first a.
LEMMA PartOf ==
  ASSUME NEW S, NEW s \in Seq(S), NEW a \in Nat, NEW l \in Nat, a + l <= Len(s)
  PROVE  /\ SubSeq(s, a + 1, a + l) \in Seq(S)
         /\ Len(SubSeq(s, a + 1, a + l)) = l
         /\ \A i \in 1..l : SubSeq(s, a + 1, a + l)[i] = s[a + i]
<1>1. Len(s) \in Nat /\ \A i \in 1..Len(s) : s[i] \in S
  BY LenProperties
<1> DEFINE m == a + 1
           n == a + l
<1>2. /\ m \in Int /\ n \in Int /\ \A i \in m..n : i \in 1..Len(s)
      /\ (IF m <= n THEN n - m + 1 ELSE 0) = l
      /\ n - m + 1 = l
      /\ \A i \in 1..l : m + i - 1 = a + i
  BY <1>1
<1> HIDE DEF m, n
<1>3. \A i \in m..n : s[i] \in S
  BY <1>1, <1>2
<1>4. /\ SubSeq(s, m, n) \in Seq(S)
      /\ Len(SubSeq(s, m, n)) = IF m <= n THEN n - m + 1 ELSE 0
      /\ \A i \in 1..n - m + 1 : SubSeq(s, m, n)[i] = s[m + i - 1]
  BY <1>2, <1>3, SubSeqProperties
<1>5. QED BY <1>2, <1>4 DEF m, n

\* What is left after the first a elements.
LEMMA RestOf ==
  ASSUME NEW S, NEW s \in Seq(S), NEW a \in Nat, a <= Len(s)
  PROVE  /\ SubSeq(s, a + 1, Len(s)) \in Seq(S)
         /\ Len(SubSeq(s, a + 1, Len(s))) = Len(s) - a /\ Len(s) - a \in Nat
         /\ \A i \in 1..Len(s) - a : SubSeq(s, a + 1, Len(s))[i] = s[a + i]
<1> DEFINE l == Len(s) - a
<1>1. l \in Nat /\ a + l = Len(s) /\ a + l <= Len(s)
  BY LenProperties
<1> HIDE DEF l
<1>2. /\ SubSeq(s, a + 1, a + l) \in Seq(S)
      /\ Len(SubSeq(s, a + 1, a + l)) = l
      /\ \A i \in 1..l : SubSeq(s, a + 1, a + l)[i] = s[a + i]
  BY <1>1, PartOf
<1>3. a + l = Len(s) /\ l = Len(s) - a
  BY <1>1 DEF l
<1>4. SubSeq(s, a + 1, Len(s)) = SubSeq(s, a + 1, a + l)
  BY <1>3
<1> DEFINE e == SubSeq(s, a + 1, a + l)
<1>5. e \in Seq(S) /\ Len(e) = l /\ \A i \in 1..l : e[i] = s[a + i]
  BY <1>2
<1> HIDE DEF e
<1>6. /\ e \in Seq(S) /\ Len(e) = Len(s) - a /\ Len(s) - a \in Nat
      /\ \A i \in 1..Len(s) - a : e[i] = s[a + i]
  BY <1>1, <1>3, <1>5
<1>7. QED BY <1>4, <1>6 DEF e

-----------------------------------------------------------------------------
(* Folds.                                                                  *)

\* it folds g, which maps a number and a value to a value, over 1..n.
Folds(it, n, v, g) ==
  it = [s \in SUBSET (1..n) |-> IF s = {} THEN v ELSE g[<<Max(s), it[s \ {Max(s)}]>>]]

\* There is such a function, and its values are values.
LEMMA FoldExists ==
  ASSUME NEW n \in Nat, NEW V, NEW v \in V, NEW g \in [(1..n) \X V -> V]
  PROVE  \E it \in [SUBSET (1..n) -> V] : Folds(it, n, v, g)
<1> DEFINE T == {k \in 0..n : \E it \in [SUBSET (1..k) -> V] : Folds(it, k, v, g)}
<1>1. 0 \in T
  <2> DEFINE it == [s \in SUBSET (1..0) |-> v]
  <2>1. \A s \in SUBSET (1..0) : s = {}
    OBVIOUS
  <2>2. it = [s \in SUBSET (1..0) |-> IF s = {} THEN v ELSE g[<<Max(s), it[s \ {Max(s)}]>>]]
    BY <2>1
  <2>3. it \in [SUBSET (1..0) -> V]
    OBVIOUS
  <2>4. QED BY <2>2, <2>3 DEF Folds
<1>2. ASSUME NEW k \in 0..n, k \in T, k < n PROVE k + 1 \in T
  <2>1. PICK it \in [SUBSET (1..k) -> V] : Folds(it, k, v, g)
    BY <1>2
  <2> DEFINE ju == [s \in SUBSET (1..k + 1) |->
                      IF k + 1 \in s THEN g[<<k + 1, it[s \ {k + 1}]>>] ELSE it[s]]
  <2>2. \A s \in SUBSET (1..k + 1) : /\ s \ {k + 1} \in SUBSET (1..k)
                                     /\ k + 1 \notin s => s \in SUBSET (1..k)
    OBVIOUS
  <2>3. ju \in [SUBSET (1..k + 1) -> V]
    <3>1. k + 1 \in 1..n
      BY <1>2
    <3>2. QED BY <2>1, <2>2, <3>1
  <2>4. ASSUME NEW s \in SUBSET (1..k + 1)
        PROVE  ju[s] = IF s = {} THEN v ELSE g[<<Max(s), ju[s \ {Max(s)}]>>]
    <3>1. CASE s = {}
      <4>1. ju[s] = it[{}] /\ {} \in SUBSET (1..k)
        BY <3>1
      <4>2. it[{}] = v
        BY <2>1, <4>1 DEF Folds
      <4>3. QED BY <3>1, <4>1, <4>2
    <3>2. CASE k + 1 \in s
      <4>1. Max(s) = k + 1
        <5>1. k + 1 \in Nat /\ s \in SUBSET (0..k + 1) /\ s # {}
          BY <3>2
        <5>2. Max(s) \in s /\ Max(s) >= k + 1
          BY <3>2, <5>1, MaxFacts
        <5> DEFINE m == Max(s)
        <5>3. m \in 1..k + 1 /\ m >= k + 1
          BY <5>2
        <5> HIDE DEF m
        <5>4. m = k + 1
          BY <5>3
        <5>5. QED BY <5>4 DEF m
      <4> DEFINE t == s \ {k + 1}
      <4>2. t \in SUBSET (1..k + 1) /\ k + 1 \notin t
        OBVIOUS
      <4>3. ju[t] = it[t]
        BY <4>2
      <4>4. ju[s] = g[<<k + 1, it[t]>>]
        BY <3>2
      <4>5. QED BY <3>2, <4>1, <4>3, <4>4
    <3>3. CASE s # {} /\ k + 1 \notin s
      <4> DEFINE t == s \ {Max(s)}
      <4>1. /\ t \in SUBSET (1..k + 1) /\ k + 1 \notin t /\ s \in SUBSET (1..k)
        <5>1. s \in SUBSET (1..k)
          BY <2>2, <3>3
        <5>2. QED BY <3>3, <5>1
      <4>2. ju[t] = it[t] /\ ju[s] = it[s]
        BY <3>3, <4>1
      <4>3. it[s] = g[<<Max(s), it[t]>>]
        BY <2>1, <3>3, <4>1 DEF Folds
      <4>4. QED BY <3>3, <4>2, <4>3
    <3>4. QED BY <3>1, <3>2, <3>3
  <2>5. Folds(ju, k + 1, v, g)
    <3>1. DOMAIN ju = SUBSET (1..k + 1)
      OBVIOUS
    <3> DEFINE F == [s \in SUBSET (1..k + 1) |->
                       IF s = {} THEN v ELSE g[<<Max(s), ju[s \ {Max(s)}]>>]]
    <3>2. \A s \in SUBSET (1..k + 1) : ju[s] = F[s]
      <4> HIDE DEF ju
      <4>1. QED BY <2>4
    <3>3. ju = F
      BY <3>2
    <3> HIDE DEF ju
    <3>4. QED BY <3>3 DEF Folds
  <2> HIDE DEF ju
  <2>6. k + 1 \in 0..n
    BY <1>2
  <2>7. QED BY <2>3, <2>5, <2>6
<1> HIDE DEF T
<1>3. n \in T
  <2>1. \A k \in 0..n : k \in T
    BY <1>1, <1>2, UpTo
  <2>2. QED BY <2>1
<1>4. QED BY <1>3 DEF T

\* The sets 1..k, in which the fold of a sequence takes its elements.
LEMMA MaxOfInterval ==
  ASSUME NEW k \in Nat, k # 0
  PROVE  1..k # {} /\ Max(1..k) = k /\ (1..k) \ {k} = 1..k - 1
<1>1. k \in 1..k /\ 1..k \in SUBSET (0..k)
  OBVIOUS
<1>2. Max(1..k) \in 1..k /\ Max(1..k) >= k
  BY <1>1, MaxFacts
<1>3. QED BY <1>1, <1>2

\* What a step of a recursion on 0..n does with a number and a value, and
\* that there is a function defined by it.
StepOn(g, n, V) == g \in [(1..n) \X V -> V]

Recursion(n, V, v, g) ==
  \E f \in [0..n -> V] : f[0] = v /\ \A k \in 1..n : f[k] = g[<<k, f[k - 1]>>]

\* There is a function defined by recursion on 0..n.
LEMMA RecursionExists ==
  ASSUME NEW n \in Nat, NEW V, NEW v \in V, NEW g, StepOn(g, n, V)
  PROVE  Recursion(n, V, v, g)
<1> USE DEF StepOn
<1>1. PICK it \in [SUBSET (1..n) -> V] : Folds(it, n, v, g)
  BY FoldExists
<1> DEFINE f == [k \in 0..n |-> it[1..k]]
<1>2. \A k \in 0..n : 1..k \in SUBSET (1..n)
  OBVIOUS
<1>3. f \in [0..n -> V]
  BY <1>1, <1>2
<1>4. f[0] = v
  <2>1. f[0] = it[{}] /\ {} \in SUBSET (1..n)
    <3>1. 1..0 = {}
      OBVIOUS
    <3>2. QED BY <3>1
  <2>2. QED BY <1>1, <2>1 DEF Folds
<1>5. ASSUME NEW k \in 1..n PROVE f[k] = g[<<k, f[k - 1]>>]
  <2> DEFINE s == 1..k
  <2>1. s \in SUBSET (1..n) /\ s # {} /\ Max(s) = k /\ s \ {k} = 1..k - 1
    BY MaxOfInterval
  <2> HIDE DEF s
  <2>2. it[s] = g[<<Max(s), it[s \ {Max(s)}]>>]
    BY <1>1, <2>1 DEF Folds
  <2>3. f[k] = it[s] /\ f[k - 1] = it[1..k - 1]
    BY DEF s
  <2>4. QED BY <2>1, <2>2, <2>3
<1> HIDE DEF f
<1>6. QED BY <1>3, <1>4, <1>5 DEF Recursion

-----------------------------------------------------------------------------
(* Pieces.                                                                 *)

\* t consists of the pieces q[1], q[2], and so on, of which p counts the
\* elements.
PiecesOf(q, p, t) ==
  /\ p \in [0..Len(q) -> Nat] /\ p[0] = 0 /\ p[Len(q)] = Len(t)
  /\ \A k \in 1..Len(q) :
       /\ p[k] = p[k - 1] + Len(q[k])
       /\ \A j \in 1..Len(q[k]) : t[p[k - 1] + j] = q[k][j]

\* The recursion of FlattenSeq, with an empty start.
Joined(f, q) == f[0] = <<>> /\ \A k \in 1..Len(q) : f[k] = f[k - 1] \o q[k]

LEMMA FlattenJoins ==
  ASSUME NEW S, NEW q \in Seq(Seq(S))
  PROVE  \E f \in [0..Len(q) -> Seq(S)] : Joined(f, q) /\ f[Len(q)] = FlattenSeq(q)
<1> DEFINE n == Len(q)
           V == Seq(S)
           e == <<>>
           g == [x \in (1..n) \X V |-> x[2] \o q[x[1]]]
<1>1. n \in Nat /\ e \in V /\ \A k \in 1..n : q[k] \in V
  BY LenProperties, EmptySeq
<1>2. \A x \in V : e \o x = x
  BY ConcatEmptySeq
<1>3. \A x, y \in V : x \o y \in V
  BY ConcatProperties
<1> HIDE DEF e, V, n
<1>4. g \in [(1..n) \X V -> V]
  BY <1>1, <1>3
<1>5. \A k \in 1..n : \A x \in V : g[<<k, x>>] = x \o q[k]
  OBVIOUS
<1> HIDE DEF g
<1>6. PICK f \in [0..n -> V] : f[0] = e /\ \A k \in 1..n : f[k] = g[<<k, f[k - 1]>>]
  <2>1. n \in Nat /\ e \in V /\ StepOn(g, n, V)
    BY <1>1, <1>4 DEF StepOn
  <2>2. Recursion(n, V, e, g)
    BY <2>1, RecursionExists
  <2>3. QED BY <2>2 DEF Recursion
<1>7. \A k \in 1..n : f[k - 1] \in V /\ f[k] = f[k - 1] \o q[k]
  <2>1. \A k \in 1..n : k - 1 \in 0..n
    BY <1>1
  <2>2. QED BY <1>5, <1>6, <2>1
<1>8. CASE n = 0
  <2>1. FlattenSeq(q) = q
    BY <1>8 DEF FlattenSeq, n
  <2>2. q = <<>>
    BY <1>8, EmptySeq DEF n
  <2>3. QED BY <1>6, <1>7, <1>8, <2>1, <2>2 DEF Joined, n, e, V
<1>9. CASE n # 0
  <2> DEFINE P(h) == h = [i \in 1..Len(q) |-> IF i = 1 THEN q[i] ELSE h[i - 1] \o q[i]]
             h0 == CHOOSE h : P(h)
             h1 == [i \in 1..n |-> f[i]]
  <2>1. \E h : P(h)
    <3>1. ASSUME NEW i \in 1..n PROVE h1[i] = IF i = 1 THEN q[i] ELSE h1[i - 1] \o q[i]
      <4>1. CASE i = 1
        <5>1. f[1] = f[0] \o q[1] /\ q[1] \in V /\ f[0] = e
          <6>1. 1 - 1 = 0 /\ 1 \in 1..n
            BY <4>1
          <6>2. QED BY <1>1, <1>6, <1>7, <6>1
        <5>2. QED BY <1>2, <4>1, <5>1
      <4>2. CASE i # 1
        <5>1. i - 1 \in 1..n
          BY <1>1, <4>2
        <5>2. QED BY <1>7, <4>2, <5>1
      <4>3. QED BY <4>1, <4>2
    <3>2. h1 = [i \in 1..n |-> IF i = 1 THEN q[i] ELSE h1[i - 1] \o q[i]]
      <4> DEFINE h2 == [i \in 1..n |-> IF i = 1 THEN q[i] ELSE h1[i - 1] \o q[i]]
      <4>1. \A i \in 1..n : h1[i] = h2[i]
        <5> HIDE DEF h1
        <5>1. QED BY <3>1
      <4>2. h1 = h2
        BY <4>1
      <4>3. QED BY <4>2
    <3> HIDE DEF h1
    <3>3. P(h1)
      BY <3>2 DEF n
    <3>4. QED BY <3>3
  <2>2. P(h0)
    <3> HIDE DEF P
    <3>1. QED BY <2>1
  <2>3. FlattenSeq(q) = h0[n]
    BY <1>9 DEF FlattenSeq, n
  <2> HIDE DEF h0
  <2>4. \A i \in 1..n : h0[i] = IF i = 1 THEN q[i] ELSE h0[i - 1] \o q[i]
    BY <2>2 DEF n
  <2> DEFINE T == {k \in 0..n : k # 0 => h0[k] = f[k]}
  <2>5. ASSUME NEW k \in 0..n, k \in T, k < n PROVE k + 1 \in T
    <3>1. k + 1 \in 1..n /\ (k + 1) - 1 = k
      BY <1>1, <2>5
    <3>2. f[k + 1] = f[k] \o q[k + 1]
      BY <1>7, <3>1
    <3>3. CASE k = 0
      <4>1. h0[1] = q[1] /\ q[1] \in V
        BY <1>1, <2>4, <3>1, <3>3
      <4>2. f[1] = q[1]
        <5>1. f[0] = e /\ f[1] = f[0] \o q[1]
          BY <1>6, <3>2, <3>3
        <5>2. QED BY <1>2, <4>1, <5>1
      <4>3. QED BY <3>1, <3>3, <4>1, <4>2
    <3>4. CASE k # 0
      <4>1. h0[k + 1] = h0[k] \o q[k + 1]
        <5>1. k + 1 # 1
          BY <3>4
        <5>2. h0[k + 1] = h0[(k + 1) - 1] \o q[k + 1]
          BY <2>4, <3>1, <5>1
        <5>3. QED BY <3>1, <5>2
      <4>2. h0[k] = f[k]
        BY <2>5, <3>4
      <4>3. h0[k + 1] = f[k + 1] /\ k + 1 \in 0..n
        BY <1>1, <3>1, <3>2, <4>1, <4>2
      <4>4. QED BY <4>3
    <3>5. QED BY <3>3, <3>4
  <2>6. 0 \in T
    BY <1>1
  <2> HIDE DEF T
  <2>7. \A k \in 0..n : k \in T
    BY <1>1, <2>5, <2>6, UpTo
  <2>8. h0[n] = f[n]
    BY <1>1, <1>9, <2>7 DEF T
  <2>9. QED BY <1>6, <1>7, <2>3, <2>8 DEF Joined, n, e, V
<1>10. QED BY <1>8, <1>9

\* FlattenSeq puts the pieces together.
LEMMA FlattenPieces ==
  ASSUME NEW S, NEW q \in Seq(Seq(S))
  PROVE  /\ FlattenSeq(q) \in Seq(S)
         /\ \E p : PiecesOf(q, p, FlattenSeq(q))
<1> DEFINE n == Len(q)
           V == Seq(S)
<1>1. PICK f \in [0..n -> V] : Joined(f, q) /\ f[n] = FlattenSeq(q)
  BY FlattenJoins
<1>2. n \in Nat /\ \A k \in 1..n : q[k] \in V
  BY LenProperties
<1>3. \A k \in 1..n : f[k - 1] \in V /\ f[k] = f[k - 1] \o q[k]
  <2>1. \A k \in 1..n : f[k] = f[k - 1] \o q[k]
    BY <1>1 DEF Joined
  <2> HIDE DEF n, V
  <2>2. \A k \in 1..n : k - 1 \in 0..n
    BY <1>2
  <2>3. QED BY <1>1, <2>1, <2>2
<1>4. \A x \in V : Len(x) \in Nat
  BY LenProperties
<1>5. \A x, y \in V : /\ Len(x \o y) = Len(x) + Len(y)
                      /\ \A i \in 1..Len(x) + Len(y) :
                           (x \o y)[i] = IF i <= Len(x) THEN x[i] ELSE y[i - Len(x)]
  BY ConcatProperties
<1>6. f[0] = <<>>
  BY <1>1 DEF Joined
<1>7. Len(f[0]) = 0
  BY <1>6, EmptySeq
<1> HIDE DEF n, V
<1> DEFINE p == [k \in 0..n |-> Len(f[k])]
<1>8. p \in [0..n -> Nat] /\ p[0] = 0
  BY <1>1, <1>2, <1>4, <1>7
<1>9. \A k \in 1..n : /\ k \in 0..n /\ k - 1 \in 0..n
                      /\ p[k] = p[k - 1] + Len(q[k]) /\ p[k - 1] = Len(f[k - 1])
                      /\ p[k] \in Nat /\ p[k - 1] \in Nat /\ Len(q[k]) \in Nat
  <2> SUFFICES ASSUME NEW k \in 1..n
               PROVE  /\ k \in 0..n /\ k - 1 \in 0..n
                      /\ p[k] = p[k - 1] + Len(q[k]) /\ p[k - 1] = Len(f[k - 1])
                      /\ p[k] \in Nat /\ p[k - 1] \in Nat /\ Len(q[k]) \in Nat
    OBVIOUS
  <2>1. k \in 0..n /\ k - 1 \in 0..n
    BY <1>2
  <2>2. p[k] = Len(f[k]) /\ p[k - 1] = Len(f[k - 1])
    BY <2>1
  <2>3. f[k - 1] \in V /\ q[k] \in V /\ f[k] = f[k - 1] \o q[k]
    BY <1>2, <1>3
  <2>4. Len(f[k]) = Len(f[k - 1]) + Len(q[k])
    BY <1>5, <2>3
  <2>5. Len(q[k]) \in Nat /\ p[k] \in Nat /\ p[k - 1] \in Nat
    BY <1>4, <1>8, <2>1, <2>3
  <2>6. QED BY <2>1, <2>2, <2>4, <2>5
<1> DEFINE T == {m \in 0..n : \A k \in 1..m :
                   p[k] <= p[m] /\ \A j \in 1..Len(q[k]) : f[m][p[k - 1] + j] = q[k][j]}
<1>10. 0 \in T
  BY <1>2
<1>11. ASSUME NEW m \in 0..n, m \in T, m < n PROVE m + 1 \in T
  <2>1. m + 1 \in 1..n /\ (m + 1) - 1 = m
    BY <1>2, <1>11
  <2>2. /\ f[m] \in V /\ q[m + 1] \in V /\ f[m + 1] = f[m] \o q[m + 1]
        /\ p[m + 1] = p[m] + Len(q[m + 1]) /\ p[m] = Len(f[m])
        /\ p[m] \in Nat /\ Len(q[m + 1]) \in Nat
    BY <1>1, <1>2, <1>3, <1>9, <2>1
  <2>3. \A i \in 1..p[m] + Len(q[m + 1]) :
          f[m + 1][i] = IF i <= p[m] THEN f[m][i] ELSE q[m + 1][i - p[m]]
    BY <1>5, <2>2
  <2> HIDE DEF p
  <2>4. ASSUME NEW k \in 1..m + 1
        PROVE  p[k] <= p[m + 1] /\ \A j \in 1..Len(q[k]) : f[m + 1][p[k - 1] + j] = q[k][j]
    <3>1. CASE k = m + 1
      <4>1. p[k] <= p[m + 1]
        BY <2>2, <3>1
      <4>2. ASSUME NEW j \in 1..Len(q[k]) PROVE f[m + 1][p[k - 1] + j] = q[k][j]
        <5>1. k - 1 = m /\ q[k] = q[m + 1]
          BY <2>1, <3>1
        <5>2. /\ p[m] + j \in 1..p[m] + Len(q[m + 1])
              /\ ~(p[m] + j <= p[m]) /\ (p[m] + j) - p[m] = j
          BY <2>2, <5>1
        <5>3. f[m + 1][p[m] + j] = q[m + 1][j]
          BY <2>3, <5>2
        <5>4. QED BY <5>1, <5>3
      <4>3. QED BY <4>1, <4>2
    <3>2. CASE k # m + 1
      <4>1. k \in 1..m /\ k \in 1..n
        BY <1>2, <3>2
      <4>2. p[k] <= p[m] /\ \A j \in 1..Len(q[k]) : f[m][p[k - 1] + j] = q[k][j]
        BY <1>11, <4>1
      <4>3. p[k] <= p[m + 1] /\ p[k] = p[k - 1] + Len(q[k])
            /\ p[k] \in Nat /\ p[k - 1] \in Nat /\ Len(q[k]) \in Nat
        BY <1>9, <2>2, <4>1, <4>2
      <4>4. ASSUME NEW j \in 1..Len(q[k]) PROVE f[m + 1][p[k - 1] + j] = q[k][j]
        <5>1. p[k - 1] + j \in 1..p[m] + Len(q[m + 1]) /\ p[k - 1] + j <= p[m]
          <6> DEFINE a == p[k - 1]
                     l == Len(q[k])
                     b == p[m]
                     c == Len(q[m + 1])
          <6>1. a \in Nat /\ l \in Nat /\ b \in Nat /\ c \in Nat /\ a + l <= b
            BY <2>2, <4>2, <4>3
          <6>2. j \in 1..l
            OBVIOUS
          <6> HIDE DEF a, b, c, l
          <6>3. a + j \in 1..b + c /\ a + j <= b
            BY <6>1, <6>2, PlaceInPiece
          <6>4. QED BY <6>3 DEF a, b, c
        <5>2. f[m + 1][p[k - 1] + j] = f[m][p[k - 1] + j]
          BY <2>3, <5>1
        <5>3. QED BY <4>2, <5>2
      <4>5. QED BY <4>3, <4>4
    <3>3. QED BY <3>1, <3>2
  <2>5. m + 1 \in 0..n
    BY <2>1
  <2>6. QED BY <2>4, <2>5
<1> HIDE DEF T
<1>12. \A m \in 0..n : m \in T
  BY <1>2, <1>10, <1>11, UpTo
<1>13. n \in T /\ p[n] = Len(f[n])
  BY <1>2, <1>12
<1>14. \A k \in 1..n : \A j \in 1..Len(q[k]) : f[n][p[k - 1] + j] = q[k][j]
  BY <1>13 DEF T
<1> HIDE DEF p
<1>15. PiecesOf(q, p, FlattenSeq(q))
  BY <1>1, <1>8, <1>9, <1>13, <1>14 DEF PiecesOf, n
<1>16. FlattenSeq(q) \in Seq(S)
  BY <1>1, <1>2 DEF V
<1>17. QED BY <1>15, <1>16

\* What consists of the pieces is what FlattenSeq returns.
LEMMA FlattenIs ==
  ASSUME NEW S, NEW q \in Seq(Seq(S)), NEW t \in Seq(S), NEW p, PiecesOf(q, p, t)
  PROVE  FlattenSeq(q) = t
<1> DEFINE n == Len(q)
           V == Seq(S)
<1>1. PICK f \in [0..n -> V] : Joined(f, q) /\ f[n] = FlattenSeq(q)
  BY FlattenJoins
<1>2. n \in Nat /\ \A k \in 1..n : q[k] \in V
  BY LenProperties
<1>3. \A k \in 1..n : f[k - 1] \in V /\ f[k] = f[k - 1] \o q[k]
  <2>1. \A k \in 1..n : f[k] = f[k - 1] \o q[k]
    BY <1>1 DEF Joined
  <2> HIDE DEF n, V
  <2>2. \A k \in 1..n : k - 1 \in 0..n
    BY <1>2
  <2>3. QED BY <1>1, <2>1, <2>2
<1>4. \A x \in V : Len(x) \in Nat
  BY LenProperties
<1>5. \A x, y \in V : /\ Len(x \o y) = Len(x) + Len(y)
                      /\ \A i \in 1..Len(x) + Len(y) :
                           (x \o y)[i] = IF i <= Len(x) THEN x[i] ELSE y[i - Len(x)]
  BY ConcatProperties
<1>6. f[0] = <<>>
  BY <1>1 DEF Joined
<1>7. Len(f[0]) = 0
  BY <1>6, EmptySeq
<1> HIDE DEF V
<1>8. /\ p \in [0..n -> Nat] /\ p[0] = 0 /\ p[n] = Len(t)
      /\ \A k \in 1..n : /\ p[k] = p[k - 1] + Len(q[k])
                         /\ \A j \in 1..Len(q[k]) : t[p[k - 1] + j] = q[k][j]
  BY DEF PiecesOf
<1> HIDE DEF n
<1> DEFINE T == {m \in 0..n : Len(f[m]) = p[m] /\ \A i \in 1..p[m] : f[m][i] = t[i]}
<1>9. 0 \in T
  BY <1>2, <1>7, <1>8
<1>10. ASSUME NEW m \in 0..n, m \in T, m < n PROVE m + 1 \in T
  <2>1. m + 1 \in 1..n /\ (m + 1) - 1 = m /\ m + 1 \in 0..n
    BY <1>2, <1>10
  <2> DEFINE l == Len(q[m + 1])
  <2>2. /\ f[m] \in V /\ q[m + 1] \in V /\ f[m + 1] = f[m] \o q[m + 1]
        /\ p[m + 1] = p[m] + l /\ p[m] = Len(f[m])
        /\ p[m] \in Nat /\ l \in Nat
    BY <1>1, <1>2, <1>3, <1>4, <1>8, <1>10, <2>1
  <2>3. /\ Len(f[m + 1]) = p[m + 1]
        /\ \A i \in 1..p[m] + l :
             f[m + 1][i] = IF i <= p[m] THEN f[m][i] ELSE q[m + 1][i - p[m]]
    BY <1>5, <2>2
  <2>4. ASSUME NEW i \in 1..p[m + 1] PROVE f[m + 1][i] = t[i]
    <3>1. CASE i <= p[m]
      <4>1. i \in 1..p[m] /\ i \in 1..p[m] + l
        BY <2>2, <3>1
      <4>2. f[m][i] = t[i]
        BY <1>10, <4>1
      <4>3. QED BY <2>3, <3>1, <4>1, <4>2
    <3>2. CASE ~(i <= p[m])
      <4>1. i - p[m] \in 1..l /\ i \in 1..p[m] + l /\ p[m] + (i - p[m]) = i
        BY <2>2, <3>2
      <4>2. t[p[m] + (i - p[m])] = q[m + 1][i - p[m]]
        BY <1>8, <2>1, <4>1
      <4>3. QED BY <2>3, <3>2, <4>1, <4>2
    <3>3. QED BY <3>1, <3>2
  <2>5. QED BY <2>1, <2>3, <2>4
<1> HIDE DEF T
<1>11. \A m \in 0..n : m \in T
  BY <1>2, <1>9, <1>10, UpTo
<1>12. Len(f[n]) = Len(t) /\ \A i \in 1..Len(f[n]) : f[n][i] = t[i]
  BY <1>2, <1>8, <1>11 DEF T
<1>13. f[n] \in Seq(S)
  BY <1>1, <1>2 DEF V
<1>14. f[n] = t
  BY <1>12, <1>13, SeqEqual
<1>15. QED BY <1>1, <1>14

-----------------------------------------------------------------------------
(* Sums.                                                                   *)

\* f[k] is the sum of w[1] up to w[k].
IsSum(f, n, w) == f \in [0..n -> Nat] /\ f[0] = 0 /\ \A k \in 1..n : f[k] = f[k - 1] + w[k]

\* What FoldLeft makes of the addition of w.
SumStep(it, n, w) ==
  [s \in SUBSET (1..n) |-> IF s = {} THEN 0 ELSE it[s \ {Max(s)}] + w[Max(s)]]

LEMMA SumExists ==
  ASSUME NEW n \in Nat, NEW w \in [1..n -> Nat]
  PROVE  \E it : it = SumStep(it, n, w)
<1> DEFINE g == [x \in (1..n) \X Nat |-> x[2] + w[x[1]]]
<1>1. g \in [(1..n) \X Nat -> Nat] /\ \A k \in 1..n : \A x \in Nat : g[<<k, x>>] = x + w[k]
  OBVIOUS
<1> HIDE DEF g
<1>2. PICK it \in [SUBSET (1..n) -> Nat] : Folds(it, n, 0, g)
  BY <1>1, FoldExists
<1>3. ASSUME NEW s \in SUBSET (1..n), s # {}
      PROVE  g[<<Max(s), it[s \ {Max(s)}]>>] = it[s \ {Max(s)}] + w[Max(s)]
  <2>1. s \in SUBSET (0..n)
    OBVIOUS
  <2>2. Max(s) \in 1..n
    BY <1>3, <2>1, MaxFacts
  <2>3. it[s \ {Max(s)}] \in Nat
    BY <1>2
  <2>4. QED BY <1>1, <2>2, <2>3
<1>4. it = SumStep(it, n, w)
  <2>1. it = [s \in SUBSET (1..n) |-> IF s = {} THEN 0 ELSE g[<<Max(s), it[s \ {Max(s)}]>>]]
    BY <1>2 DEF Folds
  <2> DEFINE F == [s \in SUBSET (1..n) |-> IF s = {} THEN 0 ELSE it[s \ {Max(s)}] + w[Max(s)]]
  <2>2. \A s \in SUBSET (1..n) : it[s] = F[s]
    <3>1. SUFFICES ASSUME NEW s \in SUBSET (1..n)
                   PROVE  it[s] = IF s = {} THEN 0 ELSE it[s \ {Max(s)}] + w[Max(s)]
      OBVIOUS
    <3>2. CASE s = {}
      BY <2>1, <3>2
    <3>3. CASE s # {}
      <4>1. it[s] = g[<<Max(s), it[s \ {Max(s)}]>>]
        BY <2>1, <3>3
      <4>2. QED BY <1>3, <3>3, <4>1
    <3>4. QED BY <3>2, <3>3
  <2>3. it = F
    BY <1>2, <2>2
  <2>4. QED BY <2>3 DEF SumStep
<1>5. QED BY <1>4

\* What such a fold returns.
LEMMA SumValue ==
  ASSUME NEW n \in Nat, NEW w \in [1..n -> Nat], NEW it, it = SumStep(it, n, w)
  PROVE  \E f : IsSum(f, n, w) /\ it[1..n] = f[n]
<1> DEFINE f == [k \in 0..n |-> it[1..k]]
<1>1. \A s \in SUBSET (1..n) : it[s] = IF s = {} THEN 0 ELSE it[s \ {Max(s)}] + w[Max(s)]
  BY DEF SumStep
<1>2. f[0] = 0
  <2>1. 1..0 = {} /\ {} \in SUBSET (1..n) /\ 0 \in 0..n
    OBVIOUS
  <2>2. f[0] = it[{}]
    BY <2>1
  <2> HIDE DEF f
  <2>3. QED BY <1>1, <2>1, <2>2
<1>3. ASSUME NEW k \in 1..n PROVE f[k] = f[k - 1] + w[k]
  <2> DEFINE s == 1..k
  <2>1. s \in SUBSET (1..n) /\ s # {} /\ Max(s) = k /\ s \ {k} = 1..k - 1
    <3>1. k \in Nat /\ k # 0 /\ s \in SUBSET (1..n)
      OBVIOUS
    <3>2. QED BY <3>1, MaxOfInterval
  <2> HIDE DEF s
  <2>2. it[s] = it[1..k - 1] + w[k]
    BY <1>1, <2>1
  <2>3. f[k] = it[s] /\ f[k - 1] = it[1..k - 1]
    BY DEF s
  <2>4. QED BY <2>2, <2>3
<1>4. f[n] = it[1..n] /\ DOMAIN f = 0..n /\ f = [k \in 0..n |-> f[k]]
  OBVIOUS
<1> HIDE DEF f
<1> DEFINE T == {k \in 0..n : f[k] \in Nat}
<1>5. 0 \in T
  BY <1>2
<1>6. ASSUME NEW k \in 0..n, k \in T, k < n PROVE k + 1 \in T
  <2>1. k + 1 \in 1..n /\ (k + 1) - 1 = k /\ w[k + 1] \in Nat /\ f[k] \in Nat
    BY <1>6
  <2>2. f[k + 1] = f[k] + w[k + 1]
    BY <1>3, <2>1
  <2>3. QED BY <2>1, <2>2
<1> HIDE DEF T
<1>7. \A k \in 0..n : k \in T
  BY <1>5, <1>6, UpTo
<1>8. f \in [0..n -> Nat]
  BY <1>4, <1>7 DEF T
<1>9. QED BY <1>2, <1>3, <1>4, <1>8 DEF IsSum

\* Two sums over the same numbers agree, as far as both go.
LEMMA SumUnique ==
  ASSUME NEW n \in Nat, NEW m \in Nat, NEW f, NEW g, NEW w, NEW u,
         IsSum(f, n, w), IsSum(g, m, u), NEW i \in Nat, i <= n, i <= m,
         \A k \in 1..i : w[k] = u[k]
  PROVE  f[i] = g[i]
<1> DEFINE T == {k \in 0..i : f[k] = g[k]}
<1>1. 0 \in T
  BY DEF IsSum
<1>2. ASSUME NEW k \in 0..i, k \in T, k < i PROVE k + 1 \in T
  <2>1. /\ k + 1 \in 1..n /\ k + 1 \in 1..m /\ k + 1 \in 1..i /\ (k + 1) - 1 = k
        /\ k + 1 \in 0..i
    BY <1>2
  <2>2. f[k + 1] = f[k] + w[k + 1] /\ g[k + 1] = g[k] + u[k + 1]
    BY <2>1 DEF IsSum
  <2>3. QED BY <1>2, <2>1, <2>2
<1> HIDE DEF T
<1>3. \A k \in 0..i : k \in T
  BY <1>1, <1>2, UpTo
<1>4. QED BY <1>3 DEF T

\* A sum only grows.
LEMMA SumGrows ==
  ASSUME NEW n \in Nat, NEW f, NEW w \in [1..n -> Nat], IsSum(f, n, w),
         NEW i \in 0..n, NEW j \in 0..n, i <= j
  PROVE  f[i] <= f[j]
<1>1. f \in [0..n -> Nat]
  BY DEF IsSum
<1> DEFINE T == {k \in 0..j : i <= k => f[i] <= f[k]}
<1>2. 0 \in T
  BY <1>1
<1>3. ASSUME NEW k \in 0..j, k \in T, k < j PROVE k + 1 \in T
  <2>1. k + 1 \in 1..n /\ (k + 1) - 1 = k /\ k + 1 \in 0..j /\ k \in 0..n
    BY <1>3
  <2>2. f[k + 1] = f[k] + w[k + 1] /\ w[k + 1] \in Nat /\ f[k] \in Nat
    BY <1>1, <2>1 DEF IsSum
  <2>3. i <= k + 1 => f[i] <= f[k + 1]
    <3>1. CASE i = k + 1
      BY <1>1, <3>1
    <3>2. CASE i <= k
      <4>1. f[i] <= f[k]
        BY <1>3, <3>2
      <4>2. f[i] \in Nat
        BY <1>1
      <4>3. QED BY <2>2, <4>1, <4>2
    <3>3. QED BY <3>1, <3>2
  <2>4. QED BY <2>1, <2>3
<1> HIDE DEF T
<1>4. \A k \in 0..j : k \in T
  <2>1. j \in Nat
    OBVIOUS
  <2>2. QED BY <1>2, <1>3, <2>1, UpTo
<1>5. j \in T
  BY <1>4
<1>6. QED BY <1>5 DEF T

\* The sum of one number more.
LEMMA SumLast ==
  ASSUME NEW n \in Nat, NEW w, NEW u, NEW f, NEW g, IsSum(g, n, w), IsSum(f, n + 1, u),
         \A k \in 1..n : u[k] = w[k]
  PROVE  f[n + 1] = g[n] + u[n + 1]
<1>1. n + 1 \in Nat /\ n <= n /\ n <= n + 1
  OBVIOUS
<1>2. f[n] = g[n]
  <2> DEFINE m == n + 1
  <2>1. m \in Nat /\ n <= m /\ IsSum(f, m, u)
    BY <1>1
  <2> HIDE DEF m
  <2>2. g[n] = f[n]
    BY <1>1, <2>1, SumUnique
  <2>3. QED BY <2>2
<1>3. n + 1 \in 1..n + 1 /\ (n + 1) - 1 = n
  OBVIOUS
<1>4. f[n + 1] = f[n] + u[n + 1]
  BY <1>3 DEF IsSum
<1>5. QED BY <1>2, <1>4

\* w is u without its first number.
WithoutFirst(w, u, n) ==
  u \in [1..n + 1 -> Nat] /\ \A k \in 1..n : w[k] = u[k + 1]

\* The sum without the first number.
LEMMA SumFirst ==
  ASSUME NEW n \in Nat, NEW w, NEW u, NEW f, NEW g, NEW m, m = n + 1,
         IsSum(g, n, w), IsSum(f, m, u), WithoutFirst(w, u, n)
  PROVE  f[m] = u[1] + g[n]
<1>0. /\ u \in [1..n + 1 -> Nat] /\ \A k \in 1..n : w[k] = u[k + 1]
      /\ IsSum(f, n + 1, u)
  BY DEF WithoutFirst
<1> DEFINE T == {k \in 0..n : f[k + 1] = u[1] + g[k]}
<1>1. 0 \in T
  <2>1. 1 \in 1..n + 1 /\ 1 - 1 = 0 /\ 0 + 1 = 1 /\ 0 \in 0..n /\ u[1] \in Nat
    BY <1>0
  <2>2. f[1] = f[1 - 1] + u[1] /\ f[0] = 0 /\ g[0] = 0
    BY <1>0, <2>1 DEF IsSum
  <2>3. QED BY <2>1, <2>2
<1>2. ASSUME NEW k \in 0..n, k \in T, k < n PROVE k + 1 \in T
  <2>1. /\ k + 1 \in 1..n /\ (k + 1) - 1 = k /\ (k + 1) + 1 \in 1..n + 1
        /\ ((k + 1) + 1) - 1 = k + 1 /\ k + 1 \in 0..n
        /\ u[1] \in Nat /\ u[(k + 1) + 1] \in Nat
    BY <1>0, <1>2
  <2>2. g[k + 1] = g[k] + w[k + 1] /\ g[k] \in Nat /\ w[k + 1] = u[(k + 1) + 1]
    BY <1>0, <2>1 DEF IsSum
  <2>3. f[(k + 1) + 1] = f[k + 1] + u[(k + 1) + 1]
    BY <1>0, <2>1 DEF IsSum
  <2>4. f[k + 1] = u[1] + g[k]
    BY <1>2
  <2>5. QED BY <2>1, <2>2, <2>3, <2>4
<1> HIDE DEF T
<1>3. \A k \in 0..n : k \in T
  BY <1>1, <1>2, UpTo
<1>4. QED BY <1>3 DEF T

\* A sum of n numbers that are at most c.
LEMMA SumBounded ==
  ASSUME NEW n \in Nat, NEW f, NEW w \in [1..n -> Nat], IsSum(f, n, w), NEW c \in Nat,
         \A k \in 1..n : w[k] <= c
  PROVE  f[n] <= n * c
<1> DEFINE T == {k \in 0..n : f[k] <= k * c}
<1>1. 0 \in T
  BY DEF IsSum
<1>2. ASSUME NEW k \in 0..n, k \in T, k < n PROVE k + 1 \in T
  <2>1. k + 1 \in 1..n /\ (k + 1) - 1 = k /\ k + 1 \in 0..n /\ w[k + 1] \in Nat
    BY <1>2
  <2>2. f[k + 1] = f[k] + w[k + 1] /\ f[k] \in Nat /\ w[k + 1] <= c
    BY <2>1 DEF IsSum
  <2>3. f[k] <= k * c
    BY <1>2
  <2> DEFINE x == f[k]
             y == w[k + 1]
             p == k * c
             q == (k + 1) * c
  <2>4. q = p + c /\ p \in Nat /\ x \in Nat /\ y \in Nat /\ x <= p /\ y <= c
    BY <2>1, <2>2, <2>3
  <2> HIDE DEF x, y, p, q
  <2>5. x + y <= q
    BY <2>4
  <2>6. QED BY <2>1, <2>2, <2>5 DEF x, y, q
<1> HIDE DEF T
<1>3. \A k \in 0..n : k \in T
  BY <1>1, <1>2, UpTo
<1>4. QED BY <1>3 DEF T

-----------------------------------------------------------------------------
(* Places of pieces.                                                       *)

LEMMA PieceLengths ==
  ASSUME NEW S, NEW q \in Seq(Seq(S)), NEW k \in 1..Len(q)
  PROVE  q[k] \in Seq(S) /\ Len(q[k]) \in Nat
<1> DEFINE s == q[k]
<1>1. s \in Seq(S)
  BY ElementOfSeq
<1> HIDE DEF s
<1>2. Len(s) \in Nat
  BY <1>1, LenProperties
<1>3. QED BY <1>1, <1>2 DEF s

\* The place j of the whole t is the place i of a piece.
PlaceOf(q, p, t, j) ==
  \E k \in 1..Len(q) : \E i \in 1..Len(q[k]) : j = p[k - 1] + i /\ t[j] = q[k][i]

\* Every place of what consists of pieces is a place of one of them.
LEMMA PieceAt ==
  ASSUME NEW S, NEW q \in Seq(Seq(S)), NEW t \in Seq(S), NEW p, PiecesOf(q, p, t),
         NEW j \in 1..Len(t)
  PROVE  PlaceOf(q, p, t, j)
<1> DEFINE n == Len(q)
           T == {k \in 0..n : j <= p[k]}
<1>1. n \in Nat /\ Len(t) \in Nat
  BY LenProperties
<1>2. /\ p \in [0..n -> Nat] /\ p[0] = 0 /\ p[n] = Len(t)
      /\ \A k \in 1..n : /\ p[k] = p[k - 1] + Len(q[k])
                         /\ \A i \in 1..Len(q[k]) : t[p[k - 1] + i] = q[k][i]
  BY DEF PiecesOf
<1>3. T \in SUBSET Nat /\ n \in T
  BY <1>1, <1>2
<1>4. PICK k \in T : \A y \in T : k <= y
  BY <1>3, LeastNumber
<1>5. k \in 0..n /\ j <= p[k] /\ \A y \in 0..n : j <= p[y] => k <= y
  BY <1>4
<1> HIDE DEF T, n
<1>6. k # 0
  BY <1>1, <1>2, <1>5
<1>7. k \in 1..n /\ k - 1 \in 0..n
  BY <1>1, <1>5, <1>6
<1>8. ~(j <= p[k - 1])
  BY <1>1, <1>5, <1>7
<1> DEFINE a == p[k - 1]
           b == p[k]
           l == Len(q[k])
           i == j - a
<1>9. b = a + l /\ a \in Nat /\ b \in Nat /\ l \in Nat
  <2>2. l \in Nat
    BY <1>7, PieceLengths DEF n
  <2>3. QED BY <1>2, <1>5, <1>7, <2>2
<1>10. i \in 1..l /\ j = a + i
  <2>1. j \in Nat /\ ~(j <= a) /\ j <= b
    BY <1>1, <1>5, <1>8
  <2> HIDE DEF a, b, l
  <2>2. QED BY <1>9, <2>1
<1>11. t[a + i] = q[k][i]
  <2> HIDE DEF i
  <2>1. QED BY <1>2, <1>7, <1>10
<1>12. QED BY <1>7, <1>10, <1>11 DEF n, PlaceOf

\* Every place of a piece is a place of the whole.
LEMMA PiecePlace ==
  ASSUME NEW S, NEW q \in Seq(Seq(S)), NEW t \in Seq(S), NEW p, PiecesOf(q, p, t),
         NEW k \in 1..Len(q), NEW i \in 1..Len(q[k])
  PROVE  /\ p[k - 1] \in Nat /\ p[k - 1] + i \in 1..Len(t)
         /\ t[p[k - 1] + i] = q[k][i]
<1>1. /\ p \in [0..Len(q) -> Nat] /\ p[Len(q)] = Len(t)
      /\ p[k] = p[k - 1] + Len(q[k])
      /\ t[p[k - 1] + i] = q[k][i]
  BY DEF PiecesOf
<1>2. Len(q) \in Nat
  BY LenProperties
<1>3. k \in 0..Len(q) /\ k - 1 \in 0..Len(q) /\ Len(q) \in 0..Len(q)
  BY <1>2
<1>4. p[k] <= Len(t)
  <2> DEFINE w == [m \in 1..Len(q) |-> Len(q[m])]
             n == Len(q)
  <2>1. \A m \in 1..n : Len(q[m]) \in Nat
    BY PieceLengths
  <2>2. w \in [1..n -> Nat] /\ \A m \in 1..n : w[m] = Len(q[m])
    BY <2>1
  <2> HIDE DEF w
  <2>3. IsSum(p, n, w)
    BY <2>2 DEF PiecesOf, IsSum
  <2>4. k <= n /\ n \in Nat
    BY <1>2
  <2> HIDE DEF n
  <2>5. k \in 0..n /\ n \in 0..n
    BY <1>3 DEF n
  <2>6. p[k] <= p[n]
    BY <2>2, <2>3, <2>4, <2>5, SumGrows
  <2>7. QED BY <1>1, <2>6 DEF n
<1> DEFINE a == p[k - 1]
           b == p[k]
           l == Len(q[k])
           m == Len(t)
<1>5. a \in Nat /\ b = a + l /\ b \in Nat /\ b <= m /\ m \in Nat
  BY <1>1, <1>3, <1>4
<1>6. a + i \in 1..m /\ a \in Nat
  <2>1. i \in 1..l
    OBVIOUS
  <2>2. l \in Nat
    BY PieceLengths
  <2> HIDE DEF a, b, l, m
  <2>3. QED BY <1>5, <2>1, <2>2
<1>7. QED BY <1>1, <1>6 DEF a, m

\* No element is in two places of the pieces.
Distinct(q) ==
  \A k, m \in 1..Len(q) : \A i \in 1..Len(q[k]) : \A j \in 1..Len(q[m]) :
    q[k][i] = q[m][j] => k = m /\ i = j

LEMMA FlattenDistinct ==
  ASSUME NEW S, NEW q \in Seq(Seq(S)), Distinct(q)
  PROVE  IsInjective(FlattenSeq(q))
<1> DEFINE t == FlattenSeq(q)
<1>1. t \in Seq(S) /\ \E p : PiecesOf(q, p, t)
  BY FlattenPieces
<1> HIDE DEF t
<1>2. PICK p : PiecesOf(q, p, t)
  BY <1>1
<1>3. DOMAIN t = 1..Len(t)
  BY <1>1, LenProperties
<1>4. ASSUME NEW a \in 1..Len(t), NEW b \in 1..Len(t), t[a] = t[b] PROVE a = b
  <2>1. PICK k \in 1..Len(q) : \E i \in 1..Len(q[k]) : a = p[k - 1] + i /\ t[a] = q[k][i]
    <3>1. PlaceOf(q, p, t, a)
      BY <1>1, <1>2, PieceAt
    <3>2. QED BY <3>1 DEF PlaceOf
  <2>2. PICK i \in 1..Len(q[k]) : a = p[k - 1] + i /\ t[a] = q[k][i]
    BY <2>1
  <2>3. PICK m \in 1..Len(q) : \E j \in 1..Len(q[m]) : b = p[m - 1] + j /\ t[b] = q[m][j]
    <3>1. PlaceOf(q, p, t, b)
      BY <1>1, <1>2, PieceAt
    <3>2. QED BY <3>1 DEF PlaceOf
  <2>4. PICK j \in 1..Len(q[m]) : b = p[m - 1] + j /\ t[b] = q[m][j]
    BY <2>3
  <2>5. k = m /\ i = j
    <3>1. q[k][i] = q[m][j]
      BY <1>4, <2>2, <2>4
    <3>2. QED BY <3>1 DEF Distinct
  <2>6. QED BY <2>2, <2>4, <2>5
<1>5. IsInjective(t)
  BY <1>3, <1>4 DEF IsInjective
<1>6. QED BY <1>5 DEF t

\* Every element of a piece is an element of the whole, and nothing else is.
LEMMA FlattenElements ==
  ASSUME NEW S, NEW q \in Seq(Seq(S))
  PROVE  /\ FlattenSeq(q) \in Seq(S)
         /\ \A k \in 1..Len(q) : \A i \in 1..Len(q[k]) :
              \E j \in 1..Len(FlattenSeq(q)) : FlattenSeq(q)[j] = q[k][i]
         /\ \A j \in 1..Len(FlattenSeq(q)) :
              \E k \in 1..Len(q) : \E i \in 1..Len(q[k]) : FlattenSeq(q)[j] = q[k][i]
<1> DEFINE t == FlattenSeq(q)
<1>1. t \in Seq(S) /\ \E p : PiecesOf(q, p, t)
  BY FlattenPieces
<1> HIDE DEF t
<1>2. PICK p : PiecesOf(q, p, t)
  BY <1>1
<1>3. ASSUME NEW k \in 1..Len(q), NEW i \in 1..Len(q[k])
      PROVE  \E j \in 1..Len(t) : t[j] = q[k][i]
  <2>1. p[k - 1] + i \in 1..Len(t) /\ t[p[k - 1] + i] = q[k][i]
    BY <1>1, <1>2, PiecePlace
  <2>2. QED BY <2>1
<1>4. ASSUME NEW j \in 1..Len(t)
      PROVE  \E k \in 1..Len(q) : \E i \in 1..Len(q[k]) : t[j] = q[k][i]
  <2>1. PlaceOf(q, p, t, j)
    BY <1>1, <1>2, PieceAt
  <2>2. QED BY <2>1 DEF PlaceOf
<1>5. QED BY <1>1, <1>3, <1>4 DEF t

\* Sequences turned round, and of one element.
LEMMA ReverseFacts ==
  ASSUME NEW S, NEW s \in Seq(S), IsInjective(s)
  PROVE  Reverse(s) \in Seq(S) /\ IsInjective(Reverse(s))
<1> DEFINE n == Len(s)
           r == Reverse(s)
<1>1. n \in Nat /\ DOMAIN s = 1..n /\ \A i \in 1..n : s[i] \in S
  BY LenProperties, ElementOfSeq
<1>2. r = [i \in 1..n |-> s[(n - i) + 1]]
  BY DEF Reverse
<1> HIDE DEF n, r
<1>3. \A i \in 1..n : (n - i) + 1 \in 1..n
  BY <1>1
<1>4. r \in [1..n -> S]
  BY <1>1, <1>2, <1>3
<1>5. ASSUME NEW i \in 1..n, NEW j \in 1..n, r[i] = r[j] PROVE i = j
  <2>1. s[(n - i) + 1] = s[(n - j) + 1]
    BY <1>2, <1>5
  <2>2. (n - i) + 1 = (n - j) + 1
    BY <1>1, <1>3, <2>1 DEF IsInjective
  <2>3. QED BY <1>1, <2>2
<1>6. DOMAIN r = 1..n
  BY <1>2
<1>7. QED BY <1>1, <1>4, <1>5, <1>6, SequenceFrom DEF IsInjective, r

LEMMA OneElement ==
  ASSUME NEW S, NEW e \in S
  PROVE  <<e>> \in Seq(S) /\ Len(<<e>>) = 1 /\ <<e>>[1] = e
OBVIOUS

-----------------------------------------------------------------------------
(* Remainders.                                                             *)

\* Division and remainder.
LEMMA ModDef ==
  ASSUME NEW a \in Int, NEW w \in Nat \ {0}
  PROVE  /\ (a % w) \in 0..w - 1
         /\ a \div w \in Int
         /\ a = ((a \div w) * w) + (a % w)
OBVIOUS

\* The remainder is the only one there is.
LEMMA ModUnique ==
  ASSUME NEW w \in Nat \ {0}, NEW q \in Int, NEW r \in 0..w - 1
  PROVE  ((q * w) + r) % w = r
<1> DEFINE a == (q * w) + r
           d == a \div w
           s == a % w
           x == d * w
           y == q * w
<1>1. a \in Int /\ s \in 0..w - 1 /\ d \in Int /\ a = x + s /\ a = y + r /\ x \in Int /\ y \in Int
  BY ModDef
<1>2. CASE d >= q + 1
  <2>1. (d - q) * w >= w
    BY <1>1, <1>2
  <2>2. (d - q) * w = x - y
    BY <1>1
  <2> HIDE DEF a, d, s, x, y
  <2>3. QED BY <1>1, <2>1, <2>2
<1>3. CASE d <= q - 1
  <2>1. (q - d) * w >= w
    BY <1>1, <1>3
  <2>2. (q - d) * w = y - x
    BY <1>1
  <2> HIDE DEF a, d, s, x, y
  <2>3. QED BY <1>1, <2>1, <2>2
<1>4. CASE d = q
  <2>1. x = y
    BY <1>4
  <2> HIDE DEF a, d, x, y
  <2>2. s = r
    BY <1>1, <2>1
  <2>3. QED BY <2>2 DEF s, a, y
<1>5. d >= q + 1 \/ d <= q - 1 \/ d = q
  <2> HIDE DEF d
  <2>1. QED BY <1>1
<1>6. QED BY <1>2, <1>3, <1>4, <1>5

\* A remainder may be added to as what it is the remainder of.
LEMMA ModAdd ==
  ASSUME NEW w \in Nat \ {0}, NEW a \in Int, NEW b \in Int
  PROVE  /\ ((a % w) + b) % w = (a + b) % w
         /\ ((a % w) - b) % w = (a - b) % w
<1>1. ASSUME NEW c \in Int PROVE ((a % w) + c) % w = (a + c) % w
  <2> DEFINE u == (a % w) + c
             k == a \div w
             l == u \div w
             r == u % w
  <2>1. (a % w) \in Int /\ k \in Int /\ a = (k * w) + (a % w)
    BY ModDef
  <2>2. u \in Int
    BY <2>1
  <2>3. r \in 0..w - 1 /\ l \in Int /\ u = (l * w) + r
    <3> HIDE DEF u
    <3>1. QED BY <2>2, ModDef
  <2>4. a + c = (k * w) + u
    <3> DEFINE x == k * w
               y == a % w
    <3>1. x \in Int /\ y \in Int /\ a = x + y
      BY <2>1
    <3> HIDE DEF x, y, k
    <3>2. a + c = x + (y + c)
      BY <3>1
    <3>3. QED BY <3>2 DEF x, y
  <2> HIDE DEF u, k, l, r
  <2>5. (k + l) * w = (k * w) + (l * w)
    BY <2>1, <2>3
  <2>6. a + c = ((k + l) * w) + r /\ k + l \in Int
    <3> DEFINE x == k * w
               y == l * w
    <3>1. x \in Int /\ y \in Int
      BY <2>1, <2>3
    <3> HIDE DEF x, y
    <3>2. a + c = (x + y) + r
      <4>1. a + c = x + u /\ u = y + r
        BY <2>3, <2>4 DEF x, y
      <4>2. QED BY <2>2, <2>3, <3>1, <4>1
    <3>3. QED BY <2>1, <2>3, <2>5, <3>2 DEF x, y
  <2>7. (a + c) % w = r
    BY <2>3, <2>6, ModUnique
  <2>8. QED BY <2>7 DEF r, u
<1>2. -b \in Int /\ a + (-b) = a - b /\ (a % w) + (-b) = (a % w) - b
  BY ModDef
<1>3. QED BY <1>1, <1>2
=============================================================================
