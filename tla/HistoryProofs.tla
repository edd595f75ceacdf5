---------------------------- MODULE HistoryProofs ----------------------------
(* What the operators of HistoryFile return, for sequences of any length: a
   filter keeps exactly the members of its set, in their order; putting
   snapshots in time order loses and adds none; a scan retains exactly what is
   newer than its cutoff and counts exactly the rest; and two scans that retain
   the same of one file are the same. *)
EXTENDS HistoryFile, FiniteSetTheorems, WellFoundedInduction, TLAPS

Elements(s) == {s[i] : i \in DOMAIN s}

LEMMA ElementsAppend ==
  ASSUME NEW T, NEW s \in Seq(T), NEW x \in T
  PROVE  Append(s, x) \in Seq(T) /\ Elements(Append(s, x)) = Elements(s) \cup {x}
<1>1. DOMAIN Append(s, x) = (DOMAIN s) \cup {Len(s) + 1}
  OBVIOUS
<1>2. \A i \in DOMAIN s : Append(s, x)[i] = s[i]
  OBVIOUS
<1>3. Append(s, x)[Len(s) + 1] = x
  OBVIOUS
<1>4. Elements(Append(s, x)) = Elements(s) \cup {x}
  BY <1>1, <1>2, <1>3 DEF Elements
<1> QED
  BY <1>4

\* The least-number principle.
LEMMA Least ==
  ASSUME NEW X \in SUBSET Nat, X # {}
  PROVE  \E m \in X : \A k \in X : m <= k
<1>1. PICK m \in X : \A k \in X : <<k, m>> \notin OpToRel(<, Nat)
  BY NatLessThanWellFounded, WFMin
<1>2. ASSUME NEW k \in X, k < m
      PROVE  <<k, m>> \in OpToRel(<, Nat)
  BY <1>2 DEF OpToRel
<1>3. \A k \in X : ~(k < m)
  BY <1>1, <1>2, Zenon
<1> QED
  BY <1>3

-----------------------------------------------------------------------------
(* Filters *)

\* The partial results of Among, up to element n, as one function.
Chooses(f, s, S, n) ==
  f = [k \in 0 .. n |->
         IF k = 0 THEN <<>>
         ELSE IF s[k] \in S THEN Append(f[k - 1], s[k]) ELSE f[k - 1]]

\* There is such a function, however far it goes.
LEMMA ChosenExists ==
  ASSUME NEW s, NEW S, NEW n \in Nat
  PROVE  \E f : Chooses(f, s, S, n)
<1> DEFINE bad == {k \in Nat : ~ \E f : Chooses(f, s, S, k)}
<1>1. SUFFICES ASSUME bad # {} PROVE FALSE
  OBVIOUS
<1>2. PICK k \in bad : \A j \in bad : k <= j
  BY <1>1, Least
<1>3. k # 0
  <2>1. Chooses([j \in 0 .. 0 |-> <<>>], s, S, 0)
    BY DEF Chooses
  <2> QED
    BY <2>1
<1>4. PICK f : Chooses(f, s, S, k - 1)
  <2>1. k - 1 \in Nat /\ k - 1 \notin bad
    BY <1>2, <1>3
  <2> QED
    BY <2>1
<1> DEFINE g == [j \in 0 .. k |->
                   IF j < k THEN f[j]
                   ELSE IF s[k] \in S THEN Append(f[k - 1], s[k]) ELSE f[k - 1]]
<1>5. Chooses(g, s, S, k)
  <2>1. \A j \in 0 .. k :
          g[j] = IF j = 0 THEN <<>>
                 ELSE IF s[j] \in S THEN Append(g[j - 1], s[j]) ELSE g[j - 1]
    <3> SUFFICES ASSUME NEW j \in 0 .. k
                 PROVE  g[j] = IF j = 0 THEN <<>>
                               ELSE IF s[j] \in S THEN Append(g[j - 1], s[j]) ELSE g[j - 1]
      OBVIOUS
    <3>1. CASE j = k
      <4>1. g[k - 1] = f[k - 1]
        BY <1>3
      <4> QED
        BY <3>1, <4>1, <1>3
    <3>2. CASE j < k
      <4>1. j \in 0 .. k - 1 /\ (j # 0 => j - 1 \in 0 .. k - 1)
        BY <3>2
      <4>2. f[j] = IF j = 0 THEN <<>>
                   ELSE IF s[j] \in S THEN Append(f[j - 1], s[j]) ELSE f[j - 1]
        BY <1>4, <4>1 DEF Chooses
      <4>3. g[j] = f[j] /\ (j # 0 => g[j - 1] = f[j - 1])
        BY <3>2, <4>1
      <4> QED
        BY <4>2, <4>3
    <3> QED
      BY <3>1, <3>2
  <2> HIDE DEF g
  <2>2. g = [j \in 0 .. k |-> g[j]]
    BY DEF g
  <2> QED
    BY <2>1, <2>2 DEF Chooses
<1> QED
  BY <1>2, <1>5

\* A filter keeps the elements that are in its set, and only those.
LEMMA AmongElements ==
  ASSUME NEW T, NEW s \in Seq(T), NEW S
  PROVE  /\ Among(s, S) \in Seq(T \cap S)
         /\ Elements(Among(s, S)) = Elements(s) \cap S
<1> DEFINE f == CHOOSE g : Chooses(g, s, S, Len(s))
<1>1. Among(s, S) = f[Len(s)]
  BY DEF Among, Chooses
<1>2. Chooses(f, s, S, Len(s))
  BY ChosenExists
<1> HIDE DEF f
<1> DEFINE Right(k) == /\ f[k] \in Seq(T \cap S)
                       /\ Elements(f[k]) = {s[i] : i \in 1 .. k} \cap S
           wrong == {k \in 0 .. Len(s) : ~Right(k)}
<1>0. Len(s) \in Nat /\ wrong \in SUBSET Nat
  OBVIOUS
<1>3. wrong = {}
  <2>1. SUFFICES ASSUME wrong # {} PROVE FALSE
    OBVIOUS
  <2> HIDE DEF wrong
  <2>2. PICK k \in wrong : \A j \in wrong : k <= j
    BY <1>0, <2>1, Least
  <2> USE DEF wrong
  <2>3. k # 0
    BY <1>2 DEF Chooses, Elements
  <2>4. k - 1 \in 0 .. Len(s) /\ Right(k - 1)
    <3>1. k \in 1 .. Len(s)
      BY <1>0, <2>3
    <3>2. k - 1 \in 0 .. Len(s)
      BY <1>0, <3>1
    <3>3. k - 1 \notin wrong
      <4> HIDE DEF wrong
      <4>1. ASSUME k - 1 \in wrong PROVE FALSE
        <5>1. k <= k - 1
          BY <2>2, <4>1
        <5> QED
          BY <3>1, <5>1
      <4> QED
        BY <4>1
    <3> QED
      BY <3>2, <3>3
  <2>5. f[k] = IF s[k] \in S THEN Append(f[k - 1], s[k]) ELSE f[k - 1]
    BY <1>2, <2>2, <2>3 DEF Chooses
  <2>6. s[k] \in T
    BY <2>2, <2>3
  <2>7. {s[i] : i \in 1 .. k} = {s[i] : i \in 1 .. k - 1} \cup {s[k]}
    BY <2>2, <2>3
  <2>8. Right(k)
    <3>1. CASE s[k] \in S
      <4>1. /\ Append(f[k - 1], s[k]) \in Seq(T \cap S)
            /\ Elements(Append(f[k - 1], s[k])) = Elements(f[k - 1]) \cup {s[k]}
        BY <2>4, <2>6, <3>1, ElementsAppend
      <4> QED
        BY <2>4, <2>5, <2>7, <3>1, <4>1
    <3>2. CASE s[k] \notin S
      BY <2>4, <2>5, <2>7, <3>2
    <3> QED
      BY <3>1, <3>2
  <2> QED
    BY <2>2, <2>8
<1>4. Right(Len(s))
  <2>1. Len(s) \in 0 .. Len(s)
    BY <1>0
  <2>2. Len(s) \notin wrong
    BY <1>3, Zenon
  <2> HIDE DEF Right
  <2> QED
    BY <2>1, <2>2
<1>5. {s[i] : i \in 1 .. Len(s)} = Elements(s)
  BY DEF Elements
<1> QED
  BY <1>1, <1>4, <1>5

-----------------------------------------------------------------------------
(* Time order *)

LEMMA Counting ==
  ASSUME NEW n \in Nat
  PROVE  /\ IsFiniteSet(1 .. n) /\ Cardinality(1 .. n) = n
         /\ IsFiniteSet(0 .. n - 1) /\ Cardinality(0 .. n - 1) = n
<1>1. IsFiniteSet(1 .. n) /\ Cardinality(1 .. n) = IF 1 > n THEN 0 ELSE n - 1 + 1
  BY FS_Interval
<1>2. IsFiniteSet(0 .. n - 1) /\ Cardinality(0 .. n - 1) = IF 0 > n - 1 THEN 0 ELSE n - 1 - 0 + 1
  <2>1. 0 \in Int /\ n - 1 \in Int
    OBVIOUS
  <2> QED
    BY <2>1, FS_Interval
<1> QED
  BY <1>1, <1>2

\* The positions before position i in the order of time.
Before(s, i) == {j \in 1 .. Len(s) : Earlier(s, j, i)}

LEMMA EarlierIsOrder ==
  ASSUME NEW s \in Seq(Snapshots), NEW i \in 1 .. Len(s), NEW j \in 1 .. Len(s)
  PROVE  /\ ~Earlier(s, i, i)
         /\ i # j => Earlier(s, i, j) \/ Earlier(s, j, i)
         /\ Earlier(s, i, j) => Before(s, i) \cup {i} \subseteq Before(s, j)
<1>1. \A k \in 1 .. Len(s) : s[k] \in Snapshots
  OBVIOUS
<1>2. \A x \in Snapshots : x.at \in Nat
  BY DEF Snapshots
<1>3. \A k \in 1 .. Len(s) : s[k].at \in Nat
  BY <1>1, <1>2
<1> QED
  BY <1>3 DEF Earlier, Before

\* Every position has a rank, and no two the same.
LEMMA Ranks ==
  ASSUME NEW s \in Seq(Snapshots), NEW i \in 1 .. Len(s), NEW j \in 1 .. Len(s)
  PROVE  /\ Cardinality(Before(s, i)) \in 0 .. Len(s) - 1
         /\ Earlier(s, i, j) => Cardinality(Before(s, i)) < Cardinality(Before(s, j))
<1> DEFINE D == 1 .. Len(s)
<1>1. IsFiniteSet(D) /\ Cardinality(D) = Len(s) /\ Len(s) \in Nat
  BY Counting
<1>2. ASSUME NEW k \in D
      PROVE  /\ IsFiniteSet(Before(s, k)) /\ Cardinality(Before(s, k)) \in Nat
             /\ Cardinality(Before(s, k)) <= Len(s) - 1
  <2>1. Before(s, k) \in SUBSET (D \ {k})
    BY EarlierIsOrder DEF Before
  <2>2. IsFiniteSet(D \ {k}) /\ Cardinality(D \ {k}) = Len(s) - 1
    BY <1>1, FS_RemoveElement
  <2>3. IsFiniteSet(Before(s, k)) /\ Cardinality(Before(s, k)) <= Cardinality(D \ {k})
    BY <2>1, <2>2, FS_Subset
  <2> QED
    BY <2>2, <2>3, FS_CardinalityType
<1>3. ASSUME Earlier(s, i, j)
      PROVE  Cardinality(Before(s, i)) < Cardinality(Before(s, j))
  <2>1. Before(s, i) \cup {i} \in SUBSET Before(s, j)
    BY <1>3, EarlierIsOrder
  <2>2. Cardinality(Before(s, i) \cup {i}) <= Cardinality(Before(s, j))
    BY <1>2, <2>1, FS_Subset
  <2>3. i \notin Before(s, i)
    BY EarlierIsOrder DEF Before
  <2>4. Cardinality(Before(s, i) \cup {i}) = Cardinality(Before(s, i)) + 1
    BY <1>2, <2>3, FS_AddElement
  <2> QED
    BY <1>2, <2>2, <2>4
<1> QED
  BY <1>1, <1>2, <1>3

Rank(s, i)  == Cardinality(Before(s, i))
Place(s, k) == CHOOSE i \in 1 .. Len(s) : Rank(s, i) = k - 1

\* Every rank is that of exactly one position.
LEMMA RanksTaken ==
  ASSUME NEW s \in Seq(Snapshots)
  PROVE  /\ \A i \in 1 .. Len(s) : /\ Rank(s, i) \in 0 .. Len(s) - 1
                                   /\ Rank(s, i) + 1 \in 1 .. Len(s)
                                   /\ Place(s, Rank(s, i) + 1) = i
         /\ \A k \in 1 .. Len(s) : Place(s, k) \in 1 .. Len(s) /\ Rank(s, Place(s, k)) = k - 1
<1> DEFINE D == 1 .. Len(s)
           r == [i \in D |-> Rank(s, i)]
<1>1. Len(s) \in Nat
  OBVIOUS
<1>2. \A i \in D : Rank(s, i) \in 0 .. Len(s) - 1
  BY Ranks DEF Rank
<1>3. ASSUME NEW i \in D, NEW j \in D, Rank(s, i) = Rank(s, j)
      PROVE  i = j
  <2>1. ~Earlier(s, i, j) /\ ~Earlier(s, j, i)
    <3>1. Rank(s, i) \in Int /\ Rank(s, j) \in Int
      BY <1>2
    <3> QED
      BY <1>3, <3>1, Ranks DEF Rank
  <2> QED
    BY <2>1, EarlierIsOrder
<1>4. \A k \in D : Place(s, k) \in D /\ Rank(s, Place(s, k)) = k - 1
  <2>1. r \in Injection(D, 0 .. Len(s) - 1)
    <3>1. r \in [D -> 0 .. Len(s) - 1]
      BY <1>2
    <3>2. \A i, j \in D : r[i] = r[j] => i = j
      BY <1>3
    <3> HIDE DEF r
    <3> QED
      BY <3>1, <3>2 DEF Injection, IsInjective
  <2>2. /\ IsFiniteSet(0 .. Len(s) - 1)
        /\ Cardinality(0 .. Len(s) - 1) = Len(s)
        /\ Cardinality(D) = Len(s)
    BY <1>1, Counting
  <2>3. r \in Surjection(D, 0 .. Len(s) - 1)
    BY <2>1, <2>2, FS_Injection
  <2>4. ASSUME NEW k \in D PROVE \E i \in D : Rank(s, i) = k - 1
    <3>1. k - 1 \in 0 .. Len(s) - 1
      BY <1>1
    <3> QED
      BY <2>3, <3>1 DEF Surjection
  <2> QED
    BY <2>4 DEF Place
<1> HIDE DEF r
<1>5. ASSUME NEW i \in D PROVE Rank(s, i) + 1 \in D /\ Place(s, Rank(s, i) + 1) = i
  <2>1. Rank(s, i) + 1 \in D /\ Rank(s, i) \in Int
    BY <1>1, <1>2
  <2>2. Rank(s, Place(s, Rank(s, i) + 1)) = Rank(s, i) /\ Place(s, Rank(s, i) + 1) \in D
    BY <1>4, <2>1
  <2> QED
    BY <1>3, <2>1, <2>2
<1> QED
  BY <1>2, <1>4, <1>5

LEMMA InTimeOrderPlaces ==
  ASSUME NEW s
  PROVE  InTimeOrder(s) = [k \in 1 .. Len(s) |-> s[Place(s, k)]]
BY DEF InTimeOrder, Place, Rank, Before

\* Sorting loses no snapshot and adds none.
LEMMA InTimeOrderElements ==
  ASSUME NEW s \in Seq(Snapshots)
  PROVE  /\ InTimeOrder(s) \in Seq(Snapshots)
         /\ Len(InTimeOrder(s)) = Len(s)
         /\ Elements(InTimeOrder(s)) = Elements(s)
<1> DEFINE D == 1 .. Len(s)
<1>1. InTimeOrder(s) = [k \in D |-> s[Place(s, k)]]
  BY InTimeOrderPlaces
<1>2. /\ \A k \in D : Place(s, k) \in D
      /\ \A i \in D : Rank(s, i) + 1 \in D /\ Place(s, Rank(s, i) + 1) = i
  BY RanksTaken
<1>3. InTimeOrder(s) \in Seq(Snapshots) /\ Len(InTimeOrder(s)) = Len(s)
  <2>1. Len(s) \in Nat /\ \A k \in D : s[Place(s, k)] \in Snapshots
    BY <1>2
  <2> QED
    BY <1>1, <2>1
<1>4. Elements(InTimeOrder(s)) = {s[Place(s, k)] : k \in D}
  BY <1>1 DEF Elements
<1>5. ASSUME NEW i \in D PROVE \E k \in D : s[Place(s, k)] = s[i]
  BY <1>2
<1>6. Elements(s) = {s[i] : i \in D}
  BY DEF Elements
<1> QED
  BY <1>2, <1>3, <1>4, <1>5, <1>6

-----------------------------------------------------------------------------
(* The order of snapshots *)

Precedes(x, y) == x.at < y.at \/ (x.at = y.at /\ x.id < y.id)

\* In time order, snapshots of one time in the order they were recorded.
Sorted(s) == \A i, j \in DOMAIN s : i < j => Precedes(s[i], s[j])

LEMMA PrecedesIsOrder ==
  ASSUME NEW x \in Snapshots, NEW y \in Snapshots
  PROVE  /\ ~Precedes(x, x)
         /\ Precedes(x, y) => ~Precedes(y, x)
         /\ \A z \in Snapshots : Precedes(x, y) /\ Precedes(y, z) => Precedes(x, z)
<1>1. \A z \in Snapshots : z.at \in Nat /\ z.id \in Nat
  BY DEF Snapshots
<1> QED
  BY <1>1 DEF Precedes

\* What a filter keeps stands in the order it stood in.
LEMMA AmongOrder ==
  ASSUME NEW T, NEW s \in Seq(T), NEW S
  PROVE  \A i, j \in DOMAIN Among(s, S) : i < j =>
           \E a, b \in DOMAIN s : a < b /\ Among(s, S)[i] = s[a] /\ Among(s, S)[j] = s[b]
<1> DEFINE f == CHOOSE g : Chooses(g, s, S, Len(s))
<1>1. Among(s, S) = f[Len(s)]
  BY DEF Among, Chooses
<1>2. Chooses(f, s, S, Len(s))
  BY ChosenExists
<1> HIDE DEF f
<1> DEFINE Right(k) ==
             /\ f[k] \in Seq(T)
             /\ \A i \in DOMAIN f[k] : \E a \in 1 .. k : f[k][i] = s[a]
             /\ \A i, j \in DOMAIN f[k] : i < j =>
                  \E a, b \in 1 .. k : a < b /\ f[k][i] = s[a] /\ f[k][j] = s[b]
           wrong == {k \in 0 .. Len(s) : ~Right(k)}
<1>0. Len(s) \in Nat /\ wrong \in SUBSET Nat
  OBVIOUS
<1>3. wrong = {}
  <2>1. SUFFICES ASSUME wrong # {} PROVE FALSE
    OBVIOUS
  <2> HIDE DEF wrong
  <2>2. PICK k \in wrong : \A j \in wrong : k <= j
    BY <1>0, <2>1, Least
  <2> USE DEF wrong
  <2>3. k # 0
    BY <1>2 DEF Chooses
  <2>4. k \in 1 .. Len(s) /\ k - 1 \in 0 .. Len(s)
    BY <1>0, <2>2, <2>3
  <2>5. Right(k - 1)
    <3>1. k - 1 \notin wrong
      <4> HIDE DEF wrong
      <4>1. ASSUME k - 1 \in wrong PROVE FALSE
        <5>1. k <= k - 1
          BY <2>2, <4>1
        <5> QED
          BY <2>4, <5>1
      <4> QED
        BY <4>1
    <3> QED
      BY <2>4, <3>1
  <2>6. f[k] = IF s[k] \in S THEN Append(f[k - 1], s[k]) ELSE f[k - 1]
    <3>1. k \in 0 .. Len(s)
      BY <2>4
    <3> QED
      BY <1>2, <2>3, <3>1 DEF Chooses
  <2>7. s[k] \in T
    BY <2>4
  <2> DEFINE g == f[k - 1]
  <2>8. /\ g \in Seq(T)
        /\ \A i \in DOMAIN g : \E a \in 1 .. k - 1 : g[i] = s[a]
        /\ \A i, j \in DOMAIN g : i < j =>
             \E a, b \in 1 .. k - 1 : a < b /\ g[i] = s[a] /\ g[j] = s[b]
    BY <2>5
  <2>9. f[k] = IF s[k] \in S THEN Append(g, s[k]) ELSE g
    BY <2>6
  <2> HIDE DEF g
  <2>10. 1 .. k - 1 \subseteq 1 .. k /\ k \in 1 .. k /\ \A a \in 1 .. k - 1 : a < k
    BY <2>4
  <2>11. Right(k)
    <3>1. CASE s[k] \notin S
      <4>1. f[k] = g
        BY <2>9, <3>1
      <4> QED
        BY <2>8, <2>10, <4>1
    <3>2. CASE s[k] \in S
      <4> DEFINE h == Append(g, s[k])
      <4>1. /\ h \in Seq(T) /\ DOMAIN h = 1 .. Len(g) + 1 /\ h[Len(g) + 1] = s[k]
            /\ \A i \in 1 .. Len(g) : h[i] = g[i]
            /\ DOMAIN g = 1 .. Len(g) /\ Len(g) \in Nat
        BY <2>7, <2>8
      <4>2. f[k] = h
        BY <2>9, <3>2
      <4> HIDE DEF h
      <4>3. \A i \in DOMAIN h : i \in DOMAIN g \/ i = Len(g) + 1
        BY <4>1
      <4>4. \A i \in DOMAIN h : \E a \in 1 .. k : h[i] = s[a]
        BY <2>8, <2>10, <4>1, <4>3
      <4>5. ASSUME NEW i \in DOMAIN h, NEW j \in DOMAIN h, i < j
            PROVE  \E a, b \in 1 .. k : a < b /\ h[i] = s[a] /\ h[j] = s[b]
        <5>1. i \in DOMAIN g
          BY <4>1, <4>5
        <5>2. CASE j \in DOMAIN g
          <6>1. PICK a, b \in 1 .. k - 1 : a < b /\ g[i] = s[a] /\ g[j] = s[b]
            BY <2>8, <4>5, <5>1, <5>2
          <6> QED
            BY <2>10, <4>1, <5>1, <5>2, <6>1
        <5>3. CASE j = Len(g) + 1
          <6>1. PICK a \in 1 .. k - 1 : g[i] = s[a]
            BY <2>8, <5>1
          <6>2. a \in 1 .. k /\ k \in 1 .. k /\ a < k
            BY <2>10
          <6>3. h[i] = s[a] /\ h[j] = s[k]
            BY <4>1, <5>1, <5>3, <6>1
          <6> QED
            BY <6>2, <6>3
        <5> QED
          BY <4>3, <5>2, <5>3
      <4> QED
        BY <4>1, <4>2, <4>4, <4>5
    <3> QED
      BY <3>1, <3>2
  <2> QED
    BY <2>2, <2>11
<1>4. Right(Len(s))
  <2>1. Len(s) \in 0 .. Len(s)
    BY <1>0
  <2>2. Len(s) \notin wrong
    BY <1>3, Zenon
  <2> HIDE DEF Right
  <2> QED
    BY <2>1, <2>2
<1>5. DOMAIN s = 1 .. Len(s)
  OBVIOUS
<1> HIDE DEF wrong
<1>6. \A i, j \in DOMAIN f[Len(s)] : i < j =>
        \E a, b \in 1 .. Len(s) : a < b /\ f[Len(s)][i] = s[a] /\ f[Len(s)][j] = s[b]
  BY <1>4, Zenon
<1> HIDE DEF Right
<1> QED
  BY <1>1, <1>5, <1>6

LEMMA AmongSorted ==
  ASSUME NEW T, NEW s \in Seq(T), NEW S
  PROVE  /\ InOrder(s) => InOrder(Among(s, S))
         /\ Sorted(s) => Sorted(Among(s, S))
BY AmongOrder DEF InOrder, Sorted

\* A sequence in order repeats no snapshot, so its length counts them.
LEMMA OrderCounts ==
  ASSUME NEW s \in Seq(Snapshots), InOrder(s) \/ Sorted(s)
  PROVE  IsFiniteSet(Elements(s)) /\ Cardinality(Elements(s)) = Len(s)
<1>1. \A i \in DOMAIN s : s[i] \in Snapshots
  OBVIOUS
<1>2. \A x \in Snapshots : x.at \in Nat /\ x.id \in Nat
  BY DEF Snapshots
<1>3. ASSUME NEW i \in DOMAIN s, NEW j \in DOMAIN s, i < j PROVE s[i] # s[j]
  BY <1>1, <1>2, <1>3 DEF InOrder, Sorted, Precedes
<1>4. s \in Injection(1 .. Len(s), Elements(s))
  <2>1. s \in [1 .. Len(s) -> Elements(s)]
    BY DEF Elements
  <2>2. \A i, j \in 1 .. Len(s) : s[i] = s[j] => i = j
    BY <1>3
  <2> QED
    BY <2>1, <2>2 DEF Injection, IsInjective
<1>5. s \in Surjection(1 .. Len(s), Elements(s))
  BY DEF Surjection, Elements
<1>6. s \in Bijection(1 .. Len(s), Elements(s))
  BY <1>4, <1>5 DEF Bijection
<1>7. IsFiniteSet(1 .. Len(s)) /\ Cardinality(1 .. Len(s)) = Len(s)
  BY Counting
<1>8. ExistsBijection(1 .. Len(s), Elements(s))
  BY <1>6 DEF ExistsBijection
<1> QED
  BY <1>7, <1>8, FS_Bijection

\* A stable sort by time of snapshots in order.
LEMMA InTimeOrderSorts ==
  ASSUME NEW s \in Seq(Snapshots), InOrder(s)
  PROVE  Sorted(InTimeOrder(s))
<1> DEFINE D == 1 .. Len(s)
<1>1. InTimeOrder(s) = [k \in D |-> s[Place(s, k)]]
  BY InTimeOrderPlaces
<1>2. \A k \in D : /\ Place(s, k) \in D
                   /\ Rank(s, Place(s, k)) = k - 1
  BY RanksTaken
<1>3. \A i \in D : Rank(s, i) \in Int
  BY RanksTaken
<1>4. ASSUME NEW k \in D, NEW l \in D, k < l PROVE Precedes(s[Place(s, k)], s[Place(s, l)])
  <2> DEFINE i == Place(s, k)
             j == Place(s, l)
  <2>1. i \in D /\ j \in D /\ Rank(s, i) < Rank(s, j)
    BY <1>2, <1>4
  <2> HIDE DEF i, j
  <2>2. ~Earlier(s, j, i)
    <3>1. Earlier(s, j, i) => Rank(s, j) < Rank(s, i)
      BY <2>1, Ranks DEF Rank
    <3> QED
      BY <1>3, <2>1, <3>1
  <2>3. i # j
    BY <1>3, <2>1
  <2>4. Earlier(s, i, j)
    BY <2>1, <2>2, <2>3, EarlierIsOrder
  <2>5. s[i] \in Snapshots /\ s[j] \in Snapshots
    BY <2>1
  <2>6. Precedes(s[i], s[j])
    BY <2>1, <2>4, <2>5 DEF Earlier, Precedes, InOrder
  <2> QED
    BY <2>6 DEF i, j
<1> QED
  BY <1>1, <1>4 DEF Sorted

-----------------------------------------------------------------------------
(* The file and its scans *)

LEMMA ReadableLines ==
  ASSUME Corrupt \notin Snapshots
  PROVE  /\ \A lines \in Seq(Lines) : Readable(lines) = Elements(lines) \cap Snapshots
         /\ \A s \in Seq(Snapshots) : s \in Seq(Lines) /\ Readable(s) = Elements(s)
<1>1. ASSUME NEW T, NEW s \in Seq(T) PROVE Elements(s) \subseteq T
  BY <1>1 DEF Elements
<1>2. \A s : Readable(s) = Elements(s) \ {Corrupt}
  BY DEF Readable, Elements
<1>3. \A lines \in Seq(Lines) : Readable(lines) = Elements(lines) \cap Snapshots
  BY <1>1, <1>2 DEF Lines
<1>4. ASSUME NEW s \in Seq(Snapshots)
      PROVE  s \in Seq(Lines) /\ Readable(s) = Elements(s)
  <2>1. Elements(s) \subseteq Snapshots
    BY <1>1
  <2>2. Readable(s) = Elements(s)
    BY <1>2, <2>1
  <2>3. \A i \in 1 .. Len(s) : s[i] \in Lines
    BY DEF Lines
  <2>4. s \in Seq(Lines)
    BY <2>3
  <2> QED
    BY <2>2, <2>4
<1> QED
  BY <1>3, <1>4

LEMMA LineAdded ==
  ASSUME Corrupt \notin Snapshots, NEW lines \in Seq(Lines), NEW x \in Snapshots
  PROVE  /\ AddLine(lines, FALSE, x) \in Seq(Lines)
         /\ Readable(AddLine(lines, FALSE, x)) = Readable(lines) \cup {x}
<1>1. x \in Lines
  BY DEF Lines
<1>2. AddLine(lines, FALSE, x) = Append(lines, x)
  BY DEF AddLine
<1>3. /\ Append(lines, x) \in Seq(Lines)
      /\ Elements(Append(lines, x)) = Elements(lines) \cup {x}
  BY <1>1, ElementsAppend
<1>4. Readable(Append(lines, x)) = Elements(Append(lines, x)) \cap Snapshots
  BY <1>3, ReadableLines
<1>5. Readable(lines) = Elements(lines) \cap Snapshots
  BY ReadableLines
<1> QED
  BY <1>2, <1>3, <1>4, <1>5

\* Also when the last line lacks its newline.
LEMMA LineAddedType ==
  ASSUME NEW lines \in Seq(Lines), NEW torn \in BOOLEAN, torn => lines # <<>>, NEW line \in Lines
  PROVE  AddLine(lines, torn, line) \in Seq(Lines) /\ AddLine(lines, torn, line) # <<>>
<1>1. Corrupt \in Lines
  BY DEF Lines
<1>2. CASE torn
  <2> DEFINE changed == [lines EXCEPT ![Len(lines)] = Corrupt]
  <2>1. changed = [i \in 1 .. Len(lines) |-> IF i = Len(lines) THEN Corrupt ELSE lines[i]]
    OBVIOUS
  <2>2. \A i \in 1 .. Len(lines) : (IF i = Len(lines) THEN Corrupt ELSE lines[i]) \in Lines
    BY <1>1
  <2>3. Len(lines) \in Nat \ {0}
    BY <1>2
  <2> HIDE DEF changed
  <2>4. changed \in Seq(Lines)
    BY <2>1, <2>2, <2>3
  <2>5. Len(changed) = Len(lines)
    BY <2>1, <2>3
  <2>6. AddLine(lines, torn, line) = changed
    BY <1>2 DEF AddLine, changed
  <2> QED
    BY <2>3, <2>4, <2>5, <2>6
<1>3. CASE ~torn
  <2>1. Append(lines, line) \in Seq(Lines) /\ Len(Append(lines, line)) = Len(lines) + 1
    OBVIOUS
  <2>2. Append(lines, line) # <<>>
    BY <2>1
  <2>3. AddLine(lines, torn, line) = Append(lines, line)
    BY <1>3 DEF AddLine
  <2> QED
    BY <2>1, <2>2, <2>3
<1> QED
  BY <1>2, <1>3

\* What the three filters on time keep.
LEMMA Filtered ==
  ASSUME NEW s \in Seq(Snapshots), NEW t \in Int
  PROVE  /\ After(s, t) \in Seq(Snapshots)
         /\ Elements(After(s, t)) = {x \in Elements(s) : x.at > t}
         /\ UpTo(s, t) \in Seq(Snapshots)
         /\ Elements(UpTo(s, t)) = {x \in Elements(s) : x.at <= t}
         /\ NotBefore(s, t) \in Seq(Snapshots)
         /\ Elements(NotBefore(s, t)) = {x \in Elements(s) : x.at >= t}
<1>1. Elements(s) \subseteq Snapshots
  BY DEF Elements
<1>2. ASSUME NEW S \in SUBSET Snapshots
      PROVE  Among(s, S) \in Seq(Snapshots) /\ Elements(Among(s, S)) = Elements(s) \cap S
  <2>1. Among(s, S) \in Seq(Snapshots \cap S) /\ Elements(Among(s, S)) = Elements(s) \cap S
    BY AmongElements
  <2>2. Snapshots \cap S = S
    BY <1>2
  <2>3. \A i \in 1 .. Len(Among(s, S)) : Among(s, S)[i] \in Snapshots
    BY <2>1, <2>2
  <2>4. Among(s, S) \in Seq(Snapshots)
    BY <2>1, <2>3
  <2> QED
    BY <2>1, <2>4
<1>3. /\ After(s, t) \in Seq(Snapshots)
      /\ Elements(After(s, t)) = {x \in Elements(s) : x.at > t}
  <2>1. {x \in Snapshots : x.at > t} \in SUBSET Snapshots
    OBVIOUS
  <2> QED
    BY <1>1, <1>2, <2>1 DEF After
<1>4. /\ UpTo(s, t) \in Seq(Snapshots)
      /\ Elements(UpTo(s, t)) = {x \in Elements(s) : x.at <= t}
  <2>1. {x \in Snapshots : x.at <= t} \in SUBSET Snapshots
    OBVIOUS
  <2> QED
    BY <1>1, <1>2, <2>1 DEF UpTo
<1>5. /\ NotBefore(s, t) \in Seq(Snapshots)
      /\ Elements(NotBefore(s, t)) = {x \in Elements(s) : x.at >= t}
  <2>1. {x \in Snapshots : x.at >= t} \in SUBSET Snapshots
    OBVIOUS
  <2> QED
    BY <1>1, <1>2, <2>1 DEF NotBefore
<1> QED
  BY <1>3, <1>4, <1>5

\* A new snapshot is inserted and nothing lost.
LEMMA InsertedElements ==
  ASSUME NEW s \in Seq(Snapshots), NEW x \in Snapshots
  PROVE  /\ Inserted(s, x) \in Seq(Snapshots)
         /\ Elements(Inserted(s, x)) = Elements(s) \cup {x}
<1>1. x.at \in Int
  BY DEF Snapshots
<1> DEFINE a == UpTo(s, x.at)
           b == After(s, x.at)
<1>2. /\ a \in Seq(Snapshots) /\ Elements(a) = {y \in Elements(s) : y.at <= x.at}
      /\ b \in Seq(Snapshots) /\ Elements(b) = {y \in Elements(s) : y.at > x.at}
  BY <1>1, Filtered
<1>3. Inserted(s, x) = a \o <<x>> \o b
  BY DEF Inserted
<1> HIDE DEF a, b
<1>4. \A u, v \in Seq(Snapshots) : u \o v \in Seq(Snapshots) /\ Elements(u \o v) = Elements(u) \cup Elements(v)
  <2> TAKE u, v \in Seq(Snapshots)
  <2>1. u \o v \in Seq(Snapshots) /\ Len(u \o v) = Len(u) + Len(v)
    OBVIOUS
  <2>2. \A i \in 1 .. Len(u) : (u \o v)[i] = u[i]
    OBVIOUS
  <2>3. \A i \in 1 .. Len(v) : (u \o v)[Len(u) + i] = v[i]
    OBVIOUS
  <2>4. \A i \in 1 .. Len(u) + Len(v) : i \in 1 .. Len(u) \/ i - Len(u) \in 1 .. Len(v)
    OBVIOUS
  <2>5. Elements(u \o v) \subseteq Elements(u) \cup Elements(v)
    BY <2>1, <2>2, <2>3, <2>4 DEF Elements
  <2>6. Elements(u) \cup Elements(v) \subseteq Elements(u \o v)
    <3>1. DOMAIN u = 1 .. Len(u) /\ DOMAIN v = 1 .. Len(v) /\ DOMAIN (u \o v) = 1 .. Len(u) + Len(v)
      BY <2>1
    <3>2. \A i \in DOMAIN u : i \in DOMAIN (u \o v)
      BY <3>1
    <3>3. \A i \in DOMAIN v : Len(u) + i \in DOMAIN (u \o v)
      BY <3>1
    <3> QED
      BY <2>2, <2>3, <3>1, <3>2, <3>3 DEF Elements
  <2> QED
    BY <2>1, <2>5, <2>6
<1>5. <<x>> \in Seq(Snapshots) /\ Elements(<<x>>) = {x}
  BY DEF Elements
<1>6. \A y \in Elements(s) : y.at <= x.at \/ y.at > x.at
  <2>1. \A y \in Elements(s) : y \in Snapshots
    BY DEF Elements
  <2>2. \A y \in Snapshots : y.at \in Nat
    BY DEF Snapshots
  <2> QED
    BY <1>1, <2>1, <2>2
<1>7. a \o <<x>> \in Seq(Snapshots) /\ Elements(a \o <<x>>) = Elements(a) \cup {x}
  <2> DEFINE one == <<x>>
  <2> HIDE DEF one
  <2>1. one \in Seq(Snapshots) /\ Elements(one) = {x}
    BY <1>5 DEF one
  <2>2. a \o one \in Seq(Snapshots) /\ Elements(a \o one) = Elements(a) \cup {x}
    BY <1>2, <1>4, <2>1
  <2> QED
    BY <2>2 DEF one
<1>8. /\ a \o <<x>> \o b \in Seq(Snapshots)
      /\ Elements(a \o <<x>> \o b) = Elements(a) \cup {x} \cup Elements(b)
  BY <1>2, <1>4, <1>7
<1>9. Elements(a) \cup Elements(b) = Elements(s)
  BY <1>2, <1>6
<1> QED
  BY <1>3, <1>8, <1>9

\* A scan retains what is newer than its cutoff.
LEMMA ScanRetains ==
  ASSUME Corrupt \notin Snapshots, NEW lines \in Seq(Lines), NEW c \in Int
  PROVE  /\ ScanOf(lines, c) \in Scans
         /\ Elements(ScanOf(lines, c).retained) = {x \in Readable(lines) : x.at > c}
<1> DEFINE good == Among(lines, Snapshots)
<1>1. good \in Seq(Snapshots) /\ Elements(good) = Readable(lines)
  <2>1. good \in Seq(Lines \cap Snapshots) /\ Elements(good) = Elements(lines) \cap Snapshots
    BY AmongElements
  <2>2. Lines \cap Snapshots = Snapshots
    BY DEF Lines
  <2> QED
    BY <2>1, <2>2, ReadableLines
<1> DEFINE kept == InTimeOrder(After(good, c))
<1>2. kept \in Seq(Snapshots) /\ Elements(kept) = {x \in Readable(lines) : x.at > c}
  <2>1. After(good, c) \in Seq(Snapshots) /\ Elements(After(good, c)) = {x \in Elements(good) : x.at > c}
    BY <1>1, Filtered
  <2> QED
    BY <1>1, <2>1, InTimeOrderElements
<1>3. Len(good) \in Nat /\ Len(UpTo(good, c)) \in Nat
  <2> HIDE DEF good
  <2>1. UpTo(good, c) \in Seq(Snapshots)
    BY <1>1, Filtered
  <2> QED
    BY <1>1, <2>1
<1>4. {i \in DOMAIN lines : lines[i] = Corrupt} \in SUBSET Nat
  OBVIOUS
<1>5. ScanOf(lines, c) = [total |-> Len(good), expired |-> Len(UpTo(good, c)), retained |-> kept,
                          corrupt |-> {i \in DOMAIN lines : lines[i] = Corrupt}]
  BY DEF ScanOf
<1> HIDE DEF good, kept
<1> QED
  BY <1>2, <1>3, <1>4, <1>5 DEF Scans

\* A scan seen through a later cutoff retains what that leaves.
LEMMA NarrowedRetains ==
  ASSUME NEW scan \in Scans, NEW c \in Int
  PROVE  /\ Narrowed(scan, c) \in Scans
         /\ Elements(Narrowed(scan, c).retained) = {x \in Elements(scan.retained) : x.at > c}
<1>1. /\ scan.retained \in Seq(Snapshots) /\ scan.expired \in Nat
      /\ scan.total \in Nat /\ scan.corrupt \in SUBSET Nat
  BY DEF Scans
<1>2. /\ After(scan.retained, c) \in Seq(Snapshots)
      /\ Elements(After(scan.retained, c)) = {x \in Elements(scan.retained) : x.at > c}
      /\ UpTo(scan.retained, c) \in Seq(Snapshots)
  BY <1>1, Filtered
<1> DEFINE R == After(scan.retained, c)
           E == scan.expired + Len(UpTo(scan.retained, c))
<1>3. R \in Seq(Snapshots) /\ E \in Nat
  BY <1>1, <1>2
<1>4. Narrowed(scan, c) = [scan EXCEPT !.retained = R, !.expired = E]
  BY DEF Narrowed
<1> HIDE DEF R, E
<1>5. /\ [scan EXCEPT !.retained = R, !.expired = E] \in Scans
      /\ [scan EXCEPT !.retained = R, !.expired = E].retained = R
  <2>1. [scan EXCEPT !.retained = R] \in Scans /\ [scan EXCEPT !.retained = R].retained = R
    BY <1>3 DEF Scans
  <2> DEFINE t == [scan EXCEPT !.retained = R]
  <2> HIDE DEF t
  <2>2. [t EXCEPT !.expired = E] \in Scans /\ [t EXCEPT !.expired = E].retained = R
    BY <1>3, <2>1 DEF Scans, t
  <2> QED
    BY <2>2 DEF t
<1> QED
  BY <1>2, <1>4, <1>5 DEF R

-----------------------------------------------------------------------------
(* Order kept *)

LEMMA ConcatSorted ==
  ASSUME NEW u \in Seq(Snapshots), NEW v \in Seq(Snapshots), Sorted(u), Sorted(v),
         \A x \in Elements(u), y \in Elements(v) : Precedes(x, y)
  PROVE  Sorted(u \o v)
<1> DEFINE t == u \o v
<1>1. /\ DOMAIN t = 1 .. Len(u) + Len(v) /\ Len(u) \in Nat /\ Len(v) \in Nat
      /\ DOMAIN u = 1 .. Len(u) /\ DOMAIN v = 1 .. Len(v)
  OBVIOUS
<1>2. \A i \in DOMAIN u : t[i] = u[i]
  OBVIOUS
<1>3. \A i \in DOMAIN t : i \in DOMAIN u \/ (i - Len(u) \in DOMAIN v /\ t[i] = v[i - Len(u)])
  OBVIOUS
<1> HIDE DEF t
<1>4. ASSUME NEW i \in DOMAIN t, NEW j \in DOMAIN t, i < j
      PROVE  Precedes(t[i], t[j])
  <2>1. CASE i \in DOMAIN u /\ j \in DOMAIN u
    BY <1>2, <1>4, <2>1 DEF Sorted
  <2>2. CASE i \in DOMAIN u /\ j \notin DOMAIN u
    <3>1. t[i] \in Elements(u) /\ t[j] \in Elements(v)
      BY <1>2, <1>3, <2>2 DEF Elements
    <3> QED
      BY <3>1
  <2>3. CASE i \notin DOMAIN u
    <3>1. j \notin DOMAIN u
      BY <1>1, <1>4, <2>3
    <3>2. i - Len(u) \in DOMAIN v /\ j - Len(u) \in DOMAIN v /\ i - Len(u) < j - Len(u)
      BY <1>1, <1>3, <1>4, <2>3, <3>1
    <3> QED
      BY <1>3, <2>3, <3>1, <3>2 DEF Sorted
  <2> QED
    BY <2>1, <2>2, <2>3
<1> QED
  BY <1>4 DEF Sorted, t

\* The newest snapshot goes where the order wants it.
LEMMA InsertedSorts ==
  ASSUME NEW s \in Seq(Snapshots), NEW x \in Snapshots, Sorted(s),
         \A y \in Elements(s) : y.id < x.id
  PROVE  Sorted(Inserted(s, x))
<1> DEFINE a == UpTo(s, x.at)
           b == After(s, x.at)
           c == <<x>>
<1>1. x.at \in Int /\ \A y \in Snapshots : y.at \in Nat /\ y.id \in Nat
  BY DEF Snapshots
<1>2. /\ a \in Seq(Snapshots) /\ Elements(a) = {y \in Elements(s) : y.at <= x.at}
      /\ b \in Seq(Snapshots) /\ Elements(b) = {y \in Elements(s) : y.at > x.at}
  BY <1>1, Filtered
<1>3. Sorted(a) /\ Sorted(b)
  BY AmongSorted DEF UpTo, After
<1>4. c \in Seq(Snapshots) /\ Sorted(c) /\ Elements(c) = {x}
  BY DEF Sorted, Elements
<1>5. Inserted(s, x) = (a \o c) \o b
  BY DEF Inserted
<1> HIDE DEF a, b, c
<1>6. \A y \in Elements(s) : y \in Snapshots
  BY DEF Elements
<1>7. a \o c \in Seq(Snapshots) /\ Elements(a \o c) \subseteq Elements(a) \cup {x}
  <2>1. a \o c \in Seq(Snapshots) /\ DOMAIN (a \o c) = 1 .. Len(a) + Len(c)
    BY <1>2, <1>4
  <2>2. \A i \in DOMAIN (a \o c) : (i \in DOMAIN a /\ (a \o c)[i] = a[i])
                                   \/ (i - Len(a) \in DOMAIN c /\ (a \o c)[i] = c[i - Len(a)])
    BY <1>2, <1>4
  <2> QED
    BY <1>4, <2>1, <2>2 DEF Elements
<1>8. Sorted(a \o c)
  <2>1. \A y \in Elements(a), z \in Elements(c) : Precedes(y, z)
    BY <1>1, <1>2, <1>4, <1>6 DEF Precedes
  <2> QED
    BY <1>2, <1>3, <1>4, <2>1, ConcatSorted
<1>9. \A y \in Elements(a \o c), z \in Elements(b) : Precedes(y, z)
  BY <1>1, <1>2, <1>6, <1>7 DEF Precedes
<1> QED
  BY <1>2, <1>3, <1>5, <1>7, <1>8, <1>9, ConcatSorted

\* There is one way to put snapshots in order.
LEMMA SortedUnique ==
  ASSUME NEW s \in Seq(Snapshots), NEW t \in Seq(Snapshots), Sorted(s), Sorted(t),
         Elements(s) = Elements(t)
  PROVE  s = t
<1>1. Len(s) = Len(t)
  BY OrderCounts
<1> DEFINE D    == 1 .. Len(s)
           diff == {k \in D : s[k] # t[k]}
<1>2. /\ DOMAIN s = D /\ DOMAIN t = D /\ diff \in SUBSET Nat
      /\ \A i \in D : s[i] \in Snapshots /\ t[i] \in Snapshots
  BY <1>1
<1>3. diff = {}
  <2>1. SUFFICES ASSUME diff # {} PROVE FALSE
    OBVIOUS
  <2> HIDE DEF diff
  <2>2. PICK k \in diff : \A j \in diff : k <= j
    BY <1>2, <2>1, Least
  <2> USE DEF diff
  <2>3. k \in D /\ s[k] # t[k]
    BY <2>2
  <2>4. \A i \in D : i < k => s[i] = t[i]
    BY <2>2
  <2> HIDE DEF diff
  <2>5. PICK j \in D : t[j] = s[k]
    BY <1>2, <2>3 DEF Elements
  <2>6. PICK i \in D : s[i] = t[k]
    BY <1>2, <2>3 DEF Elements
  <2>7. \A l \in D : ~Precedes(s[l], s[l])
    BY <1>2, PrecedesIsOrder
  <2>8. j > k
    <3>1. j # k
      BY <2>3, <2>5
    <3>2. ~(j < k)
      <4>1. ASSUME j < k PROVE FALSE
        <5>1. s[j] = s[k]
          BY <2>4, <2>5, <4>1
        <5> QED
          BY <1>2, <2>3, <2>7, <4>1, <5>1 DEF Sorted
      <4> QED
        BY <4>1
    <3> QED
      BY <2>3, <3>1, <3>2
  <2>9. i > k
    <3>1. i # k
      BY <2>3, <2>6
    <3>2. ~(i < k)
      <4>1. ASSUME i < k PROVE FALSE
        <5>1. t[i] = t[k] /\ ~Precedes(t[k], t[k])
          BY <1>2, <2>3, <2>4, <2>6, <4>1, PrecedesIsOrder
        <5> QED
          BY <1>2, <2>3, <4>1, <5>1 DEF Sorted
      <4> QED
        BY <4>1
    <3> QED
      BY <2>3, <3>1, <3>2
  <2>10. Precedes(t[k], s[k]) /\ Precedes(s[k], t[k])
    BY <1>2, <2>3, <2>5, <2>6, <2>8, <2>9 DEF Sorted
  <2> QED
    BY <1>2, <2>3, <2>10, PrecedesIsOrder
<1>4. \A k \in D : s[k] = t[k]
  BY <1>3
<1> HIDE DEF diff
<1> QED
  BY <1>1, <1>4

-----------------------------------------------------------------------------
(* What a scan says of a file *)

\* A line more keeps the order if its snapshot is newer than those stored.
LEMMA LineAddedOrder ==
  ASSUME Corrupt \notin Snapshots, NEW lines \in Seq(Lines), InOrder(lines),
         NEW torn \in BOOLEAN, torn => lines # <<>>, NEW line \in Lines,
         line # Corrupt => \A y \in Readable(lines) : y.id < line.id
  PROVE  /\ InOrder(AddLine(lines, torn, line))
         /\ Readable(AddLine(lines, torn, line)) \subseteq Readable(lines) \cup ({line} \ {Corrupt})
<1>1. CASE torn
  <2> DEFINE t == [lines EXCEPT ![Len(lines)] = Corrupt]
  <2>1. AddLine(lines, torn, line) = t
    BY <1>1 DEF AddLine
  <2>2. DOMAIN t = DOMAIN lines /\ \A i \in DOMAIN lines : t[i] = lines[i] \/ t[i] = Corrupt
    OBVIOUS
  <2> HIDE DEF t
  <2>3. InOrder(t)
    BY <2>2 DEF InOrder
  <2>4. Readable(t) \subseteq Readable(lines)
    BY <2>2 DEF Readable
  <2> QED
    BY <2>1, <2>3, <2>4
<1>2. CASE ~torn
  <2> DEFINE t == Append(lines, line)
  <2>1. AddLine(lines, torn, line) = t
    BY <1>2 DEF AddLine
  <2>2. /\ DOMAIN t = 1 .. Len(lines) + 1 /\ DOMAIN lines = 1 .. Len(lines) /\ Len(lines) \in Nat
        /\ t[Len(lines) + 1] = line /\ \A i \in DOMAIN lines : t[i] = lines[i]
    OBVIOUS
  <2> HIDE DEF t
  <2>3. \A i \in DOMAIN t : i \in DOMAIN lines \/ i = Len(lines) + 1
    BY <2>2
  <2>4. ASSUME NEW i \in DOMAIN t, NEW j \in DOMAIN t, i < j,
               t[i] \in Snapshots, t[j] \in Snapshots, t[i].at = t[j].at
        PROVE  t[i].id < t[j].id
    <3>1. i \in DOMAIN lines /\ t[i] = lines[i]
      BY <2>2, <2>4
    <3>2. CASE j \in DOMAIN lines
      BY <2>2, <2>4, <3>1, <3>2 DEF InOrder
    <3>3. CASE j = Len(lines) + 1
      <4>1. t[i] \in Readable(lines)
        BY <2>4, <3>1 DEF Readable
      <4> QED
        BY <2>2, <2>4, <3>3, <4>1
    <3> QED
      BY <2>3, <3>2, <3>3
  <2>5. InOrder(t)
    BY <2>4 DEF InOrder
  <2>6. Readable(t) \subseteq Readable(lines) \cup ({line} \ {Corrupt})
    BY <2>2, <2>3 DEF Readable
  <2> QED
    BY <2>1, <2>5, <2>6
<1> QED
  BY <1>1, <1>2

\* The lines that decode, one by one.
LEMMA GoodLines ==
  ASSUME Corrupt \notin Snapshots, NEW lines \in Seq(Lines), InOrder(lines)
  PROVE  /\ Among(lines, Snapshots) \in Seq(Snapshots)
         /\ Elements(Among(lines, Snapshots)) = Readable(lines)
         /\ InOrder(Among(lines, Snapshots))
         /\ IsFiniteSet(Readable(lines))
         /\ Len(Among(lines, Snapshots)) = Cardinality(Readable(lines))
<1> DEFINE good == Among(lines, Snapshots)
<1>1. good \in Seq(Lines \cap Snapshots) /\ Elements(good) = Elements(lines) \cap Snapshots
  BY AmongElements
<1>2. Lines \cap Snapshots = Snapshots
  BY DEF Lines
<1>3. good \in Seq(Snapshots) /\ Elements(good) = Readable(lines)
  BY <1>1, <1>2, ReadableLines
<1>4. InOrder(good)
  BY AmongSorted
<1> HIDE DEF good
<1>5. IsFiniteSet(Elements(good)) /\ Cardinality(Elements(good)) = Len(good)
  BY <1>3, <1>4, OrderCounts
<1> QED
  BY <1>3, <1>4, <1>5 DEF good

\* What a scan with this cutoff knows of the file: how many lines decode, how
\* many of those it has dropped, which do not, and, in order, all that is newer.
Exact(scan, c, lines) ==
  /\ scan.total = Cardinality(Readable(lines))
  /\ scan.expired = Cardinality(Readable(lines) \ Elements(scan.retained))
  /\ scan.corrupt = {i \in DOMAIN lines : lines[i] = Corrupt}
  /\ Sorted(scan.retained)
  /\ Elements(scan.retained) \subseteq Readable(lines)
  /\ {x \in Readable(lines) : x.at > c} \subseteq Elements(scan.retained)

LEMMA ScanExact ==
  ASSUME Corrupt \notin Snapshots, NEW lines \in Seq(Lines), InOrder(lines), NEW c \in Int
  PROVE  Exact(ScanOf(lines, c), c, lines)
<1> DEFINE good == Among(lines, Snapshots)
           R    == After(good, c)
           E    == UpTo(good, c)
<1>1. /\ good \in Seq(Snapshots) /\ Elements(good) = Readable(lines) /\ InOrder(good)
      /\ Len(good) = Cardinality(Readable(lines))
  BY GoodLines
<1>2. ScanOf(lines, c) = [total |-> Len(good), expired |-> Len(E), retained |-> InTimeOrder(R),
                          corrupt |-> {i \in DOMAIN lines : lines[i] = Corrupt}]
  BY DEF ScanOf
<1> HIDE DEF good
<1>3. /\ R \in Seq(Snapshots) /\ Elements(R) = {x \in Readable(lines) : x.at > c}
      /\ E \in Seq(Snapshots) /\ Elements(E) = {x \in Readable(lines) : x.at <= c}
  BY <1>1, Filtered
<1>4. InOrder(R) /\ InOrder(E)
  BY <1>1, AmongSorted DEF After, UpTo
<1> HIDE DEF R, E
<1>5. /\ InTimeOrder(R) \in Seq(Snapshots) /\ Elements(InTimeOrder(R)) = Elements(R)
      /\ Sorted(InTimeOrder(R))
  BY <1>3, <1>4, InTimeOrderElements, InTimeOrderSorts
<1>6. Len(E) = Cardinality({x \in Readable(lines) : x.at <= c})
  BY <1>3, <1>4, OrderCounts
<1>7. {x \in Readable(lines) : x.at <= c} = Readable(lines) \ {x \in Readable(lines) : x.at > c}
  <2>1. \A x \in Readable(lines) : x \in Snapshots
    BY ReadableLines
  <2>2. \A x \in Snapshots : x.at \in Nat
    BY DEF Snapshots
  <2> QED
    BY <2>1, <2>2
<1> DEFINE found == ScanOf(lines, c)
<1>8. /\ found.total = Len(good) /\ found.expired = Len(E) /\ found.retained = InTimeOrder(R)
      /\ found.corrupt = {i \in DOMAIN lines : lines[i] = Corrupt}
  BY <1>2
<1> HIDE DEF found
<1>9. Elements(found.retained) = {x \in Readable(lines) : x.at > c}
  BY <1>3, <1>5, <1>8
<1>10. found.expired = Cardinality(Readable(lines) \ Elements(found.retained))
  BY <1>6, <1>7, <1>8, <1>9
<1>11. Sorted(found.retained)
  BY <1>5, <1>8
<1>12. Exact(found, c, lines)
  BY <1>1, <1>8, <1>9, <1>10, <1>11 DEF Exact
<1> QED
  BY <1>12 DEF found

\* A scan seen through a later cutoff is as exact.
LEMMA NarrowedExact ==
  ASSUME Corrupt \notin Snapshots, NEW lines \in Seq(Lines), InOrder(lines),
         NEW scan \in Scans, NEW b \in Int, NEW c \in Int, b <= c, Exact(scan, b, lines)
  PROVE  Exact(Narrowed(scan, c), c, lines)
<1> DEFINE R == After(scan.retained, c)
           E == UpTo(scan.retained, c)
           F == Readable(lines)
           K == Elements(scan.retained)
<1>1. /\ scan.retained \in Seq(Snapshots) /\ scan.expired \in Nat
      /\ scan.total \in Nat /\ scan.corrupt \in SUBSET Nat
  BY DEF Scans
<1>2. /\ R \in Seq(Snapshots) /\ Elements(R) = {x \in K : x.at > c}
      /\ E \in Seq(Snapshots) /\ Elements(E) = {x \in K : x.at <= c}
  BY <1>1, Filtered
<1>3. Sorted(R) /\ Sorted(E)
  BY <1>1, AmongSorted DEF Exact, After, UpTo
<1>4. /\ Narrowed(scan, c).total = scan.total /\ Narrowed(scan, c).corrupt = scan.corrupt
      /\ Narrowed(scan, c).retained = R /\ Narrowed(scan, c).expired = scan.expired + Len(E)
  BY DEF Narrowed, Scans
<1> HIDE DEF R, E
<1>5. \A x \in F : x \in Snapshots /\ x.at \in Nat
  <2>1. \A x \in F : x \in Snapshots
    BY ReadableLines
  <2>2. \A x \in Snapshots : x.at \in Nat
    BY DEF Snapshots
  <2> QED
    BY <2>1, <2>2
<1>6. scan.expired + Len(E) = Cardinality(F \ Elements(R))
  <2> DEFINE A == F \ K
             B == {x \in K : x.at <= c}
  <2>1. IsFiniteSet(F) /\ A \in SUBSET F /\ B \in SUBSET F
    BY GoodLines DEF Exact
  <2>2. IsFiniteSet(A) /\ IsFiniteSet(B)
    BY <2>1, FS_Subset
  <2>3. Cardinality(B) = Len(E) /\ Cardinality(A) = scan.expired
    BY <1>2, <1>3, OrderCounts DEF Exact
  <2>4. A \cap B = {} /\ A \cup B = F \ Elements(R)
    <3>1. K \subseteq F
      BY DEF Exact
    <3> QED
      BY <1>2, <1>5, <3>1
  <2> HIDE DEF A, B
  <2>5. Cardinality(A \cup B) = Cardinality(A) + Cardinality(B) - Cardinality(A \cap B)
    BY <2>2, FS_Union
  <2>6. Cardinality(A \cap B) = 0 /\ Cardinality(A) \in Nat /\ Cardinality(B) \in Nat
    BY <2>2, <2>4, FS_EmptySet, FS_CardinalityType
  <2>7. Cardinality(A \cup B) = Cardinality(A) + Cardinality(B)
    BY <2>5, <2>6
  <2>8. Cardinality(A) + Cardinality(B) = scan.expired + Len(E)
    BY <2>3
  <2> QED
    BY <2>4, <2>7, <2>8, Zenon
<1>7. {x \in F : x.at > c} \subseteq Elements(R)
  BY <1>2, <1>5 DEF Exact
<1> QED
  BY <1>2, <1>3, <1>4, <1>6, <1>7 DEF Exact

\* Two exact scans that keep the same are the same.
LEMMA ExactUnique ==
  ASSUME NEW lines, NEW s \in Scans, NEW t \in Scans, NEW b, NEW c,
         Exact(s, b, lines), Exact(t, c, lines), Elements(s.retained) = Elements(t.retained)
  PROVE  s = t
<1>1. s.retained = t.retained
  BY SortedUnique DEF Exact, Scans
<1>2. s.total = t.total /\ s.expired = t.expired /\ s.corrupt = t.corrupt
  BY DEF Exact
<1> QED
  BY <1>1, <1>2 DEF Scans

\* The cached scan after a line more.
LEMMA AppendedExact ==
  ASSUME Corrupt \notin Snapshots, NEW lines \in Seq(Lines), InOrder(lines),
         NEW scan \in Scans, NEW c \in Int, Exact(scan, c, lines),
         NEW x \in Snapshots, \A y \in Readable(lines) : y.id < x.id
  PROVE  Exact([total |-> scan.total + 1, expired |-> scan.expired,
                retained |-> Inserted(scan.retained, x), corrupt |-> scan.corrupt],
               c, AddLine(lines, FALSE, x))
<1> DEFINE F == Readable(lines)
           K == Elements(scan.retained)
           R == Inserted(scan.retained, x)
           new == AddLine(lines, FALSE, x)
<1>1. scan.retained \in Seq(Snapshots) /\ scan.total \in Nat
  BY DEF Scans
<1>2. R \in Seq(Snapshots) /\ Elements(R) = K \cup {x}
  BY <1>1, InsertedElements
<1>3. Sorted(R)
  BY <1>1, InsertedSorts DEF Exact
<1>4. Readable(new) = F \cup {x}
  BY LineAdded
<1>5. x \notin F
  <2>1. x.id \in Nat
    BY DEF Snapshots
  <2> QED
    BY <2>1
<1>6. Cardinality(F \cup {x}) = Cardinality(F) + 1
  BY <1>5, GoodLines, FS_AddElement
<1>7. {i \in DOMAIN new : new[i] = Corrupt} = {i \in DOMAIN lines : lines[i] = Corrupt}
  <2>1. new = Append(lines, x) /\ x \in Lines
    BY DEF AddLine, Lines
  <2> DEFINE t == Append(lines, x)
  <2>2. /\ DOMAIN t = 1 .. Len(lines) + 1 /\ DOMAIN lines = 1 .. Len(lines) /\ Len(lines) \in Nat
        /\ t[Len(lines) + 1] = x /\ \A i \in DOMAIN lines : t[i] = lines[i]
    BY <2>1
  <2>3. /\ DOMAIN new = 1 .. Len(lines) + 1 /\ DOMAIN lines = 1 .. Len(lines) /\ Len(lines) \in Nat
        /\ new[Len(lines) + 1] = x /\ \A i \in DOMAIN lines : new[i] = lines[i]
    BY <2>1, <2>2, Zenon
  <2> HIDE DEF new
  <2>4. \A i \in DOMAIN new : i \in DOMAIN lines \/ (i = Len(lines) + 1 /\ new[i] # Corrupt)
    BY <2>3
  <2>5. \A i \in DOMAIN lines : i \in DOMAIN new
    BY <2>3
  <2> QED
    BY <2>3, <2>4, <2>5
<1> HIDE DEF R, new
<1>8. (F \cup {x}) \ (K \cup {x}) = F \ K
  BY <1>5
<1> QED
  BY <1>2, <1>3, <1>4, <1>6, <1>7, <1>8 DEF Exact, R, new

\* The cached scan after a rewrite.
LEMMA RewrittenExact ==
  ASSUME Corrupt \notin Snapshots, NEW s \in Seq(Snapshots), Sorted(s), NEW c
  PROVE  Exact([total |-> Len(s), expired |-> 0, retained |-> s, corrupt |-> {}], c, s)
<1>1. Readable(s) = Elements(s)
  BY ReadableLines
<1>2. Len(s) = Cardinality(Readable(s))
  BY <1>1, OrderCounts
<1>3. Cardinality(Readable(s) \ Elements(s)) = 0
  BY <1>1, FS_EmptySet
<1>4. \A i \in DOMAIN s : s[i] # Corrupt
  OBVIOUS
<1> QED
  BY <1>1, <1>2, <1>3, <1>4 DEF Exact

\* Lines that hold snapshots of a set are as many as those snapshots.
LEMMA PositionsCount ==
  ASSUME NEW lines \in Seq(Lines), InOrder(lines), NEW S \in SUBSET (Readable(lines) \cap Snapshots)
  PROVE  /\ IsFiniteSet(S)
         /\ Cardinality({i \in DOMAIN lines : lines[i] \in S}) = Cardinality(S)
<1> DEFINE P == {i \in DOMAIN lines : lines[i] \in S}
           f == [i \in P |-> lines[i]]
<1>1. IsFiniteSet(P)
  <2>1. IsFiniteSet(1 .. Len(lines)) /\ P \in SUBSET (1 .. Len(lines))
    BY Counting
  <2> QED
    BY <2>1, FS_Subset
<1>2. P \subseteq Nat
  OBVIOUS
<1>3. \A x \in Snapshots : x.id \in Nat
  BY DEF Snapshots
<1>4. \A i, j \in P : i < j => lines[i] # lines[j]
  BY <1>3 DEF InOrder
<1>5. \A x \in S : \E i \in P : lines[i] = x
  BY DEF Readable
<1>6. f \in Bijection(P, S)
  <2>1. f \in [P -> S]
    OBVIOUS
  <2>2. \A i, j \in P : f[i] = f[j] => i = j
    BY <1>2, <1>4
  <2>3. \A x \in S : \E i \in P : f[i] = x
    BY <1>5
  <2> HIDE DEF f, P
  <2> QED
    BY <2>1, <2>2, <2>3 DEF Bijection, Injection, Surjection, IsInjective
<1>7. ExistsBijection(P, S)
  BY <1>6 DEF ExistsBijection
<1> HIDE DEF P
<1>8. IsFiniteSet(S) /\ Cardinality(S) = Cardinality(P)
  BY <1>1, <1>7, FS_Bijection
<1> QED
  BY <1>8 DEF P

=============================================================================
