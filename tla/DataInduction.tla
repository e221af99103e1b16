--------------------------- MODULE DataInduction ---------------------------
(***************************************************************************)
(* Induction without an operator as a parameter: over a set of numbers that*)
(* is given as a set, from the well-foundedness of < alone. With it, what  *)
(* the folds that the modules use compute, sums over finite sets and folds *)
(* over sequences, and that the recursive functions of the modules exist.  *)
(***************************************************************************)
EXTENDS FiniteSetsExt, FiniteSetTheorems, WellFoundedInduction, TLAPS

LEMMA Least ==
  ASSUME NEW T \in SUBSET Nat, T # {}
  PROVE  \E n \in T : \A m \in T : n <= m
<1> DEFINE R == OpToRel(<, Nat)
<1>1. IsWellFoundedOn(R, Nat)
  BY NatLessThanWellFounded
<1>2. \A m, n \in Nat : m < n => <<m, n>> \in R
  BY DEF R, OpToRel
<1> HIDE DEF R
<1>3. PICK n \in T : \A m \in T : <<m, n>> \notin R
  BY <1>1, WFMin
<1>4. \A m \in T : ~(m < n)
  BY <1>2, <1>3
<1>5. \A m \in T : n <= m
  BY <1>4
<1> QED
  BY <1>5

LEMMA Induction ==
  ASSUME NEW S, 0 \in S, \A n \in Nat : n \in S => n + 1 \in S
  PROVE  Nat \subseteq S
<1> DEFINE T == Nat \ S
<1>1. SUFFICES ASSUME T # {} PROVE FALSE
  OBVIOUS
<1>2. PICK n \in T : \A m \in T : n <= m
  BY <1>1, Least
<1>3. n - 1 \in Nat /\ n - 1 \notin T
  BY <1>2
<1> QED
  BY <1>2, <1>3

-----------------------------------------------------------------------------
(* The sum of the values of a function over a finite set, as FoldSet        *)
(* computes it.                                                             *)

Total(f, S) == FoldSet(LAMBDA q, n : n + f[q], 0, S)

\* The next element that FoldSet takes.
Pick(s) == CHOOSE x \in s : TRUE

\* g is the function FoldSet computes, on the sets of a family.
Sums(g, f, Family) ==
  g = [s \in Family |-> IF s = {} THEN 0 ELSE g[s \ {Pick(s)}] + f[Pick(s)]]

LEMMA TotalIs ==
  ASSUME NEW f, NEW S
  PROVE  Total(f, S) = (CHOOSE g : Sums(g, f, SUBSET S))[S]
BY DEF Total, FoldSet, MapThenFoldSet, Sums, Pick

LEMMA PickIn == \A s : s # {} => Pick(s) \in s
BY DEF Pick

\* There is one.
LEMMA SumsExist ==
  ASSUME NEW S, IsFiniteSet(S), NEW f, \A q \in S : f[q] \in Nat
  PROVE  \E g : Sums(g, f, SUBSET S)
<1> DEFINE Small(n) == {s \in SUBSET S : Cardinality(s) <= n}
           P(n) == \E g \in [Small(n) -> Nat] : Sums(g, f, Small(n))
           N == {n \in Nat : P(n)}
<1>1. \A s \in SUBSET S : IsFiniteSet(s) /\ Cardinality(s) \in Nat
  BY FS_Subset, FS_CardinalityType
<1>2. \A s \in SUBSET S : s # {} => s \ {Pick(s)} \in SUBSET S
                                  /\ Cardinality(s \ {Pick(s)}) = Cardinality(s) - 1
  <2>1. ASSUME NEW s \in SUBSET S, s # {}
        PROVE  Cardinality(s \ {Pick(s)}) = Cardinality(s) - 1
    BY <1>1, <2>1, PickIn, FS_RemoveElement
  <2> QED
    BY <2>1
<1>3. 0 \in N
  <2> DEFINE g == [s \in Small(0) |-> 0]
  <2>1. \A s \in Small(0) : s = {}
    BY <1>1, FS_EmptySet
  <2>2. Sums(g, f, Small(0))
    BY <2>1 DEF Sums
  <2>3. g \in [Small(0) -> Nat]
    OBVIOUS
  <2> QED
    BY <2>2, <2>3
<1>4. ASSUME NEW n \in Nat, n \in N PROVE n + 1 \in N
  <2>1. PICK g \in [Small(n) -> Nat] : Sums(g, f, Small(n))
    BY <1>4
  <2> DEFINE h == [s \in Small(n + 1) |->
                     IF s \in Small(n) THEN g[s] ELSE g[s \ {Pick(s)}] + f[Pick(s)]]
  <2>2. \A s \in Small(n) : s \in Small(n + 1)
    BY <1>1
  <2>3. \A s \in Small(n + 1) : s # {} => s \ {Pick(s)} \in Small(n) /\ f[Pick(s)] \in Nat
    BY <1>1, <1>2, PickIn
  <2>4. {} \in Small(n)
    BY FS_EmptySet
  <2>5. \A s \in Small(n) : g[s] = IF s = {} THEN 0 ELSE g[s \ {Pick(s)}] + f[Pick(s)]
    BY <2>1 DEF Sums
  <2> HIDE DEF Small
  <2>6. \A s \in Small(n + 1) :
          h[s] = IF s = {} THEN 0 ELSE h[s \ {Pick(s)}] + f[Pick(s)]
    <3>1. ASSUME NEW s \in Small(n + 1), s # {}
          PROVE  h[s] = h[s \ {Pick(s)}] + f[Pick(s)]
      <4>1. h[s \ {Pick(s)}] = g[s \ {Pick(s)}]
        BY <2>2, <2>3, <3>1
      <4> QED
        BY <2>5, <3>1, <4>1
    <3>2. h[{}] = 0
      BY <2>2, <2>4, <2>5
    <3> QED
      BY <3>1, <3>2
  <2>7. h \in [Small(n + 1) -> Nat]
    <3>1. \A s \in Small(n + 1) : s \notin Small(n) => s # {}
      BY <2>4
    <3>2. ASSUME NEW s \in Small(n + 1) PROVE h[s] \in Nat
      <4>1. CASE s \in Small(n)
        BY <4>1
      <4>2. CASE s \notin Small(n)
        <5>1. g[s \ {Pick(s)}] \in Nat /\ f[Pick(s)] \in Nat
          BY <2>3, <3>1, <4>2
        <5> QED
          BY <4>2, <5>1
      <4> QED
        BY <4>1, <4>2
    <3> QED
      BY <3>2
  <2>8. Sums(h, f, Small(n + 1))
    <3>1. h = [s \in Small(n + 1) |-> h[s]]
      OBVIOUS
    <3> HIDE DEF h
    <3> QED
      BY <2>6, <3>1 DEF Sums
  <2> HIDE DEF h
  <2> QED
    BY <2>7, <2>8
<1>5. Nat \subseteq N
  <2> HIDE DEF N
  <2> QED
    BY <1>3, <1>4, Induction
<1>6. Cardinality(S) \in N /\ Small(Cardinality(S)) = SUBSET S
  <2>1. \A s \in SUBSET S : Cardinality(s) <= Cardinality(S)
    BY FS_Subset
  <2> QED
    BY <1>1, <1>5, <2>1
<1> QED
  BY <1>6

\* What holds of the empty set and is kept by one more element holds of a finite
\* set and its subsets.
LEMMA SetInduction ==
  ASSUME NEW S, IsFiniteSet(S), NEW X, {} \in X,
         \A s \in SUBSET S : s # {} /\ s \ {Pick(s)} \in X => s \in X
  PROVE  SUBSET S \subseteq X
<1> DEFINE N == {n \in Nat : \A s \in SUBSET S : Cardinality(s) = n => s \in X}
<1>1. \A s \in SUBSET S : IsFiniteSet(s) /\ Cardinality(s) \in Nat
  BY FS_Subset, FS_CardinalityType
<1>2. 0 \in N
  BY <1>1, FS_EmptySet
<1>3. ASSUME NEW n \in Nat, n \in N PROVE n + 1 \in N
  <2>1. ASSUME NEW s \in SUBSET S, Cardinality(s) = n + 1 PROVE s \in X
    <3>1. s # {} /\ Pick(s) \in s
      BY <2>1, FS_EmptySet, PickIn
    <3>2. s \ {Pick(s)} \in SUBSET S
      OBVIOUS
    <3>3. Cardinality(s \ {Pick(s)}) = n
      BY <1>1, <2>1, <3>1, FS_RemoveElement
    <3> QED
      BY <1>3, <3>1, <3>2, <3>3
  <2> QED
    BY <2>1
<1>4. Nat \subseteq N
  <2> HIDE DEF N
  <2> QED
    BY <1>2, <1>3, Induction
<1> QED
  BY <1>1, <1>4

\* The function that FoldSet computes, step by step.
Steps(g, f, S) ==
  /\ \A s \in SUBSET S : g[s] \in Nat
  /\ g[{}] = 0
  /\ \A s \in SUBSET S : s # {} => g[s] = g[s \ {Pick(s)}] + f[Pick(s)]

LEMMA TotalSteps ==
  ASSUME NEW S, IsFiniteSet(S), NEW f, \A q \in S : f[q] \in Nat
  PROVE  \E g : Total(f, S) = g[S] /\ Steps(g, f, S)
<1> DEFINE g == CHOOSE g : Sums(g, f, SUBSET S)
           X == {s \in SUBSET S : g[s] \in Nat}
<1>1. Sums(g, f, SUBSET S)
  BY SumsExist
<1>2. Total(f, S) = g[S]
  BY TotalIs
<1> HIDE DEF g
<1>3. /\ g[{}] = 0
      /\ \A s \in SUBSET S : s # {} => g[s] = g[s \ {Pick(s)}] + f[Pick(s)]
  <2>1. \A s \in SUBSET S : g[s] = IF s = {} THEN 0 ELSE g[s \ {Pick(s)}] + f[Pick(s)]
    <3>1. g = [s \in SUBSET S |-> IF s = {} THEN 0 ELSE g[s \ {Pick(s)}] + f[Pick(s)]]
      BY <1>1 DEF Sums
    <3> QED
      BY <3>1
  <2>2. {} \in SUBSET S
    OBVIOUS
  <2> QED
    BY <2>1, <2>2
<1>4. {} \in X
  BY <1>3
<1>5. ASSUME NEW s \in SUBSET S, s # {}, s \ {Pick(s)} \in X PROVE s \in X
  <2>1. f[Pick(s)] \in Nat
    BY <1>5, PickIn
  <2> QED
    BY <1>3, <1>5, <2>1
<1>6. SUBSET S \subseteq X
  <2> HIDE DEF X
  <2> QED
    BY <1>4, <1>5, SetInduction
<1>7. Steps(g, f, S)
  BY <1>3, <1>6 DEF Steps
<1> QED
  BY <1>2, <1>7

\* A change of one value changes the sum by as much.
LEMMA TotalChanges ==
  ASSUME NEW S, IsFiniteSet(S), NEW f, NEW h, NEW p, NEW d \in Nat,
         \A q \in S : f[q] \in Nat /\ h[q] = IF q = p THEN f[q] + d ELSE f[q]
  PROVE  /\ Total(f, S) \in Nat
         /\ Total(h, S) = Total(f, S) + (IF p \in S THEN d ELSE 0)
<1> DEFINE more(s) == IF p \in s THEN d ELSE 0
<1>1. PICK F : Total(f, S) = F[S] /\ Steps(F, f, S)
  BY TotalSteps
<1>2. \A q \in S : h[q] \in Nat
  OBVIOUS
<1>3. PICK H : Total(h, S) = H[S] /\ Steps(H, h, S)
  BY <1>2, TotalSteps
<1> DEFINE X == {s \in SUBSET S : H[s] = F[s] + more(s)}
<1>4. {} \in X
  BY <1>1, <1>3 DEF Steps
<1>5. ASSUME NEW s \in SUBSET S, s # {}, s \ {Pick(s)} \in X PROVE s \in X
  <2> DEFINE x == Pick(s)
             u == s \ {x}
  <2>1. x \in s /\ f[x] \in Nat /\ F[u] \in Nat
    BY <1>1, <1>5, PickIn DEF Steps
  <2>2. F[s] = F[u] + f[x] /\ H[s] = H[u] + h[x] /\ H[u] = F[u] + more(u)
    BY <1>1, <1>3, <1>5 DEF Steps
  <2>3. CASE p = x
    <3>1. more(u) = 0 /\ more(s) = d /\ h[x] = f[x] + d
      BY <2>1, <2>3
    <3> HIDE DEF more, u, x
    <3>2. H[s] = F[s] + more(s)
      BY <2>1, <2>2, <3>1
    <3> QED
      BY <3>2
  <2>4. CASE p # x
    <3>1. more(u) = more(s) /\ h[x] = f[x] /\ more(u) \in Nat
      BY <2>1, <2>4
    <3> HIDE DEF more, u, x
    <3>2. H[s] = F[s] + more(s)
      BY <2>1, <2>2, <3>1
    <3> QED
      BY <3>2
  <2> QED
    BY <2>3, <2>4
<1>6. SUBSET S \subseteq X
  <2> HIDE DEF X
  <2> QED
    BY <1>4, <1>5, SetInduction
<1> QED
  BY <1>1, <1>3, <1>6 DEF Steps

\* A sum of zeros.
LEMMA TotalZero ==
  ASSUME NEW S, IsFiniteSet(S), NEW f, \A q \in S : f[q] = 0
  PROVE  Total(f, S) = 0
<1>1. PICK F : Total(f, S) = F[S] /\ Steps(F, f, S)
  BY TotalSteps
<1> DEFINE X == {s \in SUBSET S : F[s] = 0}
<1>2. {} \in X
  BY <1>1 DEF Steps
<1>3. ASSUME NEW s \in SUBSET S, s # {}, s \ {Pick(s)} \in X PROVE s \in X
  <2>1. f[Pick(s)] = 0
    BY <1>3, PickIn
  <2> QED
    BY <1>1, <1>3, <2>1 DEF Steps
<1>4. SUBSET S \subseteq X
  <2> HIDE DEF X
  <2> QED
    BY <1>2, <1>3, SetInduction
<1> QED
  BY <1>1, <1>4

-----------------------------------------------------------------------------
(* Folds over a sequence of n members, as FoldLeft computes them: over the  *)
(* subsets of 1 .. n, the largest position last. T says what a step makes of*)
(* the value so far and of a position.                                      *)

Folded(h, T, base, n) ==
  h = [s \in SUBSET (1 .. n) |-> IF s = {} THEN base ELSE T[<<h[s \ {Max(s)}], Max(s)>>]]

LEMMA MaxIn ==
  ASSUME NEW n \in Nat, NEW s \in SUBSET (1 .. n), s # {}
  PROVE  Max(s) \in s /\ \A i \in s : i <= Max(s)
<1> DEFINE gaps == {n - i : i \in s}
<1>0. \A i \in s : i \in Nat /\ n - i \in Nat /\ n - i \in gaps
  OBVIOUS
<1>1. gaps \in SUBSET Nat /\ gaps # {}
  BY <1>0
<1>2. PICK g \in gaps : \A k \in gaps : g <= k
  BY <1>1, Least
<1>3. PICK m \in s : g = n - m
  BY <1>2
<1> HIDE DEF gaps
<1>4. \A i \in s : m >= i
  <2>1. ASSUME NEW i \in s PROVE m >= i
    <3>1. n - m <= n - i /\ i \in Nat /\ m \in Nat
      BY <1>0, <1>2, <1>3
    <3> QED
      BY <3>1
  <2> QED
    BY <2>1
<1> QED
  BY <1>4 DEF Max

LEMMA MaxOfPrefix ==
  ASSUME NEW i \in Nat \ {0}
  PROVE  1 .. i # {} /\ Max(1 .. i) = i /\ (1 .. i) \ {i} = 1 .. i - 1
<1>1. 1 .. i # {} /\ (1 .. i) \ {i} = 1 .. i - 1
  OBVIOUS
<1>2. Max(1 .. i) \in 1 .. i /\ \A j \in 1 .. i : j <= Max(1 .. i)
  BY <1>1, MaxIn
<1> QED
  BY <1>1, <1>2

LEMMA FoldedExists ==
  ASSUME NEW n \in Nat, NEW V, NEW base \in V, NEW T \in [V \X (1 .. n) -> V]
  PROVE  \E h \in [SUBSET (1 .. n) -> V] : Folded(h, T, base, n)
<1> DEFINE Low(k) == {s \in SUBSET (1 .. n) : \A i \in s : i <= k}
           Fits(h, F) == h = [s \in F |-> IF s = {} THEN base ELSE T[<<h[s \ {Max(s)}], Max(s)>>]]
           N == {k \in Nat : \E h \in [Low(k) -> V] : Fits(h, Low(k))}
<1>1. 0 \in N
  <2> DEFINE h == [s \in Low(0) |-> base]
  <2>1. \A s \in Low(0) : s = {}
    OBVIOUS
  <2>2. h \in [Low(0) -> V] /\ Fits(h, Low(0))
    BY <2>1
  <2> QED
    BY <2>2
<1>2. ASSUME NEW k \in Nat, k \in N PROVE k + 1 \in N
  <2>1. PICK g \in [Low(k) -> V] : Fits(g, Low(k))
    BY <1>2
  <2> DEFINE h == [s \in Low(k + 1) |->
                     IF s \in Low(k) THEN g[s] ELSE T[<<g[s \ {Max(s)}], Max(s)>>]]
  <2>2. \A s \in Low(k) : s \in Low(k + 1)
    OBVIOUS
  <2>3. \A s \in Low(k + 1) : s # {} => Max(s) \in s /\ Max(s) \in 1 .. n
    BY MaxIn
  <2>4. \A s \in Low(k + 1) : s # {} => s \ {Max(s)} \in Low(k)
    <3>1. ASSUME NEW s \in Low(k + 1), s # {} PROVE s \ {Max(s)} \in Low(k)
      <4>1. Max(s) \in s /\ \A i \in s : i <= Max(s)
        BY <3>1, MaxIn
      <4> DEFINE top == Max(s)
      <4>2. \A i \in s : i \in Nat /\ i <= k + 1
        OBVIOUS
      <4> HIDE DEF top
      <4>3. top \in Nat /\ top <= k + 1 /\ \A i \in s : i <= top
        BY <4>1, <4>2 DEF top
      <4>4. ASSUME NEW i \in s \ {top} PROVE i <= k
        <5>1. i \in Nat /\ i <= top /\ i # top
          BY <4>2, <4>3
        <5> QED
          BY <4>3, <5>1
      <4> QED
        BY <4>4 DEF top
    <3> QED
      BY <3>1
  <2>5. {} \in Low(k)
    OBVIOUS
  <2>6. \A s \in Low(k) : g[s] = IF s = {} THEN base ELSE T[<<g[s \ {Max(s)}], Max(s)>>]
    BY <2>1
  <2> HIDE DEF Low
  <2>7. h \in [Low(k + 1) -> V]
    <3>1. ASSUME NEW s \in Low(k + 1) PROVE h[s] \in V
      <4>1. CASE s \in Low(k)
        BY <4>1
      <4>2. CASE s \notin Low(k)
        <5>1. s # {}
          BY <2>5, <4>2
        <5>2. g[s \ {Max(s)}] \in V /\ Max(s) \in 1 .. n
          BY <2>3, <2>4, <5>1
        <5> QED
          BY <4>2, <5>2
      <4> QED
        BY <4>1, <4>2
    <3> QED
      BY <3>1
  <2>8. \A s \in Low(k + 1) : h[s] = IF s = {} THEN base ELSE T[<<h[s \ {Max(s)}], Max(s)>>]
    <3>1. ASSUME NEW s \in Low(k + 1), s # {} PROVE h[s] = T[<<h[s \ {Max(s)}], Max(s)>>]
      <4>1. h[s \ {Max(s)}] = g[s \ {Max(s)}]
        BY <2>2, <2>4, <3>1
      <4> QED
        BY <2>6, <3>1, <4>1
    <3>2. h[{}] = base
      BY <2>2, <2>5, <2>6
    <3> QED
      BY <3>1, <3>2
  <2>9. Fits(h, Low(k + 1))
    <3>1. h = [s \in Low(k + 1) |-> h[s]]
      OBVIOUS
    <3> HIDE DEF h
    <3> QED
      BY <2>8, <3>1
  <2> HIDE DEF h, Fits
  <2> QED
    BY <2>7, <2>9
<1>3. Nat \subseteq N
  <2> HIDE DEF N
  <2> QED
    BY <1>1, <1>2, Induction
<1>4. n \in N /\ Low(n) = SUBSET (1 .. n)
  <2>1. n \in N
    BY <1>3
  <2>2. \A s \in SUBSET (1 .. n) : \A i \in s : i <= n
    OBVIOUS
  <2> QED
    BY <2>1, <2>2
<1> HIDE DEF Low
<1>5. PICK h \in [Low(n) -> V] : Fits(h, Low(n))
  BY <1>4
<1> QED
  BY <1>4, <1>5 DEF Folded

\* A recursive function of the numbers up to n.
Recursive(e, T, base, n) ==
  e[0] = base /\ \A i \in 1 .. n : e[i] = T[<<e[i - 1], i>>]

LEMMA RecursionExists ==
  ASSUME NEW n \in Nat, NEW V, NEW base \in V, NEW T \in [V \X (1 .. n) -> V]
  PROVE  \E e \in [0 .. n -> V] : Recursive(e, T, base, n)
<1>1. PICK h \in [SUBSET (1 .. n) -> V] : Folded(h, T, base, n)
  BY FoldedExists
<1>2. \A s \in SUBSET (1 .. n) :
        h[s] = IF s = {} THEN base ELSE T[<<h[s \ {Max(s)}], Max(s)>>]
  BY <1>1 DEF Folded
<1> DEFINE e == [i \in 0 .. n |-> h[1 .. i]]
<1>3. \A i \in 0 .. n : 1 .. i \in SUBSET (1 .. n)
  OBVIOUS
<1>4. e \in [0 .. n -> V]
  BY <1>3
<1>5. e[0] = base
  <2>1. 1 .. 0 = {} /\ 1 .. 0 \in SUBSET (1 .. n)
    OBVIOUS
  <2>2. h[{}] = base
    BY <1>2, <2>1
  <2> QED
    BY <2>1, <2>2
<1>6. ASSUME NEW i \in 1 .. n PROVE e[i] = T[<<e[i - 1], i>>]
  <2>1. 1 .. i # {} /\ Max(1 .. i) = i /\ (1 .. i) \ {i} = 1 .. i - 1
    BY MaxOfPrefix
  <2> DEFINE s == 1 .. i
  <2>2. s \in SUBSET (1 .. n)
    OBVIOUS
  <2>3. s # {} /\ Max(s) = i /\ s \ {i} = 1 .. i - 1
    BY <2>1
  <2> HIDE DEF s
  <2>4. h[s] = T[<<h[s \ {Max(s)}], Max(s)>>]
    BY <1>2, <2>2, <2>3
  <2>5. h[s] = T[<<h[1 .. i - 1], i>>]
    BY <2>3, <2>4
  <2>6. e[i] = h[s] /\ e[i - 1] = h[1 .. i - 1]
    BY DEF s
  <2> QED
    BY <2>5, <2>6
<1> QED
  BY <1>4, <1>5, <1>6 DEF Recursive

\* A recursive function that goes on at a later number, until it is past n.
Onward(f, T, base, hop, n) ==
  \A p \in 0 .. n : f[p] = IF hop[p] > n THEN base ELSE T[<<p, f[hop[p]]>>]

LEMMA OnwardExists ==
  ASSUME NEW n \in Nat, NEW V, NEW base \in V, NEW T \in [(0 .. n) \X V -> V],
         NEW hop \in [0 .. n -> Nat], \A p \in 0 .. n : hop[p] > p
  PROVE  \E f \in [0 .. n -> V] : Onward(f, T, base, hop, n)
<1> DEFINE Value(f, p) == IF hop[p] > n THEN base ELSE T[<<p, f[hop[p]]>>]
           Late(f, k) == \A p \in 0 .. n : p > n - k => f[p] = Value(f, p)
           N == {k \in Nat : k <= n + 1 => \E f \in [0 .. n -> V] : Late(f, k)}
<1>1. 0 \in N
  <2> DEFINE f == [p \in 0 .. n |-> base]
  <2>1. f \in [0 .. n -> V] /\ Late(f, 0)
    OBVIOUS
  <2> HIDE DEF f, Late
  <2> QED
    BY <2>1
<1>2. ASSUME NEW k \in Nat, k \in N PROVE k + 1 \in N
  <2> SUFFICES ASSUME k + 1 <= n + 1 PROVE \E f \in [0 .. n -> V] : Late(f, k + 1)
    <3> HIDE DEF Late
    <3> QED
      OBVIOUS
  <2>1. PICK f \in [0 .. n -> V] : Late(f, k)
    BY <1>2
  <2> DEFINE q == n - k
             g == [p \in 0 .. n |-> IF p = q THEN Value(f, p) ELSE f[p]]
  <2>2. q \in 0 .. n /\ \A p \in 0 .. n : p > n - (k + 1) <=> p = q \/ p > q
    OBVIOUS
  <2>3. ASSUME NEW p \in 0 .. n PROVE Value(f, p) \in V
    <3>1. CASE hop[p] > n
      BY <3>1
    <3>2. CASE ~(hop[p] > n)
      <4>1. hop[p] \in 0 .. n
        BY <3>2
      <4> QED
        BY <3>2, <4>1
    <3> QED
      BY <3>1, <3>2
  <2>4. g \in [0 .. n -> V]
    <3> HIDE DEF Value
    <3> QED
      BY <2>3
  <2>5. ASSUME NEW p \in 0 .. n, p = q \/ p > q PROVE Value(g, p) = Value(f, p)
    <3>1. CASE hop[p] > n
      BY <3>1
    <3>2. CASE ~(hop[p] > n)
      <4>1. hop[p] \in 0 .. n /\ hop[p] # q
        BY <2>2, <2>5, <3>2
      <4>2. g[hop[p]] = f[hop[p]]
        <5> HIDE DEF Value
        <5> QED
          BY <4>1
      <4> HIDE DEF g
      <4> QED
        BY <3>2, <4>2
    <3> QED
      BY <3>1, <3>2
  <2>6. \A p \in 0 .. n : p > q => f[p] = Value(f, p)
    BY <2>1
  <2> HIDE DEF Value
  <2>7. \A p \in 0 .. n : p = q \/ p > q => g[p] = Value(f, p)
    BY <2>6
  <2> HIDE DEF g, q
  <2>8. Late(g, k + 1)
    BY <2>2, <2>5, <2>7
  <2> HIDE DEF Late
  <2> QED
    BY <2>4, <2>8
<1>3. \A k \in N : k <= n + 1 => \E f \in [0 .. n -> V] : Late(f, k)
  OBVIOUS
<1>4. n + 1 \in N
  <2> HIDE DEF N
  <2> QED
    BY <1>1, <1>2, Induction
<1>5. PICK f \in [0 .. n -> V] : Late(f, n + 1)
  <2> HIDE DEF N, Late
  <2> QED
    BY <1>3, <1>4
<1>6. \A p \in 0 .. n : p > n - (n + 1)
  OBVIOUS
<1>7. Onward(f, T, base, hop, n)
  BY <1>5, <1>6 DEF Onward
<1> HIDE DEF Late
<1> QED
  BY <1>7

=============================================================================
