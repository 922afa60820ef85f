---------------------------- MODULE Algorithms_proofs ----------------------------
(***************************************************************************)
(* Disclosure control, escalation clauses, the ledger of quality           *)
(* adjustments and the contributions to an aggregate, for inputs of any    *)
(* length: tables with any number of cells, any index and any payments,    *)
(* any panel and any ledger, any columns.                                  *)
(***************************************************************************)
EXTENDS Algorithms, FiniteSets, FiniteSetTheorems, SequenceTheorems, WellFoundedInduction, TLAPS

\* What is missing is no number.
Distinct == NA \notin Int

-----------------------------------------------------------------------------
(* Minima, and folds over sequences *)

LEMMA LeastNumber ==
  ASSUME NEW T \in SUBSET Nat, T # {}
  PROVE  \E x \in T : \A y \in T : x <= y
<1>1. PICK x \in T : \A y \in T : <<y, x>> \notin OpToRel(<, Nat)
  BY WFMin, NatLessThanWellFounded
<1>2. \A y \in T : ~(y < x)
  BY <1>1 DEF OpToRel
<1> QED BY <1>2

\* A finite set of cells has one whose value is least.
LEMMA LeastOf ==
  ASSUME NEW S, IsFiniteSet(S), S # {}, NEW f, \A i \in S : f[i] \in Int
  PROVE  \E i \in S : \A j \in S : f[i] <= f[j]
<1> DEFINE Least(T) == \E i \in T : \A j \in T : f[i] <= f[j]
           Bad == {n \in Nat : \E T \in SUBSET S : T # {} /\ Cardinality(T) = n /\ ~Least(T)}
<1>1. \A T \in SUBSET S : IsFiniteSet(T) /\ Cardinality(T) \in Nat
  BY FS_Subset, FS_CardinalityType
<1>2. SUFFICES ASSUME Bad # {} PROVE FALSE
  BY <1>1
<1>3. PICK n \in Bad : \A m \in Bad : n <= m
  <2>1. Bad \in SUBSET Nat
    OBVIOUS
  <2> HIDE DEF Bad
  <2> QED BY <1>2, <2>1, LeastNumber
<1>4. PICK T \in SUBSET S : T # {} /\ Cardinality(T) = n /\ ~Least(T)
  OBVIOUS
<1>5. PICK x : x \in T
  BY <1>4
<1>6. Cardinality(T \ {x}) = n - 1
  BY <1>1, <1>4, <1>5, FS_RemoveElement
<1>7. T \ {x} # {}
  <2>1. SUFFICES ASSUME T = {x} PROVE FALSE
    BY <1>5
  <2> QED BY <1>4, <1>5, <2>1
<1>8. n - 1 \in Nat /\ n - 1 \notin Bad
  BY <1>1, <1>3, <1>6
<1>9. Least(T \ {x})
  BY <1>6, <1>7, <1>8
<1>10. PICK i \in T \ {x} : \A j \in T \ {x} : f[i] <= f[j]
  BY <1>9
<1>11. f[x] \in Int /\ f[i] \in Int /\ \A j \in T : f[j] \in Int
  BY <1>5, <1>10
<1>12. CASE f[i] <= f[x]
  BY <1>4, <1>10, <1>12
<1>13. CASE f[x] <= f[i]
  BY <1>4, <1>5, <1>10, <1>11, <1>13
<1> QED BY <1>11, <1>12, <1>13

\* The member a fold over a set of positions takes last.
Top(s) == CHOOSE x \in s : \A y \in s : x >= y

LEMMA TopOf ==
  ASSUME NEW m \in Nat, NEW s \in SUBSET (1..m), m \in s
  PROVE  Top(s) = m
<1>1. \A y \in s : y \in Nat /\ m >= y
  OBVIOUS
<1>2. \E x \in s : \A y \in s : x >= y
  BY <1>1
<1>3. Top(s) \in s /\ Top(s) >= m
  BY <1>2 DEF Top
<1>4. Top(s) \in Nat /\ m >= Top(s)
  BY <1>1, <1>3
<1> QED BY <1>3, <1>4

LEMMA TopIsMember ==
  ASSUME NEW n \in Nat, NEW s \in SUBSET (1..n), s # {}
  PROVE  Top(s) \in s
<1> DEFINE B == {m \in Nat : \A y \in s : y <= m}
<1>1. n \in B /\ B \in SUBSET Nat
  OBVIOUS
<1>2. PICK m \in B : \A k \in B : m <= k
  <2> HIDE DEF B
  <2> QED BY <1>1, LeastNumber
<1>3. m \in s
  <2>1. SUFFICES ASSUME m \notin s PROVE FALSE
    OBVIOUS
  <2>2. PICK y \in s : y \in 1..n
    OBVIOUS
  <2>3. m \in Nat /\ y <= m /\ y # m
    BY <2>1, <2>2
  <2>4. m - 1 \in Nat
    BY <2>2, <2>3
  <2>5. \A z \in s : z <= m - 1
    BY <2>1
  <2>6. m - 1 \in B
    BY <2>4, <2>5
  <2> QED BY <1>2, <2>3, <2>6
<1> QED BY <1>3 DEF Top

\* g is the fold of the step F from base, over every set of positions up to n.
Folding(g, F, base, n) ==
  \A s \in SUBSET (1..n) : g[s] = IF s = {} THEN base ELSE F[<<g[s \ {Top(s)}], Top(s)>>]

\* A step that never leaves D has a fold.
LEMMA FoldExists ==
  ASSUME NEW n \in Nat, NEW D, NEW base \in D, NEW F \in [D \X (1..n) -> D]
  PROVE  \E g \in [SUBSET (1..n) -> D] : Folding(g, F, base, n)
<1> DEFINE Folds(m, g) ==
             \A s \in SUBSET (1..m) : g[s] = IF s = {} THEN base ELSE F[<<g[s \ {Top(s)}], Top(s)>>]
           Good(m) == \E g \in [SUBSET (1..m) -> D] : Folds(m, g)
           Bad == {m \in 0..n : ~Good(m)}
<1>1. Good(0)
  <2>1. SUBSET (1..0) = {{}}
    OBVIOUS
  <2>2. [s \in SUBSET (1..0) |-> base] \in [SUBSET (1..0) -> D]
    OBVIOUS
  <2>3. Folds(0, [s \in SUBSET (1..0) |-> base])
    BY <2>1
  <2> HIDE DEF Folds
  <2> QED BY <2>2, <2>3
<1>2. ASSUME NEW m \in 0..(n - 1), Good(m) PROVE Good(m + 1)
  <2>1. PICK g \in [SUBSET (1..m) -> D] : Folds(m, g)
    BY <1>2
  <2> DEFINE step(s) == F[<<g[s \ {m + 1}], m + 1>>]
             f == [s \in SUBSET (1..(m + 1)) |-> IF m + 1 \in s THEN step(s) ELSE g[s]]
  <2>2. \A s \in SUBSET (1..(m + 1)) : s \ {m + 1} \in SUBSET (1..m)
    OBVIOUS
  <2>3. \A s \in SUBSET (1..(m + 1)) : m + 1 \notin s => s \in SUBSET (1..m)
    OBVIOUS
  <2>4. m + 1 \in 1..n /\ m \in Nat
    OBVIOUS
  <2>5. f \in [SUBSET (1..(m + 1)) -> D]
    <3>1. ASSUME NEW s \in SUBSET (1..(m + 1)) PROVE step(s) \in D
      <4>1. g[s \ {m + 1}] \in D
        BY <2>2
      <4> QED BY <2>4, <4>1
    <3>2. ASSUME NEW s \in SUBSET (1..(m + 1)), m + 1 \notin s PROVE g[s] \in D
      BY <2>3, <3>2
    <3> HIDE DEF step
    <3> QED BY <3>1, <3>2
  <2>6. ASSUME NEW s \in SUBSET (1..(m + 1)), m + 1 \notin s PROVE f[s] = g[s] /\ s \in SUBSET (1..m)
    BY <2>3, <2>6
  <2>7. ASSUME NEW s \in SUBSET (1..(m + 1)), m + 1 \in s
        PROVE  f[s] = F[<<f[s \ {Top(s)}], Top(s)>>]
    <3>1. Top(s) = m + 1
      BY <2>4, <2>7, TopOf
    <3>2. f[s \ {m + 1}] = g[s \ {m + 1}]
      BY <2>2, <2>6
    <3>3. f[s] = F[<<g[s \ {m + 1}], m + 1>>]
      BY <2>7
    <3> HIDE DEF f
    <3> QED BY <3>1, <3>2, <3>3
  <2>8. ASSUME NEW s \in SUBSET (1..(m + 1)), m + 1 \notin s, s # {}
        PROVE  f[s] = F[<<f[s \ {Top(s)}], Top(s)>>]
    <3>1. s \ {Top(s)} \in SUBSET (1..m) /\ s \in SUBSET (1..m) /\ m + 1 \notin s \ {Top(s)}
      BY <2>3, <2>8
    <3>2. f[s \ {Top(s)}] = g[s \ {Top(s)}] /\ f[s] = g[s]
      BY <2>4, <3>1, <2>6, <2>8
    <3>3. g[s] = F[<<g[s \ {Top(s)}], Top(s)>>]
      BY <2>1, <2>8, <3>1
    <3> HIDE DEF f
    <3> QED BY <3>2, <3>3
  <2>9. f[{}] = base
    <3>1. g[{}] = base
      BY <2>1
    <3> QED BY <3>1
  <2>10. Folds(m + 1, f)
    <3> HIDE DEF f
    <3> QED BY <2>7, <2>8, <2>9
  <2> HIDE DEF f, Folds
  <2> QED BY <2>5, <2>10
<1>3. Bad = {}
  <2>1. SUFFICES ASSUME Bad # {} PROVE FALSE
    OBVIOUS
  <2>2. PICK m \in Bad : \A k \in Bad : m <= k
    <3>1. Bad \in SUBSET Nat
      OBVIOUS
    <3> HIDE DEF Bad
    <3> QED BY <2>1, <3>1, LeastNumber
  <2> HIDE DEF Good
  <2>3. m # 0 /\ m \in 0..n
    BY <1>1, <2>2
  <2>4. m - 1 \in 0..(n - 1) /\ m - 1 \notin Bad
    BY <2>2, <2>3
  <2>5. Good(m - 1)
    BY <2>4
  <2>6. Good((m - 1) + 1)
    BY <1>2, <2>4, <2>5
  <2>7. (m - 1) + 1 = m
    BY <2>3
  <2> QED BY <2>2, <2>6, <2>7
<1>4. n \in 0..n
  OBVIOUS
<1>5. Good(n)
  <2> HIDE DEF Good
  <2> QED BY <1>3, <1>4
<1> QED BY <1>5 DEF Folding

\* A fold that starts in D and does not leave it in one step ends in D.
LEMMA FoldStays ==
  ASSUME NEW n \in Nat, NEW D, NEW h, h[{}] \in D,
         \A m \in 1..n : h[1..(m - 1)] \in D => h[1..m] \in D
  PROVE  h[1..n] \in D
<1> DEFINE Bad == {m \in 0..n : h[1..m] \notin D}
<1>1. SUFFICES ASSUME Bad # {} PROVE FALSE
  OBVIOUS
<1>2. PICK m \in Bad : \A k \in Bad : m <= k
  <2>1. Bad \in SUBSET Nat
    OBVIOUS
  <2> HIDE DEF Bad
  <2> QED BY <1>1, <2>1, LeastNumber
<1>3. h[1..0] \in D
  <2>1. 1..0 = {}
    OBVIOUS
  <2> QED BY <2>1
<1>4. m \in 1..n
  BY <1>2, <1>3
<1>5. m - 1 \in 0..n /\ m - 1 \notin Bad
  BY <1>2, <1>4
<1>6. h[1..(m - 1)] \in D
  BY <1>5
<1> QED BY <1>2, <1>4, <1>6

LEMMA Prefix ==
  ASSUME NEW n \in Nat, NEW m \in 1..n
  PROVE  /\ 1..m \in SUBSET (1..n) /\ 1..m # {} /\ Top(1..m) = m
         /\ (1..m) \ {Top(1..m)} = 1..(m - 1)
<1>1. m \in Nat /\ m \in 1..m /\ 1..m \in SUBSET (1..n)
  OBVIOUS
<1>2. Top(1..m) = m
  BY <1>1, TopOf
<1>3. (1..m) \ {m} = 1..(m - 1)
  BY <1>1
<1> QED BY <1>1, <1>2, <1>3

\* The sum of whole numbers is whole.
LEMMA SumIsInt ==
  ASSUME NEW seq \in Seq(Int)
  PROVE  Cls!FoldLeft(+, 0, seq) \in Int
<1> DEFINE n == Len(seq)
           F == [x \in Int \X (1..n) |-> x[1] + seq[x[2]]]
           Sums(f) == f = [s \in SUBSET (1..n) |-> IF s = {} THEN 0 ELSE f[s \ {Top(s)}] + seq[Top(s)]]
           h == CHOOSE f : Sums(f)
<1>1. n \in Nat /\ DOMAIN seq = 1..n /\ \A i \in 1..n : seq[i] \in Int
  OBVIOUS
<1>2. \E f : Sums(f)
  <2>1. F \in [Int \X (1..n) -> Int]
    BY <1>1
  <2>2. PICK g \in [SUBSET (1..n) -> Int] : Folding(g, F, 0, n)
    <3>1. 0 \in Int
      OBVIOUS
    <3> HIDE DEF F, n
    <3> QED BY <1>1, <2>1, <3>1, FoldExists
  <2>3. ASSUME NEW s \in SUBSET (1..n), s # {}
        PROVE  F[<<g[s \ {Top(s)}], Top(s)>>] = g[s \ {Top(s)}] + seq[Top(s)]
    <3>1. Top(s) \in 1..n
      BY <1>1, <2>3, TopIsMember
    <3>2. g[s \ {Top(s)}] \in Int
      OBVIOUS
    <3> QED BY <3>1, <3>2
  <2>4. Sums(g)
    <3> HIDE DEF F, n
    <3> QED BY <2>2, <2>3 DEF Folding
  <2> QED BY <2>4
<1>3. Sums(h)
  <2> HIDE DEF Sums
  <2> QED BY <1>2
<1>4. Cls!FoldLeft(+, 0, seq) = h[1..n]
  BY <1>1 DEF Cls!FoldLeft, Cls!MapThenFoldSet, Cls!Max, Top
<1>5. ASSUME NEW m \in 1..n PROVE h[1..m] = h[1..(m - 1)] + seq[m]
  <2> HIDE DEF h, n
  <2> QED BY <1>1, <1>3, Prefix
<1>6. h[{}] = 0
  <2>1. {} \in SUBSET (1..n)
    OBVIOUS
  <2> HIDE DEF h, n
  <2> QED BY <1>3, <2>1
<1>7. \A m \in 1..n : h[1..(m - 1)] \in Int => h[1..m] \in Int
  <2> HIDE DEF h
  <2> QED BY <1>1, <1>5
<1>8. h[1..n] \in Int
  <2>1. h[{}] \in Int
    BY <1>6
  <2> HIDE DEF h, n
  <2> QED BY <1>1, <1>7, <2>1, FoldStays
<1> QED BY <1>4, <1>8

-----------------------------------------------------------------------------
(* Sums over finite sets *)

\* Of the sets in F, all finite, one is smallest.
LEMMA SmallestSet ==
  ASSUME NEW F, F # {}, \A T \in F : IsFiniteSet(T)
  PROVE  \E T \in F : \A V \in F : Cardinality(T) <= Cardinality(V)
<1> DEFINE sizes == {n \in Nat : \E T \in F : Cardinality(T) = n}
<1>1. \A T \in F : Cardinality(T) \in Nat
  BY FS_CardinalityType
<1>2. sizes # {} /\ sizes \in SUBSET Nat
  BY <1>1
<1>3. PICK n \in sizes : \A m \in sizes : n <= m
  <2> HIDE DEF sizes
  <2> QED BY <1>2, LeastNumber
<1> QED BY <1>1, <1>3

Pick(s) == CHOOSE x \in s : TRUE

\* g adds up f over every subset of S, in the order the fold takes.
Adding(g, f, S) ==
  g = [s \in SUBSET S |-> IF s = {} THEN 0 ELSE f[Pick(s)] + g[s \ {Pick(s)}]]

LEMMA Smaller ==
  ASSUME NEW s, IsFiniteSet(s), NEW x \in s
  PROVE  /\ IsFiniteSet(s \ {x}) /\ Cardinality(s) \in Nat
         /\ Cardinality(s \ {x}) \in Nat /\ Cardinality(s \ {x}) = Cardinality(s) - 1
BY FS_RemoveElement, FS_CardinalityType

LEMMA PickIsMember ==
  ASSUME NEW s, s # {}
  PROVE  Pick(s) \in s
BY DEF Pick

\* There is one such g,
LEMMA AddingExists ==
  ASSUME NEW S, IsFiniteSet(S), NEW f, \A x \in S : f[x] \in Int
  PROVE  \E g \in [SUBSET S -> Int] : Adding(g, f, S)
<1> DEFINE Up(m) == {s \in SUBSET S : Cardinality(s) <= m}
           Adds(m, g) == \A s \in Up(m) : g[s] = IF s = {} THEN 0 ELSE f[Pick(s)] + g[s \ {Pick(s)}]
           Good(m) == \E g \in [Up(m) -> Int] : Adds(m, g)
           Bad == {m \in Nat : ~Good(m)}
<1>1. \A s \in SUBSET S : IsFiniteSet(s) /\ Cardinality(s) \in Nat /\ Cardinality(s) <= Cardinality(S)
  BY FS_Subset, FS_CardinalityType
<1>2. ASSUME NEW s \in SUBSET S, s # {}
      PROVE  /\ Pick(s) \in s /\ s \ {Pick(s)} \in SUBSET S
             /\ Cardinality(s \ {Pick(s)}) = Cardinality(s) - 1
  BY <1>1, <1>2, PickIsMember, Smaller
<1>3. Good(0)
  <2>1. Up(0) \subseteq {{}}
    BY <1>1, FS_EmptySet
  <2> DEFINE g == [s \in Up(0) |-> 0]
  <2>2. g \in [Up(0) -> Int]
    OBVIOUS
  <2>3. Adds(0, g)
    BY <2>1
  <2> HIDE DEF g, Adds, Up
  <2> QED BY <2>2, <2>3
<1>4. ASSUME NEW m \in Nat, Good(m) PROVE Good(m + 1)
  <2>1. PICK g \in [Up(m) -> Int] : Adds(m, g)
    BY <1>4
  <2> DEFINE step(s) == f[Pick(s)] + g[s \ {Pick(s)}]
             h == [s \in Up(m + 1) |-> IF s \in Up(m) THEN g[s] ELSE step(s)]
  <2>2. Up(m) \subseteq Up(m + 1) /\ {} \in Up(m)
    BY <1>1, FS_EmptySet
  <2>3. ASSUME NEW s \in Up(m + 1), s # {} PROVE s \ {Pick(s)} \in Up(m)
    BY <1>1, <1>2, <2>3
  <2>4. ASSUME NEW s \in Up(m + 1), s # {} PROVE step(s) \in Int
    <3>1. g[s \ {Pick(s)}] \in Int
      <4> HIDE DEF Up
      <4> QED BY <2>3, <2>4
    <3>2. f[Pick(s)] \in Int
      BY <1>2, <2>4
    <3> QED BY <3>1, <3>2
  <2>5. h \in [Up(m + 1) -> Int]
    <3> HIDE DEF step, Up
    <3> QED BY <2>2, <2>4
  <2>6. ASSUME NEW s \in Up(m + 1), s # {} PROVE h[s] = f[Pick(s)] + h[s \ {Pick(s)}]
    <3>1. h[s \ {Pick(s)}] = g[s \ {Pick(s)}]
      <4> HIDE DEF Up, step
      <4> QED BY <2>2, <2>3, <2>6
    <3>2. h[s] = step(s)
      <4>1. s \in Up(m) => g[s] = step(s)
        BY <2>1, <2>6
      <4> HIDE DEF Up, step
      <4> QED BY <2>2, <4>1
    <3> HIDE DEF h
    <3> QED BY <3>1, <3>2
  <2>7. h[{}] = 0
    <3>1. g[{}] = 0
      BY <2>1, <2>2
    <3> HIDE DEF Up, step
    <3> QED BY <2>2, <3>1
  <2>8. Adds(m + 1, h)
    <3> HIDE DEF h, Up
    <3> QED BY <2>6, <2>7
  <2> HIDE DEF h, Adds, Up
  <2> QED BY <2>5, <2>8
<1>5. Bad = {}
  <2>1. SUFFICES ASSUME Bad # {} PROVE FALSE
    OBVIOUS
  <2>2. PICK m \in Bad : \A k \in Bad : m <= k
    <3>1. Bad \in SUBSET Nat
      OBVIOUS
    <3> HIDE DEF Bad
    <3> QED BY <2>1, <3>1, LeastNumber
  <2> HIDE DEF Good
  <2>3. m \in Nat /\ m # 0
    BY <1>3, <2>2
  <2>4. m - 1 \in Nat /\ m - 1 \notin Bad
    BY <2>2, <2>3
  <2>5. Good((m - 1) + 1)
    BY <1>4, <2>4
  <2>6. (m - 1) + 1 = m
    BY <2>3
  <2> QED BY <2>2, <2>5, <2>6
<1>6. Good(Cardinality(S)) /\ Up(Cardinality(S)) = SUBSET S
  <2>1. Good(Cardinality(S))
    <3>1. Cardinality(S) \in Nat
      BY FS_CardinalityType
    <3> HIDE DEF Good
    <3> QED BY <1>5, <3>1
  <2> QED BY <1>1, <2>1
<1>7. PICK g \in [SUBSET S -> Int] :
         \A s \in SUBSET S : g[s] = IF s = {} THEN 0 ELSE f[Pick(s)] + g[s \ {Pick(s)}]
  BY <1>6
<1> QED BY <1>7 DEF Adding

\* and where two add up values that agree on S, they agree.
LEMMA AddingIsUnique ==
  ASSUME NEW S, NEW T, T \subseteq S, IsFiniteSet(S), NEW f, NEW e, \A x \in T : f[x] = e[x],
         NEW g, Adding(g, f, S), NEW h, Adding(h, e, T)
  PROVE  g[T] = h[T]
<1> DEFINE Bad == {s \in SUBSET T : g[s] # h[s]}
<1>1. SUFFICES ASSUME Bad # {} PROVE FALSE
  OBVIOUS
<1>2. \A s \in SUBSET T : IsFiniteSet(s) /\ s \in SUBSET S
  BY FS_Subset
<1>3. PICK s \in Bad : \A V \in Bad : Cardinality(s) <= Cardinality(V)
  <2>1. \A V \in Bad : IsFiniteSet(V)
    BY <1>2
  <2> HIDE DEF Bad
  <2> QED BY <1>1, <2>1, SmallestSet
<1>4. g[{}] = 0 /\ h[{}] = 0
  BY DEF Adding
<1>5. s # {} /\ s \in SUBSET T
  BY <1>4
<1>6. Pick(s) \in s /\ Cardinality(s \ {Pick(s)}) = Cardinality(s) - 1 /\ Cardinality(s) \in Nat
  BY <1>2, <1>5, PickIsMember, Smaller
<1>7. s \ {Pick(s)} \notin Bad
  BY <1>3, <1>6
<1>8. g[s \ {Pick(s)}] = h[s \ {Pick(s)}]
  BY <1>5, <1>7
<1>9. g[s] = f[Pick(s)] + g[s \ {Pick(s)}] /\ h[s] = e[Pick(s)] + h[s \ {Pick(s)}]
  BY <1>2, <1>5 DEF Adding
<1>10. f[Pick(s)] = e[Pick(s)]
  BY <1>5, <1>6
<1> QED BY <1>8, <1>9, <1>10

\* The total of a function's values.
Sum(f, S) == Agg!Total(LAMBDA x : f[x], S)

LEMMA SumIs ==
  ASSUME NEW S, IsFiniteSet(S), NEW f, \A x \in S : f[x] \in Int
  PROVE  \E g \in [SUBSET S -> Int] : Adding(g, f, S) /\ Sum(f, S) = g[S]
<1> DEFINE P(g) == g = [s \in SUBSET S |-> IF s = {} THEN 0 ELSE f[Pick(s)] + g[s \ {Pick(s)}]]
           h == CHOOSE g : P(g)
<1>1. PICK g \in [SUBSET S -> Int] : P(g)
  <2>1. PICK g \in [SUBSET S -> Int] : Adding(g, f, S)
    BY AddingExists
  <2>2. P(g)
    BY <2>1, Zenon DEF Adding
  <2> HIDE DEF P
  <2> QED BY <2>2
<1>2. P(h)
  <2> HIDE DEF P
  <2> QED BY <1>1
<1>3. Sum(f, S) = h[S]
  BY DEF Sum, Agg!Total, Agg!MapThenSumSet, Agg!MapThenFoldSet, Pick
<1>4. Adding(g, f, S) /\ Adding(h, f, S)
  <2> HIDE DEF h
  <2> QED BY <1>1, <1>2 DEF Adding
<1>5. g[S] = h[S]
  <2> HIDE DEF h, P
  <2> QED BY <1>4, AddingIsUnique
<1> HIDE DEF h, P
<1> QED BY <1>3, <1>4, <1>5

LEMMA SumOfNothing == \A f : Sum(f, {}) = 0
<1> SUFFICES ASSUME NEW f PROVE Sum(f, {}) = 0
  OBVIOUS
<1>1. IsFiniteSet({})
  BY FS_EmptySet
<1>2. PICK g \in [SUBSET {} -> Int] : Adding(g, f, {}) /\ Sum(f, {}) = g[{}]
  BY <1>1, SumIs
<1> QED BY <1>2 DEF Adding

LEMMA SumStep ==
  ASSUME NEW S, IsFiniteSet(S), S # {}, NEW f, \A x \in S : f[x] \in Int
  PROVE  Sum(f, S) = f[Pick(S)] + Sum(f, S \ {Pick(S)})
<1> DEFINE T == S \ {Pick(S)}
<1>1. IsFiniteSet(T) /\ T \subseteq S
  BY FS_Subset
<1>2. PICK g \in [SUBSET S -> Int] : Adding(g, f, S) /\ Sum(f, S) = g[S]
  BY SumIs
<1>3. PICK h \in [SUBSET T -> Int] : Adding(h, f, T) /\ Sum(f, T) = h[T]
  <2> HIDE DEF T
  <2> QED BY <1>1, SumIs
<1>4. g[T] = h[T]
  <2> HIDE DEF T
  <2> QED BY <1>1, <1>2, <1>3, AddingIsUnique
<1>5. g[S] = f[Pick(S)] + g[T]
  BY <1>2 DEF Adding
<1> QED BY <1>2, <1>3, <1>4, <1>5

LEMMA SumType ==
  ASSUME NEW S, IsFiniteSet(S), NEW f, \A x \in S : f[x] \in Int
  PROVE  Sum(f, S) \in Int
<1>1. PICK g \in [SUBSET S -> Int] : Adding(g, f, S) /\ Sum(f, S) = g[S]
  BY SumIs
<1> QED BY <1>1

\* Any member may be taken out first.
LEMMA SumRemove ==
  ASSUME NEW S, IsFiniteSet(S), NEW f, \A x \in S : f[x] \in Int, NEW x \in S
  PROVE  Sum(f, S) = f[x] + Sum(f, S \ {x})
<1> DEFINE Bad == {T \in SUBSET S : \E y \in T : Sum(f, T) # f[y] + Sum(f, T \ {y})}
<1>1. SUFFICES ASSUME Bad # {} PROVE FALSE
  OBVIOUS
<1>2. \A T \in SUBSET S : IsFiniteSet(T) /\ \A y \in T : f[y] \in Int
  BY FS_Subset
<1>3. PICK T \in Bad : \A V \in Bad : Cardinality(T) <= Cardinality(V)
  <2>1. \A V \in Bad : IsFiniteSet(V)
    BY <1>2
  <2> HIDE DEF Bad
  <2> QED BY <1>1, <2>1, SmallestSet
<1>4. PICK y \in T : Sum(f, T) # f[y] + Sum(f, T \ {y})
  OBVIOUS
<1> DEFINE p == Pick(T)
<1>5. p \in T /\ Sum(f, T) = f[p] + Sum(f, T \ {p})
  BY <1>2, <1>4, PickIsMember, SumStep
<1> HIDE DEF p
<1>6. p # y
  BY <1>4, <1>5
<1>7. ASSUME NEW z \in T PROVE T \ {z} \notin Bad
  <2>1. Cardinality(T \ {z}) = Cardinality(T) - 1 /\ Cardinality(T) \in Nat
    BY <1>2, Smaller
  <2> HIDE DEF Bad
  <2> QED BY <1>3, <2>1
<1>8. Sum(f, T \ {p}) = f[y] + Sum(f, (T \ {p}) \ {y})
  BY <1>5, <1>6, <1>7
<1>9. Sum(f, T \ {y}) = f[p] + Sum(f, (T \ {y}) \ {p})
  BY <1>5, <1>6, <1>7
<1>10. (T \ {p}) \ {y} = (T \ {y}) \ {p}
  OBVIOUS
<1>11. Sum(f, (T \ {y}) \ {p}) \in Int /\ f[p] \in Int /\ f[y] \in Int
  <2>1. (T \ {y}) \ {p} \in SUBSET S
    OBVIOUS
  <2> QED BY <1>2, <1>5, <2>1, SumType
<1> DEFINE rest == Sum(f, (T \ {y}) \ {p})
<1>12. rest \in Int /\ f[p] \in Int /\ f[y] \in Int
  BY <1>11
<1>13. Sum(f, T) = f[p] + (f[y] + rest) /\ Sum(f, T \ {y}) = f[p] + rest
  BY <1>5, <1>8, <1>9, <1>10
<1> HIDE DEF rest
<1>14. Sum(f, T) = f[y] + Sum(f, T \ {y})
  BY <1>12, <1>13
<1> QED BY <1>4, <1>14

LEMMA SumAgrees ==
  ASSUME NEW S, IsFiniteSet(S), NEW f, \A x \in S : f[x] \in Int, NEW e, \A x \in S : e[x] = f[x]
  PROVE  Sum(e, S) = Sum(f, S)
<1>1. PICK g \in [SUBSET S -> Int] : Adding(g, f, S) /\ Sum(f, S) = g[S]
  BY SumIs
<1>2. PICK h \in [SUBSET S -> Int] : Adding(h, e, S) /\ Sum(e, S) = h[S]
  BY SumIs
<1> QED BY <1>1, <1>2, AddingIsUnique

LEMMA SumOfDifferences ==
  ASSUME NEW S, IsFiniteSet(S), NEW f, \A x \in S : f[x] \in Int, NEW e, \A x \in S : e[x] \in Int,
         NEW d, \A x \in S : d[x] = f[x] - e[x]
  PROVE  Sum(d, S) = Sum(f, S) - Sum(e, S)
<1> DEFINE Bad == {T \in SUBSET S : Sum(d, T) # Sum(f, T) - Sum(e, T)}
<1>1. SUFFICES ASSUME Bad # {} PROVE FALSE
  OBVIOUS
<1>2. \A T \in SUBSET S : IsFiniteSet(T)
  BY FS_Subset
<1>3. PICK T \in Bad : \A V \in Bad : Cardinality(T) <= Cardinality(V)
  <2>1. \A V \in Bad : IsFiniteSet(V)
    BY <1>2
  <2> HIDE DEF Bad
  <2> QED BY <1>1, <2>1, SmallestSet
<1>4. T # {}
  BY SumOfNothing
<1>5. PICK x : x \in T
  BY <1>4
<1> DEFINE V == T \ {x}
<1>6. V \in SUBSET S /\ V \notin Bad
  <2>1. Cardinality(V) = Cardinality(T) - 1 /\ Cardinality(T) \in Nat
    BY <1>2, <1>5, Smaller
  <2>2. V \notin Bad
    <3> HIDE DEF Bad, V
    <3> QED BY <1>3, <2>1
  <2> QED BY <2>2
<1>7. /\ \A y \in S : d[y] \in Int
      /\ IsFiniteSet(T) /\ T \subseteq S
  BY <1>2
<1>8. /\ Sum(d, T) = d[x] + Sum(d, V) /\ Sum(f, T) = f[x] + Sum(f, V)
      /\ Sum(e, T) = e[x] + Sum(e, V)
  BY <1>5, <1>7, SumRemove
<1> HIDE DEF V
<1>9. Sum(f, V) \in Int /\ Sum(e, V) \in Int /\ Sum(d, V) = Sum(f, V) - Sum(e, V)
  BY <1>2, <1>6, SumType
<1>10. d[x] = f[x] - e[x] /\ f[x] \in Int /\ e[x] \in Int
  BY <1>5, <1>7
<1>11. Sum(d, T) = Sum(f, T) - Sum(e, T)
  BY <1>8, <1>9, <1>10
<1> QED BY <1>11

LEMMA SumSplits ==
  ASSUME NEW S, IsFiniteSet(S), NEW f, \A x \in S : f[x] \in Int, NEW P \in SUBSET S
  PROVE  Sum(f, S) = Sum(f, P) + Sum(f, S \ P)
<1> DEFINE Bad == {T \in SUBSET S : Sum(f, T) # Sum(f, T \cap P) + Sum(f, T \ P)}
<1>1. SUFFICES ASSUME Bad # {} PROVE FALSE
  <2>1. S \cap P = P
    OBVIOUS
  <2> QED BY <2>1
<1>2. \A T \in SUBSET S : IsFiniteSet(T) /\ \A x \in T : f[x] \in Int
  BY FS_Subset
<1>3. PICK T \in Bad : \A V \in Bad : Cardinality(T) <= Cardinality(V)
  <2>1. \A V \in Bad : IsFiniteSet(V)
    BY <1>2
  <2> HIDE DEF Bad
  <2> QED BY <1>1, <2>1, SmallestSet
<1>4. T # {}
  <2>1. {} \cap P = {} /\ {} \ P = {}
    OBVIOUS
  <2>2. Sum(f, {}) = Sum(f, {} \cap P) + Sum(f, {} \ P)
    BY <2>1, SumOfNothing
  <2> QED BY <2>2
<1>5. PICK x : x \in T
  BY <1>4
<1> DEFINE V == T \ {x}
<1>6. V \in SUBSET S /\ V \notin Bad
  <2>1. Cardinality(V) = Cardinality(T) - 1 /\ Cardinality(T) \in Nat
    BY <1>2, <1>5, Smaller
  <2>2. V \notin Bad
    <3> HIDE DEF Bad, V
    <3> QED BY <1>3, <2>1
  <2> QED BY <2>2
<1>7. Sum(f, T) = f[x] + Sum(f, V)
  BY <1>2, <1>5, SumRemove
<1>8. /\ T \cap P \in SUBSET S /\ T \ P \in SUBSET S
      /\ V \cap P \in SUBSET S /\ V \ P \in SUBSET S
  OBVIOUS
<1>9. Sum(f, V) = Sum(f, V \cap P) + Sum(f, V \ P)
  BY <1>6
<1>10. Sum(f, V \cap P) \in Int /\ Sum(f, V \ P) \in Int /\ f[x] \in Int
  <2> HIDE DEF V
  <2> QED BY <1>2, <1>5, <1>8, SumType
<1> SUFFICES Sum(f, T) = Sum(f, T \cap P) + Sum(f, T \ P)
  OBVIOUS
<1>11. CASE x \in P
  <2>1. V \cap P = (T \cap P) \ {x} /\ V \ P = T \ P /\ x \in T \cap P
    BY <1>5, <1>11
  <2>2. Sum(f, T \ P) = Sum(f, V \ P)
    BY <2>1
  <2>3. Sum(f, T \cap P) = f[x] + Sum(f, (T \cap P) \ {x})
    BY <1>2, <1>8, <2>1, SumRemove
  <2>4. Sum(f, T \cap P) = f[x] + Sum(f, V \cap P)
    <3> HIDE DEF V
    <3> QED BY <2>1, <2>3
  <2> HIDE DEF V
  <2> QED BY <1>7, <1>9, <1>10, <2>2, <2>4
<1>12. CASE x \notin P
  <2>1. V \ P = (T \ P) \ {x} /\ V \cap P = T \cap P /\ x \in T \ P
    BY <1>5, <1>12
  <2>2. Sum(f, T \cap P) = Sum(f, V \cap P)
    BY <2>1
  <2>3. Sum(f, T \ P) = f[x] + Sum(f, (T \ P) \ {x})
    BY <1>2, <1>8, <2>1, SumRemove
  <2>4. Sum(f, T \ P) = f[x] + Sum(f, V \ P)
    <3> HIDE DEF V
    <3> QED BY <2>1, <2>3
  <2> HIDE DEF V
  <2> QED BY <1>7, <1>9, <1>10, <2>2, <2>4
<1> QED BY <1>11, <1>12

\* A sum of what is not negative vanishes only where every term does.
LEMMA SumVanishes ==
  ASSUME NEW S, IsFiniteSet(S), NEW f, \A x \in S : f[x] \in Nat
  PROVE  Sum(f, S) \in Nat /\ (Sum(f, S) = 0 <=> \A x \in S : f[x] = 0)
<1> DEFINE Fine(T) == Sum(f, T) \in Nat /\ (Sum(f, T) = 0 <=> \A x \in T : f[x] = 0)
           Bad == {T \in SUBSET S : ~Fine(T)}
<1>1. SUFFICES ASSUME Bad # {} PROVE FALSE
  OBVIOUS
<1>2. \A T \in SUBSET S : IsFiniteSet(T) /\ \A x \in T : f[x] \in Int
  BY FS_Subset
<1>3. PICK T \in Bad : \A V \in Bad : Cardinality(T) <= Cardinality(V)
  <2>1. \A V \in Bad : IsFiniteSet(V)
    BY <1>2
  <2> HIDE DEF Bad
  <2> QED BY <1>1, <2>1, SmallestSet
<1>4. T # {}
  BY SumOfNothing
<1>5. PICK x : x \in T
  BY <1>4
<1> DEFINE V == T \ {x}
<1>6. Fine(V)
  <2>1. Cardinality(V) = Cardinality(T) - 1 /\ Cardinality(T) \in Nat
    BY <1>2, <1>5, Smaller
  <2>2. V \notin Bad
    <3> HIDE DEF Bad, V
    <3> QED BY <1>3, <2>1
  <2>3. V \in SUBSET S
    OBVIOUS
  <2> HIDE DEF Fine, V
  <2> QED BY <2>2, <2>3
<1>7. Sum(f, T) = f[x] + Sum(f, V)
  BY <1>2, <1>5, SumRemove
<1>8. f[x] \in Nat /\ Sum(f, V) \in Nat /\ (Sum(f, V) = 0 <=> \A y \in V : f[y] = 0)
  BY <1>5, <1>6
<1>9. Sum(f, T) \in Nat /\ (Sum(f, T) = 0 <=> f[x] = 0 /\ Sum(f, V) = 0)
  <2> HIDE DEF V
  <2> QED BY <1>7, <1>8
<1>10. (\A y \in T : f[y] = 0) <=> f[x] = 0 /\ \A y \in V : f[y] = 0
  BY <1>5
<1>11. Fine(T)
  BY <1>8, <1>9, <1>10
<1> QED BY <1>11

-----------------------------------------------------------------------------
\* The calls that are made: an input of the algorithm's own set.
Calls == algorithm \in DOMAIN Inputs /\ (input # NA => input \in Inputs[algorithm])

LEMMA CallsAreInputs == Spec => []Calls
<1>1. Init => Calls
  BY DEF Init, Calls
<1>2. Calls /\ [Next]_vars => Calls'
  BY DEF Calls, Next, Choose, Return, vars
<1> QED BY <1>1, <1>2, PTL DEF Spec

-----------------------------------------------------------------------------
(* Disclosure *)

\* A table of any rows, each with a whole number of quotes and a value, or without.
IsTable(table) ==
  /\ IsFiniteSet(DOMAIN table) /\ DOMAIN table \subseteq Nat
  /\ \A r \in DOMAIN table : table[r].count \in Int \cup {NA} /\ table[r].value \in Int \cup {NA}

LEMMA DisCardinality == \A S : Dis!Cardinality(S) = Cardinality(S)
BY DEF Cardinality, Dis!Cardinality

\* idxmin answers a row of those it is asked about that has a value.
LEMMA SmallestHasValue ==
  ASSUME Distinct, NEW table, IsTable(table), NEW S \in SUBSET DOMAIN table,
         \E r \in S : table[r].value # NA
  PROVE  Dis!Smallest(table, S) \in S /\ table[Dis!Smallest(table, S)].value # NA
<1> DEFINE valued == {r \in S : table[r].value # NA}
           value == [r \in valued |-> table[r].value]
           least == {r \in valued : \A q \in valued : table[r].value <= table[q].value}
<1>1. IsFiniteSet(valued) /\ valued # {} /\ \A r \in valued : value[r] \in Int
  <2>1. IsFiniteSet(valued)
    BY FS_Subset DEF IsTable
  <2> QED BY <2>1 DEF IsTable
<1>2. \E r \in valued : \A q \in valued : value[r] <= value[q]
  <2> HIDE DEF valued, value
  <2> QED BY <1>1, LeastOf
<1>3. least # {} /\ least \in SUBSET Nat
  BY <1>2 DEF IsTable
<1>4. \E r \in least : \A q \in least : r <= q
  <2> HIDE DEF least
  <2> QED BY <1>3, LeastNumber
<1>5. Dis!Smallest(table, S) = Dis!Min(least)
  BY DEF Dis!Smallest
<1>6. Dis!Min(least) \in least
  <2> HIDE DEF least
  <2> QED BY <1>4 DEF Dis!Min
<1> QED BY <1>5, <1>6

\* Of a group, the cells hidden besides the small ones: the smallest of the others
\* where one small cell needs it, and else none.
LEMMA SecondaryOfGroup ==
  ASSUME Distinct, NEW table, IsTable(table), ~Dis!Failing(table), NEW g \in Dis!Groups(table)
  PROVE  LET own == Dis!Group(table, g)
             small == own \cap Dis!Primary(table)
             others == own \ Dis!Primary(table)
         IN IF Dis!NeedsSecondary(small, others)
            THEN \E r \in others : own \cap Dis!Secondary(table) = {r} /\ table[r].value # NA
            ELSE own \cap Dis!Secondary(table) = {}
<1> DEFINE Own(h) == Dis!Group(table, h)
           Others(h) == Own(h) \ Dis!Primary(table)
           Needs(h) == Dis!NeedsSecondary(Own(h) \cap Dis!Primary(table), Others(h))
           Least(h) == Dis!Smallest(table, Others(h))
<1>1. Dis!Secondary(table) = {Least(h) : h \in {k \in Dis!Groups(table) : Needs(k)}}
  BY DEF Dis!Secondary
<1>2. ASSUME NEW h \in Dis!Groups(table), Needs(h)
      PROVE  Least(h) \in Others(h) /\ table[Least(h)].value # NA
  <2>1. \E r \in Others(h) : table[r].value # NA
    BY <1>2 DEF Dis!Failing
  <2>2. Others(h) \in SUBSET DOMAIN table
    BY DEF Dis!Group
  <2> HIDE DEF Others
  <2> QED BY <2>1, <2>2, SmallestHasValue
<1>3. ASSUME NEW h, NEW r \in Own(h) PROVE table[r].group = h
  BY <1>3 DEF Dis!Group
<1>4. Own(g) \cap Dis!Secondary(table) = IF Needs(g) THEN {Least(g)} ELSE {}
  <2> HIDE DEF Needs, Least, Own
  <2>1. ASSUME NEW h \in Dis!Groups(table), Needs(h), Least(h) \in Own(g) PROVE h = g
    BY <1>2, <1>3, <2>1
  <2>2. ASSUME Needs(g) PROVE Least(g) \in Own(g)
    BY <1>2, <2>2
  <2> QED BY <1>1, <2>1, <2>2
<1> QED BY <1>2, <1>4

\* Whatever the table and its groups: what suppress_with_secondary hides is not the
\* group's total less what is published, and no more is hidden than that takes.
THEOREM NothingIsDisclosed ==
  ASSUME Distinct, MinCount \in Int, NEW table, IsTable(table)
  PROVE  Dis!SuppressionExact(table)
<1> DEFINE out == Dis!Suppress(table, 1)
           Own(g) == Dis!Group(table, g)
           Hidden(g) == {r \in Own(g) : out[r].suppressed}
           Valued(g) == {r \in Own(g) : table[r].value # NA}
           Low(g) == {r \in Own(g) : table[r].count # NA /\ table[r].count < MinCount}
<1> SUFFICES ASSUME out # Refused, NEW g \in Dis!Groups(table)
             PROVE  /\ Hidden(g) \subseteq Valued(g) /\ Cardinality(Hidden(g)) = 1 =>
                         Valued(g) = Hidden(g)
                    /\ Low(g) \subseteq Hidden(g)
                    /\ Cardinality(Hidden(g) \ Low(g)) <= IF Cardinality(Low(g)) = 1 THEN 1 ELSE 0
  BY DisCardinality DEF Dis!SuppressionExact
<1>1. ~Dis!Failing(table) /\ \A r \in DOMAIN table :
         out[r].suppressed = (r \in Dis!Primary(table) \cup Dis!Secondary(table))
  BY DEF Dis!Suppress
<1>2. Own(g) \subseteq DOMAIN table /\ IsFiniteSet(Own(g))
  <2>1. Own(g) \subseteq DOMAIN table
    BY DEF Dis!Group
  <2> QED BY <2>1, FS_Subset DEF IsTable
<1>3. Low(g) = Own(g) \cap Dis!Primary(table)
  BY <1>2 DEF Dis!Primary, Dis!Small
<1>4. Hidden(g) = Low(g) \cup (Own(g) \cap Dis!Secondary(table))
  BY <1>1, <1>2, <1>3
<1> DEFINE others == Own(g) \ Dis!Primary(table)
<1>5. Dis!NeedsSecondary(Low(g), others) <=> Cardinality(Low(g)) = 1 /\ others # {}
  BY DisCardinality DEF Dis!NeedsSecondary
<1>6. IF Cardinality(Low(g)) = 1 /\ others # {}
      THEN \E r \in others : Own(g) \cap Dis!Secondary(table) = {r} /\ table[r].value # NA
      ELSE Own(g) \cap Dis!Secondary(table) = {}
  BY <1>1, <1>3, <1>5, SecondaryOfGroup
<1>7. others \cap Low(g) = {} /\ Own(g) = others \cup Low(g)
  BY <1>3
<1> HIDE DEF out, Own, Low, others
<1>8. IsFiniteSet(Low(g)) /\ Low(g) \subseteq Own(g)
  BY <1>2, <1>7, FS_Subset
<1>9. CASE Cardinality(Low(g)) = 1 /\ others # {}
  <2>1. PICK r \in others : Own(g) \cap Dis!Secondary(table) = {r}
    BY <1>6, <1>9
  <2>2. Hidden(g) = Low(g) \cup {r} /\ r \notin Low(g) /\ Hidden(g) \ Low(g) = {r}
    BY <1>4, <1>7, <2>1
  <2> HIDE DEF Hidden
  <2>3. Cardinality(Low(g) \cup {r}) = 2
    BY <1>8, <1>9, <2>2, FS_AddElement
  <2>4. Cardinality({r}) = 1
    BY FS_Singleton
  <2>5. Cardinality(Hidden(g)) = 2 /\ Cardinality(Hidden(g) \ Low(g)) = 1
    BY <2>2, <2>3, <2>4
  <2> QED BY <1>4, <1>9, <2>5
<1>10. CASE ~(Cardinality(Low(g)) = 1 /\ others # {})
  <2>1. Hidden(g) = Low(g) /\ Hidden(g) \ Low(g) = {}
    BY <1>4, <1>6, <1>10
  <2>2. ASSUME Cardinality(Low(g)) = 1, Hidden(g) \subseteq Valued(g) PROVE Valued(g) = Hidden(g)
    BY <1>7, <1>10, <2>1, <2>2
  <2> HIDE DEF Hidden, Valued
  <2> QED BY <2>1, <2>2, FS_EmptySet
<1> QED BY <1>9, <1>10

\* The table every call of suppress_with_secondary returns keeps its secrets.
THEOREM SuppressionIsExact ==
  ASSUME Distinct, MinCount \in Int
  PROVE  Spec => SuppressionExact
<1>1. ASSUME NEW table \in TableInputs PROVE IsTable(table)
  <2>1. DOMAIN table = 1..4 /\ \A r \in 1..4 : table[r].count \in {NA, 1, 2} /\ table[r].value \in {NA, 1, 2}
    BY <1>1 DEF TableInputs
  <2>2. IsFiniteSet(1..4)
    <3>1. 1 \in Int /\ 4 \in Int
      OBVIOUS
    <3> QED BY <3>1, FS_Interval, Zenon
  <2> QED BY <2>1, <2>2 DEF IsTable
<1>2. Inputs["disclosure"] = TableInputs
  BY DEF Inputs
<1>3. Calls => (Chosen("disclosure") => Dis!SuppressionExact(input))
  BY <1>1, <1>2, NothingIsDisclosed DEF Calls, Chosen
<1> QED BY <1>3, CallsAreInputs, PTL DEF SuppressionExact

-----------------------------------------------------------------------------
(* Clause *)

\* What EscalationClause.__post_init__ lets through.
IsClause(c) ==
  /\ c.base \in Int /\ c.lag \in Nat /\ c.averaging \in Nat \ {0}
  /\ c.tenths \in 0..10 /\ c.band \in Nat /\ c.trigger \in Nat
  /\ c.cap \in Nat \cup {NA} /\ c.collar \in Nat \cup {NA}

Indices == Seq(Int \cup {NA})

LEMMA ReadingIsInt ==
  ASSUME NEW index \in Indices, NEW at \in Int, NEW averaging \in Nat \ {0},
         Cls!Reading(index, at, averaging) # NA
  PROVE  Cls!Reading(index, at, averaging) \in Int
<1> DEFINE first == at - averaging + 1
           seq == SubSeq(index, first, at)
<1>1. first..at \subseteq DOMAIN index /\ \A u \in first..at : index[u] # NA
  BY DEF Cls!Reading
<1>2. Cls!Reading(index, at, averaging) = Cls!FoldLeft(+, 0, seq) \div averaging
  BY <1>1 DEF Cls!Reading
<1>3. first \in 1..Len(index) /\ at \in 1..Len(index) /\ first <= at
  <2>1. first \in Int /\ first <= at /\ at \in first..at /\ first \in first..at
    OBVIOUS
  <2>2. DOMAIN index = 1..Len(index)
    BY DEF Indices
  <2> QED BY <1>1, <2>1, <2>2
<1>4. seq \in Seq(Int)
  <2>1. \A i \in 1..(at - first + 1) : first + i - 1 \in first..at
    BY <1>3
  <2>2. \A i \in 1..(at - first + 1) : index[first + i - 1] \in Int
    <3>1. \A u \in first..at : index[u] \in Int
      BY <1>1 DEF Indices
    <3> HIDE DEF first
    <3> QED BY <2>1, <3>1
  <2>3. seq = [i \in 1..(at - first + 1) |-> index[first + i - 1]] /\ at - first + 1 \in Nat
    BY <1>3 DEF Indices
  <2> HIDE DEF seq, first
  <2> QED BY <2>2, <2>3
<1>5. Cls!FoldLeft(+, 0, seq) \in Int
  <2> HIDE DEF seq
  <2> QED BY <1>4, SumIsInt
<1>6. \A x \in Int : x \div averaging \in Int
  OBVIOUS
<1> QED BY <1>2, <1>5, <1>6

\* What the schedule says of a payment, once it is right.
Rows(c) ==
  {row \in [movement : Int, banded : Int, set : Int, applied : Int, event : BOOLEAN] :
     /\ row.applied # c.tenths * row.movement => row.event
     /\ row.set # row.banded => Cls!Abs(row.set - row.banded) < c.trigger
     /\ c.cap # NA => row.applied <= 10 * c.cap
     /\ c.collar # NA => row.applied >= -10 * c.collar
     /\ Cls!Abs(row.banded) <= Cls!Abs(row.movement) /\ row.banded * row.movement >= 0}

Schedules(c) == [current : Int, rows : Seq(Rows(c))]

\* The dead band makes a movement smaller and does not turn it round.
LEMMA BandNarrows ==
  ASSUME NEW c, IsClause(c), NEW m \in Int
  PROVE  /\ Cls!Banded(c, m) \in Int
         /\ Cls!Abs(Cls!Banded(c, m)) <= Cls!Abs(m) /\ Cls!Banded(c, m) * m >= 0
         /\ c.band = 0 => Cls!Banded(c, m) = m
<1> DEFINE b == Cls!Banded(c, m)
<1>1. \/ m >= 0 /\ 0 <= b /\ b <= m
      \/ m < 0 /\ m <= b /\ b <= 0
  BY DEF Cls!Banded, Cls!Abs, Cls!Sign, IsClause
<1>2. b \in Int /\ (c.band = 0 => b = m)
  BY DEF Cls!Banded, Cls!Abs, Cls!Sign, IsClause
<1>3. \A x \in Int : \/ m >= 0 /\ 0 <= x /\ x <= m
                     \/ m < 0 /\ m <= x /\ x <= 0
        => Cls!Abs(x) <= Cls!Abs(m) /\ x * m >= 0
  BY DEF Cls!Abs
<1> HIDE DEF b
<1>4. Cls!Abs(b) <= Cls!Abs(m) /\ b * m >= 0
  BY <1>1, <1>2, <1>3
<1> QED BY <1>2, <1>4 DEF b

\* Cap and collar hold whatever the adjustment.
LEMMA LimitsHold ==
  ASSUME Distinct, NEW c, IsClause(c), NEW x \in Int
  PROVE  /\ Cls!Limited(c, x) \in Int
         /\ c.cap # NA => Cls!Limited(c, x) <= 10 * c.cap
         /\ c.collar # NA => Cls!Limited(c, x) >= -10 * c.collar
BY DEF Cls!Limited, IsClause, Distinct

\* One payment.
LEMMA PayIsRight ==
  ASSUME Distinct, NEW c, IsClause(c), NEW state \in Schedules(c),
         NEW reading \in Int, NEW base \in Int, base > 0
  PROVE  Cls!Pay(c, state, reading, base) \in Schedules(c)
<1> DEFINE movement == Cls!Movement(reading, base)
           banded == Cls!Banded(c, movement)
           held == ~Cls!Triggered(c, banded, state.current)
           current == IF held THEN state.current ELSE banded
           applied == Cls!Limited(c, c.tenths * current)
           event == Cls!Event(c, movement, banded, held, applied # c.tenths * current)
           row == [movement |-> movement, banded |-> banded, set |-> current,
                   applied |-> applied, event |-> event]
<1>1. movement \in Int
  BY DEF Cls!Movement
<1> HIDE DEF movement
<1>2. /\ banded \in Int /\ Cls!Abs(banded) <= Cls!Abs(movement) /\ banded * movement >= 0
      /\ c.band = 0 => banded = movement
  BY <1>1, BandNarrows
<1> HIDE DEF banded
<1>3. current \in Int /\ (current # banded => held /\ Cls!Abs(current - banded) < c.trigger)
  <2>1. state.current \in Int /\ c.trigger \in Nat
    BY DEF Schedules, IsClause
  <2>2. held => Cls!Abs(state.current - banded) < c.trigger
    BY <1>2, <2>1 DEF Cls!Triggered, Cls!Abs
  <2> HIDE DEF held
  <2> QED BY <1>2, <2>1, <2>2
<1>4. event \in BOOLEAN
  BY DEF Cls!Event
<1>5. applied # c.tenths * movement => event
  BY <1>2, <1>3 DEF Cls!Event, IsClause
<1> HIDE DEF current, held
<1>6. c.tenths * current \in Int
  BY <1>3 DEF IsClause
<1>7. /\ applied \in Int
      /\ c.cap # NA => applied <= 10 * c.cap
      /\ c.collar # NA => applied >= -10 * c.collar
  BY <1>6, LimitsHold
<1> HIDE DEF applied, event
<1>8. row \in Rows(c)
  BY <1>1, <1>2, <1>3, <1>4, <1>5, <1>7 DEF Rows
<1>9. Cls!Pay(c, state, reading, base) = [current |-> current, rows |-> Append(state.rows, row)]
  BY DEF Cls!Pay, movement, banded, held, current, applied, event
<1> HIDE DEF row
<1>10. Append(state.rows, row) \in Seq(Rows(c))
  BY <1>8 DEF Schedules
<1> QED BY <1>3, <1>9, <1>10 DEF Schedules

\* Every payment of a schedule that is not refused is right.
LEMMA ScheduleIsRight ==
  ASSUME Distinct, NEW c, IsClause(c), NEW index \in Indices, NEW payments \in Seq(Int)
  PROVE  Cls!ApplyClause(c, index, payments) \in Schedules(c) \cup {Refused}
<1> DEFINE D == Schedules(c) \cup {Refused}
           start == [current |-> 0, rows |-> <<>>]
           base == Cls!Reading(index, c.base, c.averaging)
           reading(p) == Cls!Reading(index, p - c.lag, c.averaging)
           step(state, p) == IF state = Refused \/ reading(p) = NA THEN Refused
                             ELSE Cls!Pay(c, state, reading(p), base)
           n == Len(payments)
           F == [x \in D \X (1..n) |-> step(x[1], payments[x[2]])]
           Paid(f) == f = [s \in SUBSET (1..n) |->
                             IF s = {} THEN start ELSE step(f[s \ {Top(s)}], payments[Top(s)])]
           h == CHOOSE f : Paid(f)
<1>1. n \in Nat /\ DOMAIN payments = 1..n /\ \A i \in 1..n : payments[i] \in Int
  OBVIOUS
<1>2. start \in D
  BY DEF Schedules
<1>3. SUFFICES ASSUME base # NA, base > 0 PROVE Cls!ApplyClause(c, index, payments) \in D
  <2>1. base \in Int \/ base = NA
    BY ReadingIsInt DEF IsClause
  <2>2. ~(base # NA /\ base > 0) => Cls!ApplyClause(c, index, payments) = Refused
    BY <2>1 DEF Cls!ApplyClause, Cls!FoldLeft, Cls!MapThenFoldSet
  <2> HIDE DEF base
  <2> QED BY <2>2
<1>4. base \in Int
  BY <1>3, ReadingIsInt DEF IsClause
<1>5. ASSUME NEW state \in D, NEW p \in Int PROVE step(state, p) \in D
  <2>1. reading(p) # NA => reading(p) \in Int
    BY ReadingIsInt DEF IsClause
  <2> HIDE DEF reading, base
  <2> QED BY <1>3, <1>4, <2>1, PayIsRight
<1> HIDE DEF step, start, D
<1>6. \E f : Paid(f)
  <2>1. F \in [D \X (1..n) -> D]
    BY <1>1, <1>5
  <2>2. PICK g \in [SUBSET (1..n) -> D] : Folding(g, F, start, n)
    <3> HIDE DEF F, n
    <3> QED BY <1>1, <1>2, <2>1, FoldExists
  <2>3. ASSUME NEW s \in SUBSET (1..n), s # {}
        PROVE  F[<<g[s \ {Top(s)}], Top(s)>>] = step(g[s \ {Top(s)}], payments[Top(s)])
    <3>1. Top(s) \in 1..n
      BY <1>1, <2>3, TopIsMember
    <3>2. g[s \ {Top(s)}] \in D
      OBVIOUS
    <3> QED BY <3>1, <3>2
  <2>4. Paid(g)
    <3> HIDE DEF F, n
    <3> QED BY <2>2, <2>3 DEF Folding
  <2> QED BY <2>4
<1>7. Paid(h)
  <2> HIDE DEF Paid
  <2> QED BY <1>6
<1>8. Cls!ApplyClause(c, index, payments) = h[1..n]
  BY <1>1, <1>3, <1>4 DEF Cls!ApplyClause, Cls!FoldLeft, Cls!MapThenFoldSet, Cls!Max, Top, step, start
<1>9. ASSUME NEW m \in 1..n PROVE h[1..m] = step(h[1..(m - 1)], payments[m])
  <2> HIDE DEF h, n
  <2> QED BY <1>1, <1>7, Prefix
<1>10. h[{}] = start
  <2>1. {} \in SUBSET (1..n)
    OBVIOUS
  <2> HIDE DEF h, n
  <2> QED BY <1>7, <2>1
<1>11. \A m \in 1..n : h[1..(m - 1)] \in D => h[1..m] \in D
  <2> HIDE DEF h
  <2> QED BY <1>1, <1>5, <1>9
<1>12. h[1..n] \in D
  <2>1. h[{}] \in D
    BY <1>2, <1>10
  <2> HIDE DEF h, n
  <2> QED BY <1>1, <1>11, <2>1, FoldStays
<1> QED BY <1>8, <1>12

\* Whatever the clause that __post_init__ lets through, the index and the payments: a
\* payment apply_clause limits has its line, the price is within the trigger of the
\* index and within cap and collar, and the dead band turns no movement round.
THEOREM PaymentsAreRight ==
  ASSUME Distinct, NEW c, IsClause(c), NEW index \in Indices, NEW payments \in Seq(Int)
  PROVE  Cls!ChangesAnnounced(c, index, payments) /\ Cls!PriceFollowsIndex(c, index, payments)
<1> DEFINE out == Cls!ApplyClause(c, index, payments)
<1>1. out # Refused => \A k \in DOMAIN out.rows : out.rows[k] \in Rows(c)
  BY ScheduleIsRight DEF Schedules
<1> HIDE DEF out
<1>2. out # Refused => \A k \in DOMAIN out.rows :
         out.rows[k].applied # c.tenths * out.rows[k].movement => out.rows[k].event
  BY <1>1 DEF Rows
<1>3. out # Refused => \A k \in DOMAIN out.rows :
         /\ out.rows[k].set # out.rows[k].banded =>
              Cls!Abs(out.rows[k].set - out.rows[k].banded) < c.trigger
         /\ c.cap # NA => out.rows[k].applied <= 10 * c.cap
         /\ c.collar # NA => out.rows[k].applied >= -10 * c.collar
         /\ Cls!Abs(out.rows[k].banded) <= Cls!Abs(out.rows[k].movement)
         /\ out.rows[k].banded * out.rows[k].movement >= 0
  BY <1>1 DEF Rows
<1> QED BY <1>2, <1>3 DEF Cls!ChangesAnnounced, Cls!PriceFollowsIndex, out

\* Every limited payment of every call has its line, and its price is near the index
\* (apply_clause).
THEOREM PaymentsAreFollowed ==
  ASSUME Distinct
  PROVE  Spec => PaymentsFollowIndex
<1>1. ASSUME NEW x \in ClauseInputs PROVE IsClause(x.clause) /\ x.index \in Indices
  <2>1. x.clause \in Clauses /\ x.index \in ClauseIndices
    BY <1>1 DEF ClauseInputs
  <2>2. IsClause(x.clause)
    BY <2>1 DEF Clauses, IsClause
  <2> DEFINE firsts == {<<100, 100>>, <<NA, 100>>, <<100, NA>>}
             lasts == [1..3 -> {94, 98, 108, NA}]
  <2>3. PICK before \in firsts, after \in lasts : x.index = before \o after
    <3>1. ClauseIndices = {before \o after : before \in firsts, after \in lasts}
      BY SMT DEF ClauseIndices
    <3> HIDE DEF firsts, lasts
    <3> QED BY <2>1, <3>1
  <2>4. before \in Seq(Int \cup {NA})
    OBVIOUS
  <2>5. after \in Seq(Int \cup {NA})
    <3>1. after = [k \in 1..3 |-> after[k]] /\ \A k \in 1..3 : after[k] \in Int \cup {NA}
      OBVIOUS
    <3> HIDE DEF lasts
    <3>2. [k \in 1..3 |-> after[k]] \in Seq(Int \cup {NA})
      BY <3>1
    <3> QED BY <3>1, <3>2
  <2>6. x.index \in Seq(Int \cup {NA})
    <3> HIDE DEF firsts, lasts
    <3> QED BY <2>3, <2>4, <2>5
  <2> QED BY <2>2, <2>6 DEF Indices
<1>2. Inputs["clause"] = ClauseInputs
  BY DEF Inputs
<1>3. <<3, 4, 5>> \in Seq(Int)
  OBVIOUS
<1>4. Calls => (Chosen("clause") => /\ Cls!ChangesAnnounced(input.clause, input.index, <<3, 4, 5>>)
                                   /\ Cls!PriceFollowsIndex(input.clause, input.index, <<3, 4, 5>>))
  BY <1>1, <1>2, <1>3, PaymentsAreRight DEF Calls, Chosen
<1> QED BY <1>4, CallsAreInputs, PTL DEF PaymentsFollowIndex

-----------------------------------------------------------------------------
(* Adjustments *)

\* A panel of any items and periods.
IsPanel(panel) == \A i \in DOMAIN panel : panel[i] \subseteq Int

\* The page offers as the new item any but the old one.
IsEntry(e) == e.old # e.new /\ e.period \in Int

IsLedger(entries) ==
  /\ Len(entries) \in Nat /\ DOMAIN entries = 1..Len(entries)
  /\ \A k \in DOMAIN entries : IsEntry(entries[k])

Key(r) == [from |-> r.from, period |-> r.period]
Keys(rows) == {Key(r) : r \in rows}

\* The quotes a panel and entries E can lead to.
Quotes(panel, E) ==
  [from : DOMAIN panel, period : Int, item : DOMAIN panel \cup {e.old : e \in E}, divided : Seq(E)]

\* The strengthening: what was collected is still told apart by where it came from.
Accounted(panel, rows, log) ==
  /\ \A r, q \in rows : r.item = q.item /\ r.period = q.period => r = q
  /\ \A r, q \in rows : Key(r) = Key(q) => r = q
  /\ Keys(rows) \cap log = {}
  /\ Keys(rows) \cup log = Keys(Adj!Collected(panel))

Books(panel, E) ==
  {state \in [rows : SUBSET Quotes(panel, E), log : SUBSET [from : DOMAIN panel, period : Int]] :
     Accounted(panel, state.rows, state.log)}

LEMMA CollectedIsAccounted ==
  ASSUME NEW panel, IsPanel(panel), NEW E
  PROVE  [rows |-> Adj!Collected(panel), log |-> {}] \in Books(panel, E)
<1> DEFINE rows == Adj!Collected(panel)
<1>1. \A r \in rows : \E i \in DOMAIN panel : \E t \in panel[i] :
         r = [from |-> i, period |-> t, item |-> i, divided |-> <<>>]
  BY DEF Adj!Collected
<1> HIDE DEF rows
<1>2. ASSUME NEW r \in rows
      PROVE  r \in Quotes(panel, E) /\ r.item = r.from /\ r.divided = <<>>
  <2>1. PICK i \in DOMAIN panel : \E t \in panel[i] :
           r = [from |-> i, period |-> t, item |-> i, divided |-> <<>>]
    BY <1>1
  <2>2. PICK t \in panel[i] : r = [from |-> i, period |-> t, item |-> i, divided |-> <<>>]
    BY <2>1
  <2>3. t \in Int /\ <<>> \in Seq(E)
    BY DEF IsPanel
  <2> QED BY <2>2, <2>3 DEF Quotes
<1>3. ASSUME NEW r \in rows, NEW q \in rows, r.item = q.item, r.period = q.period PROVE r = q
  BY <1>2, <1>3 DEF Quotes
<1>4. ASSUME NEW r \in rows, NEW q \in rows, Key(r) = Key(q) PROVE r = q
  <2>1. r.from = q.from /\ r.period = q.period
    BY <1>4 DEF Key
  <2> QED BY <1>2, <1>3, <2>1
<1>5. Accounted(panel, rows, {})
  BY <1>3, <1>4 DEF Accounted, rows
<1> QED BY <1>2, <1>5 DEF Books, rows

\* One entry: its old item's later quotes and its new item's earlier ones go into the
\* log, its new item's later ones take their place.
LEMMA EntryIsAccounted ==
  ASSUME NEW panel, NEW E, NEW e \in E, IsEntry(e), NEW state \in Books(panel, E)
  PROVE  Adj!ApplyEntry(state, e) \in Books(panel, E) \cup {Refused}
<1> DEFINE rows == state.rows
           dropped == Adj!Dropped(rows, e)
           linked == Adj!Linked(rows, e)
           kept == rows \ (dropped \cup linked)
           Moved(r) == [r EXCEPT !.item = e.old, !.divided = Append(@, e)]
           moved == {Moved(r) : r \in linked}
           log == state.log \cup Keys(dropped)
<1>1. \/ Adj!ApplyEntry(state, e) = Refused
      \/ Adj!ApplyEntry(state, e) = [rows |-> kept \cup moved, log |-> log]
  BY DEF Adj!ApplyEntry, Keys, Key
<1>2. /\ rows \subseteq Quotes(panel, E) /\ state.log \subseteq [from : DOMAIN panel, period : Int]
      /\ Accounted(panel, rows, state.log)
  BY DEF Books
<1>3. \A r \in dropped : /\ r \in rows
                        /\ \/ r.item = e.old /\ r.period >= e.period
                           \/ r.item = e.new /\ r.period < e.period
  BY DEF Adj!Dropped
<1>4. \A r \in linked : r \in rows /\ r.item = e.new /\ r.period >= e.period
  BY DEF Adj!Linked
<1>5. \A r \in rows : r.period \in Int
  BY <1>2 DEF Quotes
<1>6. linked \cap dropped = {}
  BY <1>3, <1>4, <1>5 DEF IsEntry
<1>7. \A r \in kept : r \in rows /\ ~(r.item = e.old /\ r.period >= e.period) /\ r \notin linked /\ r \notin dropped
  BY DEF Adj!Dropped
<1>8. ASSUME NEW r \in linked
      PROVE  /\ Moved(r) \in Quotes(panel, E)
             /\ Moved(r).item = e.old /\ Moved(r).period = r.period /\ Key(Moved(r)) = Key(r)
  <2>1. r \in Quotes(panel, E) /\ Append(r.divided, e) \in Seq(E)
    BY <1>2, <1>4 DEF Quotes
  <2> QED BY <2>1 DEF Quotes, Key
<1> HIDE DEF rows, dropped, linked, Moved
<1>9. Keys(kept \cup moved) = Keys(kept \cup linked)
  BY <1>8 DEF Keys
<1>10. \A r, q \in kept \cup moved : r.item = q.item /\ r.period = q.period => r = q
  <2>1. \A r, q \in kept : r.item = q.item /\ r.period = q.period => r = q
    BY <1>2, <1>7 DEF Accounted
  <2>2. \A r \in kept, q \in moved : ~(r.item = q.item /\ r.period = q.period)
    BY <1>4, <1>7, <1>8
  <2>3. \A r, q \in moved : r.item = q.item /\ r.period = q.period => r = q
    <3>1. \A r, q \in linked : r.period = q.period => r = q
      BY <1>2, <1>4 DEF Accounted
    <3> QED BY <1>8, <3>1
  <2> HIDE DEF kept, moved
  <2> QED BY <2>1, <2>2, <2>3
<1>11. \A r, q \in kept \cup moved : Key(r) = Key(q) => r = q
  <2>1. \A r, q \in rows : Key(r) = Key(q) => r = q
    BY <1>2 DEF Accounted
  <2>2. \A r, q \in kept : Key(r) = Key(q) => r = q
    BY <1>7, <2>1
  <2>3. \A r \in kept, q \in moved : Key(r) # Key(q)
    BY <1>4, <1>7, <1>8, <2>1
  <2>4. \A r, q \in moved : Key(r) = Key(q) => r = q
    BY <1>4, <1>8, <2>1
  <2> HIDE DEF kept, moved
  <2> QED BY <2>2, <2>3, <2>4
<1>12. Keys(kept \cup linked) \cap log = {}
  <2>1. \A r, q \in rows : Key(r) = Key(q) => r = q
    BY <1>2 DEF Accounted
  <2>2. Keys(rows) \cap state.log = {}
    BY <1>2 DEF Accounted
  <2> QED BY <1>3, <1>4, <1>6, <1>7, <2>1, <2>2 DEF Keys
<1>13. Keys(kept \cup linked) \cup log = Keys(Adj!Collected(panel))
  <2>1. rows = kept \cup linked \cup dropped
    BY <1>3, <1>4, <1>7
  <2>2. Keys(rows) \cup state.log = Keys(Adj!Collected(panel))
    BY <1>2 DEF Accounted
  <2> HIDE DEF kept
  <2>3. Keys(rows) = Keys(kept \cup linked) \cup Keys(dropped)
    BY <2>1 DEF Keys
  <2> QED BY <2>2, <2>3
<1>14. kept \cup moved \subseteq Quotes(panel, E) /\ log \subseteq [from : DOMAIN panel, period : Int]
  <2>1. \A r \in rows : Key(r) \in [from : DOMAIN panel, period : Int]
    BY <1>2 DEF Quotes, Key
  <2>2. Keys(dropped) \subseteq [from : DOMAIN panel, period : Int]
    BY <1>3, <2>1 DEF Keys
  <2> QED BY <1>2, <1>7, <1>8, <2>2
<1> HIDE DEF kept, moved, log
<1>15. Accounted(panel, kept \cup moved, log)
  BY <1>9, <1>10, <1>11, <1>12, <1>13 DEF Accounted
<1>16. [rows |-> kept \cup moved, log |-> log] \in Books(panel, E)
  BY <1>14, <1>15 DEF Books
<1> QED BY <1>1, <1>16

Start(panel) == [rows |-> Adj!Collected(panel), log |-> {}]

\* A ledger of any length is applied entry by entry.
LEMMA LedgerInTurn ==
  ASSUME NEW panel, IsPanel(panel), NEW entries, IsLedger(entries)
  PROVE  \E h :
           /\ h[{}] = Start(panel)
           /\ \A m \in 1..Len(entries) :
                /\ h[1..m] = Adj!ApplyEntry(h[1..(m - 1)], entries[m])
                /\ h[1..m] \in Books(panel, {entries[k] : k \in DOMAIN entries}) \cup {Refused}
           /\ Adj!ApplyAdjustments(panel, entries) =
                IF Adj!OnePerItem(entries) THEN h[1..Len(entries)] ELSE Refused
<1> DEFINE E == {entries[k] : k \in DOMAIN entries}
           D == Books(panel, E) \cup {Refused}
           start == Start(panel)
           n == Len(entries)
           F == [x \in D \X (1..n) |-> Adj!ApplyEntry(x[1], entries[x[2]])]
           Applied(f) == f = [s \in SUBSET (1..n) |->
                                IF s = {} THEN start
                                ELSE Adj!ApplyEntry(f[s \ {Top(s)}], entries[Top(s)])]
           h == CHOOSE f : Applied(f)
<1>1. n \in Nat /\ DOMAIN entries = 1..n /\ \A k \in 1..n : entries[k] \in E /\ IsEntry(entries[k])
  BY DEF IsLedger
<1>2. start \in D
  BY CollectedIsAccounted DEF Start
<1>3. ASSUME NEW state \in D, NEW k \in 1..n PROVE Adj!ApplyEntry(state, entries[k]) \in D
  <2>1. CASE state = Refused
    BY <2>1 DEF Adj!ApplyEntry
  <2>2. CASE state \in Books(panel, E)
    <3> HIDE DEF E
    <3> QED BY <1>1, <2>2, EntryIsAccounted
  <2> QED BY <2>1, <2>2
<1> HIDE DEF start, D, E
<1>4. \E f : Applied(f)
  <2>1. F \in [D \X (1..n) -> D]
    BY <1>3
  <2>2. PICK g \in [SUBSET (1..n) -> D] : Folding(g, F, start, n)
    <3> HIDE DEF F, n
    <3> QED BY <1>1, <1>2, <2>1, FoldExists
  <2>3. ASSUME NEW s \in SUBSET (1..n), s # {}
        PROVE  F[<<g[s \ {Top(s)}], Top(s)>>] = Adj!ApplyEntry(g[s \ {Top(s)}], entries[Top(s)])
    <3>1. Top(s) \in 1..n
      BY <1>1, <2>3, TopIsMember
    <3>2. g[s \ {Top(s)}] \in D
      OBVIOUS
    <3> QED BY <3>1, <3>2
  <2>4. Applied(g)
    <3> HIDE DEF F, n
    <3> QED BY <2>2, <2>3 DEF Folding
  <2> QED BY <2>4
<1>5. Applied(h)
  <2> HIDE DEF Applied
  <2> QED BY <1>4
<1>6. Adj!ApplyAdjustments(panel, entries) = IF Adj!OnePerItem(entries) THEN h[1..n] ELSE Refused
  BY <1>1 DEF Adj!ApplyAdjustments, Adj!FoldLeft, Adj!MapThenFoldSet, Adj!Max, Top, start, Start
<1>7. ASSUME NEW m \in 1..n PROVE h[1..m] = Adj!ApplyEntry(h[1..(m - 1)], entries[m])
  <2> HIDE DEF h, n
  <2>1. /\ 1..m \in SUBSET (1..n) /\ 1..m # {} /\ Top(1..m) = m
        /\ (1..m) \ {Top(1..m)} = 1..(m - 1)
    BY <1>1, Prefix
  <2> QED BY <1>5, <2>1
<1>8. h[{}] = start
  <2>1. {} \in SUBSET (1..n)
    OBVIOUS
  <2> HIDE DEF h, n
  <2> QED BY <1>5, <2>1
<1>9. \A m \in 1..n : h[1..(m - 1)] \in D => h[1..m] \in D
  <2> HIDE DEF h
  <2> QED BY <1>3, <1>7
<1>10. ASSUME NEW k \in 1..n PROVE h[1..k] \in D
  <2>1. h[{}] \in D
    BY <1>2, <1>8
  <2>2. k \in Nat /\ \A m \in 1..k : m \in 1..n
    BY <1>1
  <2>3. \A m \in 1..k : h[1..(m - 1)] \in D => h[1..m] \in D
    BY <1>9, <2>2
  <2> HIDE DEF h, n
  <2> QED BY <2>1, <2>2, <2>3, FoldStays
<1> HIDE DEF h
<1> QED BY <1>6, <1>7, <1>8, <1>10 DEF D, E, start

\* What it leaves is accounted for.
LEMMA LedgerIsAccounted ==
  ASSUME NEW panel, IsPanel(panel), NEW entries, IsLedger(entries)
  PROVE  Adj!ApplyAdjustments(panel, entries) \in
           Books(panel, {entries[k] : k \in DOMAIN entries}) \cup {Refused}
<1> DEFINE E == {entries[k] : k \in DOMAIN entries}
<1>1. PICK h :
         /\ h[{}] = Start(panel)
         /\ \A m \in 1..Len(entries) : h[1..m] \in Books(panel, E) \cup {Refused}
         /\ Adj!ApplyAdjustments(panel, entries) =
              IF Adj!OnePerItem(entries) THEN h[1..Len(entries)] ELSE Refused
  BY LedgerInTurn
<1> HIDE DEF E
<1>2. h[1..Len(entries)] \in Books(panel, E) \cup {Refused}
  <2>1. CASE Len(entries) = 0
    <3>1. 1..0 = {}
      OBVIOUS
    <3> QED BY <1>1, <2>1, <3>1, CollectedIsAccounted DEF Start
  <2>2. CASE Len(entries) # 0
    <3>1. Len(entries) \in 1..Len(entries)
      BY <2>2 DEF IsLedger
    <3> QED BY <1>1, <3>1
  <2> QED BY <2>1, <2>2
<1> QED BY <1>1, <1>2 DEF E

\* Whatever the panel, and however long the ledger: apply_adjustments leaves one price
\* per item and period, and every quote collected is in the table or in the log, once.
THEOREM NothingIsLost ==
  ASSUME NEW panel, IsPanel(panel), NEW entries, IsLedger(entries)
  PROVE  Adj!OnePriceNothingLost(panel, entries)
<1> DEFINE out == Adj!ApplyAdjustments(panel, entries)
<1>1. out # Refused => Accounted(panel, out.rows, out.log)
  BY LedgerIsAccounted DEF Books
<1> HIDE DEF out
<1>2. out # Refused =>
        /\ \A r, q \in out.rows : r.item = q.item /\ r.period = q.period => r = q
        /\ {[from |-> r.from, period |-> r.period] : r \in out.rows} \cap out.log = {}
        /\ {[from |-> r.from, period |-> r.period] : r \in out.rows} \cup out.log
             = {[from |-> r.from, period |-> r.period] : r \in Adj!Collected(panel)}
  BY <1>1 DEF Accounted, Keys, Key
<1> QED BY <1>2 DEF Adj!OnePriceNothingLost, out

\* A call that raises returns no table.
Raised == \A rows, log : Refused # [rows |-> rows, log |-> log]

Moved(r, e) == [r EXCEPT !.item = e.old, !.divided = Append(@, e)]

Ready(rows, e) == (\E r \in rows : r.item = e.old) /\ Adj!Linked(rows, e) # {}

After(rows, e) ==
  (rows \ (Adj!Dropped(rows, e) \cup Adj!Linked(rows, e))) \cup {Moved(r, e) : r \in Adj!Linked(rows, e)}

LEMMA ApplyEntryIs ==
  ASSUME Raised, NEW rows, NEW log, NEW e
  PROVE  Adj!ApplyEntry([rows |-> rows, log |-> log], e) =
           IF Ready(rows, e)
           THEN [rows |-> After(rows, e), log |-> log \cup Keys(Adj!Dropped(rows, e))]
           ELSE Refused
BY DEF Raised, Adj!ApplyEntry, Ready, After, Moved, Keys, Key

LEMMA RefusedStays == \A e : Adj!ApplyEntry(Refused, e) = Refused
BY DEF Adj!ApplyEntry

\* One entry, and two in turn, on the quotes collected.
LEMMA OneEntry ==
  ASSUME NEW panel, IsPanel(panel), NEW e, IsEntry(e)
  PROVE  Adj!ApplyAdjustments(panel, <<e>>) = Adj!ApplyEntry(Start(panel), e)
<1> DEFINE entries == <<e>>
<1>1. Len(entries) = 1 /\ DOMAIN entries = 1..1 /\ entries[1] = e
  OBVIOUS
<1>2. IsLedger(entries)
  BY <1>1 DEF IsLedger
<1>3. Adj!OnePerItem(entries)
  BY <1>1 DEF Adj!OnePerItem
<1> HIDE DEF entries
<1>4. PICK h :
         /\ h[{}] = Start(panel)
         /\ \A m \in 1..1 : h[1..m] = Adj!ApplyEntry(h[1..(m - 1)], entries[m])
         /\ Adj!ApplyAdjustments(panel, entries) = h[1..1]
  BY <1>1, <1>2, <1>3, LedgerInTurn
<1>5. 1 \in 1..1 /\ 1 - 1 = 0 /\ 1..0 = {}
  OBVIOUS
<1>6. Adj!ApplyAdjustments(panel, entries) = Adj!ApplyEntry(Start(panel), e)
  BY <1>1, <1>4, <1>5
<1> QED BY <1>6 DEF entries

LEMMA TwoEntries ==
  ASSUME NEW panel, IsPanel(panel), NEW e, IsEntry(e), NEW f, IsEntry(f)
  PROVE  Adj!ApplyAdjustments(panel, <<e, f>>) =
           IF e.old # f.old /\ e.new # f.new
           THEN Adj!ApplyEntry(Adj!ApplyEntry(Start(panel), e), f)
           ELSE Refused
<1> DEFINE entries == <<e, f>>
<1>1. Len(entries) = 2 /\ DOMAIN entries = 1..2 /\ entries[1] = e /\ entries[2] = f
  OBVIOUS
<1>2. IsLedger(entries)
  BY <1>1 DEF IsLedger
<1>3. Adj!OnePerItem(entries) <=> e.old # f.old /\ e.new # f.new
  BY <1>1 DEF Adj!OnePerItem
<1> HIDE DEF entries
<1>4. PICK h :
         /\ h[{}] = Start(panel)
         /\ \A m \in 1..Len(entries) : h[1..m] = Adj!ApplyEntry(h[1..(m - 1)], entries[m])
         /\ Adj!ApplyAdjustments(panel, entries) =
              IF Adj!OnePerItem(entries) THEN h[1..Len(entries)] ELSE Refused
  BY <1>2, LedgerInTurn
<1>5. 1 \in 1..2 /\ 2 \in 1..2 /\ 1 - 1 = 0 /\ 2 - 1 = 1 /\ 1..0 = {}
  OBVIOUS
<1>6. h[1..2] = Adj!ApplyEntry(Adj!ApplyEntry(Start(panel), e), f)
  BY <1>1, <1>4, <1>5
<1>7. Adj!ApplyAdjustments(panel, entries) =
        IF e.old # f.old /\ e.new # f.new
        THEN Adj!ApplyEntry(Adj!ApplyEntry(Start(panel), e), f)
        ELSE Refused
  BY <1>1, <1>3, <1>4, <1>6
<1> QED BY <1>7 DEF entries

LEMMA MovedIs ==
  ASSUME NEW panel, NEW E, NEW e \in E, NEW r \in Quotes(panel, E)
  PROVE  Moved(r, e).item = e.old /\ Moved(r, e).period = r.period
BY DEF Moved, Quotes

\* An entry leaves the quotes of every other item alone.
LEMMA OthersUntouched ==
  ASSUME NEW panel, NEW E, NEW e \in E, NEW f \in E, NEW rows \in SUBSET Quotes(panel, E),
         {e.old, e.new} \cap {f.old, f.new} = {}
  PROVE  /\ Adj!Dropped(After(rows, e), f) = Adj!Dropped(rows, f)
         /\ Adj!Linked(After(rows, e), f) = Adj!Linked(rows, f)
         /\ Ready(After(rows, e), f) = Ready(rows, f)
         /\ After(After(rows, e), f) =
              (rows \ (Adj!Dropped(rows, e) \cup Adj!Linked(rows, e)
                         \cup Adj!Dropped(rows, f) \cup Adj!Linked(rows, f)))
                \cup {Moved(r, e) : r \in Adj!Linked(rows, e)}
                \cup {Moved(r, f) : r \in Adj!Linked(rows, f)}
<1> DEFINE gone == Adj!Dropped(rows, e) \cup Adj!Linked(rows, e)
           moved == {Moved(r, e) : r \in Adj!Linked(rows, e)}
<1>1. After(rows, e) = (rows \ gone) \cup moved
  BY DEF After
<1>2. \A r \in gone : r.item \in {e.old, e.new}
  BY DEF Adj!Dropped, Adj!Linked
<1>3. \A r \in moved : r.item = e.old
  BY MovedIs DEF Adj!Linked
<1> HIDE DEF gone, moved
<1>4. \A r : r.item \in {f.old, f.new} => (r \in After(rows, e) <=> r \in rows)
  BY <1>1, <1>2, <1>3
<1>5. Adj!Dropped(After(rows, e), f) = Adj!Dropped(rows, f)
  BY <1>4 DEF Adj!Dropped
<1>6. Adj!Linked(After(rows, e), f) = Adj!Linked(rows, f)
  BY <1>4 DEF Adj!Linked
<1>7. (\E r \in After(rows, e) : r.item = f.old) <=> (\E r \in rows : r.item = f.old)
  BY <1>4
<1>8. \A r \in Adj!Dropped(rows, f) \cup Adj!Linked(rows, f) : r.item \in {f.old, f.new}
  BY DEF Adj!Dropped, Adj!Linked
<1>9. moved \cap (Adj!Dropped(rows, f) \cup Adj!Linked(rows, f)) = {}
  BY <1>3, <1>8
<1>10. After(After(rows, e), f) =
         (After(rows, e) \ (Adj!Dropped(rows, f) \cup Adj!Linked(rows, f)))
           \cup {Moved(r, f) : r \in Adj!Linked(rows, f)}
  BY <1>5, <1>6 DEF After
<1>11. Ready(After(rows, e), f) = Ready(rows, f)
  BY <1>6, <1>7 DEF Ready
<1>12. After(rows, e) \ (Adj!Dropped(rows, f) \cup Adj!Linked(rows, f)) =
         (rows \ (gone \cup Adj!Dropped(rows, f) \cup Adj!Linked(rows, f))) \cup moved
  BY <1>1, <1>9
<1> QED BY <1>5, <1>6, <1>10, <1>11, <1>12 DEF gone, moved

\* Two links that share no item apply in either order with one outcome; where the second
\* replaces the replacement of the first later on, apply_adjustments takes the newest
\* first and raises in the order of approval.
THEOREM OrderMatters ==
  ASSUME Raised, NEW panel, IsPanel(panel), NEW e, IsEntry(e), NEW f, IsEntry(f)
  PROVE  Adj!OrderOfApproval(panel, e, f)
<1> DEFINE Possible(entries) == Adj!ApplyAdjustments(panel, entries) # Refused
           rows == Adj!Collected(panel)
           E == {e, f}
           either == Possible(<<e>>) /\ Possible(<<f>>)
           log(x) == {} \cup Keys(Adj!Dropped(rows, x))
<1>1. rows \in SUBSET Quotes(panel, E)
  BY CollectedIsAccounted DEF Books
<1> HIDE DEF rows
<1>2. Start(panel) = [rows |-> rows, log |-> {}]
  BY DEF Start, rows
<1>3. \A x : Adj!ApplyEntry(Start(panel), x) =
               IF Ready(rows, x) THEN [rows |-> After(rows, x), log |-> log(x)] ELSE Refused
  BY <1>2, ApplyEntryIs
<1>4. Possible(<<e>>) = Ready(rows, e) /\ Possible(<<f>>) = Ready(rows, f)
  <2>1. ASSUME NEW x \in E PROVE Possible(<<x>>) <=> Ready(rows, x)
    <3>1. Adj!ApplyAdjustments(panel, <<x>>) =
            IF Ready(rows, x) THEN [rows |-> After(rows, x), log |-> log(x)] ELSE Refused
      BY <1>3, OneEntry
    <3> HIDE DEF log
    <3> QED BY <3>1 DEF Raised
  <2>2. Ready(rows, e) \in BOOLEAN /\ Ready(rows, f) \in BOOLEAN
    BY DEF Ready
  <2> QED BY <2>1, <2>2
<1>5. ASSUME NEW x \in E, NEW y \in E, x.old # y.old, x.new # y.new
      PROVE  Adj!ApplyAdjustments(panel, <<x, y>>) =
               IF Ready(rows, x) /\ Ready(After(rows, x), y)
               THEN [rows |-> After(After(rows, x), y),
                     log |-> log(x) \cup Keys(Adj!Dropped(After(rows, x), y))]
               ELSE Refused
  <2>1. Adj!ApplyAdjustments(panel, <<x, y>>) = Adj!ApplyEntry(Adj!ApplyEntry(Start(panel), x), y)
    BY <1>5, TwoEntries
  <2> HIDE DEF log
  <2> QED BY <1>3, <2>1, ApplyEntryIs, RefusedStays
<1>6. ASSUME {e.old, e.new} \cap {f.old, f.new} = {}
      PROVE  /\ Adj!ApplyAdjustments(panel, <<e, f>>) = Adj!ApplyAdjustments(panel, <<f, e>>)
             /\ Possible(<<e, f>>) = either
  <2>1. /\ Ready(After(rows, e), f) = Ready(rows, f) /\ Ready(After(rows, f), e) = Ready(rows, e)
        /\ Adj!Dropped(After(rows, e), f) = Adj!Dropped(rows, f)
        /\ Adj!Dropped(After(rows, f), e) = Adj!Dropped(rows, e)
    BY <1>1, <1>6, OthersUntouched
  <2>2. After(After(rows, e), f) = After(After(rows, f), e)
    <3> DEFINE Out(x) == Adj!Dropped(rows, x) \cup Adj!Linked(rows, x)
               In(x) == {Moved(r, x) : r \in Adj!Linked(rows, x)}
    <3>1. After(After(rows, e), f) = (rows \ (Out(e) \cup Out(f))) \cup In(e) \cup In(f)
      <4>1. After(After(rows, e), f) =
              (rows \ (Adj!Dropped(rows, e) \cup Adj!Linked(rows, e)
                         \cup Adj!Dropped(rows, f) \cup Adj!Linked(rows, f)))
                \cup {Moved(r, e) : r \in Adj!Linked(rows, e)}
                \cup {Moved(r, f) : r \in Adj!Linked(rows, f)}
        BY <1>1, <1>6, OthersUntouched
      <4> QED BY <4>1
    <3>2. After(After(rows, f), e) = (rows \ (Out(f) \cup Out(e))) \cup In(f) \cup In(e)
      <4>1. After(After(rows, f), e) =
              (rows \ (Adj!Dropped(rows, f) \cup Adj!Linked(rows, f)
                         \cup Adj!Dropped(rows, e) \cup Adj!Linked(rows, e)))
                \cup {Moved(r, f) : r \in Adj!Linked(rows, f)}
                \cup {Moved(r, e) : r \in Adj!Linked(rows, e)}
        BY <1>1, <1>6, OthersUntouched
      <4> QED BY <4>1
    <3> HIDE DEF Out, In
    <3> QED BY <3>1, <3>2
  <2>3. Adj!ApplyAdjustments(panel, <<e, f>>) =
          IF Ready(rows, e) /\ Ready(rows, f)
          THEN [rows |-> After(After(rows, e), f), log |-> log(e) \cup log(f)]
          ELSE Refused
    BY <1>5, <1>6, <2>1
  <2>4. Adj!ApplyAdjustments(panel, <<f, e>>) =
          IF Ready(rows, e) /\ Ready(rows, f)
          THEN [rows |-> After(After(rows, e), f), log |-> log(f) \cup log(e)]
          ELSE Refused
    BY <1>5, <1>6, <2>1, <2>2
  <2>5. log(e) \cup log(f) = log(f) \cup log(e)
    OBVIOUS
  <2> QED BY <1>4, <2>3, <2>4, <2>5 DEF Raised
<1>7. ASSUME e.new = f.old, e.period < f.period, e.old # f.new, either
      PROVE  ~Possible(<<e, f>>) /\ Possible(<<f, e>>)
  <2>1. Ready(rows, e) /\ Ready(rows, f) /\ e.old # f.old /\ e.new # f.new
    BY <1>4, <1>7 DEF IsEntry
  <2>2. \A r \in rows : r.period \in Int
    BY <1>1 DEF Quotes
  <2>3. ~Ready(After(rows, e), f)
    <3>1. ASSUME NEW r \in After(rows, e) PROVE r.item # f.old
      <4>1. CASE r \in rows /\ r \notin Adj!Dropped(rows, e) /\ r \notin Adj!Linked(rows, e)
        BY <1>7, <2>2, <4>1 DEF Adj!Dropped, Adj!Linked, IsEntry
      <4>2. CASE \E q \in Adj!Linked(rows, e) : r = Moved(q, e)
        BY <1>1, <2>1, <4>2, MovedIs DEF Adj!Linked
      <4> QED BY <4>1, <4>2 DEF After
    <3> QED BY <3>1 DEF Ready
  <2>4. Ready(After(rows, f), e)
    <3>1. PICK r \in rows : r.item = e.old
      BY <2>1 DEF Ready
    <3>2. r \in After(rows, f)
      BY <1>7, <2>1, <3>1 DEF After, Adj!Dropped, Adj!Linked
    <3>3. PICK q \in Adj!Linked(rows, f) : TRUE
      BY <2>1 DEF Ready
    <3>4. q \in rows /\ q.period >= f.period
      BY <3>3 DEF Adj!Linked
    <3>5. Moved(q, f).item = f.old /\ Moved(q, f).period = q.period
      BY <1>1, <3>4, MovedIs
    <3>6. Moved(q, f) \in After(rows, f)
      BY <3>3 DEF After
    <3>7. q.period >= e.period
      BY <1>7, <2>2, <3>4 DEF IsEntry
    <3>8. Moved(q, f) \in Adj!Linked(After(rows, f), e)
      BY <1>7, <3>5, <3>6, <3>7 DEF Adj!Linked
    <3> QED BY <3>1, <3>2, <3>8 DEF Ready
  <2> QED BY <1>5, <2>1, <2>3, <2>4 DEF Raised
<1> HIDE DEF Possible
<1> QED BY <1>6, <1>7 DEF Adj!OrderOfApproval, Possible

\* In every call a link neither loses nor doubles a quote, and the order of approval
\* matters where it is said to (apply_adjustments).
THEOREM LinksAreLossless ==
  ASSUME Raised
  PROVE  Spec => LinksLoseNothing
<1>1. ASSUME NEW x \in LedgerInputs
      PROVE  /\ Adj!OnePriceNothingLost(x.panel, <<x.e, x.f>>)
             /\ Adj!OnePriceNothingLost(x.panel, <<x.e>>)
             /\ Adj!OrderOfApproval(x.panel, x.e, x.f)
  <2>1. IsPanel(x.panel) /\ x.e \in Entry /\ x.f \in Entry
    BY <1>1 DEF LedgerInputs, IsPanel
  <2>2. \A e \in Entry : IsEntry(e)
    BY DEF Entry, IsEntry
  <2>3. IsEntry(x.e) /\ IsEntry(x.f)
    BY <2>1, <2>2
  <2>4. ASSUME NEW e, IsEntry(e), NEW f, IsEntry(f) PROVE IsLedger(<<e>>) /\ IsLedger(<<e, f>>)
    <3>1. Len(<<e>>) = 1 /\ DOMAIN <<e>> = 1..1 /\ <<e>>[1] = e
      OBVIOUS
    <3>2. Len(<<e, f>>) = 2 /\ DOMAIN <<e, f>> = 1..2 /\ <<e, f>>[1] = e /\ <<e, f>>[2] = f
      OBVIOUS
    <3> QED BY <2>4, <3>1, <3>2 DEF IsLedger
  <2> QED BY <2>1, <2>3, <2>4, NothingIsLost, OrderMatters
<1>2. Inputs["adjustments"] = LedgerInputs
  BY DEF Inputs
<1>3. Calls => (Chosen("adjustments") =>
                  /\ Adj!OnePriceNothingLost(input.panel, <<input.e, input.f>>)
                  /\ Adj!OnePriceNothingLost(input.panel, <<input.e>>)
                  /\ Adj!OrderOfApproval(input.panel, input.e, input.f))
  BY <1>1, <1>2 DEF Calls, Chosen
<1> QED BY <1>3, CallsAreInputs, PTL DEF LinksLoseNothing

-----------------------------------------------------------------------------
(* Aggregation *)

\* The total weighted_aggregate takes over the columns of S.
LEMMA TotalIsSum ==
  ASSUME NEW S, IsFiniteSet(S), NEW weight, NEW level,
         \A c \in S : weight[c] \in Int /\ level[c] \in Int
  PROVE  Agg!Total(LAMBDA c : weight[c] * level[c], S) = Sum([c \in S |-> weight[c] * level[c]], S)
<1> DEFINE f == [c \in S |-> weight[c] * level[c]]
           P(g) == g = [s \in SUBSET S |->
                          IF s = {} THEN 0
                          ELSE weight[Pick(s)] * level[Pick(s)] + g[s \ {Pick(s)}]]
           h == CHOOSE g : P(g)
<1>1. \A c \in S : f[c] \in Int /\ f[c] = weight[c] * level[c]
  OBVIOUS
<1>2. \A s \in SUBSET S : s # {} => f[Pick(s)] = weight[Pick(s)] * level[Pick(s)]
  <2> HIDE DEF f
  <2> QED BY <1>1, PickIsMember
<1>3. \A g : Adding(g, f, S) <=> P(g)
  <2> SUFFICES ASSUME NEW g PROVE Adding(g, f, S) <=> P(g)
    OBVIOUS
  <2> HIDE DEF f
  <2>1. [s \in SUBSET S |-> IF s = {} THEN 0 ELSE f[Pick(s)] + g[s \ {Pick(s)}]]
          = [s \in SUBSET S |-> IF s = {} THEN 0
                                ELSE weight[Pick(s)] * level[Pick(s)] + g[s \ {Pick(s)}]]
    BY <1>2
  <2> QED BY <2>1 DEF Adding
<1>4. PICK g \in [SUBSET S -> Int] : Adding(g, f, S) /\ Sum(f, S) = g[S]
  <2> HIDE DEF f
  <2> QED BY <1>1, SumIs
<1>5. P(h)
  <2>1. P(g)
    <3> HIDE DEF P, f
    <3> QED BY <1>3, <1>4
  <2> HIDE DEF P
  <2> QED BY <2>1
<1>6. Agg!Total(LAMBDA c : weight[c] * level[c], S) = h[S]
  BY DEF Agg!Total, Agg!MapThenSumSet, Agg!MapThenFoldSet, Pick
<1>7. Adding(h, f, S)
  <2> HIDE DEF P, h, f
  <2> QED BY <1>3, <1>5
<1>8. g[S] = h[S]
  <2> HIDE DEF P, h, f
  <2> QED BY <1>4, <1>7, AddingIsUnique
<1> HIDE DEF P, h, f
<1>9. Agg!Total(LAMBDA c : weight[c] * level[c], S) = Sum(f, S)
  BY <1>4, <1>6, <1>8
<1> QED BY <1>9 DEF f

\* Columns of any number, levels and weights in whole units or missing.
IsWeighted(start, end, weight) ==
  /\ IsFiniteSet(DOMAIN weight)
  /\ \A c \in DOMAIN weight : {weight[c], start[c], end[c]} \subseteq Int \cup {NA}

\* What a column stood for, and those whose contribution is stated.
Share(level, weight) == [c \in Agg!Usable(weight) |-> weight[c] * level[c]]
Stated(end, weight) == Agg!Leveled(end, Agg!Usable(weight))

LEMMA UsableColumns ==
  ASSUME Distinct, NEW start, NEW end, NEW weight, IsWeighted(start, end, weight)
  PROVE  /\ IsFiniteSet(Agg!Usable(weight)) /\ IsFiniteSet(Stated(end, weight))
         /\ Stated(end, weight) \subseteq Agg!Usable(weight)
         /\ \A c \in Agg!Usable(weight) : /\ weight[c] \in Int /\ start[c] \in Int \cup {NA}
                                          /\ end[c] \in Int \cup {NA}
         /\ \A c \in Stated(end, weight) : end[c] \in Int
<1>1. Agg!Usable(weight) \subseteq DOMAIN weight /\ Stated(end, weight) \subseteq Agg!Usable(weight)
  BY DEF Agg!Usable, Agg!Leveled, Stated
<1>2. IsFiniteSet(Agg!Usable(weight)) /\ IsFiniteSet(Stated(end, weight))
  BY <1>1, FS_Subset DEF IsWeighted
<1>3. \A c \in DOMAIN weight : /\ weight[c] \in Int \cup {NA} /\ start[c] \in Int \cup {NA}
                               /\ end[c] \in Int \cup {NA}
  BY DEF IsWeighted
<1>4. /\ \A c \in Agg!Usable(weight) : c \in DOMAIN weight /\ weight[c] # NA
      /\ \A c \in Stated(end, weight) : c \in DOMAIN weight /\ end[c] # NA
  BY <1>1 DEF Agg!Usable, Agg!Leveled, Stated
<1> QED BY <1>1, <1>2, <1>3, <1>4

\* The change of the aggregate, and its denominator, as sums.
LEMMA ChangeOfAggregate ==
  ASSUME Distinct, NEW start, NEW end, NEW weight, IsWeighted(start, end, weight),
         Agg!Denominator(start, weight) # NA, Agg!WeightedAggregate(end, weight) # NA
  PROVE  /\ \A c \in Agg!Usable(weight) : start[c] \in Int
         /\ Agg!WeightedAggregate(end, weight).v = Sum(Share(end, weight), Stated(end, weight))
         /\ Agg!WeightedAggregate(start, weight).v = Sum(Share(start, weight), Agg!Usable(weight))
<1> DEFINE all == Agg!Usable(weight)
           told == Stated(end, weight)
<1>1. Agg!Leveled(start, all) = all /\ \A c \in all : start[c] \in Int
  <2>1. Agg!Leveled(start, all) = all
    BY DEF Agg!Denominator
  <2>2. \A c \in all : start[c] # NA
    BY <2>1 DEF Agg!Leveled
  <2> HIDE DEF all
  <2> QED BY <2>1, <2>2, UsableColumns DEF all
<1>2. /\ Agg!WeightedAggregate(end, weight).v = Agg!Total(LAMBDA c : weight[c] * end[c], told)
      /\ ~(Agg!Total(LAMBDA c : weight[c], all) <= 0) /\ told # {}
  BY DEF Agg!WeightedAggregate, Stated
<1>3. all # {}
  BY <1>2, UsableColumns
<1>4. Agg!WeightedAggregate(start, weight).v = Agg!Total(LAMBDA c : weight[c] * start[c], all)
  BY <1>1, <1>2, <1>3 DEF Agg!WeightedAggregate
<1>5. /\ Agg!Total(LAMBDA c : weight[c] * start[c], all) = Sum([c \in all |-> weight[c] * start[c]], all)
      /\ Agg!Total(LAMBDA c : weight[c] * end[c], told) = Sum([c \in told |-> weight[c] * end[c]], told)
  <2>1. IsFiniteSet(all) /\ IsFiniteSet(told) /\ told \subseteq all
    BY UsableColumns
  <2>2. \A c \in all : weight[c] \in Int /\ start[c] \in Int
    BY <1>1, UsableColumns
  <2>3. \A c \in told : weight[c] \in Int /\ end[c] \in Int
    BY UsableColumns
  <2> HIDE DEF all, told
  <2> QED BY <2>1, <2>2, <2>3, TotalIsSum
<1>6. Sum([c \in told |-> weight[c] * end[c]], told) = Sum(Share(end, weight), told)
  <2>1. IsFiniteSet(told) /\ told \subseteq all /\ \A c \in told : weight[c] \in Int /\ end[c] \in Int
    BY UsableColumns
  <2> DEFINE e == [c \in told |-> weight[c] * end[c]]
             f == Share(end, weight)
  <2>2. \A c \in told : e[c] \in Int /\ f[c] = e[c]
    BY <2>1 DEF Share
  <2> HIDE DEF e, f, told
  <2>3. Sum(e, told) = Sum(f, told)
    BY <2>1, <2>2, SumAgrees
  <2> QED BY <2>3 DEF e, f
<1> QED BY <1>1, <1>2, <1>4, <1>5, <1>6 DEF Share

\* What the stated contributions leave out of the change is what the columns without a
\* level at the end stood for at the start.
LEMMA LeftOut ==
  ASSUME Distinct, NEW start, NEW end, NEW weight, IsWeighted(start, end, weight),
         Agg!Denominator(start, weight) # NA, Agg!WeightedAggregate(end, weight) # NA
  PROVE  LET c == Agg!Contributions(start, end, weight)
             told == Stated(end, weight)
             left == Sum(Share(start, weight), Agg!Usable(weight) \ told)
             rise == Agg!WeightedAggregate(end, weight).v - Agg!WeightedAggregate(start, weight).v
         IN /\ {k \in DOMAIN c : c[k] # NA} = told
            /\ rise \in Int /\ left \in Int /\ Sum(c, told) = rise + left
<1> DEFINE all == Agg!Usable(weight)
           told == Stated(end, weight)
           c == Agg!Contributions(start, end, weight)
           from == Share(start, weight)
           to == Share(end, weight)
<1>1. /\ IsFiniteSet(all) /\ IsFiniteSet(told) /\ told \subseteq all
      /\ \A k \in all : weight[k] \in Int /\ start[k] \in Int /\ end[k] \in Int \cup {NA}
      /\ \A k \in told : end[k] \in Int
  BY UsableColumns, ChangeOfAggregate
<1>2. \A k \in all : k \in told <=> end[k] # NA
  BY DEF Stated, Agg!Leveled
<1>3. DOMAIN c = all /\ \A k \in all : c[k] = IF end[k] = NA THEN NA ELSE weight[k] * (end[k] - start[k])
  BY DEF Agg!Contributions
<1>4. \A k \in all : from[k] = weight[k] * start[k] /\ to[k] = weight[k] * end[k]
  BY DEF Share
<1>5. /\ Agg!WeightedAggregate(end, weight).v = Sum(to, told)
      /\ Agg!WeightedAggregate(start, weight).v = Sum(from, all)
  BY ChangeOfAggregate
<1> HIDE DEF all, told, c, from, to
<1>6. \A k \in all : from[k] \in Int
  BY <1>1, <1>4
<1>7. ASSUME NEW k \in told PROVE to[k] \in Int /\ from[k] \in Int /\ c[k] = to[k] - from[k]
  <2>1. /\ weight[k] \in Int /\ start[k] \in Int /\ end[k] \in Int /\ end[k] # NA
        /\ from[k] = weight[k] * start[k] /\ to[k] = weight[k] * end[k]
        /\ c[k] = weight[k] * (end[k] - start[k])
    BY <1>1, <1>2, <1>3, <1>4
  <2>2. \A w, x, y \in Int : w * (y - x) = w * y - w * x /\ w * x \in Int /\ w * y \in Int
    OBVIOUS
  <2> QED BY <2>1, <2>2
<1>8. {k \in DOMAIN c : c[k] # NA} = told
  <2>1. \A k \in told : c[k] \in Int /\ c[k] # NA
    BY <1>7 DEF Distinct
  <2> QED BY <1>1, <1>2, <1>3, <2>1
<1>9. Sum(c, told) = Sum(to, told) - Sum(from, told)
  BY <1>1, <1>7, SumOfDifferences
<1>10. Sum(from, all) = Sum(from, told) + Sum(from, all \ told)
  BY <1>1, <1>6, SumSplits
<1>11. /\ Sum(from, all \ told) \in Int /\ Sum(from, told) \in Int /\ Sum(to, told) \in Int
  <2>1. IsFiniteSet(all \ told)
    BY <1>1, FS_Subset
  <2> QED BY <1>1, <1>6, <1>7, <2>1, SumType
<1>12. /\ Sum(to, told) - Sum(from, all) \in Int
       /\ Sum(c, told) = (Sum(to, told) - Sum(from, all)) + Sum(from, all \ told)
  BY <1>9, <1>10, <1>11
<1> QED BY <1>5, <1>8, <1>11, <1>12 DEF all, told, c, from, to

\* Whatever the columns and their weights, negative ones included: where every usable
\* column has a level at the end, what contributions states is the change of
\* weighted_aggregate, exactly.
THEOREM ContributionsAreExact ==
  ASSUME Distinct, NEW start, NEW end, NEW weight, IsWeighted(start, end, weight),
         Agg!Denominator(start, weight) # NA, Agg!WeightedAggregate(end, weight) # NA,
         \A k \in Agg!Usable(weight) : end[k] # NA
  PROVE  LET c == Agg!Contributions(start, end, weight)
         IN Sum(c, DOMAIN c) = Agg!WeightedAggregate(end, weight).v
                                 - Agg!WeightedAggregate(start, weight).v
<1> DEFINE all == Agg!Usable(weight)
           told == Stated(end, weight)
           c == Agg!Contributions(start, end, weight)
           left == Sum(Share(start, weight), all \ told)
           rise == Agg!WeightedAggregate(end, weight).v - Agg!WeightedAggregate(start, weight).v
<1>1. told = all /\ DOMAIN c = all
  BY DEF Stated, Agg!Leveled, Agg!Contributions
<1>2. rise \in Int /\ Sum(c, told) = rise + left
  BY LeftOut
<1>3. left = 0
  <2>1. all \ told = {}
    BY <1>1
  <2> QED BY <2>1, SumOfNothing
<1> HIDE DEF all, told, c, left, rise
<1>4. Sum(c, DOMAIN c) = rise
  BY <1>1, <1>2, <1>3
<1> QED BY <1>4 DEF c, rise

\* Where weights and levels are not negative (aggregate_tree raises on a negative weight),
\* the stated contributions of any columns add up to the change of the aggregate exactly
\* when no column that counted at the start lacks a level at the end.
THEOREM ContributionsAreComplete ==
  ASSUME Distinct, NEW start, NEW end, NEW weight, IsWeighted(start, end, weight),
         \A k \in Agg!Usable(weight) : weight[k] >= 0 /\ (start[k] # NA => start[k] >= 0)
  PROVE  Agg!ContributionsAddUp(start, end, weight)
<1> DEFINE all == Agg!Usable(weight)
           told == Stated(end, weight)
           from == Share(start, weight)
           c == Agg!Contributions(start, end, weight)
           stated == {k \in DOMAIN c : c[k] # NA}
           missing == {k \in all : end[k] = NA /\ weight[k] * start[k] # 0}
           left == Sum(from, all \ told)
           rise == Agg!WeightedAggregate(end, weight).v - Agg!WeightedAggregate(start, weight).v
<1>1. SUFFICES ASSUME Agg!Denominator(start, weight) # NA, Agg!WeightedAggregate(end, weight) # NA
               PROVE  (Sum(c, stated) = rise) = (missing = {})
  BY DEF Agg!ContributionsAddUp, Sum
<1>2. stated = told /\ rise \in Int /\ left \in Int /\ Sum(c, told) = rise + left
  BY <1>1, LeftOut
<1>3. /\ IsFiniteSet(all) /\ IsFiniteSet(all \ told)
      /\ \A k \in all : weight[k] \in Nat /\ start[k] \in Nat
  <2>1. IsFiniteSet(all \ told)
    BY UsableColumns, FS_Subset
  <2>2. \A k \in all : weight[k] \in Int /\ start[k] \in Int
    BY <1>1, UsableColumns, ChangeOfAggregate
  <2>3. \A k \in all : start[k] # NA
    BY <2>2 DEF Distinct
  <2> QED BY <2>1, <2>2, <2>3, UsableColumns
<1>4. \A k \in all : from[k] = weight[k] * start[k] /\ from[k] \in Nat
  <2>1. \A x, y \in Nat : x * y \in Nat
    OBVIOUS
  <2> QED BY <1>3, <2>1 DEF Share
<1>5. \A k \in all : k \in told <=> end[k] # NA
  BY DEF Stated, Agg!Leveled
<1> HIDE DEF all, told, from, c, stated, rise
<1>6. left = 0 <=> \A k \in all \ told : from[k] = 0
  BY <1>3, <1>4, SumVanishes
<1>7. missing = {} <=> \A k \in all \ told : from[k] = 0
  BY <1>4, <1>5
<1> HIDE DEF left, missing
<1>8. Sum(c, stated) = rise <=> left = 0
  BY <1>2
<1> QED BY <1>6, <1>7, <1>8
==================================================================================
