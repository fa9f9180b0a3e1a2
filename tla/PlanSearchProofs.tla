-------------------------- MODULE PlanSearchProofs --------------------------
EXTENDS FinalTask, FiniteSetTheorems, SequenceTheorems, WellFoundedInduction, TLAPS

\* A property that the numbers inherit upwards from 0 is one of all of them.
LEMMA Upwards ==
  ASSUME NEW T, 0 \in T, \A n \in Nat : n \in T => n + 1 \in T
  PROVE  Nat \subseteq T
<1> DEFINE Bad == {n \in Nat : n \notin T}
<1> SUFFICES ASSUME Bad # {} PROVE FALSE
  OBVIOUS
<1>1. PICK m \in Bad : \A n \in Bad : ~(<<n, m>> \in OpToRel(<, Nat))
  <2>1. Bad \subseteq Nat
    OBVIOUS
  <2> HIDE DEF Bad
  <2> QED BY <2>1, NatLessThanWellFounded, WFMin
<1>2. \A n \in Bad : ~(n < m)
  BY <1>1 DEF OpToRel
<1>3. m # 0 /\ m - 1 \in Nat /\ m - 1 \in T
  BY <1>2
<1> QED BY <1>3

\* A fold over a list takes its indices by their maximum.
LEMMA LastIndex ==
  ASSUME NEW n \in Nat, NEW q \in SUBSET (1..(n + 1))
  PROVE  IF n + 1 \in q THEN Max(q) = n + 1 /\ q \ {Max(q)} \in SUBSET (1..n)
                        ELSE q \in SUBSET (1..n)
<1>1. CASE n + 1 \in q
  <2>1. \A x \in q : x \in Int /\ n + 1 >= x
    OBVIOUS
  <2>2. \A x \in q : (\A y \in q : x >= y) => x = n + 1
    BY <1>1, <2>1
  <2>3. Max(q) \in q /\ \A y \in q : Max(q) >= y
    BY <1>1, <2>1 DEF Max
  <2>4. Max(q) = n + 1
    BY <2>2, <2>3
  <2> QED BY <1>1, <2>4
<1>2. CASE n + 1 \notin q
  BY <1>2
<1> QED BY <1>1, <1>2

LEMMA Prefix ==
  ASSUME NEW j \in Nat \ {0}
  PROVE  1..j # {} /\ Max(1..j) = j /\ (1..j) \ {j} = 1..(j - 1)
<1> DEFINE m == j - 1
<1>1. m \in Nat /\ j = m + 1
  OBVIOUS
<1> HIDE DEF m
<1>2. Max(1..(m + 1)) = m + 1
  <2>1. 1..(m + 1) \in SUBSET (1..(m + 1)) /\ m + 1 \in 1..(m + 1)
    BY <1>1
  <2> QED BY <1>1, <2>1, LastIndex
<1> QED BY <1>1, <1>2

ClosureFold(g, n, lm, m) ==
  g = [q \in SUBSET (1..m) |->
         IF q = {} THEN lm ELSE LET x == Max(q) IN Through(n, g[q \ {x}], Upto(n)[x])]

LEMMA ClosureSteps ==
  ASSUME NEW n \in Nat, NEW lm
  PROVE  \E C : /\ C[0] = lm
                /\ \A j \in 1..n : C[j] = Through(n, C[j - 1], j)
                /\ Closure(n, lm) = C[n]
<1> DEFINE T == {m \in Nat : \E g : ClosureFold(g, n, lm, m)}
<1>1. 0 \in T
  <2>1. ClosureFold([q \in {{}} |-> lm], n, lm, 0)
    BY DEF ClosureFold
  <2> QED BY <2>1
<1>2. ASSUME NEW m \in Nat, m \in T PROVE m + 1 \in T
  <2>1. PICK g : ClosureFold(g, n, lm, m)
    BY <1>2
  <2> DEFINE f == [q \in SUBSET (1..(m + 1)) |->
                     IF q = {} THEN lm ELSE LET x == Max(q) IN Through(n, g[q \ {x}], Upto(n)[x])]
  <2>4. SUBSET (1..m) \subseteq SUBSET (1..(m + 1))
    OBVIOUS
  <2>2. \A q \in SUBSET (1..m) : f[q] = g[q]
    BY <2>1, <2>4 DEF ClosureFold
  <2>5. \A q \in SUBSET (1..(m + 1)) : q # {} => q \ {Max(q)} \in SUBSET (1..m)
    <3> SUFFICES ASSUME NEW q \in SUBSET (1..(m + 1)), q # {} PROVE q \ {Max(q)} \in SUBSET (1..m)
      OBVIOUS
    <3> QED BY LastIndex
  <2>3. ClosureFold(f, n, lm, m + 1)
    <3>1. \A q \in SUBSET (1..(m + 1)) : q # {} => f[q \ {Max(q)}] = g[q \ {Max(q)}]
      <4> HIDE DEF f
      <4> QED BY <2>2, <2>5
    <3> QED BY <3>1 DEF ClosureFold
  <2> QED BY <2>3
<1>3. \E g : ClosureFold(g, n, lm, n)
  <2>1. Nat \subseteq T
    <3> HIDE DEF T
    <3> QED BY <1>1, <1>2, Upwards
  <2> QED BY <2>1
<1> DEFINE fold == CHOOSE g : ClosureFold(g, n, lm, n)
<1>4. ClosureFold(fold, n, lm, n)
  BY <1>3
<1>5. Closure(n, lm) = fold[1..n]
  BY DEF Closure, FoldLeft, MapThenFoldSet, ClosureFold, Upto
<1> DEFINE C == [j \in 0..n |-> fold[1..j]]
<1>6. C[0] = lm
  <2>1. fold[{}] = lm
    <3> HIDE DEF fold
    <3> QED BY <1>4 DEF ClosureFold
  <2> QED BY <2>1
<1>7. ASSUME NEW j \in 1..n PROVE C[j] = Through(n, C[j - 1], j)
  <2>1. 1..j \in SUBSET (1..n) /\ Upto(n)[j] = j /\ j \in Nat \ {0}
    BY DEF Upto
  <2>2. fold[1..j] = Through(n, fold[1..(j - 1)], j)
    <3> DEFINE q == 1..j
    <3> HIDE DEF fold, q
    <3>1. q \in SUBSET (1..n) /\ q # {} /\ Max(q) = j /\ q \ {j} = 1..(j - 1)
      BY <2>1, Prefix DEF q
    <3>2. fold[q] = Through(n, fold[q \ {Max(q)}], Upto(n)[Max(q)])
      BY <1>4, <3>1 DEF ClosureFold
    <3> QED BY <2>1, <3>1, <3>2 DEF q
  <2>3. j \in 0..n /\ j - 1 \in 0..n
    OBVIOUS
  <2> HIDE DEF fold
  <2> QED BY <2>2, <2>3
<1>8. Closure(n, lm) = C[n]
  BY <1>5
<1> HIDE DEF C
<1> QED BY <1>6, <1>7, <1>8

LEMMA ThroughMeans ==
  ASSUME NEW n, NEW D, NEW j, NEW a \in 1..n, NEW c \in 1..n
  PROVE  <<a, c>> \in Through(n, D, j) <=> <<a, c>> \in D \/ (<<a, j>> \in D /\ <<j, c>> \in D)
<1> DEFINE from == {x \in 1..n : <<x, j>> \in D}  to == {x \in 1..n : <<j, x>> \in D}
           new == {<<x, y>> : x \in from, y \in to}
<1>1. Through(n, D, j) = D \cup new
  BY DEF Through
<1>2. <<a, c>> \in new <=> a \in from /\ c \in to
  <2> HIDE DEF from, to
  <2> QED OBVIOUS
<1> HIDE DEF new
<1> QED BY <1>1, <1>2

LEMMA ThroughStays ==
  ASSUME NEW n, NEW D \in SUBSET ((1..n) \X (1..n)), NEW j
  PROVE  D \subseteq Through(n, D, j) /\ Through(n, D, j) \subseteq (1..n) \X (1..n)
<1> DEFINE from == {x \in 1..n : <<x, j>> \in D}  to == {x \in 1..n : <<j, x>> \in D}
           new == {<<x, y>> : x \in from, y \in to}
<1>1. Through(n, D, j) = D \cup new
  BY DEF Through
<1>2. new \subseteq (1..n) \X (1..n)
  <2>1. from \subseteq 1..n /\ to \subseteq 1..n
    OBVIOUS
  <2> HIDE DEF from, to
  <2>2. ASSUME NEW p \in new
        PROVE  p \in (1..n) \X (1..n)
    <3>1. PICK x \in from, y \in to : p = <<x, y>>
      OBVIOUS
    <3> HIDE DEF new
    <3>2. x \in 1..n /\ y \in 1..n
      BY <2>1
    <3> QED BY <3>1, <3>2
  <2> HIDE DEF new
  <2> QED BY <2>2
<1> HIDE DEF new
<1> QED BY <1>1, <1>2

\* After n intermediate goals the closure is transitive, it holds the relation
\* it starts from, and a set closed under that relation is closed under it.
LEMMA ClosureIsTransitive ==
  ASSUME NEW n \in Nat, NEW lm \in SUBSET ((1..n) \X (1..n))
  PROVE  /\ lm \subseteq Closure(n, lm) /\ Closure(n, lm) \subseteq (1..n) \X (1..n)
         /\ \A a, b, c \in 1..n : <<a, b>> \in Closure(n, lm) /\ <<b, c>> \in Closure(n, lm)
                                    => <<a, c>> \in Closure(n, lm)
         /\ \A X : (\A p \in lm : p[1] \in X => p[2] \in X)
                     => \A a, b \in 1..n : <<a, b>> \in Closure(n, lm) /\ a \in X => b \in X
<1>1. PICK C : /\ C[0] = lm
               /\ \A j \in 1..n : C[j] = Through(n, C[j - 1], j)
               /\ Closure(n, lm) = C[n]
  BY ClosureSteps
<1> DEFINE Good(D, j) ==
       /\ lm \subseteq D /\ D \subseteq (1..n) \X (1..n)
       /\ \A a, c \in 1..n, b \in 1..j : <<a, b>> \in D /\ <<b, c>> \in D => <<a, c>> \in D
       /\ \A X : (\A p \in lm : p[1] \in X => p[2] \in X)
                   => \A a, b \in 1..n : <<a, b>> \in D /\ a \in X => b \in X
       T == {j \in Nat : j <= n => Good(C[j], j)}
<1>2. 0 \in T
  BY <1>1
<1>3. ASSUME NEW j \in Nat, j \in T PROVE j + 1 \in T
  <2> SUFFICES ASSUME j + 1 <= n PROVE Good(C[j + 1], j + 1)
    OBVIOUS
  <2> DEFINE D == C[j]  E == C[j + 1]
  <2>1. Good(D, j) /\ E = Through(n, D, j + 1) /\ j + 1 \in 1..n
    BY <1>1, <1>3
  <2> HIDE DEF D, E
  <2>2. \A a, c \in 1..n : <<a, c>> \in E <=>
            <<a, c>> \in D \/ (<<a, j + 1>> \in D /\ <<j + 1, c>> \in D)
    BY <2>1, ThroughMeans
  <2>3. lm \subseteq E /\ E \subseteq (1..n) \X (1..n)
    BY <2>1, ThroughStays
  <2>4. ASSUME NEW a \in 1..n, NEW c \in 1..n, NEW b \in 1..(j + 1), <<a, b>> \in E, <<b, c>> \in E
        PROVE  <<a, c>> \in E
    <3>1. b \in 1..n /\ (b \in 1..j \/ b = j + 1)
      BY <2>1
    <3> QED BY <2>1, <2>2, <2>4, <3>1
  <2>5. ASSUME NEW X, \A p \in lm : p[1] \in X => p[2] \in X,
               NEW a \in 1..n, NEW b \in 1..n, <<a, b>> \in E, a \in X
        PROVE  b \in X
    BY <2>1, <2>2, <2>5
  <2> QED BY <2>3, <2>4, <2>5 DEF E
<1>4. n \in T
  <2> HIDE DEF T
  <2> QED BY <1>2, <1>3, Upwards
<1> QED BY <1>1, <1>4

-----------------------------------------------------------------------------
(* Numbers in order                                                        *)

\* The list of a finite set by increasing numbers is the set, in order.
LEMMA IncreasingIsInOrder ==
  ASSUME NEW F \in SUBSET Int, IsFiniteSet(F)
  PROVE  LET r == Increasing(F)
         IN  /\ Cardinality(F) \in Nat /\ DOMAIN r = 1..Cardinality(F)
             /\ \A j \in DOMAIN r : r[j] \in F
             /\ \A x \in F : \E j \in DOMAIN r : r[j] = x
             /\ \A j, l \in DOMAIN r : j < l <=> r[j] < r[l]
<1> DEFINE n == Cardinality(F)
           r == Increasing(F)
           below(x) == {y \in F : y < x}
           rank == [x \in F |-> Cardinality(below(x))]
<1>1. n \in Nat
  BY FS_CardinalityType
<1>2. DOMAIN r = 1..n /\ \A j \in 1..n : r[j] = CHOOSE x \in F : Cardinality(below(x)) = j - 1
  BY DEF Increasing, Ranked
<1>3. \A x \in F : rank[x] = Cardinality(below(x)) /\ rank[x] \in 0..(n - 1)
  <2> SUFFICES ASSUME NEW x \in F PROVE Cardinality(below(x)) \in 0..(n - 1)
    OBVIOUS
  <2>1. below(x) \in SUBSET F /\ below(x) # F
    OBVIOUS
  <2> HIDE DEF below
  <2>2. IsFiniteSet(below(x)) /\ Cardinality(below(x)) <= n /\ Cardinality(below(x)) # n
    BY <2>1, FS_Subset
  <2>3. Cardinality(below(x)) \in Nat
    BY <2>2, FS_CardinalityType
  <2> QED BY <1>1, <2>2, <2>3
<1>4. ASSUME NEW x \in F, NEW y \in F, x < y PROVE rank[x] < rank[y]
  <2>0. x \in Int /\ y \in Int /\ x \in below(y) /\ x \notin below(x)
    BY <1>4
  <2>1. below(x) \in SUBSET below(y) /\ below(x) # below(y) /\ below(y) \in SUBSET F
    <3>1. ASSUME NEW z \in F, z < x PROVE z < y
      BY <1>4, <2>0, <3>1
    <3> QED BY <2>0, <3>1
  <2> HIDE DEF below
  <2>2. IsFiniteSet(below(y))
    BY <2>1, FS_Subset
  <2>3. Cardinality(below(x)) <= Cardinality(below(y)) /\ Cardinality(below(x)) # Cardinality(below(y))
    BY <2>1, <2>2, FS_Subset
  <2> HIDE DEF rank
  <2> QED BY <1>3, <2>3
<1> HIDE DEF below, r
<1>5. rank \in Surjection(F, 0..(n - 1))
  <2>1. rank \in Injection(F, 0..(n - 1))
    <3>1. rank \in [F -> 0..(n - 1)]
      BY <1>3
    <3> HIDE DEF rank
    <3>2. \A x, y \in F : rank[x] = rank[y] => x = y
      <4> SUFFICES ASSUME NEW x \in F, NEW y \in F, x # y PROVE rank[x] # rank[y]
        OBVIOUS
      <4>1. x < y \/ y < x
        OBVIOUS
      <4> QED BY <1>3, <1>4, <4>1
    <3> QED BY <3>1, <3>2 DEF Injection, IsInjective
  <2>2. IsFiniteSet(0..(n - 1)) /\ Cardinality(0..(n - 1)) = n
    BY <1>1, FS_Interval
  <2> HIDE DEF rank
  <2> QED BY <2>1, <2>2, FS_Injection
<1>6. \A j \in 1..n : r[j] \in F /\ rank[r[j]] = j - 1
  <2> SUFFICES ASSUME NEW j \in 1..n PROVE r[j] \in F /\ rank[r[j]] = j - 1
    OBVIOUS
  <2>1. j - 1 \in 0..(n - 1)
    BY <1>1
  <2>2. PICK x \in F : rank[x] = j - 1
    <3> HIDE DEF rank
    <3> QED BY <1>5, <2>1 DEF Surjection
  <2>3. \E y \in F : Cardinality(below(y)) = j - 1
    BY <2>2
  <2>4. r[j] \in F /\ Cardinality(below(r[j])) = j - 1
    BY <1>2, <2>3
  <2> QED BY <2>4
<1> HIDE DEF rank
<1>7. \A x \in F : \E j \in 1..n : r[j] = x
  <2> SUFFICES ASSUME NEW x \in F PROVE \E j \in 1..n : r[j] = x
    OBVIOUS
  <2>1. rank[x] + 1 \in 1..n
    BY <1>1, <1>3
  <2>2. r[rank[x] + 1] \in F /\ rank[r[rank[x] + 1]] = rank[x]
    BY <1>3, <1>6, <2>1
  <2>3. \A y \in F : rank[y] = rank[x] => y = x
    <3> SUFFICES ASSUME NEW y \in F, y # x PROVE rank[y] # rank[x]
      OBVIOUS
    <3>1. y \in Int /\ x \in Int
      OBVIOUS
    <3> QED BY <1>3, <1>4, <3>1
  <2> QED BY <2>1, <2>2, <2>3
<1>8. \A j, l \in 1..n : j < l <=> r[j] < r[l]
  <2> SUFFICES ASSUME NEW j \in 1..n, NEW l \in 1..n PROVE j < l <=> r[j] < r[l]
    OBVIOUS
  <2>1. r[j] \in Int /\ r[l] \in Int
    BY <1>6
  <2>2. CASE r[j] < r[l]
    BY <1>1, <1>4, <1>6, <2>1, <2>2
  <2>3. CASE r[l] < r[j]
    BY <1>1, <1>4, <1>6, <2>1, <2>3
  <2>4. CASE r[j] = r[l]
    BY <1>1, <1>6, <2>1, <2>4
  <2> QED BY <2>1, <2>2, <2>3, <2>4
<1> QED BY <1>1, <1>2, <1>6, <1>7, <1>8 DEF r

-----------------------------------------------------------------------------
(* The agenda: the orderings of the goals and the entries they are cut to  *)

Earlier(n, C, i) == {j \in 1..n : j # i /\ <<j, i>> \in C}
Later(n, C, i)   == {j \in 1..n : j # i /\ <<i, j>> \in C}

\* The degree of a goal counts the goals before it and those after it.
LEMMA DegreeCounts ==
  ASSUME NEW n \in Nat, NEW C \in SUBSET ((1..n) \X (1..n)), NEW i \in 1..n
  PROVE  /\ Hits(C, i) = Earlier(n, C, i) \cup Later(n, C, i)
         /\ Degree(C, i) = Cardinality(Earlier(n, C, i)) - Cardinality(Later(n, C, i))
         /\ IsFiniteSet(Earlier(n, C, i)) /\ Cardinality(Earlier(n, C, i)) \in Nat
         /\ IsFiniteSet(Later(n, C, i)) /\ Cardinality(Later(n, C, i)) \in Nat
         /\ Degree(C, i) \in Int
<1>1. Hits(C, i) = Earlier(n, C, i) \cup Later(n, C, i)
  <2> DEFINE ends == {p[1] : p \in C} \cup {p[2] : p \in C}
  <2>1. \A j : <<i, j>> \in C \/ <<j, i>> \in C => j \in ends /\ j \in 1..n
    <3> SUFFICES ASSUME NEW j, <<i, j>> \in C \/ <<j, i>> \in C PROVE j \in ends /\ j \in 1..n
      OBVIOUS
    <3>1. <<i, j>>[2] = j /\ <<j, i>>[1] = j
      OBVIOUS
    <3> QED BY <3>1
  <2> HIDE DEF ends
  <2>2. Hits(C, i) = {j \in ends : j # i /\ (<<i, j>> \in C \/ <<j, i>> \in C)}
    BY DEF Hits, ends
  <2> QED BY <2>1, <2>2 DEF Earlier, Later
<1>2. {j \in Hits(C, i) : <<j, i>> \in C} = Earlier(n, C, i)
  BY <1>1 DEF Earlier, Later
<1>3. {j \in Hits(C, i) : <<i, j>> \in C} = Later(n, C, i)
  BY <1>1 DEF Earlier, Later
<1>4. IsFiniteSet(1..n) /\ Earlier(n, C, i) \in SUBSET (1..n) /\ Later(n, C, i) \in SUBSET (1..n)
  BY FS_Interval DEF Earlier, Later
<1>5. IsFiniteSet(Earlier(n, C, i)) /\ IsFiniteSet(Later(n, C, i))
  BY <1>4, FS_Subset
<1>6. Cardinality(Earlier(n, C, i)) \in Nat /\ Cardinality(Later(n, C, i)) \in Nat
  BY <1>5, FS_CardinalityType
<1>7. Degree(C, i) = Cardinality(Earlier(n, C, i)) - Cardinality(Later(n, C, i))
  BY <1>2, <1>3 DEF Degree
<1> QED BY <1>1, <1>5, <1>6, <1>7

\* In a transitive relation the degree grows from a goal to those after it,
\* and is the same for goals that have to precede each other.
LEMMA DegreeRespects ==
  ASSUME NEW n \in Nat, NEW C \in SUBSET ((1..n) \X (1..n)),
         \A a, b, c \in 1..n : <<a, b>> \in C /\ <<b, c>> \in C => <<a, c>> \in C,
         NEW i \in 1..n, NEW j \in 1..n, i # j, <<i, j>> \in C
  PROVE  IF <<j, i>> \in C THEN Degree(C, i) = Degree(C, j) ELSE Degree(C, i) < Degree(C, j)
<1> DEFINE Ei == Earlier(n, C, i)  Ej == Earlier(n, C, j)
           Li == Later(n, C, i)  Lj == Later(n, C, j)
<1>1. /\ Degree(C, i) = Cardinality(Ei) - Cardinality(Li)
      /\ Degree(C, j) = Cardinality(Ej) - Cardinality(Lj)
      /\ IsFiniteSet(Ei) /\ IsFiniteSet(Ej) /\ IsFiniteSet(Li) /\ IsFiniteSet(Lj)
      /\ Cardinality(Ei) \in Nat /\ Cardinality(Ej) \in Nat
      /\ Cardinality(Li) \in Nat /\ Cardinality(Lj) \in Nat
  BY DegreeCounts
<1>2. i \in Ej /\ i \notin Ei /\ j \in Li /\ j \notin Lj
  BY DEF Earlier, Later
<1>3. CASE <<j, i>> \in C
  <2>1. j \in Ei /\ i \in Lj /\ Ei \ {j} = Ej \ {i} /\ Li \ {j} = Lj \ {i}
    BY <1>3 DEF Earlier, Later
  <2> HIDE DEF Ei, Ej, Li, Lj
  <2>2. /\ Cardinality(Ei \ {j}) = Cardinality(Ei) - 1 /\ Cardinality(Ej \ {i}) = Cardinality(Ej) - 1
        /\ Cardinality(Li \ {j}) = Cardinality(Li) - 1 /\ Cardinality(Lj \ {i}) = Cardinality(Lj) - 1
    BY <1>1, <1>2, <2>1, FS_RemoveElement
  <2>3. Cardinality(Ei) = Cardinality(Ej) /\ Cardinality(Li) = Cardinality(Lj)
    <3>1. Cardinality(Ei) - 1 = Cardinality(Ej) - 1 /\ Cardinality(Li) - 1 = Cardinality(Lj) - 1
      BY <2>1, <2>2
    <3> QED BY <1>1, <3>1
  <2> QED BY <1>1, <1>3, <2>3
<1>4. CASE <<j, i>> \notin C
  <2>1. Ei \in SUBSET Ej /\ Ei # Ej /\ Lj \in SUBSET Li /\ Li # Lj
    <3>1. Ei \subseteq Ej
      BY <1>4 DEF Earlier
    <3>2. Lj \subseteq Li
      BY <1>4 DEF Later
    <3> QED BY <1>2, <3>1, <3>2
  <2> HIDE DEF Ei, Ej, Li, Lj
  <2>2. /\ Cardinality(Ei) <= Cardinality(Ej) /\ Cardinality(Ei) # Cardinality(Ej)
        /\ Cardinality(Lj) <= Cardinality(Li) /\ Cardinality(Lj) # Cardinality(Li)
    BY <1>1, <2>1, FS_Subset
  <2> QED BY <1>1, <1>4, <2>2
<1> QED BY <1>3, <1>4

\* place gives the entry of each goal: the entries are ordered by the degree of
\* their goals, and the last holds the goals that no ordering touches.
IsPlacing(place, n, gs, C, a) ==
  /\ \A i \in 1..n : place[i] \in Nat /\ place[i] \in DOMAIN a
  /\ \A k \in DOMAIN a : \A y : y \in a[k] <=> \E i \in 1..n : place[i] = k /\ gs[i] = y
  /\ \A i, j \in 1..n : Hits(C, i) # {} /\ Hits(C, j) # {} =>
                          (place[i] < place[j] <=> Degree(C, i) < Degree(C, j))
  /\ \A i, j \in 1..n : Hits(C, i) # {} /\ Hits(C, j) = {} => place[i] < place[j]

LEMMA AgendaPlaces ==
  ASSUME NEW gs \in Seq(Nat), IsInjective(gs), NEW n \in Nat, n = Len(gs),
         NEW C \in SUBSET ((1..n) \X (1..n))
  PROVE  \E place : IsPlacing(place, n, gs, C, build_goal_agenda(gs, C))
<1> DEFINE ordered == {i \in 1..n : Hits(C, i) # {}}
           degree == [i \in ordered |-> Degree(C, i)]
           D == {Degree(C, i) : i \in ordered}
           degrees == Increasing(D)
           m == Cardinality(D)
           entries == [k \in DOMAIN degrees |->
                         {gs[i] : i \in {j \in ordered : Degree(C, j) = degrees[k]}}]
           others == {gs[i] : i \in (1..n) \ ordered}
           a == build_goal_agenda(gs, C)
<1>1. DOMAIN gs = 1..n
  OBVIOUS
<1>2. a = IF others = {} THEN entries ELSE Append(entries, others)
  BY <1>1 DEF build_goal_agenda
<1>3. \A i \in ordered : Degree(C, i) \in Int
  BY DegreeCounts
<1>4. D \in SUBSET Int /\ IsFiniteSet(D)
  <2>1. IsFiniteSet(ordered)
    <3>1. ordered \in SUBSET (1..n)
      OBVIOUS
    <3>2. IsFiniteSet(1..n)
      BY FS_Interval
    <3> HIDE DEF ordered
    <3> QED BY <3>1, <3>2, FS_Subset
  <2> HIDE DEF ordered
  <2>2. degree \in Surjection(ordered, D)
    BY DEF Surjection
  <2> QED BY <1>3, <2>1, <2>2, FS_Surjection
<1>5. /\ m \in Nat /\ DOMAIN degrees = 1..m
      /\ \A k \in 1..m : degrees[k] \in D
      /\ \A d \in D : \E k \in 1..m : degrees[k] = d
      /\ \A k, l \in 1..m : k < l <=> degrees[k] < degrees[l]
  <2> HIDE DEF D
  <2> QED BY <1>4, IncreasingIsInOrder
<1> DEFINE place == [i \in 1..n |-> IF i \in ordered THEN CHOOSE k \in 1..m : degrees[k] = Degree(C, i)
                                                        ELSE m + 1]
<1>6. \A i \in ordered : place[i] \in 1..m /\ degrees[place[i]] = Degree(C, i)
  <2> SUFFICES ASSUME NEW i \in ordered
               PROVE  place[i] \in 1..m /\ degrees[place[i]] = Degree(C, i)
    OBVIOUS
  <2>1. i \in 1..n /\ Degree(C, i) \in D
    OBVIOUS
  <2> HIDE DEF ordered, D, degrees, m
  <2>2. place[i] = CHOOSE k \in 1..m : degrees[k] = Degree(C, i)
    BY <2>1
  <2> QED BY <1>5, <2>1, <2>2
<1>7. \A i \in (1..n) \ ordered : place[i] = m + 1
  OBVIOUS
<1>8. DOMAIN entries = 1..m /\ \A k \in 1..m : entries[k] = {gs[i] : i \in {i \in 1..n : place[i] = k}}
  <2>1. DOMAIN entries = 1..m
    BY <1>5
  <2>2. ASSUME NEW k \in 1..m
        PROVE  {j \in ordered : Degree(C, j) = degrees[k]} = {i \in 1..n : place[i] = k}
    <3>1. ordered \subseteq 1..n
      OBVIOUS
    <3>2. ASSUME NEW i \in ordered PROVE Degree(C, i) = degrees[k] <=> place[i] = k
      <4>1. \A l \in 1..m : degrees[l] = degrees[k] => l = k
        <5> SUFFICES ASSUME NEW l \in 1..m, l # k PROVE degrees[l] # degrees[k]
          OBVIOUS
        <5>1. l < k \/ k < l
          OBVIOUS
        <5>2. degrees[l] \in Int /\ degrees[k] \in Int
          BY <1>4, <1>5
        <5> HIDE DEF degrees, m
        <5> QED BY <1>5, <5>1, <5>2
      <4> HIDE DEF degrees, m, place
      <4> QED BY <1>6, <4>1, <3>2
    <3>3. \A i \in (1..n) \ ordered : place[i] # k
      <4> HIDE DEF place, m
      <4> QED BY <1>5, <1>7
    <3> HIDE DEF ordered, place, degrees, m
    <3> QED BY <3>1, <3>2, <3>3
  <2> HIDE DEF ordered, place
  <2> QED BY <1>5, <2>1, <2>2
<1>9. others = {gs[i] : i \in {i \in 1..n : place[i] = m + 1}}
  <2>1. (1..n) \ ordered = {i \in 1..n : place[i] = m + 1}
    <3>1. m \in Nat
      BY <1>5
    <3>2. \A i \in ordered : i \in 1..n /\ place[i] \in 1..m
      BY <1>6
    <3> HIDE DEF place, ordered, m
    <3> QED BY <1>7, <3>1, <3>2
  <2> QED BY <2>1
<1>10. \A i \in 1..n : place[i] \in Nat /\ (place[i] \in 1..m \/ (place[i] = m + 1 /\ others # {}))
  <2> HIDE DEF place, m
  <2>1. \A i \in (1..n) \ ordered : gs[i] \in others
    OBVIOUS
  <2> HIDE DEF ordered, others
  <2> QED BY <1>5, <1>6, <1>7, <2>1
<1>11. /\ IF others = {} THEN DOMAIN a = 1..m ELSE DOMAIN a = 1..(m + 1) /\ a[m + 1] = others
       /\ \A k \in 1..m : a[k] = entries[k]
  <2>1. CASE others = {}
    BY <1>2, <1>8, <2>1
  <2>2. CASE others # {}
    <3>1. entries \in Seq(SUBSET Nat) /\ Len(entries) = m
      <4>1. \A k \in 1..m : entries[k] \in SUBSET Nat
        <5> HIDE DEF place, m, entries
        <5> QED BY <1>1, <1>8
      <4>2. entries \in [1..m -> SUBSET Nat]
        <5> HIDE DEF m, degrees
        <5> QED BY <1>5, <4>1
      <4> HIDE DEF entries, m
      <4> QED BY <1>5, <4>2
    <3> HIDE DEF entries, m, a, others
    <3> QED BY <1>2, <1>5, <2>2, <3>1
  <2> QED BY <2>1, <2>2
<1> HIDE DEF a, entries, others, place, m
<1>12. \A i \in 1..n : place[i] \in Nat /\ place[i] \in DOMAIN a
  BY <1>5, <1>10, <1>11
<1>13. ASSUME NEW k \in DOMAIN a PROVE a[k] = {gs[i] : i \in {i \in 1..n : place[i] = k}}
  <2>1. CASE k \in 1..m
    BY <1>8, <1>11, <2>1
  <2>2. CASE k = m + 1 /\ others # {}
    BY <1>9, <1>11, <2>2
  <2> HIDE DEF degrees, ordered
  <2> QED BY <1>5, <1>11, <2>1, <2>2
<1>17. \A k \in DOMAIN a : \A y : y \in a[k] <=> \E i \in 1..n : place[i] = k /\ gs[i] = y
  <2> SUFFICES ASSUME NEW k \in DOMAIN a 
               PROVE  \A y : y \in a[k] <=> \E i \in 1..n : place[i] = k /\ gs[i] = y
    OBVIOUS
  <2>1. a[k] = {gs[i] : i \in {i \in 1..n : place[i] = k}}
    BY <1>13
  <2> QED BY <2>1
<1>14. \A i, j \in ordered : place[i] < place[j] <=> Degree(C, i) < Degree(C, j)
  <2> HIDE DEF degrees, ordered
  <2> QED BY <1>5, <1>6
<1>15. \A i \in ordered, j \in (1..n) \ ordered : place[i] < place[j]
  <2> HIDE DEF degrees, ordered
  <2> QED BY <1>5, <1>6, <1>7
<1> HIDE DEF degrees
<1>16. IsPlacing(place, n, gs, C, a)
  BY <1>12, <1>14, <1>15, <1>17 DEF IsPlacing
<1> QED BY <1>16 DEF a

Befores == detect_ordering_constraints(graph, task.goals)
Orders  == Closure(Len(task.goals), Befores)

LEMMA OrderingsAreOfGoals ==
  ASSUME IsTask(task)
  PROVE  /\ Len(task.goals) \in Nat /\ DOMAIN task.goals = 1..Len(task.goals)
         /\ Befores \in SUBSET ((1..Len(task.goals)) \X (1..Len(task.goals)))
<1> DEFINE gs == task.goals  n == Len(gs)
           Before(i) == LET E == setup_E(graph, gs[i])
                        IN  {j \in DOMAIN gs : j = i \/ ~possibly_achievable(graph, gs[j], E)}
<1>1. n \in Nat /\ DOMAIN gs = 1..n
  BY DEF IsTask
<1>2. Befores = UNION {{<<j, i>> : j \in Before(i)} : i \in DOMAIN gs}
  BY DEF Befores, detect_ordering_constraints
<1>3. \A i : Before(i) \subseteq 1..n
  BY <1>1
<1> HIDE DEF Before, n
<1>4. \A i \in 1..n : {<<j, i>> : j \in Before(i)} \subseteq (1..n) \X (1..n)
  BY <1>3
<1> QED BY <1>1, <1>2, <1>4 DEF n

\* A goal has to be reached before another one, directly or through others,
\* when the closure says so.
LEMMA FirstMeans ==
  ASSUME IsTask(task), NEW i \in 1..Len(task.goals), NEW j \in 1..Len(task.goals)
  PROVE  (\A X \in {X \in SUBSET (1..Len(task.goals)) :
                      \A p \in Befores : p[1] \in X => p[2] \in X} : i \in X => j \in X)
           <=> i = j \/ <<i, j>> \in Orders
<1> DEFINE n == Len(task.goals)
           later == {X \in SUBSET (1..n) : \A p \in Befores : p[1] \in X => p[2] \in X}
<1>1. /\ n \in Nat /\ Befores \in SUBSET ((1..n) \X (1..n))
      /\ Befores \subseteq Orders /\ Orders \subseteq (1..n) \X (1..n)
      /\ \A a, b, c \in 1..n : <<a, b>> \in Orders /\ <<b, c>> \in Orders => <<a, c>> \in Orders
      /\ \A X : (\A p \in Befores : p[1] \in X => p[2] \in X)
                  => \A a, b \in 1..n : <<a, b>> \in Orders /\ a \in X => b \in X
  BY OrderingsAreOfGoals, ClosureIsTransitive DEF Orders
<1>2. ASSUME <<i, j>> \in Orders, NEW X \in later, i \in X PROVE j \in X
  BY <1>1, <1>2
<1>3. ASSUME \A X \in later : i \in X => j \in X PROVE i = j \/ <<i, j>> \in Orders
  <2> DEFINE X == {x \in 1..n : x = i \/ <<i, x>> \in Orders}
  <2>1. ASSUME NEW p \in Befores, p[1] \in X PROVE p[2] \in X
    <3>1. p = <<p[1], p[2]>> /\ p[1] \in 1..n /\ p[2] \in 1..n
      BY <1>1
    <3> QED BY <1>1, <2>1, <3>1
  <2>2. X \in later /\ i \in X
    BY <2>1
  <2> QED BY <1>3, <2>2
<1> QED BY <1>2, <1>3

\* The entries of the agenda hold the goals, and nothing else.
LEMMA AgendaCovers ==
  ASSUME IsTask(task), agenda = compute_goal_agenda(graph, task.goals)
  PROVE  UNION {agenda[k] : k \in DOMAIN agenda} = ToSet(task.goals)
<1> DEFINE gs == task.goals  n == Len(gs)
<1>1. n \in Nat /\ DOMAIN gs = 1..n /\ gs \in Seq(Nat) /\ IsInjective(gs)
      /\ Orders \in SUBSET ((1..n) \X (1..n))
  BY OrderingsAreOfGoals, ClosureIsTransitive DEF IsTask, Orders
<1>2. agenda = build_goal_agenda(gs, Orders)
  BY DEF compute_goal_agenda, Orders, Befores
<1>3. PICK place : IsPlacing(place, n, gs, Orders, agenda)
  <2>1. n = Len(gs)
    OBVIOUS
  <2> HIDE DEF n, gs
  <2> QED BY <1>1, <1>2, <2>1, AgendaPlaces
<1>4. \A k \in DOMAIN agenda : agenda[k] \subseteq ToSet(gs)
  BY <1>1, <1>3 DEF ToSet, IsPlacing
<1>5. \A i \in DOMAIN gs : \E k \in DOMAIN agenda : gs[i] \in agenda[k]
  BY <1>1, <1>3 DEF IsPlacing
<1> QED BY <1>4, <1>5 DEF ToSet

LEMMA AgendaIsOrdered ==
  ASSUME IsTask(task), agenda = compute_goal_agenda(graph, task.goals)
  PROVE  AgendaRespectsOrders
<1> DEFINE gs == task.goals  n == Len(gs)  goals == DOMAIN gs
           later == {X \in SUBSET goals : \A p \in Befores : p[1] \in X => p[2] \in X}
           first(i, j) == i # j /\ \A X \in later : i \in X => j \in X
           in(i)  == CHOOSE k \in DOMAIN agenda : gs[i] \in agenda[k]
           touched(i) == \E j \in goals \ {i} : first(i, j) \/ first(j, i)
<1>1. n \in Nat /\ goals = 1..n /\ gs \in Seq(Nat) /\ IsInjective(gs)
  BY OrderingsAreOfGoals DEF IsTask
<1>2. Orders \in SUBSET ((1..n) \X (1..n))
  BY OrderingsAreOfGoals, ClosureIsTransitive DEF Orders
<1>3. \A i, j \in goals : first(i, j) <=> i # j /\ <<i, j>> \in Orders
  BY <1>1, FirstMeans
<1>4. ASSUME NEW i \in goals PROVE touched(i) <=> Hits(Orders, i) # {}
  <2>1. Hits(Orders, i) = Earlier(n, Orders, i) \cup Later(n, Orders, i)
    BY <1>1, <1>2, DegreeCounts
  <2> HIDE DEF first, goals, n
  <2> QED BY <1>1, <1>3, <2>1 DEF Earlier, Later
<1>5. agenda = build_goal_agenda(gs, Orders)
  BY DEF compute_goal_agenda, Orders, Befores
<1>6. PICK place : IsPlacing(place, n, gs, Orders, agenda)
  <2>1. n = Len(gs)
    OBVIOUS
  <2> HIDE DEF n, gs
  <2>2. n \in Nat /\ gs \in Seq(Nat) /\ IsInjective(gs) /\ Orders \in SUBSET ((1..n) \X (1..n))
    BY <1>1, <1>2
  <2> QED BY <1>5, <2>1, <2>2, AgendaPlaces
<1>7. \A i, j \in goals : gs[i] = gs[j] => i = j
  BY <1>1 DEF IsInjective
<1>8. \A i \in goals, k \in DOMAIN agenda : gs[i] \in agenda[k] <=> place[i] = k
  <2> SUFFICES ASSUME NEW i \in goals, NEW k \in DOMAIN agenda
               PROVE  gs[i] \in agenda[k] <=> place[i] = k
    OBVIOUS
  <2>1. gs[i] \in agenda[k] <=> \E j \in goals : place[j] = k /\ gs[j] = gs[i]
    BY <1>1, <1>6 DEF IsPlacing
  <2> QED BY <1>7, <2>1
<1>9. \A i \in goals : in(i) = place[i]
  BY <1>1, <1>6, <1>8 DEF IsPlacing
<1> HIDE DEF n, first, in, touched, later
<1>10. UNION ToSet(agenda) = ToSet(gs)
  BY AgendaCovers DEF ToSet
<1>11. \A k, l \in DOMAIN agenda : k # l => agenda[k] \cap agenda[l] = {}
  <2> SUFFICES ASSUME NEW k \in DOMAIN agenda, NEW l \in DOMAIN agenda,
                      NEW y \in agenda[k], y \in agenda[l]
               PROVE  k = l
    OBVIOUS
  <2>1. PICK i \in goals : place[i] = k /\ gs[i] = y
    BY <1>1, <1>6 DEF IsPlacing
  <2>2. PICK j \in goals : place[j] = l /\ gs[j] = y
    BY <1>1, <1>6 DEF IsPlacing
  <2> QED BY <1>7, <2>1, <2>2
<1>12. ASSUME NEW i \in goals, NEW j \in goals, first(i, j)
       PROVE  IF first(j, i) THEN in(i) = in(j) ELSE in(i) < in(j)
  <2>1. /\ Hits(Orders, i) # {} /\ Hits(Orders, j) # {} /\ i # j /\ <<i, j>> \in Orders
        /\ first(j, i) <=> <<j, i>> \in Orders
    <3>1. touched(i) /\ touched(j)
      BY <1>3, <1>12 DEF touched
    <3> QED BY <1>3, <1>4, <1>12, <3>1
  <2>2. IF <<j, i>> \in Orders THEN Degree(Orders, i) = Degree(Orders, j)
        ELSE Degree(Orders, i) < Degree(Orders, j)
    <3>1. \A a, b, c \in 1..n : <<a, b>> \in Orders /\ <<b, c>> \in Orders => <<a, c>> \in Orders
      BY OrderingsAreOfGoals, ClosureIsTransitive DEF Orders, n
    <3> QED BY <1>1, <1>2, <2>1, <3>1, DegreeRespects
  <2>3. Degree(Orders, i) \in Int /\ Degree(Orders, j) \in Int /\ place[i] \in Nat /\ place[j] \in Nat
    BY <1>1, <1>2, <1>6, DegreeCounts DEF IsPlacing
  <2>4. /\ place[i] < place[j] <=> Degree(Orders, i) < Degree(Orders, j)
        /\ place[j] < place[i] <=> Degree(Orders, j) < Degree(Orders, i)
    BY <1>1, <1>6, <2>1 DEF IsPlacing
  <2>5. in(i) = place[i] /\ in(j) = place[j]
    BY <1>9
  <2> QED BY <2>1, <2>2, <2>3, <2>4, <2>5
<1>13. \A i, j \in goals : touched(i) /\ ~touched(j) => in(i) < in(j)
  BY <1>1, <1>4, <1>6, <1>9 DEF IsPlacing
<1> QED BY <1>10, <1>11, <1>12, <1>13
        DEF AgendaRespectsOrders, Befores, first, in, touched, later

AgendaInv == /\ IsTask(task)
             /\ entry \in Nat /\ (pc = "agenda" <=> entry = 0)
             /\ entry # 0 => agenda = compute_goal_agenda(graph, task.goals)

LEMMA AgendaAtFirst == SearchInit /\ pc = "agenda" /\ IsTask(task) => AgendaInv
BY DEF SearchInit, AgendaInv

LEMMA AgendaStays == AgendaInv /\ [SearchNext]_searchVars => AgendaInv'
<1> SUFFICES ASSUME AgendaInv, [SearchNext]_searchVars PROVE AgendaInv'
  OBVIOUS
<1> USE DEF AgendaInv
<1>0. UNCHANGED task => (graph = graph')
  BY DEF graph
<1>1. CASE ComputeGoalAgenda
  BY <1>0, <1>1 DEF ComputeGoalAgenda
<1>2. CASE NextEntry
  BY <1>0, <1>2 DEF NextEntry
<1>3. CASE StartClimbing
  BY <1>0, <1>3 DEF StartClimbing, Start
<1>4. CASE Widen
  BY <1>0, <1>4 DEF Widen
<1>5. CASE ExpandFirstNode
  BY <1>0, <1>5 DEF ExpandFirstNode, Judge
<1>6. CASE SpaceExhausted
  BY <1>0, <1>6 DEF SpaceExhausted, climbVars
<1>7. CASE ExtractPlanFragment
  BY <1>0, <1>7 DEF ExtractPlanFragment, climbVars
<1>8. CASE AgendaDone
  BY <1>0, <1>8 DEF AgendaDone, climbVars
<1>9. CASE StartBestFirst
  BY <1>0, <1>9 DEF StartBestFirst, climbVars
<1>10. CASE ExpandBest
  BY <1>0, <1>10 DEF ExpandBest, climbVars
<1>11. CASE ExtractPlan
  BY <1>0, <1>11 DEF ExtractPlan, climbVars
<1>12. CASE ProvenUnsolvable
  BY <1>0, <1>12 DEF ProvenUnsolvable, climbVars
<1>13. CASE UNCHANGED searchVars
  BY <1>0, <1>13 DEF searchVars, climbVars
<1> QED BY <1>1, <1>2, <1>3, <1>4, <1>5, <1>6, <1>7, <1>8, <1>9, <1>10, <1>11, <1>12, <1>13
        DEF SearchNext

\* The agenda of every task respects the orderings of its goals.
THEOREM AgendaIsAnOrder == SearchSpec => []AgendaRespectsOrders
<1>1. AgendaInv => AgendaRespectsOrders
  BY AgendaIsOrdered DEF AgendaInv, AgendaRespectsOrders
<1> QED BY <1>1, AgendaAtFirst, AgendaStays, PTL DEF SearchSpec
-----------------------------------------------------------------------------
(* Lists                                                                   *)

IsSeq(s) == \E T : s \in Seq(T)

LEMMA SeqFacts ==
  ASSUME NEW s, IsSeq(s)
  PROVE  Len(s) \in Nat /\ DOMAIN s = 1..Len(s)
BY DEF IsSeq

LEMMA AppendFacts ==
  ASSUME NEW s, IsSeq(s), NEW x
  PROVE  /\ IsSeq(Append(s, x)) /\ Len(Append(s, x)) = Len(s) + 1
         /\ \A i \in 1..Len(s) : Append(s, x)[i] = s[i]
         /\ Append(s, x)[Len(s) + 1] = x
<1>1. PICK T : s \in Seq(T)
  BY DEF IsSeq
<1>2. s \in Seq(T \cup {x}) /\ x \in T \cup {x}
  BY <1>1
<1>3. Append(s, x) \in Seq(T \cup {x})
  BY <1>2
<1> QED BY <1>2, <1>3 DEF IsSeq

LEMMA SubSeqFacts ==
  ASSUME NEW s, IsSeq(s), NEW a \in Nat \ {0}, NEW b \in Nat, a <= b + 1, b <= Len(s)
  PROVE  /\ IsSeq(SubSeq(s, a, b)) /\ Len(SubSeq(s, a, b)) = b - a + 1
         /\ \A i \in 1..(b - a + 1) : SubSeq(s, a, b)[i] = s[a + i - 1]
<1>1. PICK T : s \in Seq(T)
  BY DEF IsSeq
<1>2. SubSeq(s, a, b) \in Seq(T)
  BY <1>1
<1>3. b - a + 1 \in Nat
  OBVIOUS
<1> QED BY <1>1, <1>2, <1>3 DEF IsSeq

LEMMA ListFacts ==
  ASSUME NEW n \in Nat, NEW f, f = [i \in 1..n |-> f[i]]
  PROVE  IsSeq(f) /\ Len(f) = n
<1>1. f \in Seq({f[i] : i \in 1..n})
  OBVIOUS
<1> QED BY <1>1 DEF IsSeq

-----------------------------------------------------------------------------
(* The lists of operators that the search follows                          *)

LEMMA OperatorsAreFew ==
  ASSUME IsTask(task), NEW E \in SUBSET DOMAIN graph.ef
  PROVE  IsFiniteSet({graph.ef[e].op : e \in E})
<1>1. IsFiniteSet(E)
  <2>1. graph.ef \in Seq(EfConn)
    BY DEF IsTask, graph
  <2>2. DOMAIN graph.ef = 1..Len(graph.ef) /\ Len(graph.ef) \in Nat
    BY <2>1
  <2>3. IsFiniteSet(DOMAIN graph.ef)
    BY <2>2, FS_Interval
  <2> QED BY <2>3, FS_Subset
<1> DEFINE ops == {graph.ef[e].op : e \in E}
           opOf == [e \in E |-> graph.ef[e].op]
<1>2. opOf \in Surjection(E, ops)
  BY DEF Surjection
<1> QED BY <1>1, <1>2, FS_Surjection

LEMMA HelpfulIsSeq ==
  ASSUME IsTask(task), NEW s, NEW goals
  PROVE  IsSeq(get_1P_and_H(graph, s, goals).H)
<1> DEFINE F == build_fixpoint(graph, s, goals)
           r == extract_1P(graph, F, goals)
           wanted == {e \in Kept(graph) \cap EffectsAt(F, 0) :
                        graph.ef[e].A \cap ToSet(r.goals_at[1]) # {}}
           helpful == {graph.ef[e].op : e \in wanted}
<1>1. get_1P_and_H(graph, s, goals).H = collect_H_info(graph, F, r) \/ get_1P_and_H(graph, s, goals).H = <<>>
  BY DEF get_1P_and_H, Evaluate, Evaluation
<1>2. IsSeq(<<>>)
  BY DEF IsSeq
<1>3. IsFiniteSet(helpful)
  <2>1. wanted \in SUBSET DOMAIN graph.ef
    BY DEF Kept
  <2> HIDE DEF wanted
  <2> QED BY <2>1, OperatorsAreFew
<1>4. Cardinality(helpful) \in Nat
  BY <1>3, FS_CardinalityType
<1>5. collect_H_info(graph, F, r) = <<>> \/
      collect_H_info(graph, F, r) =
         ByDeletedGoals(helpful, HelpfulFound(graph, F, r), [o \in helpful |-> DeletedGoals(graph, F, r, o)])
  <2> HIDE DEF F, r
  <2> QED BY DEF collect_H_info
<1>6. ASSUME NEW H, NEW D PROVE IsSeq(ByDeletedGoals(helpful, H, D))
  <2> DEFINE at(o) == Min({k \in DOMAIN H : H[k] = o})
             before(o, p) == D[o] < D[p] \/ (D[o] = D[p] /\ at(o) > at(p))
             item(k) == CHOOSE x \in helpful : Cardinality({y \in helpful : before(y, x)}) = k - 1
  <2> HIDE DEF helpful
  <2>1. ByDeletedGoals(helpful, H, D) = [k \in 1..Cardinality(helpful) |-> item(k)]
    BY DEF ByDeletedGoals, Ranked
  <2> HIDE DEF item
  <2> QED BY <1>4, <2>1, ListFacts
<1> QED BY <1>1, <1>2, <1>5, <1>6

LEMMA ApplicableIsSeq ==
  ASSUME IsTask(task), NEW s
  PROVE  IsSeq(get_A(graph, s))
<1> DEFINE ops == {graph.ef[e].op : e \in Enabled(graph, s)}
<1>1. IsFiniteSet(ops)
  <2>1. Enabled(graph, s) \in SUBSET DOMAIN graph.ef
    BY DEF Enabled
  <2> QED BY <2>1, OperatorsAreFew
<1>2. Cardinality(ops) \in Nat
  BY <1>1, FS_CardinalityType
<1> HIDE DEF ops
<1> DEFINE item(k) == CHOOSE x \in ops : Cardinality({y \in ops : y < x}) = k - 1
<1>3. Increasing(ops) = [k \in 1..Cardinality(ops) |-> item(k)]
  BY DEF Increasing, Ranked
<1> HIDE DEF item
<1> QED BY <1>2, <1>3, ListFacts DEF get_A, ops

-----------------------------------------------------------------------------
(* The table of the plan's states and the walk along its links             *)

IsTable(ph) ==
  /\ IsFiniteSet(DOMAIN ph) /\ DOMAIN ph \subseteq SUBSET Nat
  /\ ph \in [DOMAIN ph -> [step : Int, next_step : SUBSET Int]]
  /\ \A s \in DOMAIN ph : ph[s].next_step \in DOMAIN ph \cup {NULL}

LinkFold(g, ph, s, m) ==
  g = [q \in SUBSET (1..m) |->
         IF q = {} THEN Links(ph, {s})
         ELSE LET x == Max(q) IN g[q \ {x}] \cup Links(ph, g[q \ {x}])]

LEMMA LinkedSteps ==
  ASSUME NEW ph, NEW s, Cardinality(DOMAIN ph) \in Nat
  PROVE  \E N : /\ N[0] = Links(ph, {s})
                /\ \A j \in 1..Cardinality(DOMAIN ph) : N[j] = N[j - 1] \cup Links(ph, N[j - 1])
                /\ Linked(ph, s) = N[Cardinality(DOMAIN ph)]
<1> DEFINE n == Cardinality(DOMAIN ph)
           T == {m \in Nat : \E g : LinkFold(g, ph, s, m)}
<1>1. 0 \in T
  <2>1. LinkFold([q \in {{}} |-> Links(ph, {s})], ph, s, 0)
    BY DEF LinkFold
  <2> QED BY <2>1
<1>2. ASSUME NEW m \in Nat, m \in T PROVE m + 1 \in T
  <2>1. PICK g : LinkFold(g, ph, s, m)
    BY <1>2
  <2> DEFINE f == [q \in SUBSET (1..(m + 1)) |->
                     IF q = {} THEN Links(ph, {s})
                     ELSE LET x == Max(q) IN g[q \ {x}] \cup Links(ph, g[q \ {x}])]
  <2>2. SUBSET (1..m) \subseteq SUBSET (1..(m + 1))
    OBVIOUS
  <2>3. \A q \in SUBSET (1..m) : f[q] = g[q]
    BY <2>1, <2>2 DEF LinkFold
  <2>4. \A q \in SUBSET (1..(m + 1)) : q # {} => q \ {Max(q)} \in SUBSET (1..m)
    <3> SUFFICES ASSUME NEW q \in SUBSET (1..(m + 1)), q # {} PROVE q \ {Max(q)} \in SUBSET (1..m)
      OBVIOUS
    <3> QED BY LastIndex
  <2>5. LinkFold(f, ph, s, m + 1)
    <3>1. \A q \in SUBSET (1..(m + 1)) : q # {} => f[q \ {Max(q)}] = g[q \ {Max(q)}]
      <4> HIDE DEF f
      <4> QED BY <2>3, <2>4
    <3> QED BY <3>1 DEF LinkFold
  <2> QED BY <2>5
<1> HIDE DEF n
<1>3. n \in T
  <2> HIDE DEF T
  <2> QED BY <1>1, <1>2, Upwards DEF n
<1> DEFINE fold == CHOOSE g : LinkFold(g, ph, s, n)
<1>4. LinkFold(fold, ph, s, n)
  BY <1>3
<1>5. Linked(ph, s) = fold[1..n]
  BY DEF Linked, FoldLeft, MapThenFoldSet, LinkFold, Upto, n
<1> DEFINE N == [j \in 0..n |-> fold[1..j]]
<1>6. N[0] = Links(ph, {s})
  <2>1. fold[{}] = Links(ph, {s})
    <3> HIDE DEF fold
    <3> QED BY <1>4 DEF LinkFold
  <2> QED BY <2>1 DEF n
<1>7. ASSUME NEW j \in 1..n PROVE N[j] = N[j - 1] \cup Links(ph, N[j - 1])
  <2>1. n \in Nat /\ 1..j \in SUBSET (1..n) /\ j \in Nat \ {0} /\ j \in 0..n /\ j - 1 \in 0..n
    BY DEF n
  <2>2. fold[1..j] = fold[1..(j - 1)] \cup Links(ph, fold[1..(j - 1)])
    <3> DEFINE q == 1..j
    <3> HIDE DEF fold, q
    <3>1. q \in SUBSET (1..n) /\ q # {} /\ Max(q) = j /\ q \ {j} = 1..(j - 1)
      BY <2>1, Prefix DEF q
    <3>2. fold[q] = fold[q \ {Max(q)}] \cup Links(ph, fold[q \ {Max(q)}])
      BY <1>4, <3>1 DEF LinkFold
    <3> QED BY <3>1, <3>2 DEF q
  <2> HIDE DEF fold
  <2> QED BY <2>1, <2>2
<1>8. Linked(ph, s) = N[n]
  BY <1>5 DEF n
<1> HIDE DEF N
<1> QED BY <1>6, <1>7, <1>8 DEF n

\* The walk from s visits the states that its link, and the links of the states
\* visited, lead to, and no others.
LEMMA LinkedMeans ==
  ASSUME NEW ph, IsTable(ph), NEW s \in DOMAIN ph
  PROVE  /\ Linked(ph, s) \subseteq DOMAIN ph
         /\ \A t \in Linked(ph, s) \cup {s} :
              ph[t].next_step # NULL => ph[t].next_step \in Linked(ph, s)
         /\ \A X : (\A t \in X \cup {s} : ph[t].next_step # NULL => ph[t].next_step \in X)
                     => Linked(ph, s) \subseteq X
<1> DEFINE n == Cardinality(DOMAIN ph)
<1>1. n \in Nat
  BY FS_CardinalityType DEF IsTable
<1>2. PICK N : /\ N[0] = Links(ph, {s})
               /\ \A j \in 1..n : N[j] = N[j - 1] \cup Links(ph, N[j - 1])
               /\ Linked(ph, s) = N[n]
  BY <1>1, LinkedSteps
<1> HIDE DEF n
<1>3. \A M, y : y \in Links(ph, M) <=> y # NULL /\ \E t \in M : ph[t].next_step = y
  BY DEF Links
<1> DEFINE Closed(M) == Links(ph, M) \subseteq M
           Good(M, j) == /\ M \subseteq DOMAIN ph /\ Links(ph, {s}) \subseteq M
                         /\ \A X : (\A t \in X \cup {s} : ph[t].next_step # NULL
                                                            => ph[t].next_step \in X)
                                     => M \subseteq X
                         /\ Closed(M) \/ Cardinality(M) >= j
           T == {j \in Nat : j <= n => Good(N[j], j)}
<1>4. 0 \in T
  <2>1. N[0] \subseteq DOMAIN ph
    BY <1>2, <1>3 DEF IsTable
  <2>2. IsFiniteSet(N[0])
    BY <2>1, FS_Subset DEF IsTable
  <2>3. Cardinality(N[0]) \in Nat
    BY <2>2, FS_CardinalityType
  <2> QED BY <1>2, <1>3, <2>1, <2>3
<1>5. ASSUME NEW j \in Nat, j \in T PROVE j + 1 \in T
  <2> SUFFICES ASSUME j + 1 <= n PROVE Good(N[j + 1], j + 1)
    <3> HIDE DEF Good
    <3> QED OBVIOUS
  <2> DEFINE M == N[j]  L == N[j + 1]
  <2>1. L = M \cup Links(ph, M) /\ j + 1 \in 1..n
    BY <1>1, <1>2
  <2>2. Good(M, j)
    <3> HIDE DEF Good
    <3> QED BY <1>1, <1>5
  <2> HIDE DEF M, L
  <2>3. L \subseteq DOMAIN ph /\ Links(ph, {s}) \subseteq L
    BY <1>3, <2>1, <2>2 DEF IsTable
  <2>4. ASSUME NEW X, \A t \in X \cup {s} : ph[t].next_step # NULL => ph[t].next_step \in X
        PROVE  L \subseteq X
    <3>1. M \subseteq X
      BY <2>2, <2>4
    <3> QED BY <1>3, <2>1, <2>4, <3>1
  <2>5. CASE Closed(M)
    <3>1. L = M
      BY <2>1, <2>5
    <3> QED BY <2>3, <2>4, <2>5, <3>1 DEF L
  <2>6. CASE ~Closed(M)
    <3>1. M \in SUBSET L /\ M # L /\ L \in SUBSET DOMAIN ph
      BY <2>1, <2>3, <2>6
    <3>2. IsFiniteSet(L)
      BY <3>1, FS_Subset DEF IsTable
    <3>3. IsFiniteSet(M) /\ Cardinality(M) <= Cardinality(L) /\ Cardinality(M) # Cardinality(L)
      BY <3>1, <3>2, FS_Subset
    <3>4. Cardinality(M) \in Nat /\ Cardinality(L) \in Nat
      BY <3>2, <3>3, FS_CardinalityType
    <3>5. Cardinality(L) >= j + 1
      BY <2>2, <2>6, <3>3, <3>4
    <3> QED BY <2>3, <2>4, <3>5 DEF L
  <2> QED BY <2>5, <2>6
<1>6. n \in T
  <2> HIDE DEF T
  <2> QED BY <1>1, <1>4, <1>5, Upwards
<1> DEFINE R == Linked(ph, s)
<1>7. Good(R, n)
  <2> HIDE DEF Good
  <2> QED BY <1>1, <1>2, <1>6
<1> HIDE DEF R
<1>8. Closed(R)
  <2> SUFFICES ASSUME Cardinality(R) >= n PROVE Closed(R)
    BY <1>7
  <2>1. R \in SUBSET DOMAIN ph /\ IsFiniteSet(DOMAIN ph)
    BY <1>7 DEF IsTable
  <2>2. IsFiniteSet(R) /\ Cardinality(R) <= n /\ (Cardinality(R) = n => R = DOMAIN ph)
    BY <2>1, FS_Subset DEF n
  <2>3. Cardinality(R) \in Nat
    BY <2>2, FS_CardinalityType
  <2>4. R = DOMAIN ph
    BY <1>1, <2>2, <2>3
  <2> QED BY <1>3, <2>4 DEF IsTable
<1>9. \A t \in R \cup {s} : ph[t].next_step # NULL => ph[t].next_step \in R
  BY <1>3, <1>7, <1>8
<1> QED BY <1>7, <1>9 DEF R

\* The operators lead through the states, and no state comes twice.
IsRun(ops, states) ==
  /\ IsSeq(ops) /\ IsSeq(states) /\ Len(states) = Len(ops) + 1
  /\ \A k \in 1..Len(ops) : states[k + 1] = result_to_dest(graph, states[k], ops[k])
  /\ \A j, k \in 1..Len(states) : states[j] = states[k] => j = k

\* The table has each of the states at its step and linked to the next one, and
\* takes no other state for one of the plan.
IsKept(states, ph) ==
  /\ \A k \in 1..Len(states) : states[k] \in DOMAIN ph /\ ph[states[k]].step = k - 1
  /\ \A k \in 1..(Len(states) - 1) : ph[states[k]].next_step = states[k + 1]
  /\ \A s \in DOMAIN ph : InPlan(ph, s) => \E k \in 1..Len(states) : states[k] = s

PlanIsKept(ops, states, ph) == IsRun(ops, states) /\ IsTable(ph) /\ IsKept(states, ph)

\* Every link out of a state of the plan leads to the next one.
LEMMA LinksLeadOn ==
  ASSUME NEW ops, NEW states, NEW ph, PlanIsKept(ops, states, ph), NEW X,
         NEW j \in 1..Len(states),
         \A t \in X \cup {states[j]} : ph[t].next_step # NULL => ph[t].next_step \in X
  PROVE  \A k \in (j + 1)..Len(states) : states[k] \in X
<1> DEFINE m == Len(states)
           T == {i \in Nat : j + i <= m => states[j + i] \in X \cup {states[j]} /\ (i > 0 => states[j + i] \in X)}
<1>1. m \in Nat /\ \A k \in 1..m : states[k] # NULL
  <2>1. NULL \notin SUBSET Nat
    <3>1. -1 \in NULL /\ -1 \notin Nat
      BY DEF NULL
    <3> QED BY <3>1
  <2>2. \A k \in 1..Len(states) : states[k] \in DOMAIN ph
    BY DEF PlanIsKept, IsKept
  <2>3. DOMAIN ph \subseteq SUBSET Nat /\ m \in Nat
    BY SeqFacts DEF PlanIsKept, IsRun, IsTable
  <2> QED BY <2>1, <2>2, <2>3
<1> HIDE DEF m
<1>2. 0 \in T
  BY DEF m
<1>3. ASSUME NEW i \in Nat, i \in T PROVE i + 1 \in T
  <2> SUFFICES ASSUME j + (i + 1) <= m PROVE states[j + (i + 1)] \in X
    OBVIOUS
  <2>1. states[j + i] \in X \cup {states[j]} /\ j + i \in 1..(m - 1) /\ j + (i + 1) = (j + i) + 1
    BY <1>1, <1>3 DEF m
  <2>2. ph[states[j + i]].next_step = states[(j + i) + 1] /\ states[(j + i) + 1] # NULL
    BY <1>1, <2>1 DEF PlanIsKept, IsKept, m
  <2> QED BY <2>1, <2>2
<1>4. ASSUME NEW k \in (j + 1)..m PROVE states[k] \in X
  <2>1. k - j \in Nat /\ k - j > 0 /\ j + (k - j) = k
    BY <1>1, <1>4 DEF m
  <2>2. k - j \in T
    <3> HIDE DEF T
    <3> QED BY <1>2, <1>3, <2>1, Upwards
  <2> QED BY <1>1, <2>1, <2>2
<1> QED BY <1>4 DEF m

\* Cutting the plan back to one of its states keeps what is left of it, if the
\* walk from there ends.
LEMMA CutIsKept ==
  ASSUME NEW ops, NEW states, NEW ph, PlanIsKept(ops, states, ph),
         NEW step \in 0..Len(ops), WalkEnds(ph, states[step + 1])
  PROVE  /\ PlanIsKept(SubSeq(ops, 1, step), SubSeq(states, 1, step + 1),
                       CutBack(ph, states[step + 1]))
         /\ Len(SubSeq(ops, 1, step)) = step
         /\ SubSeq(states, 1, step + 1)[step + 1] = states[step + 1]
         /\ SubSeq(states, 1, step + 1)[1] = states[1]
         /\ \A s : InPlan(CutBack(ph, states[step + 1]), s) => InPlan(ph, s)
<1> DEFINE m == Len(states)
           from == states[step + 1]
           L == Linked(ph, from)
           cut == CutBack(ph, from)
           o == SubSeq(ops, 1, step)
           st == SubSeq(states, 1, step + 1)
<1>1. /\ m \in Nat /\ Len(ops) \in Nat /\ m = Len(ops) + 1 /\ step \in Nat /\ step + 1 \in 1..m
      /\ IsSeq(ops) /\ IsSeq(states) /\ from \in DOMAIN ph /\ IsTable(ph)
  BY SeqFacts DEF PlanIsKept, IsRun, IsKept
<1>2. /\ IsSeq(o) /\ Len(o) = step /\ \A i \in 1..step : o[i] = ops[i]
      /\ IsSeq(st) /\ Len(st) = step + 1 /\ \A i \in 1..(step + 1) : st[i] = states[i]
  <2>1. /\ IsSeq(o) /\ Len(o) = step - 1 + 1 /\ \A i \in 1..(step - 1 + 1) : o[i] = ops[1 + i - 1]
    BY <1>1, SubSeqFacts
  <2>2. /\ IsSeq(st) /\ Len(st) = (step + 1) - 1 + 1
        /\ \A i \in 1..((step + 1) - 1 + 1) : st[i] = states[1 + i - 1]
    BY <1>1, SubSeqFacts
  <2>3. step - 1 + 1 = step /\ (step + 1) - 1 + 1 = step + 1 /\ \A i \in Nat : 1 + i - 1 = i
    BY <1>1
  <2> HIDE DEF o, st
  <2> QED BY <1>1, <2>1, <2>2, <2>3
<1>3. /\ L \subseteq DOMAIN ph
      /\ \A t \in L \cup {from} : ph[t].next_step # NULL => ph[t].next_step \in L
      /\ \A X : (\A t \in X \cup {from} : ph[t].next_step # NULL => ph[t].next_step \in X)
                  => L \subseteq X
  BY <1>1, LinkedMeans
<1>4. from \notin L /\ \A t \in L : t \notin Linked(ph, t)
  BY DEF WalkEnds
<1>5. DOMAIN cut = DOMAIN ph
      /\ \A t \in DOMAIN ph : cut[t] = IF t \in L THEN [ph[t] EXCEPT !.step = INVALID] ELSE ph[t]
  BY DEF CutBack
<1> HIDE DEF from, L, cut, o, st, m
<1>6. \A k \in (step + 2)..m : states[k] \in L
  <2>1. \A k \in ((step + 1) + 1)..Len(states) : states[k] \in L
    BY <1>1, <1>3, LinksLeadOn DEF from, m
  <2>2. (step + 1) + 1 = step + 2
    BY <1>1
  <2> QED BY <2>1, <2>2 DEF m
<1>7. \A k \in 1..(step + 1) : states[k] \notin L
  <2> SUFFICES ASSUME NEW k \in 1..step, states[k] \in L PROVE FALSE
    BY <1>1, <1>4 DEF from
  <2> DEFINE t == states[k]  M == Linked(ph, t)
  <2>1. t \in DOMAIN ph /\ k \in 1..m
    BY <1>1, <1>3
  <2>2. \A u \in M \cup {t} : ph[u].next_step # NULL => ph[u].next_step \in M
    BY <1>1, <2>1, LinkedMeans
  <2> HIDE DEF M
  <2>3. from \in M
    <3>1. \A i \in (k + 1)..Len(states) : states[i] \in M
      BY <2>1, <2>2, LinksLeadOn DEF m
    <3>2. step + 1 \in (k + 1)..Len(states)
      BY <1>1 DEF m
    <3> QED BY <3>1, <3>2 DEF from
  <2>4. L \subseteq M
    BY <1>3, <2>2, <2>3
  <2> QED BY <1>4, <2>4 DEF M
<1>8. IsTable(cut)
  <2>1. \A t \in DOMAIN ph : /\ cut[t] \in [step : Int, next_step : SUBSET Int]
                             /\ cut[t].next_step = ph[t].next_step
    BY <1>1, <1>5 DEF IsTable, INVALID
  <2>2. cut \in [DOMAIN cut -> [step : Int, next_step : SUBSET Int]]
    BY <1>5, <2>1 DEF cut, CutBack
  <2> QED BY <1>1, <1>5, <2>1, <2>2 DEF IsTable
<1>9. \A t \in DOMAIN ph : /\ t \in L => ~InPlan(cut, t)
                           /\ t \notin L => cut[t] = ph[t]
  BY <1>1, <1>5 DEF InPlan, IsTable
<1>10. IsRun(o, st)
  <2>1. ASSUME NEW k \in 1..step PROVE st[k + 1] = result_to_dest(graph, st[k], o[k])
    <3>1. k \in 1..Len(ops) /\ k \in 1..(step + 1) /\ k + 1 \in 1..(step + 1)
      BY <1>1
    <3>2. st[k] = states[k] /\ st[k + 1] = states[k + 1] /\ o[k] = ops[k]
      BY <1>2, <3>1
    <3> QED BY <3>1, <3>2 DEF PlanIsKept, IsRun
  <2>2. ASSUME NEW j \in 1..(step + 1), NEW k \in 1..(step + 1), st[j] = st[k] PROVE j = k
    <3>1. j \in 1..m /\ k \in 1..m /\ states[j] = states[k]
      BY <1>1, <1>2, <2>2
    <3> QED BY <3>1 DEF PlanIsKept, IsRun, m
  <2> QED BY <1>1, <1>2, <2>1, <2>2 DEF IsRun
<1>11. IsKept(st, cut)
  <2>1. ASSUME NEW k \in 1..Len(st) PROVE st[k] \in DOMAIN cut /\ cut[st[k]].step = k - 1
    BY <1>1, <1>2, <1>5, <1>7, <1>9 DEF PlanIsKept, IsKept, m
  <2>2. ASSUME NEW k \in 1..(Len(st) - 1) PROVE cut[st[k]].next_step = st[k + 1]
    <3>1. k \in 1..(m - 1) /\ k \in 1..(step + 1) /\ k + 1 \in 1..(step + 1)
      BY <1>1, <1>2
    <3> QED BY <1>2, <1>7, <1>9, <3>1 DEF PlanIsKept, IsKept, m
  <2>3. ASSUME NEW s \in DOMAIN cut, InPlan(cut, s) PROVE \E k \in 1..Len(st) : st[k] = s
    <3>1. s \in DOMAIN ph /\ s \notin L /\ InPlan(ph, s)
      BY <1>5, <1>9, <2>3 DEF InPlan
    <3>2. PICK k \in 1..m : states[k] = s
      BY <3>1 DEF PlanIsKept, IsKept, m
    <3>3. k \in 1..(step + 1)
      BY <1>1, <1>6, <3>1, <3>2
    <3> QED BY <1>2, <3>2, <3>3
  <2> QED BY <2>1, <2>2, <2>3 DEF IsKept
<1>12. \A s : InPlan(cut, s) => InPlan(ph, s)
  BY <1>5, <1>9 DEF InPlan
<1>13. Len(o) = step /\ st[step + 1] = from /\ st[1] = states[1]
  BY <1>1, <1>2 DEF from
<1> QED BY <1>8, <1>10, <1>11, <1>12, <1>13 DEF PlanIsKept, from, cut, o, st

\* An operator that leads from the last state to one that the plan does not go
\* through makes the plan longer.
LEMMA ExtendIsKept ==
  ASSUME NEW acc, PlanIsKept(acc.ops, acc.states, acc.hash), acc.start = acc.states[Len(acc.states)],
         NEW n, n.S \in SUBSET Nat, ~InPlan(acc.hash, n.S),
         n.S = result_to_dest(graph, acc.start, n.op),
         NEW e, e = Extend(acc, n)
  PROVE  /\ PlanIsKept(e.ops, e.states, e.hash)
         /\ e.start = n.S /\ e.states[Len(e.states)] = n.S /\ e.states[1] = acc.states[1]
         /\ \A s : InPlan(e.hash, s) => InPlan(acc.hash, s) \/ s = n.S
<1> DEFINE m == Len(acc.states)
           old == acc.hash
           ph == hash_plan_state(old, n.S, Len(acc.ops) + 1)
           new == e.hash
           start == acc.start
<1>1. /\ m \in Nat /\ m = Len(acc.ops) + 1 /\ Len(acc.ops) \in Nat /\ m \in 1..m
      /\ IsSeq(acc.ops) /\ IsSeq(acc.states) /\ IsTable(old)
      /\ start \in DOMAIN old /\ start = acc.states[m] /\ old[start].step = m - 1
  BY SeqFacts DEF PlanIsKept, IsRun, IsKept
<1>2. n.S \in DOMAIN old => old[n.S].step = INVALID
  BY DEF InPlan
<1>3. start # n.S
  BY <1>1, <1>2 DEF INVALID
<1>4. /\ new = [ph EXCEPT ![start].next_step = n.S]
      /\ e.start = n.S /\ e.ops = Append(acc.ops, n.op) /\ e.states = Append(acc.states, n.S)
  BY DEF Extend
<1>5. /\ DOMAIN ph = DOMAIN old \cup {n.S}
      /\ \A t \in DOMAIN old \ {n.S} : ph[t] = old[t]
      /\ ph[n.S] = [step |-> m, next_step |-> IF n.S \in DOMAIN old THEN old[n.S].next_step ELSE NULL]
  BY <1>1 DEF hash_plan_state
<1> HIDE DEF ph
<1>6. /\ DOMAIN new = DOMAIN old \cup {n.S}
      /\ \A t \in DOMAIN old \ {n.S, start} : new[t] = old[t]
      /\ new[n.S] = ph[n.S]
      /\ new[start] = [old[start] EXCEPT !.next_step = n.S]
  BY <1>1, <1>3, <1>4, <1>5
<1> HIDE DEF new, old, m, start
<1>7. NULL \in SUBSET Int /\ SUBSET Nat \subseteq SUBSET Int /\ n.S \in SUBSET Int
  BY DEF NULL
<1>8. /\ old[start] \in [step : Int, next_step : SUBSET Int]
      /\ n.S \in DOMAIN old => /\ old[n.S].next_step \in SUBSET Int
                               /\ old[n.S].next_step \in DOMAIN old \cup {NULL}
      /\ \A t \in DOMAIN old : old[t] \in [step : Int, next_step : SUBSET Int]
                               /\ old[t].next_step \in DOMAIN old \cup {NULL}
  BY <1>1 DEF IsTable
<1>9. /\ new[n.S] \in [step : Int, next_step : SUBSET Int] /\ new[n.S].step = m
      /\ new[n.S].next_step \in DOMAIN new \cup {NULL}
  BY <1>1, <1>5, <1>6, <1>7, <1>8
<1>10. /\ new[start] \in [step : Int, next_step : SUBSET Int]
       /\ new[start].step = m - 1 /\ new[start].next_step = n.S
  BY <1>1, <1>6, <1>7, <1>8
<1>11. IsTable(new)
  <2>1. IsFiniteSet(DOMAIN new) /\ DOMAIN new \subseteq SUBSET Nat
    <3>1. IsFiniteSet(DOMAIN old) /\ DOMAIN old \subseteq SUBSET Nat
      BY <1>1 DEF IsTable
    <3>2. IsFiniteSet(DOMAIN old \cup {n.S})
      BY <3>1, FS_AddElement
    <3> QED BY <1>6, <3>1, <3>2
  <2>2. ASSUME NEW t \in DOMAIN new
        PROVE  /\ new[t] \in [step : Int, next_step : SUBSET Int]
               /\ new[t].next_step \in DOMAIN new \cup {NULL}
    <3>1. CASE t = n.S
      BY <1>9, <3>1
    <3>2. CASE t = start
      BY <1>6, <1>10, <3>2
    <3>3. CASE t \notin {n.S, start}
      BY <1>6, <1>8, <3>3
    <3> QED BY <3>1, <3>2, <3>3
  <2>3. new = [t \in DOMAIN new |-> new[t]]
    BY <1>4, <1>5 DEF ph, hash_plan_state
  <2> QED BY <2>1, <2>2, <2>3 DEF IsTable
<1>12. /\ IsSeq(e.ops) /\ Len(e.ops) = m /\ e.ops[m] = n.op
       /\ \A k \in 1..(m - 1) : e.ops[k] = acc.ops[k]
       /\ IsSeq(e.states) /\ Len(e.states) = m + 1 /\ e.states[m + 1] = n.S
       /\ \A k \in 1..m : e.states[k] = acc.states[k]
  <2>1. /\ IsSeq(e.ops) /\ Len(e.ops) = Len(acc.ops) + 1
        /\ \A k \in 1..Len(acc.ops) : e.ops[k] = acc.ops[k]
        /\ e.ops[Len(acc.ops) + 1] = n.op
    BY <1>1, <1>4, AppendFacts
  <2>2. /\ IsSeq(e.states) /\ Len(e.states) = m + 1
        /\ \A k \in 1..m : e.states[k] = acc.states[k]
        /\ e.states[m + 1] = n.S
    BY <1>1, <1>4, AppendFacts DEF m
  <2>3. Len(acc.ops) = m - 1
    BY <1>1
  <2> QED BY <1>1, <2>1, <2>2, <2>3
<1>13. /\ \A k \in 1..m : acc.states[k] \in DOMAIN old /\ old[acc.states[k]].step = k - 1
       /\ \A k \in 1..(m - 1) : old[acc.states[k]].next_step = acc.states[k + 1]
       /\ \A s \in DOMAIN old : InPlan(old, s) => \E k \in 1..m : acc.states[k] = s
       /\ \A k \in 1..(m - 1) : acc.states[k + 1] = result_to_dest(graph, acc.states[k], acc.ops[k])
       /\ \A j, k \in 1..m : acc.states[j] = acc.states[k] => j = k
  <2>1. Len(acc.ops) = m - 1
    BY <1>1
  <2> QED BY <2>1 DEF PlanIsKept, IsRun, IsKept, m, old
<1>14. \A k \in 1..m : acc.states[k] # n.S
  BY <1>1, <1>2, <1>13 DEF INVALID
<1>15. IsRun(e.ops, e.states)
  <2>1. ASSUME NEW k \in 1..m PROVE e.states[k + 1] = result_to_dest(graph, e.states[k], e.ops[k])
    <3>1. CASE k = m
      BY <1>1, <1>12, <3>1 DEF start
    <3>2. CASE k # m
      <4>1. k \in 1..(m - 1) /\ k + 1 \in 1..m
        BY <1>1, <3>2
      <4> QED BY <1>12, <1>13, <4>1
    <3> QED BY <3>1, <3>2
  <2>2. ASSUME NEW j \in 1..(m + 1), NEW k \in 1..(m + 1), e.states[j] = e.states[k] PROVE j = k
    <3>1. (j \in 1..m \/ j = m + 1) /\ (k \in 1..m \/ k = m + 1)
      BY <1>1
    <3> QED BY <1>12, <1>13, <1>14, <2>2, <3>1
  <2> QED BY <1>1, <1>12, <2>1, <2>2 DEF IsRun
<1>16. IsKept(e.states, new)
  <2>1. ASSUME NEW k \in 1..(m + 1) PROVE e.states[k] \in DOMAIN new /\ new[e.states[k]].step = k - 1
    <3>1. CASE k = m + 1
      BY <1>1, <1>6, <1>9, <1>12, <3>1
    <3>2. CASE k = m
      BY <1>1, <1>6, <1>10, <1>12, <3>2
    <3>3. CASE k \in 1..(m - 1)
      <4>1. acc.states[k] # start /\ k \in 1..m
        BY <1>1, <1>13, <3>3
      <4> QED BY <1>6, <1>12, <1>13, <1>14, <4>1
    <3> QED BY <1>1, <3>1, <3>2, <3>3
  <2>2. ASSUME NEW k \in 1..m PROVE new[e.states[k]].next_step = e.states[k + 1]
    <3>1. CASE k = m
      BY <1>1, <1>10, <1>12, <3>1
    <3>2. CASE k \in 1..(m - 1)
      <4>1. acc.states[k] # start /\ k \in 1..m /\ k + 1 \in 1..m
        BY <1>1, <1>13, <3>2
      <4>2. acc.states[k] \in DOMAIN old \ {n.S, start}
        BY <1>13, <1>14, <4>1
      <4>3. new[acc.states[k]] = old[acc.states[k]]
        BY <1>6, <4>2
      <4>4. e.states[k] = acc.states[k] /\ e.states[k + 1] = acc.states[k + 1]
        BY <1>12, <4>1
      <4>5. old[acc.states[k]].next_step = acc.states[k + 1]
        BY <1>13, <3>2
      <4> QED BY <4>3, <4>4, <4>5
    <3> QED BY <1>1, <3>1, <3>2
  <2>3. ASSUME NEW s \in DOMAIN new, InPlan(new, s) PROVE \E k \in 1..(m + 1) : e.states[k] = s
    <3>1. CASE s = n.S
      BY <1>1, <1>12, <3>1
    <3>2. CASE s = start
      BY <1>1, <1>12, <3>2
    <3>3. CASE s \notin {n.S, start}
      <4>1. s \in DOMAIN old /\ InPlan(old, s)
        BY <1>6, <2>3, <3>3 DEF InPlan
      <4>2. PICK k \in 1..m : acc.states[k] = s
        BY <1>13, <4>1
      <4> QED BY <1>1, <1>12, <4>2
    <3> QED BY <3>1, <3>2, <3>3
  <2>4. Len(e.states) = m + 1 /\ Len(e.states) - 1 = m
    BY <1>1, <1>12
  <2> QED BY <2>1, <2>2, <2>3, <2>4 DEF IsKept
<1>17. \A s : InPlan(new, s) => InPlan(old, s) \/ s = n.S
  <2> SUFFICES ASSUME NEW s, InPlan(new, s), s # n.S PROVE InPlan(old, s)
    OBVIOUS
  <2>1. CASE s = start
    BY <1>1, <2>1 DEF InPlan, INVALID
  <2>2. CASE s # start
    BY <1>6, <2>2 DEF InPlan
  <2> QED BY <2>1, <2>2
<1>18. /\ e.start = n.S /\ e.states[Len(e.states)] = n.S /\ e.states[1] = acc.states[1]
  BY <1>1, <1>4, <1>12
<1> QED BY <1>11, <1>15, <1>16, <1>17, <1>18 DEF PlanIsKept, new, old

ExtendFold(g, base, rest, m) ==
  g = [q \in SUBSET (1..m) |->
         IF q = {} THEN base ELSE LET x == Max(q) IN Extend(g[q \ {x}], rest[x])]

AreExtensions(A, base, rest) ==
  /\ A[0] = base
  /\ \A j \in 1..Len(rest) : A[j] = Extend(A[j - 1], rest[j])
  /\ FoldLeft(Extend, base, rest) = A[Len(rest)]

LEMMA ExtendSteps ==
  ASSUME NEW base, NEW rest, IsSeq(rest)
  PROVE  \E A : AreExtensions(A, base, rest)
<1> DEFINE n == Len(rest)
           T == {m \in Nat : \E g : ExtendFold(g, base, rest, m)}
<1>0. n \in Nat /\ DOMAIN rest = 1..n
  BY SeqFacts
<1>1. 0 \in T
  <2>1. ExtendFold([q \in {{}} |-> base], base, rest, 0)
    BY DEF ExtendFold
  <2> QED BY <2>1
<1>2. ASSUME NEW m \in Nat, m \in T PROVE m + 1 \in T
  <2>1. PICK g : ExtendFold(g, base, rest, m)
    BY <1>2
  <2> DEFINE f == [q \in SUBSET (1..(m + 1)) |->
                     IF q = {} THEN base ELSE LET x == Max(q) IN Extend(g[q \ {x}], rest[x])]
  <2>2. SUBSET (1..m) \subseteq SUBSET (1..(m + 1))
    OBVIOUS
  <2>3. \A q \in SUBSET (1..m) : f[q] = g[q]
    BY <2>1, <2>2 DEF ExtendFold
  <2>4. \A q \in SUBSET (1..(m + 1)) : q # {} => q \ {Max(q)} \in SUBSET (1..m)
    <3> SUFFICES ASSUME NEW q \in SUBSET (1..(m + 1)), q # {} PROVE q \ {Max(q)} \in SUBSET (1..m)
      OBVIOUS
    <3> QED BY LastIndex
  <2>5. ExtendFold(f, base, rest, m + 1)
    <3>1. \A q \in SUBSET (1..(m + 1)) : q # {} => f[q \ {Max(q)}] = g[q \ {Max(q)}]
      <4> HIDE DEF f
      <4> QED BY <2>3, <2>4
    <3> QED BY <3>1 DEF ExtendFold
  <2> QED BY <2>5
<1> HIDE DEF n
<1>3. n \in T
  <2> HIDE DEF T
  <2> QED BY <1>0, <1>1, <1>2, Upwards
<1> DEFINE fold == CHOOSE g : ExtendFold(g, base, rest, n)
<1>4. ExtendFold(fold, base, rest, n)
  BY <1>3
<1>5. FoldLeft(Extend, base, rest) = fold[1..n]
  BY <1>0 DEF FoldLeft, MapThenFoldSet, ExtendFold
<1> DEFINE A == [j \in 0..n |-> fold[1..j]]
<1>6. A[0] = base
  <2>1. fold[{}] = base
    <3> HIDE DEF fold
    <3> QED BY <1>4 DEF ExtendFold
  <2> QED BY <1>0, <2>1
<1>7. ASSUME NEW j \in 1..n PROVE A[j] = Extend(A[j - 1], rest[j])
  <2>1. 1..j \in SUBSET (1..n) /\ j \in Nat \ {0} /\ j \in 0..n /\ j - 1 \in 0..n
    BY <1>0
  <2>2. fold[1..j] = Extend(fold[1..(j - 1)], rest[j])
    <3> DEFINE q == 1..j
    <3> HIDE DEF fold, q
    <3>1. q \in SUBSET (1..n) /\ q # {} /\ Max(q) = j /\ q \ {j} = 1..(j - 1)
      BY <2>1, Prefix DEF q
    <3>2. fold[q] = Extend(fold[q \ {Max(q)}], rest[Max(q)])
      BY <1>4, <3>1 DEF ExtendFold
    <3> QED BY <3>1, <3>2 DEF q
  <2> HIDE DEF fold
  <2> QED BY <2>1, <2>2
<1>8. FoldLeft(Extend, base, rest) = A[n]
  BY <1>0, <1>5
<1> HIDE DEF A
<1>9. AreExtensions(A, base, rest)
  BY <1>6, <1>7, <1>8 DEF n, AreExtensions
<1> QED BY <1>9

\* The nodes lead from the start through states that are new to the table.
GoesOn(start, ph, rest) ==
  /\ \A i \in 1..Len(rest) :
       /\ rest[i].S \in SUBSET Nat /\ ~InPlan(ph, rest[i].S)
       /\ rest[i].S = result_to_dest(graph, IF i = 1 THEN start ELSE rest[i - 1].S, rest[i].op)
  /\ \A i, j \in 1..Len(rest) : rest[i].S = rest[j].S => i = j

\* A path through new states that goes on from the last state of the plan makes the
\* plan longer.
LEMMA FragmentIsKept ==
  ASSUME NEW base, PlanIsKept(base.ops, base.states, base.hash),
         base.start = base.states[Len(base.states)],
         NEW rest, IsSeq(rest), GoesOn(base.start, base.hash, rest),
         NEW f, f = FoldLeft(Extend, base, rest)
  PROVE  /\ PlanIsKept(f.ops, f.states, f.hash) /\ f.states[1] = base.states[1]
         /\ Len(rest) = 0 => f.states[Len(f.states)] = base.start
         /\ Len(rest) # 0 => f.states[Len(f.states)] = rest[Len(rest)].S
<1> DEFINE n == Len(rest)
           Good(acc, j) == /\ PlanIsKept(acc.ops, acc.states, acc.hash)
                           /\ acc.states[1] = base.states[1]
                           /\ acc.start = IF j = 0 THEN base.start ELSE rest[j].S
                           /\ acc.states[Len(acc.states)] = acc.start
                           /\ \A s : InPlan(acc.hash, s) =>
                                InPlan(base.hash, s) \/ \E i \in 1..j : s = rest[i].S
<1>1. n \in Nat
  BY SeqFacts
<1>extended. PICK A : AreExtensions(A, base, rest)
  BY ExtendSteps
<1>2. /\ A[0] = base
      /\ \A j \in 1..n : A[j] = Extend(A[j - 1], rest[j])
      /\ FoldLeft(Extend, base, rest) = A[n]
  BY <1>extended DEF AreExtensions
<1> HIDE DEF n
<1> DEFINE T == {j \in Nat : j <= n => Good(A[j], j)}
<1>3. 0 \in T
  BY <1>2
<1>4. ASSUME NEW j \in Nat, j \in T PROVE j + 1 \in T
  <2> SUFFICES ASSUME j + 1 <= n PROVE Good(A[j + 1], j + 1)
    <3> HIDE DEF Good
    <3> QED OBVIOUS
  <2> DEFINE acc == A[j]  x == rest[j + 1]
  <2>1. A[j + 1] = Extend(acc, x) /\ j + 1 \in 1..n
    BY <1>1, <1>2
  <2>2. Good(acc, j)
    <3> HIDE DEF Good
    <3> QED BY <1>1, <1>4
  <2>3. /\ x.S \in SUBSET Nat /\ ~InPlan(base.hash, x.S)
        /\ x.S = result_to_dest(graph, IF j + 1 = 1 THEN base.start ELSE rest[(j + 1) - 1].S, x.op)
    BY <2>1 DEF n, GoesOn
  <2>4. \A i \in 1..j : rest[i].S # x.S
    BY <1>1, <2>1 DEF n, GoesOn
  <2> HIDE DEF acc, x
  <2>5. x.S = result_to_dest(graph, acc.start, x.op)
    <3>1. (j + 1) - 1 = j /\ (j + 1 = 1 <=> j = 0)
      OBVIOUS
    <3> QED BY <2>2, <2>3, <3>1
  <2>6. ~InPlan(acc.hash, x.S)
    BY <2>2, <2>3, <2>4
  <2> DEFINE e == Extend(acc, x)
  <2>7. /\ PlanIsKept(e.ops, e.states, e.hash)
        /\ e.start = x.S /\ e.states[Len(e.states)] = x.S /\ e.states[1] = acc.states[1]
        /\ \A s : InPlan(e.hash, s) => InPlan(acc.hash, s) \/ s = x.S
    <3>1. PlanIsKept(acc.ops, acc.states, acc.hash) /\ acc.start = acc.states[Len(acc.states)]
      BY <2>2
    <3>2. x.S \in SUBSET Nat
      BY <2>3
    <3> HIDE DEF Good, e
    <3> QED BY <2>5, <2>6, <3>1, <3>2, ExtendIsKept DEF e
  <2> HIDE DEF e
  <2>8. \A s : InPlan(e.hash, s) => InPlan(base.hash, s) \/ \E i \in 1..(j + 1) : s = rest[i].S
    BY <2>2, <2>7 DEF x
  <2>9. Good(e, j + 1)
    BY <2>2, <2>7, <2>8 DEF x
  <2> HIDE DEF Good
  <2> QED BY <2>1, <2>9 DEF e
<1>5. Good(A[n], n)
  <2> HIDE DEF Good
  <2>1. n \in T
    <3> HIDE DEF T
    <3> QED BY <1>1, <1>3, <1>4, Upwards
  <2> QED BY <1>1, <2>1
<1> QED BY <1>2, <1>5 DEF n
-----------------------------------------------------------------------------
(* The space of a climb                                                    *)

\* Every node is the result of its operator in the state of its father, and no
\* state comes twice.
IsSpace(sp, start) ==
  /\ IsSeq(sp)
  /\ \A k \in 1..Len(sp) :
       /\ sp[k].S \in SUBSET Nat /\ sp[k].S # start /\ sp[k].father \in 0..(k - 1)
       /\ sp[k].S = result_to_dest(graph, IF sp[k].father = 0 THEN start ELSE sp[sp[k].father].S,
                                   sp[k].op)
  /\ \A j, k \in 1..Len(sp) : sp[j].S = sp[k].S => j = k

IsPath(p, start) ==
  /\ IsSeq(p) /\ Len(p) # 0
  /\ \A i \in 1..Len(p) :
       /\ p[i].S \in SUBSET Nat
       /\ p[i].S = result_to_dest(graph, IF i = 1 THEN start ELSE p[i - 1].S, p[i].op)
  /\ \A i, j \in 1..Len(p) : p[i].S = p[j].S => i = j

Paths(P, m) ==
  P = [i \in 1..m |-> IF space[i].father = 0 THEN <<space[i]>>
                      ELSE Append(P[space[i].father], space[i])]

\* The path to a node is the path to its father, and the node.
LEMMA PathToIs ==
  ASSUME IsSpace(space, S)
  PROVE  Paths([n \in 1..Len(space) |-> PathTo(n)], Len(space))
<1> DEFINE m == Len(space)
           T == {k \in Nat : k <= m => \E P : Paths(P, k)}
<1>1. m \in Nat /\ DOMAIN space = 1..m
  BY SeqFacts DEF IsSpace
<1>2. \A k \in 1..m : space[k].father \in 0..(k - 1)
  BY DEF IsSpace
<1> HIDE DEF m
<1>3. 0 \in T
  <2>1. Paths([i \in 1..0 |-> <<>>], 0)
    BY DEF Paths
  <2> QED BY <2>1
<1>4. ASSUME NEW k \in Nat, k \in T PROVE k + 1 \in T
  <2> SUFFICES ASSUME k + 1 <= m PROVE \E P : Paths(P, k + 1)
    OBVIOUS
  <2>1. PICK P : Paths(P, k)
    BY <1>1, <1>4
  <2> DEFINE Q == [i \in 1..(k + 1) |-> IF space[i].father = 0 THEN <<space[i]>>
                                        ELSE Append(P[space[i].father], space[i])]
  <2>2. \A i \in 1..k : Q[i] = P[i]
    <3>1. 1..k \subseteq 1..(k + 1)
      OBVIOUS
    <3>2. P = [i \in 1..k |-> IF space[i].father = 0 THEN <<space[i]>>
                              ELSE Append(P[space[i].father], space[i])]
      BY <2>1 DEF Paths
    <3>3. \A i \in 1..k : P[i] = IF space[i].father = 0 THEN <<space[i]>>
                                ELSE Append(P[space[i].father], space[i])
      BY <3>2
    <3> QED BY <3>1, <3>3
  <2>3. \A i \in 1..(k + 1) : space[i].father # 0 => Q[space[i].father] = P[space[i].father]
    <3> SUFFICES ASSUME NEW i \in 1..(k + 1), space[i].father # 0
                 PROVE  space[i].father \in 1..k
      BY <2>2
    <3>1. i \in 1..m
      BY <1>1
    <3> QED BY <1>1, <1>2, <3>1
  <2>4. Paths(Q, k + 1)
    BY <2>3 DEF Paths
  <2> QED BY <2>4
<1> DEFINE P == CHOOSE P : Paths(P, m)
<1>5. Paths(P, m)
  <2>1. m \in T
    <3> HIDE DEF T
    <3> QED BY <1>1, <1>3, <1>4, Upwards
  <2> QED BY <1>1, <2>1
<1>6. \A n \in 1..m : PathTo(n) = P[n]
  BY <1>1 DEF PathTo, Paths
<1> HIDE DEF P
<1>7. P = [n \in 1..m |-> P[n]]
  BY <1>5 DEF Paths
<1>8. P = [n \in 1..m |-> PathTo(n)]
  BY <1>6, <1>7
<1> QED BY <1>5, <1>8 DEF m

\* The fathers of a node, from the start on, are a path to it.
LEMMA PathToIsPath ==
  ASSUME IsSpace(space, S), NEW n \in 1..Len(space)
  PROVE  IsPath(PathTo(n), S) /\ PathTo(n)[Len(PathTo(n))] = space[n]
<1> DEFINE m == Len(space)
           P == [k \in 1..m |-> PathTo(k)]
<1>1. m \in Nat /\ DOMAIN space = 1..m /\ n \in 1..m
  BY SeqFacts DEF IsSpace
<1>2. \A k \in 1..m : space[k].father \in 0..(k - 1)
  BY DEF IsSpace
<1>5. Paths(P, m)
  BY PathToIs
<1>6. PathTo(n) = P[n]
  BY <1>1
<1> HIDE DEF m, P
<1>4. \A k \in 1..m : P[k] = IF space[k].father = 0 THEN <<space[k]>> ELSE Append(P[space[k].father], space[k])
  BY <1>5 DEF Paths
<1> DEFINE Good(k) == /\ IsPath(P[k], S) /\ P[k][Len(P[k])] = space[k]
                      /\ \A i \in 1..Len(P[k]) : \E l \in 1..k : P[k][i] = space[l]
           G == {k \in Nat : \A j \in 1..k : j <= m => Good(j)}
<1>7. 0 \in G
  OBVIOUS
<1>8. ASSUME NEW k \in Nat, k \in G PROVE k + 1 \in G
  <2> SUFFICES ASSUME k + 1 <= m PROVE Good(k + 1)
    <3> HIDE DEF Good
    <3> QED BY <1>8
  <2> DEFINE node == space[k + 1]
  <2>1. /\ k + 1 \in 1..m /\ node.S \in SUBSET Nat /\ node.father \in 0..k
        /\ node.S = result_to_dest(graph, IF node.father = 0 THEN S ELSE space[node.father].S, node.op)
    <3>1. k + 1 \in 1..m /\ (k + 1) - 1 = k
      BY <1>1
    <3> QED BY <3>1 DEF IsSpace, m
  <2>2. CASE node.father = 0
    <3>1. P[k + 1] = <<node>>
      BY <1>4, <2>1, <2>2
    <3>2. /\ IsSeq(<<node>>) /\ Len(<<node>>) = 1 /\ <<node>>[1] = node
      <4>1. <<node>> \in Seq({node})
        OBVIOUS
      <4> QED BY <4>1 DEF IsSeq
    <3>3. IsPath(<<node>>, S)
      BY <2>1, <2>2, <3>2 DEF IsPath
    <3> QED BY <2>1, <3>1, <3>2, <3>3
  <2>3. CASE node.father # 0
    <3> DEFINE f == node.father  p == P[f]
    <3>1. f \in 1..k /\ f <= m
      BY <1>1, <2>1, <2>3
    <3>2. Good(f)
      <4> HIDE DEF Good
      <4> QED BY <1>8, <3>1
    <3>3. P[k + 1] = Append(p, node)
      BY <1>4, <2>1, <2>3
    <3> DEFINE q == Append(p, node)  c == Len(p)
    <3>4. c \in Nat /\ c # 0
      BY <3>2, SeqFacts DEF IsPath
    <3>5. /\ IsSeq(q) /\ Len(q) = c + 1 /\ q[c + 1] = node
          /\ \A i \in 1..c : q[i] = p[i]
      BY <3>2, AppendFacts DEF IsPath
    <3>6. /\ \A i \in 1..c : \E l \in 1..f : p[i] = space[l]
          /\ p[c] = space[f] /\ IsPath(p, S)
      BY <3>2
    <3>7. \A i \in 1..c : p[i].S # node.S
      <4>1. \A l \in 1..f : space[l].S # space[k + 1].S
        BY <1>1, <2>1, <3>1 DEF IsSpace, m
      <4> QED BY <3>6, <4>1
    <3> HIDE DEF f, p, q, c
    <3>8. IsPath(q, S)
      <4>1. ASSUME NEW i \in 1..(c + 1)
            PROVE  /\ q[i].S \in SUBSET Nat
                   /\ q[i].S = result_to_dest(graph, IF i = 1 THEN S ELSE q[i - 1].S, q[i].op)
        <5>1. CASE i = c + 1
          <6>1. i # 1 /\ i - 1 = c /\ c \in 1..c
            BY <3>4, <5>1
          <6>2. q[i] = node /\ q[i - 1] = space[f]
            BY <3>5, <3>6, <5>1, <6>1
          <6> QED BY <2>1, <2>3, <6>1, <6>2 DEF f
        <5>2. CASE i \in 1..c
          <6>1. q[i] = p[i] /\ (i # 1 => q[i - 1] = p[i - 1])
            BY <3>4, <3>5, <5>2
          <6>2. /\ p[i].S \in SUBSET Nat
                /\ p[i].S = result_to_dest(graph, IF i = 1 THEN S ELSE p[i - 1].S, p[i].op)
            BY <3>6, <5>2 DEF IsPath, c
          <6> QED BY <6>1, <6>2
        <5> QED BY <3>4, <5>1, <5>2
      <4>2. ASSUME NEW i \in 1..(c + 1), NEW j \in 1..(c + 1), q[i].S = q[j].S PROVE i = j
        <5>1. (i \in 1..c \/ i = c + 1) /\ (j \in 1..c \/ j = c + 1)
          BY <3>4
        <5>2. \A a, b \in 1..c : p[a].S = p[b].S => a = b
          BY <3>6 DEF IsPath, c
        <5> QED BY <3>5, <3>7, <4>2, <5>1, <5>2
      <4> QED BY <3>4, <3>5, <4>1, <4>2 DEF IsPath
    <3>9. \A i \in 1..(c + 1) : \E l \in 1..(k + 1) : q[i] = space[l]
      <4> SUFFICES ASSUME NEW i \in 1..(c + 1) PROVE \E l \in 1..(k + 1) : q[i] = space[l]
        OBVIOUS
      <4>1. CASE i = c + 1
        BY <3>5, <4>1
      <4>2. CASE i \in 1..c
        BY <3>1, <3>5, <3>6, <4>2
      <4> QED BY <3>4, <4>1, <4>2
    <3> QED BY <3>3, <3>5, <3>8, <3>9 DEF q
  <2> HIDE DEF Good
  <2> QED BY <2>2, <2>3
<1>9. Good(n)
  <2> HIDE DEF Good
  <2>1. n \in G
    <3> HIDE DEF G
    <3>1. Nat \subseteq G
      BY <1>7, <1>8, Upwards
    <3> QED BY <1>1, <3>1
  <2> QED BY <1>1, <2>1
<1> QED BY <1>6, <1>9

LEMMA ResultIsState ==
  ASSUME IsTask(task), NEW s \in SUBSET Nat, NEW op
  PROVE  result_to_dest(graph, s, op) \in SUBSET Nat
<1>1. graph.ef \in Seq(EfConn)
  BY DEF IsTask, graph
<1>2. \A e \in DOMAIN graph.ef : graph.ef[e].A \in SUBSET Nat
  <2>1. \A e \in DOMAIN graph.ef : graph.ef[e] \in EfConn
    BY <1>1
  <2> QED BY <2>1 DEF EfConn
<1>3. \A e \in TrueEffects(graph, s, op) : e \in DOMAIN graph.ef
  BY DEF TrueEffects, EffectsOf, Kept
<1> QED BY <1>2, <1>3 DEF result_to_dest, Undeleted

\* The father of the next node is a node of the space, or the start.
IsFather(father, s, sp, start) ==
  IF father = 0 THEN s = start ELSE father \in 1..Len(sp) /\ s = sp[father].S

LEMMA EnterIsSpace ==
  ASSUME IsTask(task), NEW sp, IsSpace(sp, S), NEW s \in SUBSET Nat, NEW father,
         IsFather(father, s, sp, S), NEW op
  PROVE  IsSpace(EnterSpace(sp, op, s, father), S)
         /\ IsFather(father, s, EnterSpace(sp, op, s, father), S)
<1> DEFINE t == result_to_dest(graph, s, op)
           x == [S |-> t, op |-> op, father |-> father, new_goal |-> new_goal(graph, s, op)]
           e == EnterSpace(sp, op, s, father)
           m == Len(sp)
<1> SUFFICES ASSUME ~ehc_state_hashed(sp, t) PROVE IsSpace(e, S) /\ IsFather(father, s, e, S)
  BY DEF EnterSpace
<1>1. e = Append(sp, x)
  BY DEF EnterSpace
<1>2. /\ m \in Nat /\ DOMAIN sp = 1..m /\ IsSeq(e) /\ Len(e) = m + 1 /\ e[m + 1] = x
      /\ \A i \in 1..m : e[i] = sp[i]
  BY <1>1, SeqFacts, AppendFacts DEF IsSpace
<1>3. x.S = t /\ x.op = op /\ x.father = father /\ t \in SUBSET Nat
  BY ResultIsState
<1>4. t # S /\ \A i \in 1..m : sp[i].S # t
  BY <1>2 DEF ehc_state_hashed
<1> HIDE DEF e, x, t, m
<1>5. IF father = 0 THEN s = S ELSE father \in 1..m /\ s = sp[father].S
  BY DEF IsFather, m
<1>6. \A k \in 1..m :
        /\ sp[k].S \in SUBSET Nat /\ sp[k].S # S /\ sp[k].father \in 0..(k - 1)
        /\ sp[k].S = result_to_dest(graph, IF sp[k].father = 0 THEN S ELSE sp[sp[k].father].S, sp[k].op)
  BY DEF IsSpace, m
<1>7. ASSUME NEW k \in 1..(m + 1)
      PROVE  /\ e[k].S \in SUBSET Nat /\ e[k].S # S /\ e[k].father \in 0..(k - 1)
             /\ e[k].S = result_to_dest(graph, IF e[k].father = 0 THEN S ELSE e[e[k].father].S, e[k].op)
  <2>1. CASE k = m + 1
    <3>1. e[k] = x /\ father \in 0..(k - 1)
      BY <1>2, <1>5, <2>1
    <3>2. s = IF father = 0 THEN S ELSE e[father].S
      BY <1>2, <1>5
    <3> QED BY <1>3, <1>4, <3>1, <3>2 DEF t
  <2>2. CASE k \in 1..m
    <3>1. e[k] = sp[k]
      BY <1>2, <2>2
    <3>2. sp[k].father # 0 => e[sp[k].father] = sp[sp[k].father]
      <4>1. sp[k].father \in 0..(k - 1)
        BY <1>6, <2>2
      <4> QED BY <1>2, <2>2, <4>1
    <3> QED BY <1>6, <2>2, <3>1, <3>2
  <2> QED BY <1>2, <2>1, <2>2
<1>8. ASSUME NEW j \in 1..(m + 1), NEW k \in 1..(m + 1), e[j].S = e[k].S PROVE j = k
  <2>1. (j \in 1..m \/ j = m + 1) /\ (k \in 1..m \/ k = m + 1)
    BY <1>2
  <2>2. \A a, b \in 1..m : sp[a].S = sp[b].S => a = b
    BY DEF IsSpace, m
  <2> QED BY <1>2, <1>3, <1>4, <1>8, <2>1, <2>2
<1>9. IsSpace(e, S)
  BY <1>2, <1>7, <1>8 DEF IsSpace
<1>10. IsFather(father, s, e, S)
  BY <1>2, <1>5 DEF IsFather
<1> QED BY <1>9, <1>10

EnterFold(g, sp, ops, s, father, m) ==
  g = [q \in SUBSET (1..m) |->
         IF q = {} THEN sp ELSE LET x == Max(q) IN EnterSpace(g[q \ {x}], ops[x], s, father)]

AreEntered(A, sp, ops, s, father) ==
  /\ A[0] = sp
  /\ \A j \in 1..Len(ops) : A[j] = EnterSpace(A[j - 1], ops[j], s, father)
  /\ Successors(sp, ops, s, father) = A[Len(ops)]

LEMMA EnterSteps ==
  ASSUME NEW sp, NEW ops, IsSeq(ops), NEW s, NEW father
  PROVE  \E A : AreEntered(A, sp, ops, s, father)
<1> DEFINE n == Len(ops)
           T == {m \in Nat : \E g : EnterFold(g, sp, ops, s, father, m)}
<1>0. n \in Nat /\ DOMAIN ops = 1..n
  BY SeqFacts
<1>1. 0 \in T
  <2>1. EnterFold([q \in {{}} |-> sp], sp, ops, s, father, 0)
    BY DEF EnterFold
  <2> QED BY <2>1
<1>2. ASSUME NEW m \in Nat, m \in T PROVE m + 1 \in T
  <2>1. PICK g : EnterFold(g, sp, ops, s, father, m)
    BY <1>2
  <2> DEFINE f == [q \in SUBSET (1..(m + 1)) |->
                     IF q = {} THEN sp
                     ELSE LET x == Max(q) IN EnterSpace(g[q \ {x}], ops[x], s, father)]
  <2>2. SUBSET (1..m) \subseteq SUBSET (1..(m + 1))
    OBVIOUS
  <2>3. \A q \in SUBSET (1..m) : f[q] = g[q]
    BY <2>1, <2>2 DEF EnterFold
  <2>4. \A q \in SUBSET (1..(m + 1)) : q # {} => q \ {Max(q)} \in SUBSET (1..m)
    <3> SUFFICES ASSUME NEW q \in SUBSET (1..(m + 1)), q # {} PROVE q \ {Max(q)} \in SUBSET (1..m)
      OBVIOUS
    <3> QED BY LastIndex
  <2>5. EnterFold(f, sp, ops, s, father, m + 1)
    <3>1. \A q \in SUBSET (1..(m + 1)) : q # {} => f[q \ {Max(q)}] = g[q \ {Max(q)}]
      <4> HIDE DEF f
      <4> QED BY <2>3, <2>4
    <3> QED BY <3>1 DEF EnterFold
  <2> QED BY <2>5
<1> HIDE DEF n
<1>3. n \in T
  <2> HIDE DEF T
  <2> QED BY <1>0, <1>1, <1>2, Upwards
<1> DEFINE fold == CHOOSE g : EnterFold(g, sp, ops, s, father, n)
<1>4. EnterFold(fold, sp, ops, s, father, n)
  BY <1>3
<1>5. Successors(sp, ops, s, father) = fold[1..n]
  BY <1>0 DEF Successors, FoldLeft, MapThenFoldSet, EnterFold
<1> DEFINE A == [j \in 0..n |-> fold[1..j]]
<1>6. A[0] = sp
  <2>1. fold[{}] = sp
    <3> HIDE DEF fold
    <3> QED BY <1>4 DEF EnterFold
  <2> QED BY <1>0, <2>1
<1>7. ASSUME NEW j \in 1..n PROVE A[j] = EnterSpace(A[j - 1], ops[j], s, father)
  <2>1. 1..j \in SUBSET (1..n) /\ j \in Nat \ {0} /\ j \in 0..n /\ j - 1 \in 0..n
    BY <1>0
  <2>2. fold[1..j] = EnterSpace(fold[1..(j - 1)], ops[j], s, father)
    <3> DEFINE q == 1..j
    <3> HIDE DEF fold, q
    <3>1. q \in SUBSET (1..n) /\ q # {} /\ Max(q) = j /\ q \ {j} = 1..(j - 1)
      BY <2>1, Prefix DEF q
    <3>2. fold[q] = EnterSpace(fold[q \ {Max(q)}], ops[Max(q)], s, father)
      BY <1>4, <3>1 DEF EnterFold
    <3> QED BY <3>1, <3>2 DEF q
  <2> HIDE DEF fold
  <2> QED BY <2>1, <2>2
<1>8. Successors(sp, ops, s, father) = A[n]
  BY <1>0, <1>5
<1> HIDE DEF A
<1>9. AreEntered(A, sp, ops, s, father)
  BY <1>6, <1>7, <1>8 DEF n, AreEntered
<1> QED BY <1>9

LEMMA SuccessorsAreSpace ==
  ASSUME IsTask(task), NEW sp, IsSpace(sp, S), NEW s \in SUBSET Nat, NEW father,
         IsFather(father, s, sp, S), NEW ops, IsSeq(ops)
  PROVE  IsSpace(Successors(sp, ops, s, father), S)
<1> DEFINE n == Len(ops)
<1>1. n \in Nat
  BY SeqFacts
<1>2. PICK A : AreEntered(A, sp, ops, s, father)
  BY EnterSteps
<1>3. /\ A[0] = sp
      /\ \A j \in 1..n : A[j] = EnterSpace(A[j - 1], ops[j], s, father)
      /\ Successors(sp, ops, s, father) = A[n]
  BY <1>2 DEF AreEntered
<1> HIDE DEF n
<1> DEFINE T == {j \in Nat : j <= n => IsSpace(A[j], S) /\ IsFather(father, s, A[j], S)}
<1>4. 0 \in T
  BY <1>3
<1>5. ASSUME NEW j \in Nat, j \in T PROVE j + 1 \in T
  <2> SUFFICES ASSUME j + 1 <= n PROVE IsSpace(A[j + 1], S) /\ IsFather(father, s, A[j + 1], S)
    OBVIOUS
  <2>1. j + 1 \in 1..n /\ (j + 1) - 1 = j /\ IsSpace(A[j], S) /\ IsFather(father, s, A[j], S)
    BY <1>1, <1>5
  <2>2. A[j + 1] = EnterSpace(A[j], ops[j + 1], s, father)
    BY <1>3, <2>1
  <2> QED BY <2>1, <2>2, EnterIsSpace
<1>6. n \in T
  <2> HIDE DEF T
  <2> QED BY <1>1, <1>4, <1>5, Upwards
<1> QED BY <1>1, <1>3, <1>6

-----------------------------------------------------------------------------
(* Best first search                                                       *)

\* The root is the initial state, every other node is the result of its operator
\* in the state of its father, and no state comes twice.
IsTree(ns) ==
  /\ IsSeq(ns)
  /\ \A k \in 1..Len(ns) :
       /\ ns[k].S \in SUBSET Nat /\ ns[k].father \in 0..(k - 1)
       /\ ns[k].S = IF ns[k].father = 0 THEN task.initial
                    ELSE result_to_dest(graph, ns[ns[k].father].S, ns[k].op)
  /\ \A j, k \in 1..Len(ns) : ns[j].S = ns[k].S => j = k

IsBfs(b) == IsTree(b.nodes) /\ b.open \in Seq(1..Len(b.nodes))

\* A state that joins the nodes is the initial state or the result of the operator
\* in the father's.
IsSon(t, op, father, ns) ==
  IF father = 0 THEN t = task.initial
  ELSE father \in 1..Len(ns) /\ t = result_to_dest(graph, ns[father].S, op)

\* Nodes stay what they are.
Extends(ns, old) == Len(ns) >= Len(old) /\ \A k \in 1..Len(old) : ns[k] = old[k]

LEMMA AddIsBfs ==
  ASSUME NEW b, IsBfs(b), NEW t \in SUBSET Nat, NEW op, NEW father, IsSon(t, op, father, b.nodes)
  PROVE  IsBfs(AddToBfsSpace(b, t, op, father))
         /\ Extends(AddToBfsSpace(b, t, op, father).nodes, b.nodes)
<1> DEFINE hs == get_1P_and_H(graph, t, ToSet(task.goals)).h
           at == Cardinality({k \in DOMAIN b.open : b.nodes[b.open[k]].h <= hs}) + 1
           x == [S |-> t, op |-> op, h |-> hs, father |-> father]
           e == AddToBfsSpace(b, t, op, father)
           m == Len(b.nodes)
           queue == InsertAt(b.open, at, m + 1)
           new == Append(b.nodes, x)
<1>1. m \in Nat /\ DOMAIN b.nodes = 1..m
  BY SeqFacts DEF IsBfs, IsTree
<1>2. Extends(b.nodes, b.nodes)
  BY <1>1 DEF Extends
<1> SUFFICES ASSUME ~bfs_state_hashed(b.nodes, t), hs # INFINITY PROVE IsBfs(e) /\ Extends(e.nodes, b.nodes)
  <2>1. bfs_state_hashed(b.nodes, t) \/ hs = INFINITY => e = b
    BY DEF AddToBfsSpace, EnterBfsSpace
  <2> HIDE DEF e, hs
  <2> QED BY <1>2, <2>1 DEF e, hs
<1>3. e = [open |-> queue, nodes |-> new]
  BY DEF AddToBfsSpace, EnterBfsSpace
<1>4. /\ IsSeq(new) /\ Len(new) = m + 1 /\ new[m + 1] = x
      /\ \A i \in 1..m : new[i] = b.nodes[i]
  BY AppendFacts DEF IsBfs, IsTree
<1>5. at \in 1..(Len(b.open) + 1)
  <2> DEFINE near == {k \in DOMAIN b.open : b.nodes[b.open[k]].h <= hs}
  <2>1. DOMAIN b.open = 1..Len(b.open) /\ Len(b.open) \in Nat
    BY DEF IsBfs
  <2>2. IsFiniteSet(1..Len(b.open)) /\ Cardinality(1..Len(b.open)) = Len(b.open)
    BY <2>1, FS_Interval
  <2>3. near \in SUBSET (1..Len(b.open))
    BY <2>1
  <2> HIDE DEF near
  <2>4. Cardinality(near) \in Nat /\ Cardinality(near) <= Len(b.open)
    BY <2>2, <2>3, FS_Subset, FS_CardinalityType
  <2> QED BY <2>1, <2>4 DEF near
<1>6. queue \in Seq(1..(m + 1))
  <2> HIDE DEF at, m
  <2>1. b.open \in Seq(1..(m + 1)) /\ m + 1 \in 1..(m + 1) /\ Len(b.open) \in Nat
    BY <1>1 DEF IsBfs, m
  <2>2. SubSeq(b.open, 1, at - 1) \in Seq(1..(m + 1))
    <3>1. at - 1 \in Nat /\ at - 1 <= Len(b.open)
      BY <1>5, <2>1
    <3> QED BY <2>1, <3>1
  <2>3. SubSeq(b.open, at, Len(b.open)) \in Seq(1..(m + 1))
    <3>1. at \in Nat /\ at >= 1 /\ at <= Len(b.open) + 1
      BY <1>5, <2>1
    <3>2. \A i \in at..Len(b.open) : i \in 1..Len(b.open)
      BY <2>1, <3>1
    <3>3. \A i \in at..Len(b.open) : b.open[i] \in 1..(m + 1)
      BY <2>1, <3>2
    <3> QED BY <2>1, <3>1, <3>3, SubSeqProperties
  <2>4. <<m + 1>> \in Seq(1..(m + 1))
    BY <2>1
  <2> QED BY <2>2, <2>3, <2>4 DEF InsertAt
<1>7. x.S = t /\ x.op = op /\ x.father = father
  OBVIOUS
<1>8. \A i \in 1..m : b.nodes[i].S # t
  BY <1>1 DEF bfs_state_hashed
<1>9. IF father = 0 THEN t = task.initial
      ELSE father \in 1..m /\ t = result_to_dest(graph, b.nodes[father].S, op)
  BY DEF IsSon
<1>10. /\ \A k \in 1..m :
            /\ b.nodes[k].S \in SUBSET Nat /\ b.nodes[k].father \in 0..(k - 1)
            /\ b.nodes[k].S = IF b.nodes[k].father = 0 THEN task.initial
                              ELSE result_to_dest(graph, b.nodes[b.nodes[k].father].S, b.nodes[k].op)
       /\ \A j, k \in 1..m : b.nodes[j].S = b.nodes[k].S => j = k
  BY DEF IsBfs, IsTree
<1> HIDE DEF x, m, new, queue
<1>11. ASSUME NEW k \in 1..(m + 1)
       PROVE  /\ new[k].S \in SUBSET Nat /\ new[k].father \in 0..(k - 1)
              /\ new[k].S = IF new[k].father = 0 THEN task.initial
                            ELSE result_to_dest(graph, new[new[k].father].S, new[k].op)
  <2>1. CASE k = m + 1
    <3>1. new[k] = x /\ father \in 0..(k - 1)
      BY <1>1, <1>4, <1>9, <2>1
    <3>2. father # 0 => new[father] = b.nodes[father]
      BY <1>4, <1>9
    <3> QED BY <1>7, <1>9, <3>1, <3>2
  <2>2. CASE k \in 1..m
    <3>1. new[k] = b.nodes[k]
      BY <1>4, <2>2
    <3>2. b.nodes[k].father # 0 => new[b.nodes[k].father] = b.nodes[b.nodes[k].father]
      <4>1. b.nodes[k].father \in 0..(k - 1)
        BY <1>10, <2>2
      <4> QED BY <1>1, <1>4, <2>2, <4>1
    <3> QED BY <1>10, <2>2, <3>1, <3>2
  <2> QED BY <1>1, <2>1, <2>2
<1>12. ASSUME NEW j \in 1..(m + 1), NEW k \in 1..(m + 1), new[j].S = new[k].S PROVE j = k
  <2>1. (j \in 1..m \/ j = m + 1) /\ (k \in 1..m \/ k = m + 1)
    BY <1>1
  <2> QED BY <1>4, <1>7, <1>8, <1>10, <1>12, <2>1
<1>13. IsTree(new)
  BY <1>1, <1>4, <1>11, <1>12 DEF IsTree
<1>14. Extends(new, b.nodes)
  BY <1>1, <1>4 DEF Extends, m
<1> QED BY <1>3, <1>4, <1>6, <1>13, <1>14 DEF IsBfs

AddFold(g, b, ops, n, l) ==
  g = [q \in SUBSET (1..l) |->
         IF q = {} THEN b
         ELSE LET x == Max(q)
              IN  AddToBfsSpace(g[q \ {x}], result_to_dest(graph, nodes[n].S, ops[x]), ops[x], n)]

AreAdded(A, b, n) ==
  LET ops == get_A(graph, nodes[n].S)
  IN  /\ A[0] = b
      /\ \A j \in 1..Len(ops) :
           A[j] = AddToBfsSpace(A[j - 1], result_to_dest(graph, nodes[n].S, ops[j]), ops[j], n)
      /\ Expanded(b, n) = A[Len(ops)]

LEMMA AddSteps ==
  ASSUME NEW b, NEW n, IsSeq(get_A(graph, nodes[n].S))
  PROVE  \E A : AreAdded(A, b, n)
<1> DEFINE ops == get_A(graph, nodes[n].S)
           l == Len(ops)
           T == {m \in Nat : \E g : AddFold(g, b, ops, n, m)}
<1>0. l \in Nat /\ DOMAIN ops = 1..l
  BY SeqFacts
<1> HIDE DEF ops
<1>1. 0 \in T
  <2>1. AddFold([q \in {{}} |-> b], b, ops, n, 0)
    BY DEF AddFold
  <2> QED BY <2>1
<1>2. ASSUME NEW m \in Nat, m \in T PROVE m + 1 \in T
  <2>1. PICK g : AddFold(g, b, ops, n, m)
    BY <1>2
  <2> DEFINE Add(c, i) == AddToBfsSpace(c, result_to_dest(graph, nodes[n].S, ops[i]), ops[i], n)
             f == [q \in SUBSET (1..(m + 1)) |->
                     IF q = {} THEN b ELSE LET x == Max(q) IN Add(g[q \ {x}], x)]
  <2>2. SUBSET (1..m) \subseteq SUBSET (1..(m + 1))
    OBVIOUS
  <2>3. \A q \in SUBSET (1..m) : f[q] = g[q]
    BY <2>1, <2>2 DEF AddFold
  <2>4. \A q \in SUBSET (1..(m + 1)) : q # {} => q \ {Max(q)} \in SUBSET (1..m)
    <3> SUFFICES ASSUME NEW q \in SUBSET (1..(m + 1)), q # {} PROVE q \ {Max(q)} \in SUBSET (1..m)
      OBVIOUS
    <3> QED BY LastIndex
  <2>5. AddFold(f, b, ops, n, m + 1)
    <3>1. \A q \in SUBSET (1..(m + 1)) : q # {} => f[q \ {Max(q)}] = g[q \ {Max(q)}]
      <4> HIDE DEF f
      <4> QED BY <2>3, <2>4
    <3> QED BY <3>1 DEF AddFold
  <2> QED BY <2>5
<1> HIDE DEF l
<1>3. l \in T
  <2> HIDE DEF T
  <2> QED BY <1>0, <1>1, <1>2, Upwards
<1> DEFINE fold == CHOOSE g : AddFold(g, b, ops, n, l)
<1>4. AddFold(fold, b, ops, n, l)
  BY <1>3
<1>5. Expanded(b, n) = fold[1..l]
  BY <1>0 DEF Expanded, FoldLeft, MapThenFoldSet, AddFold, ops
<1> DEFINE A == [j \in 0..l |-> fold[1..j]]
<1>6. A[0] = b
  <2>1. fold[{}] = b
    <3> HIDE DEF fold
    <3> QED BY <1>4 DEF AddFold
  <2> QED BY <1>0, <2>1
<1>7. ASSUME NEW j \in 1..l
      PROVE  A[j] = AddToBfsSpace(A[j - 1], result_to_dest(graph, nodes[n].S, ops[j]), ops[j], n)
  <2>1. 1..j \in SUBSET (1..l) /\ j \in Nat \ {0} /\ j \in 0..l /\ j - 1 \in 0..l
    BY <1>0
  <2>2. fold[1..j] = AddToBfsSpace(fold[1..(j - 1)], result_to_dest(graph, nodes[n].S, ops[j]), ops[j], n)
    <3> DEFINE q == 1..j
    <3> HIDE DEF fold, q
    <3>1. q \in SUBSET (1..l) /\ q # {} /\ Max(q) = j /\ q \ {j} = 1..(j - 1)
      BY <2>1, Prefix DEF q
    <3>2. fold[q] = AddToBfsSpace(fold[q \ {Max(q)}],
                                  result_to_dest(graph, nodes[n].S, ops[Max(q)]), ops[Max(q)], n)
      BY <1>4, <3>1 DEF AddFold
    <3> QED BY <3>1, <3>2 DEF q
  <2> HIDE DEF fold
  <2> QED BY <2>1, <2>2
<1>8. Expanded(b, n) = A[l]
  BY <1>0, <1>5
<1> HIDE DEF A
<1>9. AreAdded(A, b, n)
  BY <1>6, <1>7, <1>8 DEF l, ops, AreAdded
<1> QED BY <1>9

LEMMA ExpandedIsBfs ==
  ASSUME IsTask(task), NEW b, IsBfs(b), b.nodes = nodes, NEW n \in 1..Len(nodes),
         IsSeq(get_A(graph, nodes[n].S))
  PROVE  IsBfs(Expanded(b, n)) /\ Extends(Expanded(b, n).nodes, nodes)
<1> DEFINE ops == get_A(graph, nodes[n].S)
           l == Len(ops)
           t(j) == result_to_dest(graph, nodes[n].S, ops[j])
<1>1. l \in Nat
  BY SeqFacts
<1>2. PICK A : AreAdded(A, b, n)
  BY AddSteps
<1>3. /\ A[0] = b
      /\ \A j \in 1..l : A[j] = AddToBfsSpace(A[j - 1], t(j), ops[j], n)
      /\ Expanded(b, n) = A[l]
  BY <1>2 DEF AreAdded
<1>4. \A j : t(j) \in SUBSET Nat
  <2>1. nodes[n].S \in SUBSET Nat
    BY DEF IsBfs, IsTree
  <2> QED BY <2>1, ResultIsState
<1>5. Len(nodes) \in Nat
  BY SeqFacts DEF IsBfs, IsTree
<1>6. \A ns, j : Extends(ns, nodes) => IsSon(t(j), ops[j], n, ns)
  BY <1>5 DEF Extends, IsSon
<1> HIDE DEF ops, l, t
<1> DEFINE T == {j \in Nat : j <= l => IsBfs(A[j]) /\ Extends(A[j].nodes, nodes)}
<1>7. 0 \in T
  BY <1>3, <1>5 DEF Extends
<1>8. ASSUME NEW j \in Nat, j \in T PROVE j + 1 \in T
  <2> SUFFICES ASSUME j + 1 <= l PROVE IsBfs(A[j + 1]) /\ Extends(A[j + 1].nodes, nodes)
    OBVIOUS
  <2>1. j + 1 \in 1..l /\ (j + 1) - 1 = j /\ IsBfs(A[j]) /\ Extends(A[j].nodes, nodes)
    BY <1>1, <1>8
  <2>2. A[j + 1] = AddToBfsSpace(A[j], t(j + 1), ops[j + 1], n)
    BY <1>3, <2>1
  <2>3. IsBfs(A[j + 1]) /\ Extends(A[j + 1].nodes, A[j].nodes)
    <3>1. IsSon(t(j + 1), ops[j + 1], n, A[j].nodes)
      BY <1>6, <2>1
    <3> QED BY <1>4, <2>1, <2>2, <3>1, AddIsBfs
  <2>4. Len(A[j].nodes) \in Nat /\ Len(A[j + 1].nodes) \in Nat
    BY <2>1, <2>3, SeqFacts DEF IsBfs, IsTree
  <2> QED BY <1>5, <2>1, <2>3, <2>4 DEF Extends
<1>9. l \in T
  <2> HIDE DEF T
  <2> QED BY <1>1, <1>7, <1>8, Upwards
<1> QED BY <1>1, <1>3, <1>9

IsChain(p, n) ==
  /\ IsSeq(p)
  /\ \A i \in 1..Len(p) :
       /\ p[i] \in 1..n /\ nodes[p[i]].father # 0
       /\ nodes[p[i]].S = result_to_dest(graph, IF i = 1 THEN task.initial ELSE nodes[p[i - 1]].S,
                                         nodes[p[i]].op)
  /\ \A i, j \in 1..Len(p) : p[i] = p[j] => i = j
  /\ IF Len(p) = 0 THEN nodes[n].father = 0 ELSE p[Len(p)] = n

Chains(P, m) ==
  P = [i \in 1..m |-> IF nodes[i].father = 0 THEN <<>> ELSE Append(P[nodes[i].father], i)]

\* The chain to a node is the chain to its father, and the node.
LEMMA NodesToIs ==
  ASSUME IsTree(nodes)
  PROVE  Chains([n \in 1..Len(nodes) |-> NodesTo(n)], Len(nodes))
<1> DEFINE m == Len(nodes)
           T == {k \in Nat : k <= m => \E P : Chains(P, k)}
<1>1. m \in Nat /\ DOMAIN nodes = 1..m
  BY SeqFacts DEF IsTree
<1>2. \A k \in 1..m : nodes[k].father \in 0..(k - 1)
  BY DEF IsTree
<1> HIDE DEF m
<1>3. 0 \in T
  <2>1. Chains([i \in 1..0 |-> <<>>], 0)
    BY DEF Chains
  <2> QED BY <2>1
<1>4. ASSUME NEW k \in Nat, k \in T PROVE k + 1 \in T
  <2> SUFFICES ASSUME k + 1 <= m PROVE \E P : Chains(P, k + 1)
    OBVIOUS
  <2>1. PICK P : Chains(P, k)
    BY <1>1, <1>4
  <2> DEFINE Q == [i \in 1..(k + 1) |-> IF nodes[i].father = 0 THEN <<>> ELSE Append(P[nodes[i].father], i)]
  <2>2. \A i \in 1..k : Q[i] = P[i]
    <3>1. 1..k \subseteq 1..(k + 1)
      OBVIOUS
    <3>2. P = [i \in 1..k |-> IF nodes[i].father = 0 THEN <<>> ELSE Append(P[nodes[i].father], i)]
      BY <2>1 DEF Chains
    <3>3. \A i \in 1..k : P[i] = IF nodes[i].father = 0 THEN <<>> ELSE Append(P[nodes[i].father], i)
      BY <3>2
    <3> QED BY <3>1, <3>3
  <2>3. \A i \in 1..(k + 1) : nodes[i].father # 0 => Q[nodes[i].father] = P[nodes[i].father]
    <3> SUFFICES ASSUME NEW i \in 1..(k + 1), nodes[i].father # 0
                 PROVE  nodes[i].father \in 1..k
      BY <2>2
    <3>1. i \in 1..m
      BY <1>1
    <3> QED BY <1>1, <1>2, <3>1
  <2>4. Chains(Q, k + 1)
    BY <2>3 DEF Chains
  <2> QED BY <2>4
<1> DEFINE P == CHOOSE P : Chains(P, m)
<1>5. Chains(P, m)
  <2>1. m \in T
    <3> HIDE DEF T
    <3> QED BY <1>1, <1>3, <1>4, Upwards
  <2> QED BY <1>1, <2>1
<1>6. \A n \in 1..m : NodesTo(n) = P[n]
  BY <1>1 DEF NodesTo, Chains
<1> HIDE DEF P
<1>7. P = [n \in 1..m |-> P[n]]
  BY <1>5 DEF Chains
<1>8. P = [n \in 1..m |-> NodesTo(n)]
  BY <1>6, <1>7
<1> QED BY <1>5, <1>8 DEF m

\* The fathers of a node, from the root on, lead to it.
LEMMA NodesToIsChain ==
  ASSUME IsTree(nodes), NEW n \in 1..Len(nodes)
  PROVE  IsChain(NodesTo(n), n)
<1> DEFINE m == Len(nodes)
           P == [k \in 1..m |-> NodesTo(k)]
<1>1. m \in Nat /\ DOMAIN nodes = 1..m /\ n \in 1..m
  BY SeqFacts DEF IsTree
<1>2. \A k \in 1..m : nodes[k].father \in 0..(k - 1)
  BY DEF IsTree
<1>5. Chains(P, m)
  BY NodesToIs
<1>6. NodesTo(n) = P[n]
  BY <1>1
<1> HIDE DEF m, P
<1>4. \A k \in 1..m : P[k] = IF nodes[k].father = 0 THEN <<>> ELSE Append(P[nodes[k].father], k)
  BY <1>5 DEF Chains
<1> DEFINE G == {k \in Nat : \A j \in 1..k : j <= m => IsChain(P[j], j)}
<1>7. 0 \in G
  OBVIOUS
<1>8. ASSUME NEW k \in Nat, k \in G PROVE k + 1 \in G
  <2> SUFFICES ASSUME k + 1 <= m PROVE IsChain(P[k + 1], k + 1)
    BY <1>8
  <2> DEFINE node == nodes[k + 1]
  <2>1. /\ k + 1 \in 1..m /\ node.father \in 0..k
        /\ node.father # 0 => node.S = result_to_dest(graph, nodes[node.father].S, node.op)
    <3>1. k + 1 \in 1..m /\ (k + 1) - 1 = k
      BY <1>1
    <3> QED BY <3>1 DEF IsTree, m
  <2>2. CASE node.father = 0
    <3>1. P[k + 1] = <<>>
      BY <1>4, <2>1, <2>2
    <3>2. IsSeq(<<>>) /\ Len(<<>>) = 0
      BY DEF IsSeq
    <3> QED BY <2>2, <3>1, <3>2 DEF IsChain
  <2>3. CASE node.father # 0
    <3> DEFINE f == node.father  p == P[f]
    <3>1. f \in 1..k /\ f <= m
      BY <1>1, <2>1, <2>3
    <3>2. IsChain(p, f)
      BY <1>8, <3>1
    <3>3. P[k + 1] = Append(p, k + 1)
      BY <1>4, <2>1, <2>3
    <3> DEFINE q == Append(p, k + 1)  c == Len(p)
    <3>4. /\ c \in Nat
          /\ IsSeq(q) /\ Len(q) = c + 1 /\ q[c + 1] = k + 1
          /\ \A i \in 1..c : q[i] = p[i]
      BY <3>2, SeqFacts, AppendFacts DEF IsChain
    <3> HIDE DEF p, q, c
    <3>5. /\ \A i \in 1..c :
               /\ p[i] \in 1..f /\ nodes[p[i]].father # 0
               /\ nodes[p[i]].S = result_to_dest(graph, IF i = 1 THEN task.initial ELSE nodes[p[i - 1]].S,
                                                 nodes[p[i]].op)
          /\ \A i, j \in 1..c : p[i] = p[j] => i = j
          /\ IF c = 0 THEN nodes[f].father = 0 ELSE p[c] = f
      BY <3>2 DEF IsChain, c
    <3>6. c = 0 => nodes[f].S = task.initial
      <4>1. f \in 1..Len(nodes)
        BY <1>1, <3>1 DEF m
      <4> QED BY <3>5, <4>1 DEF IsTree
    <3>7. ASSUME NEW i \in 1..(c + 1)
          PROVE  /\ q[i] \in 1..(k + 1) /\ nodes[q[i]].father # 0
                 /\ nodes[q[i]].S = result_to_dest(graph, IF i = 1 THEN task.initial ELSE nodes[q[i - 1]].S,
                                                   nodes[q[i]].op)
      <4>1. CASE i = c + 1
        <5>1. q[i] = k + 1
          BY <3>4, <4>1
        <5>2. node.S = result_to_dest(graph, nodes[f].S, node.op)
          BY <2>1, <2>3
        <5>3. i # 1 => q[i - 1] = f
          <6> SUFFICES ASSUME i # 1 PROVE q[i - 1] = f
            OBVIOUS
          <6>1. i - 1 = c /\ c # 0 /\ c \in 1..c
            BY <3>4, <4>1
          <6> QED BY <3>4, <3>5, <6>1
        <5>4. i = 1 => nodes[f].S = task.initial
          BY <3>4, <3>6, <4>1
        <5> HIDE DEF f
        <5> QED BY <2>1, <2>3, <5>1, <5>2, <5>3, <5>4
      <4>2. CASE i \in 1..c
        <5>1. q[i] = p[i] /\ (i # 1 => q[i - 1] = p[i - 1])
          BY <3>4, <4>2
        <5>2. p[i] \in 1..(k + 1)
          BY <3>1, <3>5, <4>2
        <5> QED BY <3>5, <4>2, <5>1, <5>2
      <4> QED BY <3>4, <4>1, <4>2
    <3>8. ASSUME NEW i \in 1..(c + 1), NEW j \in 1..(c + 1), q[i] = q[j] PROVE i = j
      <4>1. (i \in 1..c \/ i = c + 1) /\ (j \in 1..c \/ j = c + 1)
        BY <3>4
      <4>2. \A a \in 1..c : p[a] # k + 1
        BY <3>1, <3>5
      <4> QED BY <3>4, <3>5, <3>8, <4>1, <4>2
    <3>9. IsChain(q, k + 1)
      BY <3>4, <3>7, <3>8 DEF IsChain
    <3> QED BY <3>3, <3>9 DEF q
  <2> QED BY <2>2, <2>3
<1>9. IsChain(P[n], n)
  <2>1. n \in G
    <3> HIDE DEF G
    <3>1. Nat \subseteq G
      BY <1>7, <1>8, Upwards
    <3> QED BY <1>1, <3>1
  <2> QED BY <1>1, <2>1
<1> QED BY <1>6, <1>9

LEMMA ConsFacts ==
  ASSUME NEW x, NEW s, IsSeq(s)
  PROVE  /\ IsSeq(<<x>> \o s) /\ Len(<<x>> \o s) = Len(s) + 1
         /\ (<<x>> \o s)[1] = x
         /\ \A i \in 1..Len(s) : (<<x>> \o s)[i + 1] = s[i]
<1>1. PICK T : s \in Seq(T)
  BY DEF IsSeq
<1> DEFINE V == T \cup {x}
<1>2. <<x>> \in Seq(V) /\ s \in Seq(V) /\ Len(<<x>>) = 1 /\ <<x>>[1] = x
  BY <1>1
<1>3. Len(s) \in Nat
  BY <1>1
<1>4. <<x>> \o s \in Seq(V) /\ Len(<<x>> \o s) = Len(s) + 1
  BY <1>2, <1>3
<1>5. \A i \in 1..(Len(s) + 1) : (<<x>> \o s)[i] = IF i <= 1 THEN <<x>>[i] ELSE s[i - 1]
  BY <1>2, <1>3
<1>6. ASSUME NEW i \in 1..Len(s) PROVE (<<x>> \o s)[i + 1] = s[i]
  <2>1. i + 1 \in 1..(Len(s) + 1) /\ ~(i + 1 <= 1) /\ (i + 1) - 1 = i
    BY <1>3
  <2> QED BY <1>5, <2>1
<1>7. (<<x>> \o s)[1] = x
  BY <1>2, <1>3, <1>5
<1> QED BY <1>4, <1>6, <1>7 DEF IsSeq

\* The plan of a best first search leads from the initial state to its last node.
LEMMA ExtractedIsRun ==
  ASSUME IsTree(nodes), NEW n \in 1..Len(nodes), NEW p, p = NodesTo(n)
  PROVE  LET states == <<task.initial>> \o [k \in DOMAIN p |-> nodes[p[k]].S]
         IN  /\ IsRun([k \in DOMAIN p |-> nodes[p[k]].op], states)
             /\ states[Len(states)] = nodes[n].S
<1> DEFINE c == Len(p)
           ops == [k \in DOMAIN p |-> nodes[p[k]].op]
           after == [k \in DOMAIN p |-> nodes[p[k]].S]
           states == <<task.initial>> \o after
<1>1. IsChain(p, n)
  BY NodesToIsChain
<1>2. c \in Nat /\ DOMAIN p = 1..c
  BY <1>1, SeqFacts DEF IsChain
<1>3. IsSeq(ops) /\ Len(ops) = c /\ \A k \in 1..c : ops[k] = nodes[p[k]].op
  <2>1. ops = [k \in 1..c |-> nodes[p[k]].op]
    BY <1>2
  <2>2. ops = [k \in 1..c |-> ops[k]]
    BY <2>1
  <2> HIDE DEF ops
  <2> QED BY <1>2, <2>1, <2>2, ListFacts
<1>4. IsSeq(after) /\ Len(after) = c /\ \A k \in 1..c : after[k] = nodes[p[k]].S
  <2>1. after = [k \in 1..c |-> nodes[p[k]].S]
    BY <1>2
  <2>2. after = [k \in 1..c |-> after[k]]
    BY <2>1
  <2> HIDE DEF after
  <2> QED BY <1>2, <2>1, <2>2, ListFacts
<1> HIDE DEF ops, after
<1>5. /\ IsSeq(states) /\ Len(states) = c + 1 /\ states[1] = task.initial
      /\ \A i \in 1..c : states[i + 1] = after[i]
  BY <1>4, ConsFacts
<1> HIDE DEF states, c
<1>6. \A i \in 1..c :
        /\ p[i] \in 1..n /\ nodes[p[i]].father # 0
        /\ nodes[p[i]].S = result_to_dest(graph, IF i = 1 THEN task.initial ELSE nodes[p[i - 1]].S,
                                          nodes[p[i]].op)
  BY <1>1 DEF IsChain, c
<1>7. Len(nodes) \in Nat /\ n \in 1..Len(nodes)
  BY SeqFacts DEF IsTree
<1>8. \A i \in 1..c : p[i] \in 1..Len(nodes)
  BY <1>6, <1>7
<1>9. \A i \in 1..c : nodes[p[i]].S # task.initial
  <2> SUFFICES ASSUME NEW i \in 1..c, nodes[p[i]].S = task.initial PROVE FALSE
    OBVIOUS
  <2>1. 1 \in 1..Len(nodes) /\ nodes[1].father \in 0..(1 - 1)
    BY <1>7 DEF IsTree
  <2>2. nodes[1].father = 0
    BY <2>1
  <2>3. nodes[1].S = task.initial
    BY <2>1, <2>2 DEF IsTree
  <2>4. p[i] = 1
    BY <1>8, <2>1, <2>3 DEF IsTree
  <2> QED BY <1>6, <2>2, <2>4
<1>10. ASSUME NEW k \in 1..c PROVE states[k + 1] = result_to_dest(graph, states[k], ops[k])
  <2>1. states[k] = IF k = 1 THEN task.initial ELSE nodes[p[k - 1]].S
    <3>1. k # 1 => k - 1 \in 1..c /\ (k - 1) + 1 = k
      BY <1>2
    <3>2. k # 1 => states[(k - 1) + 1] = after[k - 1]
      BY <1>5, <3>1
    <3> QED BY <1>4, <1>5, <3>1, <3>2
  <2> QED BY <1>3, <1>4, <1>5, <1>6, <2>1
<1>11. ASSUME NEW j \in 1..(c + 1), NEW k \in 1..(c + 1), states[j] = states[k] PROVE j = k
  <2>1. ASSUME NEW i \in 1..(c + 1), i # 1 PROVE i - 1 \in 1..c /\ states[i] = nodes[p[i - 1]].S
    <3>1. i - 1 \in 1..c /\ (i - 1) + 1 = i
      BY <1>2, <2>1
    <3>2. states[(i - 1) + 1] = after[i - 1]
      BY <1>5, <3>1
    <3> QED BY <1>4, <3>1, <3>2
  <2>2. \A i \in 1..(c + 1) : i # 1 => states[i] # states[1]
    BY <1>5, <1>9, <2>1
  <2>3. CASE j # 1 /\ k # 1
    <3>1. nodes[p[j - 1]].S = nodes[p[k - 1]].S /\ j - 1 \in 1..c /\ k - 1 \in 1..c
      BY <1>11, <2>1, <2>3
    <3>2. p[j - 1] = p[k - 1]
      BY <1>8, <3>1 DEF IsTree
    <3>3. j - 1 = k - 1
      BY <1>1, <3>1, <3>2 DEF IsChain, c
    <3> QED BY <3>3
  <2> QED BY <1>11, <2>2, <2>3
<1>12. IsRun(ops, states)
  BY <1>3, <1>5, <1>10, <1>11 DEF IsRun
<1>13. states[Len(states)] = nodes[n].S
  <2>1. CASE c = 0
    <3>1. nodes[n].father = 0
      BY <1>1, <2>1 DEF IsChain, c
    <3> QED BY <1>5, <1>7, <2>1, <3>1 DEF IsTree
  <2>2. CASE c # 0
    <3>1. p[c] = n
      BY <1>1, <2>2 DEF IsChain, c
    <3>2. c \in 1..c
      BY <1>2, <2>2
    <3> QED BY <1>4, <1>5, <3>1, <3>2
  <2> QED BY <2>1, <2>2
<1> QED BY <1>12, <1>13 DEF ops, states, after

-----------------------------------------------------------------------------
(* Where the plan is cut back                                              *)

LEMMA MaxIsLast ==
  ASSUME NEW n \in Nat, NEW X \in SUBSET (0..n), 0 \in X
  PROVE  Max(X) \in X /\ \A y \in X : Max(X) >= y
<1> DEFINE HasLargest == \E x \in X : \A y \in X : x >= y
           T == {k \in Nat : HasLargest \/ \E x \in X : x >= k}
<1>1. 0 \in T
  OBVIOUS
<1>2. ASSUME NEW k \in Nat, k \in T PROVE k + 1 \in T
  <2> SUFFICES ASSUME ~HasLargest PROVE \E x \in X : x >= k + 1
    OBVIOUS
  <2>1. PICK x \in X : x >= k
    BY <1>2
  <2>2. PICK y \in X : ~(x >= y)
    OBVIOUS
  <2>3. x \in Nat /\ y \in Nat
    OBVIOUS
  <2> QED BY <2>1, <2>2, <2>3
<1>3. n + 1 \in T
  <2> HIDE DEF T
  <2> QED BY <1>1, <1>2, Upwards
<1>4. \A x \in X : ~(x >= n + 1)
  OBVIOUS
<1>5. HasLargest
  BY <1>3, <1>4
<1> QED BY <1>5 DEF Max

IsCut(p, cut, from, rest, hash) ==
  /\ cut = CutAt(p) /\ from = (IF cut = 0 THEN S ELSE p[cut].S)
  /\ rest = SubSeq(p, cut + 1, Len(p))
  /\ hash = IF cut = 0 THEN plan_hash ELSE CutBack(plan_hash, from)

IsFragment(f, cut, from, rest, hash) ==
  LET step == IF cut = 0 THEN Len(plan_ops) ELSE plan_hash[from].step
  IN  f = FoldLeft(Extend, [hash |-> hash, start |-> from,
                            ops |-> SubSeq(plan_ops, 1, step),
                            states |-> SubSeq(plan_states, 1, step + 1)], rest)

\* The start of the fragment is a state of the plan, and behind it come only new ones.
LEMMA CutFacts ==
  ASSUME PlanIsKept(plan_ops, plan_states, plan_hash), S = plan_states[Len(plan_states)],
         NEW p, IsPath(p, S), NEW cut, NEW from, NEW rest, NEW hash, IsCut(p, cut, from, rest, hash)
  PROVE  /\ cut \in 0..Len(p) /\ InPlan(plan_hash, from)
         /\ IsSeq(rest) /\ Len(rest) = Len(p) - cut
         /\ \A i \in 1..Len(rest) : rest[i] = p[cut + i] /\ ~InPlan(hash, rest[i].S)
<1> DEFINE X == {0} \cup {i \in DOMAIN p : InPlan(plan_hash, p[i].S)}
<1>1. Len(p) \in Nat /\ DOMAIN p = 1..Len(p) /\ IsSeq(p)
  BY SeqFacts DEF IsPath
<1>2. cut \in X /\ \A i \in X : cut >= i
  <2>1. X \in SUBSET (0..Len(p)) /\ 0 \in X
    BY <1>1
  <2>2. cut = Max(X)
    BY DEF CutAt, IsCut
  <2> HIDE DEF X
  <2> QED BY <1>1, <2>1, <2>2, MaxIsLast
<1>3. cut \in 0..Len(p)
  BY <1>1, <1>2
<1>4. InPlan(plan_hash, from)
  <2>1. CASE cut = 0
    <3>1. Len(plan_states) \in 1..Len(plan_states)
      BY SeqFacts DEF PlanIsKept, IsRun
    <3>2. S \in DOMAIN plan_hash /\ plan_hash[S].step = Len(plan_states) - 1
      BY <3>1 DEF PlanIsKept, IsKept
    <3>3. plan_hash[S].step # INVALID
      BY <3>1, <3>2 DEF INVALID
    <3> QED BY <2>1, <3>2, <3>3 DEF InPlan, IsCut
  <2>2. CASE cut # 0
    BY <1>2, <2>2 DEF IsCut
  <2> QED BY <2>1, <2>2
<1>5. /\ IsSeq(rest) /\ Len(rest) = Len(p) - cut
      /\ \A i \in 1..(Len(p) - cut) : rest[i] = p[cut + i]
  <2>1. cut + 1 \in Nat \ {0} /\ cut + 1 <= Len(p) + 1
    BY <1>1, <1>3
  <2>2. /\ IsSeq(rest) /\ Len(rest) = Len(p) - (cut + 1) + 1
        /\ \A i \in 1..(Len(p) - (cut + 1) + 1) : rest[i] = p[(cut + 1) + i - 1]
    BY <1>1, <2>1, SubSeqFacts DEF IsCut
  <2>3. Len(p) - (cut + 1) + 1 = Len(p) - cut /\ \A i \in Nat : (cut + 1) + i - 1 = cut + i
    BY <1>1, <1>3
  <2> QED BY <2>2, <2>3
<1>6. \A s : InPlan(hash, s) => InPlan(plan_hash, s)
  <2>1. CASE cut = 0
    BY <2>1 DEF IsCut
  <2>2. CASE cut # 0
    <3> SUFFICES ASSUME NEW s, InPlan(CutBack(plan_hash, from), s) PROVE InPlan(plan_hash, s)
      BY <2>2 DEF IsCut
    <3>1. s \in DOMAIN plan_hash
      BY DEF InPlan, CutBack
    <3>2. CutBack(plan_hash, from)[s] = IF s \in Linked(plan_hash, from)
                                        THEN [plan_hash[s] EXCEPT !.step = INVALID] ELSE plan_hash[s]
      BY <3>1 DEF CutBack
    <3>3. plan_hash[s] \in [step : Int, next_step : SUBSET Int]
      BY <3>1 DEF PlanIsKept, IsTable
    <3>4. CutBack(plan_hash, from)[s].step # INVALID
      BY DEF InPlan
    <3> QED BY <3>1, <3>2, <3>3, <3>4 DEF InPlan
  <2> QED BY <2>1, <2>2
<1>7. ASSUME NEW i \in 1..(Len(p) - cut) PROVE ~InPlan(plan_hash, p[cut + i].S)
  <2>1. cut + i \in DOMAIN p /\ ~(cut >= cut + i)
    BY <1>1, <1>3
  <2> QED BY <1>2, <2>1
<1> QED BY <1>3, <1>4, <1>5, <1>6, <1>7

\* What is left of the plan and the fragment make the plan that leads to the end of
\* the path.
LEMMA FragmentFollows ==
  ASSUME PlanIsKept(plan_ops, plan_states, plan_hash), S = plan_states[Len(plan_states)],
         NEW p, IsPath(p, S), NEW cut, NEW from, NEW rest, NEW hash, IsCut(p, cut, from, rest, hash),
         cut # 0 => WalkEnds(plan_hash, from), NEW f, IsFragment(f, cut, from, rest, hash)
  PROVE  /\ PlanIsKept(f.ops, f.states, f.hash) /\ f.states[1] = plan_states[1]
         /\ f.states[Len(f.states)] = p[Len(p)].S
<1> DEFINE step == IF cut = 0 THEN Len(plan_ops) ELSE plan_hash[from].step
           o == SubSeq(plan_ops, 1, step)
           st == SubSeq(plan_states, 1, step + 1)
           base == [hash |-> hash, start |-> from, ops |-> o, states |-> st]
<1>1. /\ cut \in 0..Len(p) /\ InPlan(plan_hash, from)
      /\ IsSeq(rest) /\ Len(rest) = Len(p) - cut
      /\ \A i \in 1..Len(rest) : rest[i] = p[cut + i] /\ ~InPlan(hash, rest[i].S)
  BY CutFacts
<1>2. /\ IsSeq(plan_ops) /\ IsSeq(plan_states) /\ Len(plan_ops) \in Nat
      /\ Len(plan_states) = Len(plan_ops) + 1 /\ Len(p) \in Nat /\ Len(p) # 0
  BY SeqFacts DEF PlanIsKept, IsRun, IsPath
<1>3. PlanIsKept(o, st, hash) /\ st[Len(st)] = from /\ st[1] = plan_states[1]
  <2>1. CASE cut = 0
    <3>1. step = Len(plan_ops) /\ step + 1 = Len(plan_states) /\ hash = plan_hash /\ from = S
      BY <1>2, <2>1 DEF IsCut
    <3>2. \A s : IsSeq(s) => SubSeq(s, 1, Len(s)) = s
      BY SubSeqFull DEF IsSeq
    <3>3. o = plan_ops /\ st = plan_states
      BY <1>2, <3>1, <3>2
    <3> QED BY <3>1, <3>3
  <2>2. CASE cut # 0
    <3>1. PICK k \in 1..Len(plan_states) : plan_states[k] = from
      BY <1>1 DEF PlanIsKept, IsKept, InPlan
    <3>2. step = k - 1
      BY <2>2, <3>1 DEF PlanIsKept, IsKept
    <3>3. step \in 0..Len(plan_ops) /\ step + 1 = k
      BY <1>2, <3>2
    <3>4. from = plan_states[step + 1] /\ WalkEnds(plan_hash, plan_states[step + 1])
          /\ hash = CutBack(plan_hash, plan_states[step + 1])
      BY <2>2, <3>1, <3>3 DEF IsCut
    <3>5. /\ PlanIsKept(o, st, CutBack(plan_hash, plan_states[step + 1]))
          /\ Len(o) = step /\ st[step + 1] = plan_states[step + 1] /\ st[1] = plan_states[1]
      <4> HIDE DEF step
      <4> QED BY <3>3, <3>4, CutIsKept DEF o, st
    <3> HIDE DEF o, st, step
    <3>6. Len(st) = step + 1
      BY <3>5 DEF PlanIsKept, IsRun
    <3> QED BY <3>4, <3>5, <3>6
  <2> QED BY <2>1, <2>2
<1> HIDE DEF o, st, step
<1>4. /\ PlanIsKept(base.ops, base.states, base.hash)
      /\ base.start = base.states[Len(base.states)] /\ base.hash = hash /\ base.start = from
      /\ base.states[1] = plan_states[1]
  BY <1>3
<1>5. \A i \in 1..Len(p) :
        /\ p[i].S \in SUBSET Nat
        /\ p[i].S = result_to_dest(graph, IF i = 1 THEN S ELSE p[i - 1].S, p[i].op)
  BY DEF IsPath
<1>6. ASSUME NEW i \in 1..Len(rest)
      PROVE  /\ rest[i].S \in SUBSET Nat /\ ~InPlan(base.hash, rest[i].S)
             /\ rest[i].S = result_to_dest(graph, IF i = 1 THEN base.start ELSE rest[i - 1].S, rest[i].op)
  <2>1. cut + i \in 1..Len(p) /\ rest[i] = p[cut + i] /\ ~InPlan(hash, rest[i].S)
    BY <1>1, <1>2
  <2> HIDE DEF base
  <2>2. (IF i = 1 THEN base.start ELSE rest[i - 1].S) = IF cut + i = 1 THEN S ELSE p[(cut + i) - 1].S
    <3>1. CASE i = 1
      <4>1. (cut + i = 1 <=> cut = 0) /\ (cut + i) - 1 = cut
        BY <1>1, <3>1
      <4> QED BY <1>4, <3>1, <4>1 DEF IsCut
    <3>2. CASE i # 1
      <4>1. cut \in Nat /\ Len(rest) \in Nat
        BY <1>1, <1>2
      <4>2. i - 1 \in 1..Len(rest) /\ cut + (i - 1) = (cut + i) - 1 /\ cut + i # 1
        BY <3>2, <4>1
      <4> QED BY <1>1, <3>2, <4>2
    <3> QED BY <3>1, <3>2
  <2> QED BY <1>4, <1>5, <2>1, <2>2
<1>7. ASSUME NEW i \in 1..Len(rest), NEW j \in 1..Len(rest), rest[i].S = rest[j].S PROVE i = j
  <2>1. cut + i \in 1..Len(p) /\ cut + j \in 1..Len(p) /\ p[cut + i].S = p[cut + j].S
    BY <1>1, <1>2, <1>7
  <2>2. cut + i = cut + j
    BY <2>1 DEF IsPath
  <2> QED BY <1>1, <2>2
<1>8. f = FoldLeft(Extend, base, rest)
  BY DEF IsFragment, o, st, step
<1> HIDE DEF base
<1>9. /\ PlanIsKept(f.ops, f.states, f.hash) /\ f.states[1] = base.states[1]
      /\ Len(rest) = 0 => f.states[Len(f.states)] = base.start
      /\ Len(rest) # 0 => f.states[Len(f.states)] = rest[Len(rest)].S
  <2>1. GoesOn(base.start, base.hash, rest)
    BY <1>6, <1>7 DEF GoesOn
  <2> QED BY <1>1, <1>4, <1>8, <2>1, FragmentIsKept
<1>10. (IF Len(rest) = 0 THEN base.start ELSE rest[Len(rest)].S) = p[Len(p)].S
  <2>1. CASE Len(rest) = 0
    <3>1. cut = Len(p) /\ cut # 0
      BY <1>1, <1>2, <2>1
    <3> QED BY <1>4, <2>1, <3>1 DEF IsCut
  <2>2. CASE Len(rest) # 0
    <3>1. Len(rest) \in 1..Len(rest) /\ cut + Len(rest) = Len(p)
      BY <1>1, <1>2, <2>2
    <3> QED BY <1>1, <2>2, <3>1
  <2> QED BY <2>1, <2>2
<1> QED BY <1>4, <1>9, <1>10
-----------------------------------------------------------------------------
(* The plan and its states                                                 *)

Held == PlanIsKept(plan_ops, plan_states, plan_hash) /\ plan_states[1] = task.initial

FollowInv ==
  /\ IsTask(task) /\ IsSeq(gH)
  /\ pc \in {"agenda", "climb", "widen", "expand", "extract", "reached", "fallback", "best first",
             "found", "unsolvable", "too long", "endless"}
  /\ pc = "agenda" => plan_ops = <<>> /\ plan_states = <<>>
  /\ pc \notin {"agenda", "found"} => Held
  /\ pc = "found" => IF nodes = <<>> THEN Held
                     ELSE IsRun(plan_ops, plan_states) /\ plan_states[1] = task.initial
  /\ pc \in {"widen", "expand", "extract"} => S = plan_states[Len(plan_states)]
  /\ pc \in {"expand", "extract"} => IsSpace(space, S) /\ current \in Nat \ {0}
  /\ pc = "extract" => current <= Len(space)
  /\ pc = "best first" => IsTree(nodes) /\ open \in Seq(1..Len(nodes))

LEMMA LastIsState ==
  ASSUME Held PROVE Len(plan_states) \in Nat /\ plan_states[Len(plan_states)] \in SUBSET Nat
<1>1. Len(plan_states) \in Nat /\ Len(plan_states) \in 1..Len(plan_states)
  BY SeqFacts DEF Held, PlanIsKept, IsRun
<1>2. plan_states[Len(plan_states)] \in DOMAIN plan_hash
  BY <1>1 DEF Held, PlanIsKept, IsKept
<1> QED BY <1>1, <1>2 DEF Held, PlanIsKept, IsTable

LEMMA FirstIsHeld ==
  ASSUME FollowInv, ComputeGoalAgenda PROVE Held'
<1> DEFINE s == task.initial
           ph == [x \in {s} |-> [step |-> 0, next_step |-> NULL]]
<1>1. task' = task /\ plan_ops' = <<>> /\ plan_states' = <<s>> /\ plan_hash' = ph
  BY DEF ComputeGoalAgenda, FollowInv
<1>2. s \in SUBSET Nat /\ DOMAIN ph = {s} /\ ph[s] = [step |-> 0, next_step |-> NULL]
  BY DEF FollowInv, IsTask
<1>3. /\ IsSeq(<<>>) /\ Len(<<>>) = 0 /\ IsSeq(<<s>>) /\ Len(<<s>>) = 1 /\ <<s>>[1] = s
  <2> HIDE DEF s
  <2>1. <<s>> \in Seq({s})
    OBVIOUS
  <2>2. IsSeq(<<>>) /\ Len(<<>>) = 0
    BY DEF IsSeq
  <2>3. IsSeq(<<s>>)
    BY <2>1 DEF IsSeq
  <2> QED BY <2>2, <2>3
<1>4. IsTable(ph)
  <2>1. IsFiniteSet({s})
    BY FS_Singleton
  <2>2. NULL \in SUBSET Int
    BY DEF NULL
  <2> QED BY <1>2, <2>1, <2>2 DEF IsTable
<1> HIDE DEF s, ph
<1>5. IsKept(<<s>>, ph)
  BY <1>2, <1>3 DEF IsKept
<1>6. IsRun(plan_ops, plan_states)'
  BY <1>1, <1>3 DEF IsRun
<1>7. IsTable(plan_hash') /\ IsKept(plan_states', plan_hash')
  BY <1>1, <1>4, <1>5
<1>8. plan_states'[1] = task'.initial
  BY <1>1, <1>3 DEF s
<1> QED BY <1>6, <1>7, <1>8 DEF Held, PlanIsKept

\* A climb that found a better state takes the plan to it, and never stops with one
\* of the code's messages "debug me".
LEMMA FragmentIsHeld ==
  ASSUME FollowInv, ExtractPlanFragment
  PROVE  /\ Held' /\ pc' \in {"too long", "endless", "reached", "widen"}
         /\ S' = plan_states'[Len(plan_states')] \/ pc' \notin {"reached", "widen"}
<1> DEFINE path  == PathTo(current)
           cut   == CutAt(path)
           from  == IF cut = 0 THEN S ELSE path[cut].S
           step  == IF cut = 0 THEN Len(plan_ops) ELSE plan_hash[from].step
           rest  == SubSeq(path, cut + 1, Len(path))
           hash  == IF cut = 0 THEN plan_hash ELSE CutBack(plan_hash, from)
           f     == FoldLeft(Extend, [hash |-> hash, start |-> from,
                                      ops |-> SubSeq(plan_ops, 1, step),
                                      states |-> SubSeq(plan_states, 1, step + 1)], rest)
<1>1. /\ PlanIsKept(plan_ops, plan_states, plan_hash) /\ S = plan_states[Len(plan_states)]
      /\ plan_states[1] = task.initial /\ IsSpace(space, S) /\ current \in 1..Len(space)
  <2>1. pc = "extract" /\ Held /\ IsSpace(space, S) /\ current \in Nat \ {0} /\ current <= Len(space)
        /\ S = plan_states[Len(plan_states)]
    BY DEF ExtractPlanFragment, FollowInv
  <2>2. Len(space) \in Nat
    BY <2>1, SeqFacts DEF IsSpace
  <2> QED BY <2>1, <2>2 DEF Held
<1>2. IsPath(path, S) /\ path[Len(path)] = space[current]
  BY <1>1, PathToIsPath
<1>3. task' = task
  BY DEF ExtractPlanFragment
<1>4. UNCHANGED <<planVars, plan_hash>> => Held'
  BY <1>1, <1>3 DEF Held, PlanIsKept, IsRun, planVars, graph
<1>5. CASE step + Len(rest) > MAX_PLAN_LENGTH
  <2>1. pc' = "too long" /\ UNCHANGED <<planVars, plan_hash>>
    BY <1>5 DEF ExtractPlanFragment, climbVars
  <2> QED BY <1>4, <2>1
<1>6. CASE ~(step + Len(rest) > MAX_PLAN_LENGTH)
  <2> HIDE DEF path
  <2>1. IsCut(path, cut, from, rest, hash)
    BY DEF IsCut
  <2>2. /\ InPlan(plan_hash, from) /\ IsSeq(rest)
        /\ \A i \in 1..Len(rest) : ~InPlan(hash, rest[i].S)
    <3> HIDE DEF cut, from, rest, hash
    <3> QED BY <1>1, <1>2, <2>1, CutFacts
  <2>3. \A i \in DOMAIN rest : ~InPlan(hash, rest[i].S)
    <3> HIDE DEF rest, hash
    <3> QED BY <2>2, SeqFacts
  <2>4. CASE cut # 0 /\ ~WalkEnds(plan_hash, from)
    <3>1. pc' = "endless" /\ UNCHANGED <<planVars, plan_hash>>
      BY <1>6, <2>2, <2>3, <2>4 DEF ExtractPlanFragment, climbVars, path
    <3> QED BY <1>4, <3>1
  <2>5. CASE ~(cut # 0 /\ ~WalkEnds(plan_hash, from))
    <3>1. /\ plan_ops' = f.ops /\ plan_states' = f.states /\ plan_hash' = f.hash
          /\ S' = space[current].S /\ pc' \in {"reached", "widen"}
      BY <1>6, <2>2, <2>3, <2>5 DEF ExtractPlanFragment, path
    <3>2. IsFragment(f, cut, from, rest, hash)
      BY DEF IsFragment
    <3> HIDE DEF cut, from, rest, hash, f
    <3>3. /\ PlanIsKept(f.ops, f.states, f.hash) /\ f.states[1] = plan_states[1]
          /\ f.states[Len(f.states)] = path[Len(path)].S
      BY <1>1, <1>2, <2>1, <2>5, <3>2, FragmentFollows
    <3>4. Held'
      BY <1>1, <1>3, <3>1, <3>3 DEF Held, PlanIsKept, IsRun, graph
    <3> QED BY <1>2, <3>1, <3>3, <3>4
  <2> QED BY <2>4, <2>5
<1> QED BY <1>5, <1>6

LEMMA FollowStays == FollowInv /\ [SearchNext]_searchVars => FollowInv'
<1> SUFFICES ASSUME FollowInv, [SearchNext]_searchVars PROVE FollowInv'
  OBVIOUS
<1>0. /\ UNCHANGED <<task, planVars, plan_hash>> /\ Held => Held'
      /\ UNCHANGED <<task, S, space>> /\ IsSpace(space, S) => IsSpace(space, S)'
      /\ UNCHANGED <<task, bfsVars>> /\ IsTree(nodes) => IsTree(nodes)'
      /\ UNCHANGED <<task, planVars>> /\ IsRun(plan_ops, plan_states) => IsRun(plan_ops, plan_states)'
  <2>1. task' = task => graph' = graph
    BY DEF graph
  <2>2. UNCHANGED <<task, planVars>> /\ IsRun(plan_ops, plan_states) => IsRun(plan_ops, plan_states)'
    BY <2>1 DEF IsRun, planVars
  <2>3. UNCHANGED <<task, planVars, plan_hash>> /\ Held => Held'
    BY <2>2 DEF Held, PlanIsKept, planVars
  <2>4. UNCHANGED <<task, S, space>> /\ IsSpace(space, S) => IsSpace(space, S)'
    BY <2>1 DEF IsSpace
  <2>5. UNCHANGED <<task, bfsVars>> /\ IsTree(nodes) => IsTree(nodes)'
    BY <2>1 DEF IsTree, bfsVars
  <2> QED BY <2>2, <2>3, <2>4, <2>5
<1>1. CASE ComputeGoalAgenda
  <2>1. Held'
    BY <1>1, FirstIsHeld
  <2> QED BY <1>1, <2>1 DEF ComputeGoalAgenda, FollowInv
<1>2. CASE StartClimbing
  <2> DEFINE eval == get_1P_and_H(graph, Last(plan_states), current_end)
  <2>1. IsSeq(eval.H)
    BY HelpfulIsSeq DEF FollowInv
  <2> HIDE DEF eval
  <2>2. /\ pc = "climb" /\ UNCHANGED <<task, planVars, plan_hash>> /\ S' = plan_states[Len(plan_states)]
        /\ gH' = eval.H /\ pc' \in {"fallback", "reached", "widen"}
    BY <1>2 DEF StartClimbing, Start, Last, eval
  <2>3. Held'
    BY <1>0, <2>2 DEF FollowInv
  <2> QED BY <2>1, <2>2, <2>3 DEF FollowInv, planVars
<1>3. CASE Widen
  <2>1. /\ pc = "widen" /\ pc' = "expand" /\ current' = 1 /\ space' = Successors(<<>>, gH, S, 0)
        /\ UNCHANGED <<task, S, gH, planVars, plan_hash>>
    BY <1>3 DEF Widen
  <2>2. Held /\ S = plan_states[Len(plan_states)] /\ IsTask(task) /\ IsSeq(gH)
    BY <2>1 DEF FollowInv
  <2>3. Held'
    BY <1>0, <2>1, <2>2
  <2>4. IsSpace(<<>>, S) /\ IsFather(0, S, <<>>, S)
    <3>1. IsSeq(<<>>) /\ Len(<<>>) = 0
      BY DEF IsSeq
    <3> QED BY <3>1 DEF IsSpace, IsFather
  <2>5. IsSpace(Successors(<<>>, gH, S, 0), S)
    BY <2>2, <2>4, LastIsState, SuccessorsAreSpace
  <2>6. IsSpace(space, S)'
    <3> DEFINE new == Successors(<<>>, gH, S, 0)
    <3> HIDE DEF new
    <3>1. IsSpace(new, S) /\ space' = new /\ S' = S /\ graph' = graph
      BY <2>1, <2>5 DEF new, graph
    <3> QED BY <3>1 DEF IsSpace
  <2> QED BY <2>1, <2>2, <2>3, <2>6 DEF FollowInv, planVars
<1>4. CASE ExpandFirstNode
  <2> DEFINE n == space[current]
             eval == get_1P_and_H(graph, n.S, current_end)
             new == Successors(space, eval.H, n.S, current)
  <2>1. /\ pc = "expand" /\ UNCHANGED <<task, S, planVars, plan_hash>>
        /\ pc' \in {"extract", "expand"} /\ gH' \in {gH, eval.H}
        /\ pc' = "extract" => current' = current /\ space' = space
        /\ pc' = "expand" => current' = current + 1
        /\ space' \in {space, new} /\ current <= Len(space)
    BY <1>4 DEF ExpandFirstNode, Judge
  <2>2. /\ Held /\ S = plan_states[Len(plan_states)] /\ IsTask(task) /\ IsSeq(gH)
        /\ IsSpace(space, S) /\ current \in Nat \ {0}
    BY <2>1 DEF FollowInv
  <2>3. Held'
    BY <1>0, <2>1, <2>2
  <2>4. IsSeq(eval.H)
    BY <2>2, HelpfulIsSeq
  <2>5. IsSpace(new, S)
    <3>1. current \in 1..Len(space)
      BY <2>1, <2>2, SeqFacts DEF IsSpace
    <3>2. n.S \in SUBSET Nat /\ IsFather(current, n.S, space, S)
      BY <2>2, <3>1 DEF IsSpace, IsFather
    <3> HIDE DEF eval, n
    <3> QED BY <2>2, <2>4, <3>2, SuccessorsAreSpace
  <2> HIDE DEF n, eval, new
  <2>6. IsSpace(space, S)'
    <3>1. IsSpace(space, S) /\ IsSpace(new, S) /\ space' \in {space, new} /\ S' = S /\ graph' = graph
      BY <2>1, <2>2, <2>5 DEF graph
    <3> QED BY <3>1 DEF IsSpace
  <2>7. IsSeq(gH') /\ current' \in Nat \ {0}
    BY <2>1, <2>2, <2>4
  <2> QED BY <2>1, <2>2, <2>3, <2>6, <2>7 DEF FollowInv, planVars
<1>5. CASE SpaceExhausted
  <2>1. pc = "expand" /\ pc' = "fallback" /\ UNCHANGED <<task, gH, planVars, plan_hash>>
    BY <1>5 DEF SpaceExhausted, climbVars
  <2> QED BY <1>0, <2>1 DEF FollowInv
<1>6. CASE ExtractPlanFragment
  <2>1. /\ Held' /\ pc' \in {"too long", "endless", "reached", "widen"}
        /\ S' = plan_states'[Len(plan_states')] \/ pc' \notin {"reached", "widen"}
    BY <1>6, FragmentIsHeld
  <2>2. UNCHANGED <<task, gH>>
    BY <1>6 DEF ExtractPlanFragment, climbVars
  <2> QED BY <2>1, <2>2 DEF FollowInv
<1>7. CASE NextEntry
  <2>1. pc = "reached" /\ pc' = "climb" /\ UNCHANGED <<task, gH, planVars, plan_hash>>
    BY <1>7 DEF NextEntry
  <2> QED BY <1>0, <2>1 DEF FollowInv
<1>8. CASE AgendaDone
  <2>1. pc = "reached" /\ pc' = "found" /\ UNCHANGED <<task, gH, planVars, plan_hash>>
    BY <1>8 DEF AgendaDone, climbVars
  <2>2. Held'
    BY <1>0, <2>1 DEF FollowInv
  <2>3. IsRun(plan_ops, plan_states)' /\ (plan_states[1] = task.initial)'
    BY <2>2 DEF Held, PlanIsKept
  <2> QED BY <2>1, <2>2, <2>3 DEF FollowInv
<1>9. CASE StartBestFirst
  <2> DEFINE b == [open |-> <<>>, nodes |-> <<>>]
             new == AddToBfsSpace(b, task.initial, -1, 0)
  <2>1. /\ pc = "fallback" /\ pc' = "best first" /\ UNCHANGED <<task, gH, planVars, plan_hash>>
        /\ open' = new.open /\ nodes' = new.nodes
    BY <1>9 DEF StartBestFirst, Queue, climbVars
  <2>2. IsBfs(b) /\ IsSon(task.initial, -1, 0, b.nodes)
    <3>1. IsSeq(<<>>) /\ Len(<<>>) = 0 /\ <<>> \in Seq(1..0)
      BY DEF IsSeq
    <3> QED BY <3>1 DEF IsBfs, IsTree, IsSon
  <2>3. task.initial \in SUBSET Nat
    BY DEF FollowInv, IsTask
  <2>4. IsBfs(new)
    <3> HIDE DEF b
    <3> QED BY <2>2, <2>3, AddIsBfs
  <2> HIDE DEF new
  <2>5. IsTree(nodes)' /\ open' \in Seq(1..Len(nodes'))
    <3>1. graph' = graph /\ task' = task
      BY <2>1 DEF graph
    <3> QED BY <2>1, <2>4, <3>1 DEF IsBfs, IsTree
  <2> QED BY <1>0, <2>1, <2>5 DEF FollowInv
<1>10. CASE ExpandBest
  <2> DEFINE b == [open |-> Tail(open), nodes |-> nodes]
             n == Head(open)
             new == Expanded(b, n)
  <2>1. /\ pc = "best first" /\ open # <<>> /\ UNCHANGED <<task, pc, gH, planVars, plan_hash>>
        /\ open' = new.open /\ nodes' = new.nodes
    BY <1>10 DEF ExpandBest, Queue, climbVars
  <2>2. IsTree(nodes) /\ open \in Seq(1..Len(nodes)) /\ IsTask(task)
    BY <2>1 DEF FollowInv
  <2>3. n \in 1..Len(nodes) /\ Tail(open) \in Seq(1..Len(nodes))
    BY <2>1, <2>2, HeadTailProperties
  <2>4. IsBfs(b) /\ b.nodes = nodes
    BY <2>2, <2>3 DEF IsBfs
  <2>5. IsBfs(new)
    <3> HIDE DEF b, n
    <3> QED BY <2>2, <2>3, <2>4, ApplicableIsSeq, ExpandedIsBfs
  <2> HIDE DEF new
  <2>6. IsTree(nodes)' /\ open' \in Seq(1..Len(nodes'))
    <3>1. graph' = graph /\ task' = task
      BY <2>1 DEF graph
    <3> QED BY <2>1, <2>5, <3>1 DEF IsBfs, IsTree
  <2> QED BY <1>0, <2>1, <2>6 DEF FollowInv
<1>11. CASE ExtractPlan
  <2> DEFINE n == Head(open)
             p == NodesTo(n)
             ops == [k \in DOMAIN p |-> nodes[p[k]].op]
             after == [k \in DOMAIN p |-> nodes[p[k]].S]
  <2>1. pc = "best first" /\ open # <<>> /\ UNCHANGED <<task, gH, plan_hash, bfsVars>>
    BY <1>11 DEF ExtractPlan, climbVars
  <2>2. IsTree(nodes) /\ open \in Seq(1..Len(nodes)) /\ Held
    BY <2>1 DEF FollowInv
  <2>3. CASE pc' = "too long" /\ UNCHANGED planVars
    BY <1>0, <2>1, <2>2, <2>3 DEF FollowInv
  <2>4. CASE ~(pc' = "too long" /\ UNCHANGED planVars)
    <3>1. plan_ops' = ops /\ plan_states' = <<plan_states[1]>> \o after /\ pc' = "found"
      BY <1>11, <2>4 DEF ExtractPlan
    <3>2. n \in 1..Len(nodes)
      BY <2>1, <2>2, HeadTailProperties
    <3>3. nodes' # <<>>
      <4>1. nodes # <<>>
        <5> HIDE DEF n
        <5> QED BY <3>2
      <4> QED BY <2>1, <4>1 DEF bfsVars
    <3>4. IsRun(ops, <<task.initial>> \o after) /\ (<<task.initial>> \o after)[1] = task.initial
      <4>1. IsRun(ops, <<task.initial>> \o after) /\ IsChain(p, n)
        <5> HIDE DEF n, p
        <5> QED BY <2>2, <3>2, ExtractedIsRun, NodesToIsChain DEF p
      <4>2. IsSeq(after)
        <5>1. DOMAIN p = 1..Len(p) /\ Len(p) \in Nat
          BY <4>1, SeqFacts DEF IsChain
        <5>2. after = [k \in 1..Len(p) |-> after[k]]
          BY <5>1
        <5> HIDE DEF after
        <5> QED BY <5>1, <5>2, ListFacts
      <4> HIDE DEF ops, after
      <4> QED BY <4>1, <4>2, ConsFacts
    <3> HIDE DEF ops, after
    <3>5. IsRun(plan_ops, plan_states)' /\ (plan_states[1] = task.initial)'
      <4>1. plan_states' = <<task.initial>> \o after /\ graph' = graph /\ task' = task
        BY <2>1, <2>2, <3>1 DEF Held, graph
      <4> QED BY <3>1, <3>4, <4>1 DEF IsRun
    <3> QED BY <2>1, <3>1, <3>3, <3>5 DEF FollowInv
  <2> QED BY <2>3, <2>4
<1>12. CASE ProvenUnsolvable
  <2>1. pc = "best first" /\ pc' = "unsolvable" /\ UNCHANGED <<task, gH, planVars, plan_hash>>
    BY <1>12 DEF ProvenUnsolvable, climbVars
  <2> QED BY <1>0, <2>1 DEF FollowInv
<1>13. CASE UNCHANGED searchVars
  <2>1. UNCHANGED <<task, pc, S, gH, space, current, planVars, plan_hash, bfsVars>>
    BY <1>13 DEF searchVars, climbVars
  <2> QED BY <1>0, <2>1 DEF FollowInv, planVars, bfsVars
<1> QED BY <1>1, <1>2, <1>3, <1>4, <1>5, <1>6, <1>7, <1>8, <1>9, <1>10, <1>11, <1>12, <1>13 DEF SearchNext

LEMMA FollowAtFirst == SearchInit /\ pc = "agenda" /\ IsTask(task) => FollowInv
<1>1. IsSeq(<<>>)
  BY DEF IsSeq
<1> QED BY <1>1 DEF SearchInit, FollowInv

-----------------------------------------------------------------------------
(* The fixpoint without deletes                                            *)

LayerFold(g, s, goals, m) ==
  g = [q \in SUBSET (1..m) |->
         IF q = {} THEN <<Layer(graph, s)>> ELSE LET x == Max(q) IN NextLayer(graph, goals, g[q \ {x}])]

AreLayers(A, s, goals) ==
  /\ A[0] = <<Layer(graph, s)>>
  /\ \A j \in 1..Cardinality(graph.facts) : A[j] = NextLayer(graph, goals, A[j - 1])
  /\ build_fixpoint(graph, s, goals) = A[Cardinality(graph.facts)]

LEMMA LayerSteps ==
  ASSUME IsTask(task), NEW s, NEW goals
  PROVE  \E A : AreLayers(A, s, goals)
<1> DEFINE n == Cardinality(graph.facts)
           T == {m \in Nat : \E g : LayerFold(g, s, goals, m)}
<1>0. n \in Nat
  BY FS_CardinalityType DEF IsTask, graph
<1>1. 0 \in T
  <2>1. LayerFold([q \in {{}} |-> <<Layer(graph, s)>>], s, goals, 0)
    BY DEF LayerFold
  <2> QED BY <2>1
<1>2. ASSUME NEW m \in Nat, m \in T PROVE m + 1 \in T
  <2>1. PICK g : LayerFold(g, s, goals, m)
    BY <1>2
  <2> DEFINE f == [q \in SUBSET (1..(m + 1)) |->
                     IF q = {} THEN <<Layer(graph, s)>> ELSE LET x == Max(q) IN NextLayer(graph, goals, g[q \ {x}])]
  <2>2. SUBSET (1..m) \subseteq SUBSET (1..(m + 1))
    OBVIOUS
  <2>3. \A q \in SUBSET (1..m) : f[q] = g[q]
    BY <2>1, <2>2 DEF LayerFold
  <2>4. \A q \in SUBSET (1..(m + 1)) : q # {} => q \ {Max(q)} \in SUBSET (1..m)
    <3> SUFFICES ASSUME NEW q \in SUBSET (1..(m + 1)), q # {} PROVE q \ {Max(q)} \in SUBSET (1..m)
      OBVIOUS
    <3> QED BY LastIndex
  <2>5. LayerFold(f, s, goals, m + 1)
    <3>1. \A q \in SUBSET (1..(m + 1)) : q # {} => f[q \ {Max(q)}] = g[q \ {Max(q)}]
      <4> HIDE DEF f
      <4> QED BY <2>3, <2>4
    <3> QED BY <3>1 DEF LayerFold
  <2> QED BY <2>5
<1> HIDE DEF n
<1>3. n \in T
  <2> HIDE DEF T
  <2> QED BY <1>0, <1>1, <1>2, Upwards
<1> DEFINE fold == CHOOSE g : LayerFold(g, s, goals, n)
<1>4. LayerFold(fold, s, goals, n)
  BY <1>3
<1>5. build_fixpoint(graph, s, goals) = fold[1..n]
  BY <1>0 DEF build_fixpoint, FoldLeft, MapThenFoldSet, LayerFold, Upto, n
<1> DEFINE A == [j \in 0..n |-> fold[1..j]]
<1>6. A[0] = <<Layer(graph, s)>>
  <2>1. fold[{}] = <<Layer(graph, s)>>
    <3> HIDE DEF fold
    <3> QED BY <1>4 DEF LayerFold
  <2> QED BY <1>0, <2>1
<1>7. ASSUME NEW j \in 1..n PROVE A[j] = NextLayer(graph, goals, A[j - 1])
  <2>1. 1..j \in SUBSET (1..n) /\ j \in Nat \ {0} /\ j \in 0..n /\ j - 1 \in 0..n
    BY <1>0
  <2>2. fold[1..j] = NextLayer(graph, goals, fold[1..(j - 1)])
    <3> DEFINE q == 1..j
    <3> HIDE DEF fold, q
    <3>1. q \in SUBSET (1..n) /\ q # {} /\ Max(q) = j /\ q \ {j} = 1..(j - 1)
      BY <2>1, Prefix DEF q
    <3>2. fold[q] = NextLayer(graph, goals, fold[q \ {Max(q)}])
      BY <1>4, <3>1 DEF LayerFold
    <3> QED BY <3>1, <3>2 DEF q
  <2> HIDE DEF fold
  <2> QED BY <2>1, <2>2
<1>8. build_fixpoint(graph, s, goals) = A[n]
  BY <1>0, <1>5
<1> HIDE DEF A
<1>9. AreLayers(A, s, goals)
  BY <1>6, <1>7, <1>8 DEF n, AreLayers
<1> QED BY <1>9

\* The facts and effects of every layer of F, which begins with s.
IsLayers(F, s, goals) ==
  /\ IsSeq(F) /\ Len(F) >= 1 /\ F[1].facts = s
  /\ \A t \in 1..Len(F) : F[t].facts \in SUBSET graph.facts /\ F[t].effects = Enabled(graph, F[t].facts)
  /\ \A t \in 1..(Len(F) - 1) :
       F[t + 1].facts = F[t].facts \cup UNION {graph.ef[e].A : e \in F[t].effects}
  /\ goals \subseteq s => Len(F) = 1

IsFixpoint(F, s, goals) == IsLayers(F, s, goals) /\ Complete(graph, F[Len(F)], goals)

LEMMA FirstLayer ==
  ASSUME NEW s \in SUBSET graph.facts, NEW goals
  PROVE  IsLayers(<<Layer(graph, s)>>, s, goals)
<1> DEFINE F == <<Layer(graph, s)>>
<1>1. F \in Seq({Layer(graph, s)}) /\ Len(F) = 1 /\ F[1] = Layer(graph, s)
  OBVIOUS
<1>2. F[1].facts = s /\ F[1].effects = Enabled(graph, s)
  BY <1>1 DEF Layer
<1> HIDE DEF F
<1> QED BY <1>1, <1>2 DEF IsLayers, IsSeq

LEMMA AddsAreFacts ==
  ASSUME IsTask(task), NEW s
  PROVE  UNION {graph.ef[e].A : e \in Enabled(graph, s)} \subseteq graph.facts
<1>1. \A e \in Enabled(graph, s) : graph.ef[e].A \subseteq graph.facts
  BY DEF IsTask, graph, Enabled
<1> QED BY <1>1

\* A layer more holds a fact more.
LEMMA LayerGrows ==
  ASSUME IsTask(task), NEW s, NEW goals, NEW F, IsLayers(F, s, goals),
         ~Complete(graph, F[Len(F)], goals)
  PROVE  LET N == NextLayer(graph, goals, F)
         IN  /\ IsLayers(N, s, goals)
             /\ Cardinality(N[Len(N)].facts) \in Nat
             /\ Cardinality(N[Len(N)].facts) >= Cardinality(F[Len(F)].facts) + 1
<1> DEFINE last == F[Len(F)]
           adds == UNION {graph.ef[e].A : e \in last.effects}
           layer == Layer(graph, last.facts \cup adds)
           N == NextLayer(graph, goals, F)
<1>1. IsSeq(F) /\ Len(F) \in Nat \ {0} /\ Len(F) \in 1..Len(F)
  BY SeqFacts DEF IsLayers
<1>2. last.facts \in SUBSET graph.facts /\ last.effects = Enabled(graph, last.facts)
  BY <1>1 DEF IsLayers
<1>3. adds \subseteq graph.facts
  BY <1>2, AddsAreFacts
<1>4. N = Append(F, layer)
  BY DEF NextLayer, Last
<1>5. layer.facts = last.facts \cup adds /\ layer.effects = Enabled(graph, layer.facts)
  BY DEF Layer
<1>6. ~(goals \subseteq last.facts) /\ ~(adds \subseteq last.facts)
  BY DEF Complete
<1>7. ~(goals \subseteq s)
  <2>1. goals \subseteq s => F[1].facts = s /\ Len(F) = 1
    BY DEF IsLayers
  <2> QED BY <1>6, <2>1
<1>8. Cardinality(layer.facts) \in Nat /\ Cardinality(layer.facts) >= Cardinality(last.facts) + 1
  <2>1. IsFiniteSet(layer.facts) /\ layer.facts \in SUBSET graph.facts
    BY <1>2, <1>3, <1>5, FS_Subset DEF IsTask, graph
  <2>2. last.facts \in SUBSET layer.facts /\ last.facts # layer.facts
    BY <1>5, <1>6
  <2> HIDE DEF layer, last
  <2>3. /\ IsFiniteSet(last.facts)
        /\ Cardinality(last.facts) <= Cardinality(layer.facts)
        /\ Cardinality(layer.facts) # Cardinality(last.facts)
    BY <2>1, <2>2, FS_Subset
  <2>4. Cardinality(last.facts) \in Nat /\ Cardinality(layer.facts) \in Nat
    BY <2>1, <2>3, FS_CardinalityType
  <2> QED BY <2>3, <2>4
<1> HIDE DEF layer, N
<1>9. /\ IsSeq(N) /\ Len(N) = Len(F) + 1
      /\ \A i \in 1..Len(F) : N[i] = F[i]
      /\ N[Len(F) + 1] = layer
  BY <1>1, <1>4, AppendFacts
<1>10. IsLayers(N, s, goals)
  <2>1. N[1].facts = s
    BY <1>1, <1>9 DEF IsLayers
  <2>2. ASSUME NEW t \in 1..Len(N)
        PROVE  N[t].facts \in SUBSET graph.facts /\ N[t].effects = Enabled(graph, N[t].facts)
    <3>1. CASE t \in 1..Len(F)
      BY <3>1, <1>9 DEF IsLayers
    <3>2. CASE t = Len(F) + 1
      <4>1. layer.facts \in SUBSET graph.facts
        BY <1>2, <1>3, <1>5
      <4> QED BY <3>2, <4>1, <1>5, <1>9
    <3> QED BY <3>1, <3>2, <1>1, <1>9
  <2>3. ASSUME NEW t \in 1..(Len(N) - 1)
        PROVE  N[t + 1].facts = N[t].facts \cup UNION {graph.ef[e].A : e \in N[t].effects}
    <3>1. CASE t \in 1..(Len(F) - 1)
      <4>1. t \in 1..Len(F) /\ t + 1 \in 1..Len(F)
        BY <1>1, <3>1
      <4>2. N[t] = F[t] /\ N[t + 1] = F[t + 1]
        BY <1>9, <4>1
      <4> QED BY <3>1, <4>2 DEF IsLayers
    <3>2. CASE t = Len(F)
      BY <3>2, <1>1, <1>5, <1>9
    <3> QED BY <3>1, <3>2, <1>1, <1>9
  <2> QED BY <2>1, <2>2, <2>3, <1>1, <1>7, <1>9 DEF IsLayers
<1>11. N[Len(N)] = layer
  BY <1>9
<1> HIDE DEF last
<1> QED BY <1>8, <1>10, <1>11 DEF N, last

LEMMA FixpointIs ==
  ASSUME IsTask(task), NEW s \in SUBSET graph.facts, NEW goals
  PROVE  IsFixpoint(build_fixpoint(graph, s, goals), s, goals)
<1> DEFINE n == Cardinality(graph.facts)
<1>0. n \in Nat /\ IsFiniteSet(graph.facts)
  BY FS_CardinalityType DEF IsTask, graph
<1>1. PICK A : AreLayers(A, s, goals)
  BY LayerSteps
<1> DEFINE Full(j) == /\ IsLayers(A[j], s, goals)
                      /\ \/ Complete(graph, A[j][Len(A[j])], goals)
                         \/ Cardinality(A[j][Len(A[j])].facts) \in Nat
                            /\ Cardinality(A[j][Len(A[j])].facts) >= j
           T == {j \in Nat : j <= n => Full(j)}
<1>2. 0 \in T
  <2>1. A[0] = <<Layer(graph, s)>>
    BY <1>1 DEF AreLayers
  <2>2. IsLayers(A[0], s, goals)
    BY <2>1, FirstLayer
  <2>3. A[0][Len(A[0])].facts = s
    BY <2>1 DEF Layer
  <2>4. Cardinality(s) \in Nat
    BY <1>0, FS_Subset, FS_CardinalityType
  <2> QED BY <2>2, <2>3, <2>4
<1>3. ASSUME NEW j \in Nat, j \in T PROVE j + 1 \in T
  <2> SUFFICES ASSUME j + 1 <= n PROVE Full(j + 1)
    OBVIOUS
  <2>1. Full(j)
    BY <1>0, <1>3
  <2>2. A[j + 1] = NextLayer(graph, goals, A[j])
    <3>1. j + 1 \in 1..n /\ (j + 1) - 1 = j
      BY <1>0
    <3> QED BY <1>1, <3>1 DEF AreLayers
  <2>3. CASE Complete(graph, A[j][Len(A[j])], goals)
    <3>1. A[j + 1] = A[j]
      BY <2>2, <2>3 DEF NextLayer, Last
    <3> QED BY <2>1, <2>3, <3>1
  <2>4. CASE ~Complete(graph, A[j][Len(A[j])], goals)
    <3> DEFINE F == A[j]  N == NextLayer(graph, goals, F)
    <3>1. /\ IsLayers(N, s, goals)
          /\ Cardinality(N[Len(N)].facts) \in Nat
          /\ Cardinality(N[Len(N)].facts) >= Cardinality(F[Len(F)].facts) + 1
      BY <2>1, <2>4, LayerGrows
    <3>2. Cardinality(F[Len(F)].facts) \in Nat /\ Cardinality(F[Len(F)].facts) >= j
      BY <2>1, <2>4
    <3>3. A[j + 1] = N
      BY <2>2
    <3> HIDE DEF N, F
    <3>4. Cardinality(N[Len(N)].facts) >= j + 1
      BY <3>1, <3>2
    <3> QED BY <3>1, <3>3, <3>4
  <2> QED BY <2>3, <2>4
<1>4. Full(n)
  <2>1. n \in T
    <3> HIDE DEF T
    <3> QED BY <1>0, <1>2, <1>3, Upwards
  <2> QED BY <1>0, <2>1
<1> DEFINE F == A[n]  last == F[Len(F)]
<1>5. last.facts \in SUBSET graph.facts /\ last.effects = Enabled(graph, last.facts)
  <2>1. IsLayers(F, s, goals)
    BY <1>4
  <2>2. Len(F) \in 1..Len(F)
    BY <2>1, SeqFacts DEF IsLayers
  <2> QED BY <2>1, <2>2 DEF IsLayers
<1>6. Complete(graph, last, goals)
  <2> SUFFICES ASSUME Cardinality(last.facts) \in Nat, Cardinality(last.facts) >= n
               PROVE  Complete(graph, last, goals)
    BY <1>4
  <2> HIDE DEF last
  <2>1. last.facts = graph.facts
    BY <1>0, <1>5, FS_Subset
  <2>2. UNION {graph.ef[e].A : e \in last.effects} \subseteq graph.facts
    BY <1>5, AddsAreFacts
  <2> QED BY <2>1, <2>2 DEF Complete
<1>7. build_fixpoint(graph, s, goals) = F
  BY <1>1 DEF AreLayers
<1> QED BY <1>4, <1>6, <1>7 DEF IsFixpoint

\* A fixpoint without the goals is closed under the operators, deletes and all.
LEMMA FixpointIsClosed ==
  ASSUME NEW F, NEW s, NEW goals, IsFixpoint(F, s, goals), ~(goals \subseteq F[Len(F)].facts),
         NEW x \in SUBSET F[Len(F)].facts, NEW op
  PROVE  result_to_dest(graph, x, op) \subseteq F[Len(F)].facts
<1> DEFINE last == F[Len(F)]
<1>1. Len(F) \in 1..Len(F)
  BY SeqFacts DEF IsFixpoint, IsLayers
<1>2. last.effects = Enabled(graph, last.facts)
  BY <1>1 DEF IsFixpoint, IsLayers
<1>3. UNION {graph.ef[e].A : e \in last.effects} \subseteq last.facts
  BY DEF IsFixpoint, Complete
<1> HIDE DEF last
<1>4. TrueEffects(graph, x, op) \subseteq last.effects
  BY <1>2 DEF TrueEffects, EffectsOf, Kept, Enabled, last
<1>5. UNION {graph.ef[e].A : e \in TrueEffects(graph, x, op)} \subseteq last.facts
  BY <1>3, <1>4
<1>6. Undeleted(graph, x, op) \subseteq last.facts
  BY DEF Undeleted, last
<1> QED BY <1>5, <1>6 DEF result_to_dest, last

LEMMA LayersGrow ==
  ASSUME NEW F, NEW s, NEW goals, IsLayers(F, s, goals), NEW t \in 1..Len(F), NEW u \in t..Len(F)
  PROVE  F[t].facts \subseteq F[u].facts
<1>0. Len(F) \in Nat
  BY SeqFacts DEF IsLayers
<1> DEFINE T == {d \in Nat : t + d <= Len(F) => F[t].facts \subseteq F[t + d].facts}
<1>1. 0 \in T
  OBVIOUS
<1>2. ASSUME NEW d \in Nat, d \in T PROVE d + 1 \in T
  <2> SUFFICES ASSUME t + (d + 1) <= Len(F) PROVE F[t].facts \subseteq F[t + (d + 1)].facts
    OBVIOUS
  <2>1. t + d \in 1..(Len(F) - 1) /\ t + (d + 1) = (t + d) + 1
    BY <1>0
  <2>2. F[t + d].facts \subseteq F[(t + d) + 1].facts
    BY <2>1 DEF IsLayers
  <2> QED BY <1>2, <2>1, <2>2
<1>3. u - t \in T
  <2>1. u - t \in Nat
    BY <1>0
  <2> HIDE DEF T
  <2> QED BY <1>1, <1>2, <2>1, Upwards
<1>4. t + (u - t) = u
  BY <1>0
<1> QED BY <1>0, <1>3, <1>4

LEMMA MinIsFirst ==
  ASSUME NEW X \in SUBSET Nat, X # {}
  PROVE  Min(X) \in X /\ \A y \in X : Min(X) <= y
<1>1. PICK m \in X : \A y \in X : ~(<<y, m>> \in OpToRel(<, Nat))
  BY NatLessThanWellFounded, WFMin
<1>2. \A y \in X : ~(y < m)
  BY <1>1 DEF OpToRel
<1>3. \E x \in X : \A y \in X : x <= y
  BY <1>2
<1> QED BY <1>3 DEF Min

\* The level of a fact is that of the first layer that has it.
LEMMA LevelIsFirst ==
  ASSUME NEW F, NEW s, NEW goals, IsLayers(F, s, goals), NEW f \in F[Len(F)].facts
  PROVE  /\ FactLevel(F, f) \in 0..(Len(F) - 1)
         /\ f \in F[FactLevel(F, f) + 1].facts
         /\ \A t \in 1..Len(F) : f \in F[t].facts => FactLevel(F, f) <= t - 1
<1> DEFINE D == {t \in DOMAIN F : f \in F[t].facts}  m == Min(D)
<1>1. Len(F) \in Nat \ {0} /\ DOMAIN F = 1..Len(F)
  BY SeqFacts DEF IsLayers
<1>2. D \in SUBSET Nat /\ D # {}
  BY <1>1
<1>3. m \in D /\ \A t \in D : m <= t
  <2> HIDE DEF D
  <2> QED BY <1>2, MinIsFirst
<1>4. FactLevel(F, f) = m - 1
  BY DEF FactLevel
<1>5. m \in 1..Len(F) /\ f \in F[m].facts
  BY <1>1, <1>3
<1>6. \A t \in 1..Len(F) : f \in F[t].facts => m <= t
  BY <1>1, <1>3
<1> HIDE DEF m
<1>7. (m - 1) + 1 = m
  BY <1>1, <1>5
<1> QED BY <1>1, <1>4, <1>5, <1>6, <1>7

\* The levels of a finite set of facts have a sum.
Some(q) == CHOOSE x \in q : TRUE

Few(P, m) == {q \in SUBSET P : Cardinality(q) <= m}

LevelSum(g, F, P, m) ==
  g = [q \in Few(P, m) |->
         IF q = {} THEN 0 ELSE FactLevel(F, Some(q)) + g[q \ {Some(q)}]]

LEMMA FewFacts ==
  ASSUME NEW P, IsFiniteSet(P), NEW m \in Nat, NEW q \in Few(P, m + 1), q # {}
  PROVE  q \ {Some(q)} \in Few(P, m)
<1> DEFINE x == Some(q)
<1>1. x \in q
  BY DEF Some
<1>2. q \in SUBSET P /\ IsFiniteSet(q) /\ Cardinality(q) <= m + 1
  BY FS_Subset DEF Few
<1>3. Cardinality(q) \in Nat
  BY <1>2, FS_CardinalityType
<1> HIDE DEF x
<1>4. Cardinality(q \ {x}) = Cardinality(q) - 1
  BY <1>1, <1>2, FS_RemoveElement
<1>5. q \ {x} \in Few(P, m)
  BY <1>2, <1>3, <1>4 DEF Few
<1> QED BY <1>5 DEF x

LEMMA LevelsAddUp ==
  ASSUME NEW F, NEW e, IsFiniteSet(graph.ef[e].PC),
         \A f \in graph.ef[e].PC : FactLevel(F, f) \in Nat
  PROVE  Difficulty(graph, F, e) \in Nat
<1> DEFINE P == graph.ef[e].PC
           n == Cardinality(P)
           T == {m \in Nat : \E g : LevelSum(g, F, P, m)}
<1>0. n \in Nat /\ IsFiniteSet(P) /\ \A f \in P : FactLevel(F, f) \in Nat
  BY FS_CardinalityType
<1> HIDE DEF P
<1>1. 0 \in T
  <2>1. Few(P, 0) = {{}}
    <3>1. ASSUME NEW q \in SUBSET P PROVE Cardinality(q) <= 0 <=> q = {}
      <4>1. IsFiniteSet(q)
        BY <1>0, FS_Subset
      <4> QED BY <4>1, FS_CardinalityType, FS_EmptySet
    <3> QED BY <3>1 DEF Few
  <2>2. LevelSum([q \in {{}} |-> 0], F, P, 0)
    BY <2>1 DEF LevelSum
  <2> QED BY <2>2
<1>2. ASSUME NEW m \in Nat, m \in T PROVE m + 1 \in T
  <2>1. PICK g : LevelSum(g, F, P, m)
    BY <1>2
  <2> DEFINE h1 == [q \in Few(P, m + 1) |->
                      IF q = {} THEN 0 ELSE FactLevel(F, Some(q)) + g[q \ {Some(q)}]]
  <2>2. Few(P, m) \subseteq Few(P, m + 1)
    <3>1. ASSUME NEW q \in SUBSET P, Cardinality(q) <= m PROVE Cardinality(q) <= m + 1
      <4>1. Cardinality(q) \in Nat
        BY <1>0, FS_Subset, FS_CardinalityType
      <4> QED BY <3>1, <4>1
    <3> QED BY <3>1 DEF Few
  <2>3. \A q \in Few(P, m) : h1[q] = g[q]
    BY <2>1, <2>2 DEF LevelSum
  <2>4. \A q \in Few(P, m + 1) : q # {} => q \ {Some(q)} \in Few(P, m)
    BY <1>0, FewFacts
  <2>5. LevelSum(h1, F, P, m + 1)
    <3>1. \A q \in Few(P, m + 1) : q # {} =>
            h1[q \ {Some(q)}] = g[q \ {Some(q)}]
      <4> HIDE DEF h1
      <4> QED BY <2>3, <2>4
    <3> QED BY <3>1 DEF LevelSum
  <2> QED BY <2>5
<1>3. n \in T
  <2> HIDE DEF T, n
  <2> QED BY <1>0, <1>1, <1>2, Upwards
<1>4. Few(P, n) = SUBSET P
  BY <1>0, FS_Subset DEF Few
<1> HIDE DEF n
<1> DEFINE fold == CHOOSE g : LevelSum(g, F, P, n)
<1>5. LevelSum(fold, F, P, n)
  BY <1>3
<1>6. Difficulty(graph, F, e) = fold[P]
  BY <1>4 DEF Difficulty, MapThenSumSet, MapThenFoldSet, LevelSum, Some, P
<1> HIDE DEF fold
<1> DEFINE U == {m \in Nat : \A q \in Few(P, m) : fold[q] \in Nat}
<1>7. 0 \in U
  <2>1. ASSUME NEW q \in Few(P, 0) PROVE fold[q] \in Nat
    <3>1. q = {}
      <4>1. IsFiniteSet(q) /\ Cardinality(q) <= 0
        BY <1>0, FS_Subset DEF Few
      <4> QED BY <4>1, FS_CardinalityType, FS_EmptySet
    <3>2. fold[q] = 0
      BY <1>4, <1>5, <3>1 DEF LevelSum
    <3> QED BY <3>2
  <2> QED BY <2>1
<1>8. ASSUME NEW m \in Nat, m \in U PROVE m + 1 \in U
  <2>1. ASSUME NEW q \in Few(P, m + 1) PROVE fold[q] \in Nat
    <3>1. CASE q = {}
      BY <1>4, <1>5, <3>1 DEF LevelSum
    <3>2. CASE q # {}
      <4> DEFINE x == Some(q)
      <4>1. q \in SUBSET P /\ x \in q /\ q \ {x} \in Few(P, m)
        BY <1>0, <3>2, FewFacts DEF Few, Some
      <4>2. fold[q] = FactLevel(F, x) + fold[q \ {x}]
        BY <1>4, <1>5, <3>2, <4>1 DEF LevelSum
      <4> HIDE DEF x
      <4>3. fold[q \ {x}] \in Nat /\ FactLevel(F, x) \in Nat
        BY <1>0, <1>8, <4>1
      <4> QED BY <4>2, <4>3
    <3> QED BY <3>1, <3>2
  <2> QED BY <2>1
<1>9. n \in U
  <2> HIDE DEF U
  <2> QED BY <1>0, <1>7, <1>8, Upwards
<1>10. P \in Few(P, n)
  BY <1>4
<1> QED BY <1>6, <1>9, <1>10
\* The effect selected for a goal of level time adds it, and came in one step before.
LEMMA AchieverIs ==
  ASSUME IsTask(task), NEW F, NEW s, NEW goals, IsLayers(F, s, goals),
         NEW f \in F[Len(F)].facts, NEW time, time = FactLevel(F, f), time >= 1
  PROVE  /\ Achiever(graph, F, f, time) \in Adders(graph, f) \cap EffectsAt(F, time - 1)
         /\ graph.ef[Achiever(graph, F, f, time)].PC \subseteq F[time].facts
<1> DEFINE by == Adders(graph, f) \cap EffectsAt(F, time - 1)
           level == [e \in by |-> Difficulty(graph, F, e)]
<1>1. Len(F) \in Nat \ {0} /\ DOMAIN F = 1..Len(F) /\ time \in 1..(Len(F) - 1)
  <2>1. time \in 0..(Len(F) - 1)
    BY LevelIsFirst
  <2> QED BY <2>1, SeqFacts DEF IsLayers
<1>2. f \in F[time + 1].facts /\ f \notin F[time].facts
  <2>1. f \in F[time + 1].facts
    BY LevelIsFirst
  <2>2. time \in 1..Len(F) /\ ~(time <= time - 1)
    BY <1>1
  <2> QED BY <2>1, <2>2, LevelIsFirst
<1>3. EffectsAt(F, time - 1) = F[time].effects \ (IF time = 1 THEN {} ELSE F[time - 1].effects)
  <2>1. (time - 1) + 1 = time /\ (time - 1 = 0 <=> time = 1)
    BY <1>1
  <2> QED BY <2>1 DEF EffectsAt
<1>4. F[time].effects = Enabled(graph, F[time].facts) /\ F[time].facts \subseteq F[Len(F)].facts
  <2>1. time \in 1..Len(F) /\ Len(F) \in time..Len(F)
    BY <1>1
  <2> QED BY <2>1, LayersGrow DEF IsLayers
<1>5. by # {}
  <2>1. F[time + 1].facts = F[time].facts \cup UNION {graph.ef[e].A : e \in F[time].effects}
    BY <1>1 DEF IsLayers
  <2>2. PICK e \in F[time].effects : f \in graph.ef[e].A
    BY <1>2, <2>1
  <2>3. e \in Adders(graph, f)
    BY <1>4, <2>2 DEF Adders, Kept, Enabled, IsTask, graph
  <2>4. ASSUME time # 1 PROVE e \notin F[time - 1].effects
    <3>1. F[time].facts = F[time - 1].facts \cup UNION {graph.ef[d].A : d \in F[time - 1].effects}
      <4>1. time - 1 \in 1..(Len(F) - 1) /\ (time - 1) + 1 = time
        BY <1>1, <2>4
      <4>2. F[(time - 1) + 1].facts
              = F[time - 1].facts \cup UNION {graph.ef[d].A : d \in F[time - 1].effects}
        BY <4>1 DEF IsLayers
      <4> QED BY <4>1, <4>2
    <3> QED BY <1>2, <2>2, <3>1
  <2> QED BY <1>3, <2>2, <2>3, <2>4
<1>6. ASSUME NEW e \in by PROVE graph.ef[e].PC \subseteq F[time].facts
  BY <1>3, <1>4 DEF Enabled
<1>7. ASSUME NEW e \in by PROVE Difficulty(graph, F, e) \in Nat
  <2>1. e \in DOMAIN graph.ef
    BY DEF Adders, Kept
  <2>2. IsFiniteSet(graph.ef[e].PC)
    <3>1. graph.ef[e].PC \in SUBSET graph.facts
      BY <2>1 DEF IsTask, graph
    <3> QED BY <3>1, FS_Subset DEF IsTask, graph
  <2>3. \A d \in graph.ef[e].PC : FactLevel(F, d) \in Nat
    <3> SUFFICES ASSUME NEW d \in graph.ef[e].PC PROVE FactLevel(F, d) \in Nat
      OBVIOUS
    <3>1. d \in F[Len(F)].facts
      BY <1>4, <1>6
    <3>2. FactLevel(F, d) \in 0..(Len(F) - 1)
      BY <3>1, LevelIsFirst
    <3> QED BY <1>1, <3>2
  <2> QED BY <2>2, <2>3, LevelsAddUp
<1> DEFINE sums == {Difficulty(graph, F, e) : e \in by}
           most == {e \in by : Difficulty(graph, F, e) = Min(sums)}
<1>8. most # {} /\ most \subseteq by
  <2>1. sums \in SUBSET Nat /\ sums # {}
    BY <1>5, <1>7
  <2>2. Min(sums) \in sums
    <3> HIDE DEF sums
    <3> QED BY <2>1, MinIsFirst
  <2> QED BY <2>2
<1>9. Min(most) \in most
  <2>1. by \subseteq DOMAIN graph.ef
    BY DEF Adders, Kept
  <2>2. DOMAIN graph.ef \subseteq Nat
    <3>1. IsSeq(graph.ef)
      BY DEF IsTask, graph, IsSeq
    <3> QED BY <3>1, SeqFacts
  <2>3. most \in SUBSET Nat
    BY <1>8, <2>1, <2>2
  <2> HIDE DEF most
  <2> QED BY <1>8, <2>3, MinIsFirst
<1>10. Achiever(graph, F, f, time) = Min(most)
  BY DEF Achiever
<1> HIDE DEF most, by
<1>11. Achiever(graph, F, f, time) \in by
  BY <1>8, <1>9, <1>10
<1> QED BY <1>6, <1>11 DEF by

-----------------------------------------------------------------------------
(* The relaxed plan                                                        *)

LEMMA ConcatFacts ==
  ASSUME NEW a, IsSeq(a), NEW b, IsSeq(b)
  PROVE  /\ IsSeq(a \o b) /\ Len(a \o b) = Len(a) + Len(b)
         /\ \A i \in 1..Len(a) : (a \o b)[i] = a[i]
         /\ \A i \in 1..Len(b) : (a \o b)[Len(a) + i] = b[i]
<1>1. PICK T, U : a \in Seq(T) /\ b \in Seq(U)
  BY DEF IsSeq
<1>2. a \in Seq(T \cup U) /\ b \in Seq(T \cup U)
  BY <1>1
<1>3. a \o b \in Seq(T \cup U) /\ Len(a \o b) = Len(a) + Len(b)
  BY <1>2
<1> QED BY <1>2, <1>3 DEF IsSeq

LEMMA IncreasingIsSeq ==
  ASSUME NEW X \in SUBSET Int, IsFiniteSet(X)
  PROVE  /\ IsSeq(Increasing(X)) /\ Len(Increasing(X)) = Cardinality(X)
         /\ \A k \in 1..Len(Increasing(X)) : Increasing(X)[k] \in X
<1> DEFINE r == Increasing(X)
           item(k) == CHOOSE x \in X : Cardinality({y \in X : y < x}) = k - 1
<1>1. Cardinality(X) \in Nat /\ DOMAIN r = 1..Cardinality(X) /\ \A j \in DOMAIN r : r[j] \in X
  BY IncreasingIsInOrder
<1>2. r = [k \in 1..Cardinality(X) |-> item(k)]
  BY DEF Increasing, Ranked
<1>3. r = [k \in 1..Cardinality(X) |-> r[k]]
  <2> HIDE DEF item
  <2> QED BY <1>2
<1> HIDE DEF r
<1>4. IsSeq(r) /\ Len(r) = Cardinality(X)
  BY <1>1, <1>3, ListFacts
<1> QED BY <1>1, <1>4 DEF r

\* The goals of an extraction wait at their levels.
IsExtraction(r, F, max) ==
  /\ DOMAIN r.goals_at = 0..max
  /\ \A t \in 0..max :
       /\ IsSeq(r.goals_at[t])
       /\ \A k \in 1..Len(r.goals_at[t]) :
            r.goals_at[t][k] \in F[Len(F)].facts /\ FactLevel(F, r.goals_at[t][k]) = t
  /\ IsFiniteSet(r.used)

LEMMA SelectedIs ==
  ASSUME IsTask(task), NEW F, NEW max, NEW r, IsExtraction(r, F, max), NEW time,
         NEW e \in DOMAIN graph.ef, graph.ef[e].PC \subseteq F[Len(F)].facts
  PROVE  LET q == Selected(graph, F, time, r, e)
         IN  IsExtraction(q, F, max) /\ q.used = r.used \cup {<<graph.ef[e].op, time>>}
<1> DEFINE q == Selected(graph, F, time, r, e)
           unmet == {f \in graph.ef[e].PC : ~TrueAt(r, f, time) /\ f \notin r.is_goal}
           new(t) == {f \in unmet : FactLevel(F, f) = t}
<1>1. /\ q.goals_at = [t \in DOMAIN r.goals_at |-> r.goals_at[t] \o Increasing(new(t))]
      /\ q.used = r.used \cup {<<graph.ef[e].op, time>>}
  BY DEF Selected
<1>2. unmet \in SUBSET F[Len(F)].facts /\ unmet \in SUBSET graph.facts
  BY DEF IsTask, graph
<1> HIDE DEF unmet, q
<1>3. ASSUME NEW t \in 0..max
      PROVE  /\ IsSeq(q.goals_at[t])
             /\ \A k \in 1..Len(q.goals_at[t]) :
                  q.goals_at[t][k] \in F[Len(F)].facts /\ FactLevel(F, q.goals_at[t][k]) = t
  <2> DEFINE a == r.goals_at[t]  b == Increasing(new(t))
  <2>1. new(t) \in SUBSET Int /\ IsFiniteSet(new(t))
    <3>1. new(t) \in SUBSET graph.facts
      BY <1>2
    <3> QED BY <3>1, FS_Subset DEF IsTask, graph
  <2>2. IsSeq(b) /\ \A k \in 1..Len(b) : b[k] \in new(t)
    BY <2>1, IncreasingIsSeq
  <2>3. IsSeq(a) /\ \A k \in 1..Len(a) : a[k] \in F[Len(F)].facts /\ FactLevel(F, a[k]) = t
    BY DEF IsExtraction
  <2>4. q.goals_at[t] = a \o b
    BY <1>1 DEF IsExtraction
  <2>5. \A x \in new(t) : x \in F[Len(F)].facts /\ FactLevel(F, x) = t
    BY <1>2
  <2> HIDE DEF a, b, new
  <2>6. /\ IsSeq(a \o b) /\ Len(a \o b) = Len(a) + Len(b) /\ Len(a) \in Nat /\ Len(b) \in Nat
        /\ \A i \in 1..Len(a) : (a \o b)[i] = a[i]
        /\ \A i \in 1..Len(b) : (a \o b)[Len(a) + i] = b[i]
    BY <2>2, <2>3, ConcatFacts, SeqFacts
  <2>7. ASSUME NEW k \in 1..Len(a \o b)
        PROVE  (a \o b)[k] \in F[Len(F)].facts /\ FactLevel(F, (a \o b)[k]) = t
    <3>1. CASE k \in 1..Len(a)
      BY <3>1, <2>3, <2>6
    <3>2. CASE k \notin 1..Len(a)
      <4>1. k - Len(a) \in 1..Len(b) /\ Len(a) + (k - Len(a)) = k
        BY <3>2, <2>6
      <4>2. (a \o b)[k] = b[k - Len(a)]
        BY <2>6, <4>1
      <4> QED BY <2>2, <2>5, <4>1, <4>2
    <3> QED BY <3>1, <3>2
  <2> QED BY <2>4, <2>6, <2>7
<1>4. IsFiniteSet(q.used)
  <2>1. IsFiniteSet(r.used)
    BY DEF IsExtraction
  <2>2. IsFiniteSet(r.used \cup {<<graph.ef[e].op, time>>})
    BY <2>1, FS_AddElement
  <2> QED BY <1>1, <2>2
<1>5. DOMAIN q.goals_at = 0..max
  BY <1>1 DEF IsExtraction
<1>6. IsExtraction(q, F, max)
  BY <1>3, <1>4, <1>5 DEF IsExtraction
<1> QED BY <1>1, <1>6 DEF q

AchieveFold(g, F, r, time, m) ==
  g = [q \in SUBSET (1..m) |->
         IF q = {} THEN r ELSE LET x == Max(q) IN AchieveGoal(graph, F, time, g[q \ {x}], r.goals_at[time][x])]

AreAchieved(A, F, r, time) ==
  /\ A[0] = r
  /\ \A j \in 1..Len(r.goals_at[time]) : A[j] = AchieveGoal(graph, F, time, A[j - 1], r.goals_at[time][j])
  /\ achieve_goals(graph, F, r, time) = A[Len(r.goals_at[time])]

LEMMA AchieveSteps ==
  ASSUME NEW F, NEW r, NEW time, IsSeq(r.goals_at[time])
  PROVE  \E A : AreAchieved(A, F, r, time)
<1> DEFINE n == Len(r.goals_at[time])
           T == {m \in Nat : \E g : AchieveFold(g, F, r, time, m)}
<1>0. n \in Nat /\ DOMAIN r.goals_at[time] = 1..n
  BY SeqFacts
<1>1. 0 \in T
  <2>1. AchieveFold([q \in {{}} |-> r], F, r, time, 0)
    BY DEF AchieveFold
  <2> QED BY <2>1
<1>2. ASSUME NEW m \in Nat, m \in T PROVE m + 1 \in T
  <2>1. PICK g : AchieveFold(g, F, r, time, m)
    BY <1>2
  <2> DEFINE f == [q \in SUBSET (1..(m + 1)) |->
                     IF q = {} THEN r ELSE LET x == Max(q) IN AchieveGoal(graph, F, time, g[q \ {x}], r.goals_at[time][x])]
  <2>2. SUBSET (1..m) \subseteq SUBSET (1..(m + 1))
    OBVIOUS
  <2>3. \A q \in SUBSET (1..m) : f[q] = g[q]
    BY <2>1, <2>2 DEF AchieveFold
  <2>4. \A q \in SUBSET (1..(m + 1)) : q # {} => q \ {Max(q)} \in SUBSET (1..m)
    <3> SUFFICES ASSUME NEW q \in SUBSET (1..(m + 1)), q # {} PROVE q \ {Max(q)} \in SUBSET (1..m)
      OBVIOUS
    <3> QED BY LastIndex
  <2>5. AchieveFold(f, F, r, time, m + 1)
    <3>1. \A q \in SUBSET (1..(m + 1)) : q # {} => f[q \ {Max(q)}] = g[q \ {Max(q)}]
      <4> HIDE DEF f
      <4> QED BY <2>3, <2>4
    <3> QED BY <3>1 DEF AchieveFold
  <2> QED BY <2>5
<1> HIDE DEF n
<1>3. n \in T
  <2> HIDE DEF T
  <2> QED BY <1>0, <1>1, <1>2, Upwards
<1> DEFINE fold == CHOOSE g : AchieveFold(g, F, r, time, n)
<1>4. AchieveFold(fold, F, r, time, n)
  BY <1>3
<1>5. achieve_goals(graph, F, r, time) = fold[1..n]
  BY <1>0 DEF achieve_goals, FoldLeft, MapThenFoldSet, AchieveFold
<1> DEFINE A == [j \in 0..n |-> fold[1..j]]
<1>6. A[0] = r
  <2>1. fold[{}] = r
    <3> HIDE DEF fold
    <3> QED BY <1>4 DEF AchieveFold
  <2> QED BY <1>0, <2>1
<1>7. ASSUME NEW j \in 1..n PROVE A[j] = AchieveGoal(graph, F, time, A[j - 1], r.goals_at[time][j])
  <2>1. 1..j \in SUBSET (1..n) /\ j \in Nat \ {0} /\ j \in 0..n /\ j - 1 \in 0..n
    BY <1>0
  <2>2. fold[1..j] = AchieveGoal(graph, F, time, fold[1..(j - 1)], r.goals_at[time][j])
    <3> DEFINE q == 1..j
    <3> HIDE DEF fold, q
    <3>1. q \in SUBSET (1..n) /\ q # {} /\ Max(q) = j /\ q \ {j} = 1..(j - 1)
      BY <2>1, Prefix DEF q
    <3>2. fold[q] = AchieveGoal(graph, F, time, fold[q \ {Max(q)}], r.goals_at[time][Max(q)])
      BY <1>4, <3>1 DEF AchieveFold
    <3> QED BY <3>1, <3>2 DEF q
  <2> HIDE DEF fold
  <2> QED BY <2>1, <2>2
<1>8. achieve_goals(graph, F, r, time) = A[n]
  BY <1>0, <1>5
<1> HIDE DEF A
<1>9. AreAchieved(A, F, r, time)
  BY <1>6, <1>7, <1>8 DEF n, AreAchieved
<1> QED BY <1>9

\* One step down of the extraction.
StepDown(F, acc, k) == achieve_goals(graph, F, acc, Cardinality(DOMAIN acc.goals_at) - k)

GoalLevels(F, goals) == {FactLevel(F, f) : f \in goals} \cup {0}

DownFold(g, F, max, goals, m) ==
  g = [q \in SUBSET (1..m) |->
         IF q = {} THEN initialize_goals(F, max, goals) ELSE LET x == Max(q) IN StepDown(F, g[q \ {x}], Upto(max)[x])]

AreDown(A, F, max, goals) ==
  /\ A[0] = initialize_goals(F, max, goals)
  /\ \A j \in 1..max : A[j] = StepDown(F, A[j - 1], Upto(max)[j])
  /\ extract_1P(graph, F, goals) = A[max]

LEMMA DownSteps ==
  ASSUME NEW F, NEW max \in Nat, NEW goals, max = Max(GoalLevels(F, goals))
  PROVE  \E A : AreDown(A, F, max, goals)
<1> DEFINE n == max
           T == {m \in Nat : \E g : DownFold(g, F, max, goals, m)}
<1>0. n \in Nat /\ DOMAIN Upto(n) = 1..n /\ \A i \in 1..n : Upto(n)[i] = i
  BY DEF Upto
<1>1. 0 \in T
  <2>1. DownFold([q \in {{}} |-> initialize_goals(F, max, goals)], F, max, goals, 0)
    BY DEF DownFold
  <2> QED BY <2>1
<1>2. ASSUME NEW m \in Nat, m \in T PROVE m + 1 \in T
  <2>1. PICK g : DownFold(g, F, max, goals, m)
    BY <1>2
  <2> DEFINE f == [q \in SUBSET (1..(m + 1)) |->
                     IF q = {} THEN initialize_goals(F, max, goals) ELSE LET x == Max(q) IN StepDown(F, g[q \ {x}], Upto(max)[x])]
  <2>2. SUBSET (1..m) \subseteq SUBSET (1..(m + 1))
    OBVIOUS
  <2>3. \A q \in SUBSET (1..m) : f[q] = g[q]
    BY <2>1, <2>2 DEF DownFold
  <2>4. \A q \in SUBSET (1..(m + 1)) : q # {} => q \ {Max(q)} \in SUBSET (1..m)
    <3> SUFFICES ASSUME NEW q \in SUBSET (1..(m + 1)), q # {} PROVE q \ {Max(q)} \in SUBSET (1..m)
      OBVIOUS
    <3> QED BY LastIndex
  <2>5. DownFold(f, F, max, goals, m + 1)
    <3>1. \A q \in SUBSET (1..(m + 1)) : q # {} => f[q \ {Max(q)}] = g[q \ {Max(q)}]
      <4> HIDE DEF f
      <4> QED BY <2>3, <2>4
    <3> QED BY <3>1 DEF DownFold
  <2> QED BY <2>5
<1> HIDE DEF n
<1>3. n \in T
  <2> HIDE DEF T
  <2> QED BY <1>0, <1>1, <1>2, Upwards
<1> DEFINE fold == CHOOSE g : DownFold(g, F, max, goals, n)
<1>4. DownFold(fold, F, max, goals, n)
  BY <1>3
<1>5. extract_1P(graph, F, goals) = fold[1..n]
  BY <1>0 DEF extract_1P, FoldLeft, MapThenFoldSet, DownFold, StepDown, GoalLevels, Upto, n
<1> DEFINE A == [j \in 0..n |-> fold[1..j]]
<1>6. A[0] = initialize_goals(F, max, goals)
  <2>1. fold[{}] = initialize_goals(F, max, goals)
    <3> HIDE DEF fold
    <3> QED BY <1>4 DEF DownFold
  <2> QED BY <1>0, <2>1
<1>7. ASSUME NEW j \in 1..n PROVE A[j] = StepDown(F, A[j - 1], Upto(max)[j])
  <2>1. 1..j \in SUBSET (1..n) /\ j \in Nat \ {0} /\ j \in 0..n /\ j - 1 \in 0..n
    BY <1>0
  <2>2. fold[1..j] = StepDown(F, fold[1..(j - 1)], Upto(max)[j])
    <3> DEFINE q == 1..j
    <3> HIDE DEF fold, q
    <3>1. q \in SUBSET (1..n) /\ q # {} /\ Max(q) = j /\ q \ {j} = 1..(j - 1)
      BY <2>1, Prefix DEF q
    <3>2. fold[q] = StepDown(F, fold[q \ {Max(q)}], Upto(max)[Max(q)])
      BY <1>4, <3>1 DEF DownFold
    <3> QED BY <3>1, <3>2 DEF q
  <2> HIDE DEF fold
  <2> QED BY <2>1, <2>2
<1>8. extract_1P(graph, F, goals) = A[n]
  BY <1>0, <1>5
<1> HIDE DEF A
<1>9. AreDown(A, F, max, goals)
  BY <1>6, <1>7, <1>8 DEF n, AreDown
<1> QED BY <1>9

LEMMA AchieveIs ==
  ASSUME IsTask(task), NEW F, NEW s, NEW goals, IsLayers(F, s, goals), NEW max, NEW r,
         IsExtraction(r, F, max), NEW time \in 1..max
  PROVE  LET q == achieve_goals(graph, F, r, time)
         IN  /\ IsExtraction(q, F, max) /\ r.used \subseteq q.used
             /\ DOMAIN r.is_true = {} /\ Len(r.goals_at[time]) # 0 => q.used # {}
<1> DEFINE list == r.goals_at[time]  n == Len(list)
<1>1. /\ IsSeq(list) /\ n \in Nat
      /\ \A k \in 1..n : list[k] \in F[Len(F)].facts /\ FactLevel(F, list[k]) = time
  <2>1. time \in 0..max
    OBVIOUS
  <2> QED BY <2>1, SeqFacts DEF IsExtraction
<1>2. PICK A : AreAchieved(A, F, r, time)
  BY <1>1, AchieveSteps
<1>3. A[0] = r /\ \A j \in 1..n : A[j] = AchieveGoal(graph, F, time, A[j - 1], list[j])
  BY <1>2 DEF AreAchieved
<1> DEFINE Good(j) ==
       /\ IsExtraction(A[j], F, max) /\ r.used \subseteq A[j].used
       /\ DOMAIN r.is_true = {} /\ j # 0 => A[j].used # {}
           T == {j \in Nat : j <= n => Good(j)}
<1>4. 0 \in T
  BY <1>3
<1>5. ASSUME NEW j \in Nat, j \in T PROVE j + 1 \in T
  <2> SUFFICES ASSUME j + 1 <= n PROVE Good(j + 1)
    OBVIOUS
  <2> DEFINE f == list[j + 1]  e == Achiever(graph, F, f, time)
  <2>0. j + 1 \in 1..n /\ (j + 1) - 1 = j
    BY <1>1
  <2>1. Good(j)
    BY <1>1, <1>5
  <2>2. f \in F[Len(F)].facts /\ time = FactLevel(F, f) /\ time >= 1
    BY <1>1, <2>0
  <2>3. A[j + 1] = AchieveGoal(graph, F, time, A[j], f)
    BY <1>3, <2>0
  <2>4. e \in Adders(graph, f) /\ graph.ef[e].PC \subseteq F[time].facts
    <3> HIDE DEF f
    <3> QED BY <2>2, AchieverIs
  <2>5. e \in DOMAIN graph.ef /\ graph.ef[e].PC \subseteq F[Len(F)].facts
    <3>1. e \in DOMAIN graph.ef
      BY <2>4 DEF Adders, Kept
    <3>2. time \in 0..(Len(F) - 1) /\ Len(F) \in Nat
      BY <2>2, LevelIsFirst, SeqFacts DEF IsLayers
    <3>3. F[time].facts \subseteq F[Len(F)].facts
      <4>1. time \in 1..Len(F) /\ Len(F) \in time..Len(F)
        BY <3>2
      <4> QED BY <4>1, LayersGrow
    <3> QED BY <2>4, <3>1, <3>3
  <2> HIDE DEF e, f
  <2>6. CASE TrueAt(A[j], f, time)
    <3>1. A[j + 1] = A[j]
      BY <2>3, <2>6 DEF AchieveGoal
    <3>2. ASSUME DOMAIN r.is_true = {} PROVE j # 0
      BY <1>3, <2>6, <3>2 DEF TrueAt
    <3> QED BY <2>1, <3>1, <3>2
  <2>7. CASE ~TrueAt(A[j], f, time)
    <3>1. A[j + 1] = Selected(graph, F, time, A[j], e)
      BY <2>3, <2>7 DEF AchieveGoal, e
    <3>2. IsExtraction(A[j + 1], F, max) /\ A[j + 1].used = A[j].used \cup {<<graph.ef[e].op, time>>}
      BY <2>1, <2>5, <3>1, SelectedIs
    <3> QED BY <2>1, <3>2
  <2> QED BY <2>6, <2>7
<1>6. Good(n)
  <2>1. n \in T
    <3> HIDE DEF T, n
    <3> QED BY <1>1, <1>4, <1>5, Upwards
  <2> QED BY <1>1, <2>1
<1>7. achieve_goals(graph, F, r, time) = A[n]
  BY <1>2 DEF AreAchieved
<1> QED BY <1>6, <1>7

\* The first selection is made as soon as a goal is not true yet.
LEMMA ExtractionUses ==
  ASSUME IsTask(task), NEW F, NEW s, NEW goals \in SUBSET F[Len(F)].facts, IsLayers(F, s, goals),
         NEW max \in Nat, max = Max(GoalLevels(F, goals)),
         max # 0 => \E f \in goals : FactLevel(F, f) = max
  PROVE  LET r == extract_1P(graph, F, goals)
         IN  IsFiniteSet(r.used) /\ (r.used = {} <=> max = 0)
<1>0. goals \in SUBSET Int /\ IsFiniteSet(goals)
  <2>1. Len(F) \in 1..Len(F)
    BY SeqFacts DEF IsLayers
  <2>2. goals \in SUBSET graph.facts
    BY <2>1 DEF IsLayers
  <2> QED BY <2>2, FS_Subset DEF IsTask, graph
<1>1. PICK A : AreDown(A, F, max, goals)
  BY DownSteps
<1>2. A[0] = initialize_goals(F, max, goals) /\ \A k \in 1..max : A[k] = StepDown(F, A[k - 1], k)
  BY <1>1 DEF AreDown, Upto
<1> DEFINE at(t) == {f \in goals : FactLevel(F, f) = t}
<1>3. /\ A[0].goals_at = [t \in 0..max |-> Increasing(at(t))]
      /\ A[0].used = {} /\ DOMAIN A[0].is_true = {}
  BY <1>2 DEF initialize_goals
<1>4. \A t \in 0..max : /\ IsSeq(Increasing(at(t))) /\ Len(Increasing(at(t))) = Cardinality(at(t))
                        /\ \A k \in 1..Len(Increasing(at(t))) : Increasing(at(t))[k] \in at(t)
  <2> SUFFICES ASSUME NEW t \in 0..max
               PROVE  /\ IsSeq(Increasing(at(t))) /\ Len(Increasing(at(t))) = Cardinality(at(t))
                      /\ \A k \in 1..Len(Increasing(at(t))) : Increasing(at(t))[k] \in at(t)
    OBVIOUS
  <2>1. at(t) \in SUBSET goals
    OBVIOUS
  <2> HIDE DEF at
  <2>2. at(t) \in SUBSET Int /\ IsFiniteSet(at(t))
    BY <1>0, <2>1, FS_Subset
  <2> QED BY <2>2, IncreasingIsSeq
<1>5. IsExtraction(A[0], F, max)
  BY <1>3, <1>4, FS_EmptySet DEF IsExtraction
<1>6. ASSUME NEW k \in 1..max, IsExtraction(A[k - 1], F, max)
      PROVE  /\ IsExtraction(A[k], F, max) /\ A[k - 1].used \subseteq A[k].used
             /\ k = 1 => A[k].used # {}
  <2> DEFINE time == (max + 1) - k
  <2>1. time \in 1..max /\ (k = 1 => time = max)
    OBVIOUS
  <2>2. A[k] = achieve_goals(graph, F, A[k - 1], time)
    <3>1. DOMAIN A[k - 1].goals_at = 0..max
      BY <1>6 DEF IsExtraction
    <3>2. Cardinality(0..max) = max + 1
      BY FS_Interval
    <3> QED BY <1>2, <3>1, <3>2 DEF StepDown
  <2> HIDE DEF time
  <2>3. /\ IsExtraction(A[k], F, max) /\ A[k - 1].used \subseteq A[k].used
        /\ DOMAIN A[k - 1].is_true = {} /\ Len(A[k - 1].goals_at[time]) # 0 => A[k].used # {}
    BY <1>6, <2>1, <2>2, AchieveIs
  <2>4. ASSUME k = 1 PROVE A[k].used # {}
    <3>1. A[k - 1] = A[0] /\ time = max /\ max # 0 /\ max \in 0..max
      BY <2>1, <2>4
    <3>2. at(max) # {} /\ IsFiniteSet(at(max))
      BY <1>0, <3>1, FS_Subset
    <3>3. Len(Increasing(at(max))) # 0
      <4> HIDE DEF at
      <4> QED BY <1>4, <3>1, <3>2, FS_EmptySet
    <3>4. Len(A[k - 1].goals_at[time]) # 0
      BY <1>3, <3>1, <3>3
    <3> QED BY <1>3, <2>3, <3>1, <3>4
  <2> QED BY <2>3, <2>4
<1> DEFINE T == {k \in Nat : k <= max => IsExtraction(A[k], F, max) /\ (k # 0 => A[k].used # {})}
<1>7. 0 \in T
  BY <1>5
<1>8. ASSUME NEW k \in Nat, k \in T PROVE k + 1 \in T
  <2> SUFFICES ASSUME k + 1 <= max
               PROVE  IsExtraction(A[k + 1], F, max) /\ A[k + 1].used # {}
    OBVIOUS
  <2>1. k + 1 \in 1..max /\ (k + 1) - 1 = k /\ (k + 1 = 1 <=> k = 0)
    OBVIOUS
  <2>2. IsExtraction(A[k], F, max) /\ (k # 0 => A[k].used # {})
    BY <1>8
  <2> QED BY <1>6, <2>1, <2>2
<1>9. IsExtraction(A[max], F, max) /\ (max # 0 => A[max].used # {})
  <2>1. max \in T
    <3> HIDE DEF T
    <3> QED BY <1>7, <1>8, Upwards
  <2> QED BY <2>1
<1>10. extract_1P(graph, F, goals) = A[max]
  BY <1>1 DEF AreDown
<1>11. max = 0 => A[max].used = {}
  BY <1>3
<1> QED BY <1>9, <1>10, <1>11 DEF IsExtraction

\* A set of facts that holds s, that no operator leads out of, and that does
\* not hold all goals.
Encloses(L, s, goals) ==
  /\ s \subseteq L /\ ~(goals \subseteq L)
  /\ \A x \in SUBSET L : \A op : result_to_dest(graph, x, op) \subseteq L

\* What the heuristic says of a state: INFINITY only if no operators lead from
\* it to the goals, and 0 exactly if they are reached.
LEMMA EvaluationIs ==
  ASSUME IsTask(task), NEW s \in SUBSET graph.facts, NEW goals
  PROVE  LET eval == get_1P_and_H(graph, s, goals)
         IN  /\ eval.h = INFINITY => \E L : Encloses(L, s, goals)
             /\ eval.h # INFINITY => eval.h \in Nat /\ (eval.h = 0 <=> goals \subseteq s)
<1> DEFINE F == build_fixpoint(graph, s, goals)
           last == F[Len(F)].facts
           eval == get_1P_and_H(graph, s, goals)
<1>1. IsFixpoint(F, s, goals)
  BY FixpointIs
<1>2. IsLayers(F, s, goals) /\ Len(F) \in Nat \ {0} /\ F[1].facts = s
  <2> HIDE DEF F
  <2>1. IsLayers(F, s, goals)
    BY <1>1 DEF IsFixpoint
  <2>2. IsSeq(F) /\ Len(F) >= 1 /\ F[1].facts = s
    BY <2>1 DEF IsLayers
  <2> QED BY <2>1, <2>2, SeqFacts
<1>3. eval = IF goals \subseteq last THEN Evaluation(graph, F, extract_1P(graph, F, goals))
             ELSE [h |-> INFINITY, in_plan |-> <<>>, H |-> <<>>]
  BY DEF get_1P_and_H, Evaluate, Last
<1> HIDE DEF F, eval
<1>4. s \subseteq last
  <2>1. 1 \in 1..Len(F) /\ Len(F) \in 1..Len(F)
    BY <1>2
  <2> QED BY <1>2, <2>1, LayersGrow
<1>5. CASE ~(goals \subseteq last)
  <2>1. eval.h = INFINITY
    BY <1>3, <1>5
  <2>2. Encloses(last, s, goals)
    <3>1. \A x \in SUBSET last : \A op : result_to_dest(graph, x, op) \subseteq last
      BY <1>1, <1>5, FixpointIsClosed
    <3> QED BY <1>4, <1>5, <3>1 DEF Encloses
  <2> QED BY <2>1, <2>2 DEF eval
<1>6. CASE goals \subseteq last
  <2> DEFINE levels == GoalLevels(F, goals)  max == Max(levels)  r == extract_1P(graph, F, goals)
  <2>1. eval.h = Cardinality(r.used)
    BY <1>3, <1>6 DEF Evaluation
  <2>2. \A f \in goals : /\ FactLevel(F, f) \in 0..(Len(F) - 1)
                         /\ f \in F[FactLevel(F, f) + 1].facts
                         /\ \A t \in 1..Len(F) : f \in F[t].facts => FactLevel(F, f) <= t - 1
    BY <1>2, <1>6, LevelIsFirst
  <2>3. max \in levels /\ (\A y \in levels : max >= y) /\ max \in Nat
    <3>1. levels \in SUBSET (0..(Len(F) - 1)) /\ 0 \in levels /\ Len(F) - 1 \in Nat
      BY <1>2, <2>2 DEF GoalLevels
    <3> HIDE DEF levels
    <3> QED BY <3>1, MaxIsLast
  <2>4. max # 0 => \E f \in goals : FactLevel(F, f) = max
    <3> HIDE DEF max
    <3> QED BY <2>3 DEF GoalLevels
  <2>5. IsFiniteSet(r.used) /\ (r.used = {} <=> max = 0)
    <3>1. goals \in SUBSET F[Len(F)].facts
      BY <1>6
    <3> HIDE DEF max, r
    <3> QED BY <1>2, <2>3, <2>4, <3>1, ExtractionUses DEF max, r
  <2>6. eval.h \in Nat /\ (eval.h = 0 <=> max = 0)
    BY <2>1, <2>5, FS_CardinalityType, FS_EmptySet
  <2>7. max = 0 <=> goals \subseteq s
    <3>1. ASSUME max = 0 PROVE goals \subseteq s
      <4>1. \A f \in goals : FactLevel(F, f) \in levels
        BY DEF GoalLevels
      <4> HIDE DEF levels, max
      <4>2. ASSUME NEW f \in goals PROVE f \in s
        <5>1. FactLevel(F, f) = 0
          BY <2>2, <2>3, <3>1, <4>1
        <5> QED BY <1>2, <2>2, <5>1
      <4> QED BY <4>2
    <3>2. ASSUME goals \subseteq s PROVE max = 0
      <4> HIDE DEF max
      <4>1. ASSUME NEW f \in goals PROVE FactLevel(F, f) = 0
        <5>1. 1 \in 1..Len(F) /\ f \in F[1].facts
          BY <1>2, <3>2
        <5>2. FactLevel(F, f) <= 1 - 1
          BY <2>2, <5>1
        <5> QED BY <1>2, <2>2, <5>2
      <4> QED BY <2>4, <4>1
    <3> QED BY <3>1, <3>2
  <2>8. eval.h # INFINITY
    BY <2>6 DEF INFINITY
  <2> QED BY <2>6, <2>7, <2>8 DEF eval
<1> QED BY <1>5, <1>6

-----------------------------------------------------------------------------
(* The states of a search are made of the facts of the task                *)

LEMMA ResultStays ==
  ASSUME IsTask(task), NEW s \in SUBSET graph.facts, NEW op
  PROVE  result_to_dest(graph, s, op) \in SUBSET graph.facts
<1>1. \A e \in DOMAIN graph.ef : graph.ef[e].A \subseteq graph.facts
  BY DEF IsTask, graph
<1>2. TrueEffects(graph, s, op) \subseteq DOMAIN graph.ef
  BY DEF TrueEffects, EffectsOf, Kept
<1> QED BY <1>1, <1>2 DEF result_to_dest, Undeleted

LEMMA RunStays ==
  ASSUME IsTask(task), NEW ops, NEW states, IsRun(ops, states), states[1] \in SUBSET graph.facts,
         NEW n \in 1..Len(states)
  PROVE  states[n] \in SUBSET graph.facts
<1>1. Len(ops) \in Nat /\ Len(states) = Len(ops) + 1
  BY SeqFacts DEF IsRun
<1> DEFINE T == {k \in Nat : k + 1 <= Len(states) => states[k + 1] \in SUBSET graph.facts}
<1>2. 0 \in T
  OBVIOUS
<1>3. ASSUME NEW k \in Nat, k \in T PROVE k + 1 \in T
  <2> SUFFICES ASSUME (k + 1) + 1 <= Len(states)
               PROVE  states[(k + 1) + 1] \in SUBSET graph.facts
    OBVIOUS
  <2>1. k + 1 \in 1..Len(ops) /\ k + 1 <= Len(states)
    BY <1>1
  <2>2. states[(k + 1) + 1] = result_to_dest(graph, states[k + 1], ops[k + 1])
    BY <2>1 DEF IsRun
  <2> QED BY <1>3, <2>1, <2>2, ResultStays
<1>4. n - 1 \in T
  <2>1. n - 1 \in Nat
    BY <1>1
  <2> HIDE DEF T
  <2> QED BY <1>2, <1>3, <2>1, Upwards
<1> QED BY <1>1, <1>4

LEMMA SpaceStays ==
  ASSUME IsTask(task), NEW sp, NEW start \in SUBSET graph.facts, IsSpace(sp, start),
         NEW n \in 1..Len(sp)
  PROVE  sp[n].S \in SUBSET graph.facts
<1>1. Len(sp) \in Nat
  BY SeqFacts DEF IsSpace
<1> DEFINE T == {m \in Nat : \A k \in 1..Len(sp) : k <= m => sp[k].S \in SUBSET graph.facts}
<1>2. 0 \in T
  OBVIOUS
<1>3. ASSUME NEW m \in Nat, m \in T PROVE m + 1 \in T
  <2> SUFFICES ASSUME NEW k \in 1..Len(sp), k <= m + 1 PROVE sp[k].S \in SUBSET graph.facts
    OBVIOUS
  <2>1. sp[k].father \in 0..(k - 1)
    BY DEF IsSpace
  <2>2. sp[k].father # 0 => sp[sp[k].father].S \in SUBSET graph.facts
    <3>1. sp[k].father # 0 => sp[k].father \in 1..Len(sp) /\ sp[k].father <= m
      BY <1>1, <2>1
    <3> QED BY <1>3, <3>1
  <2>3. sp[k].S = result_to_dest(graph, IF sp[k].father = 0 THEN start ELSE sp[sp[k].father].S,
                                 sp[k].op)
    BY DEF IsSpace
  <2> QED BY <2>2, <2>3, ResultStays
<1>4. n \in T
  <2> HIDE DEF T
  <2> QED BY <1>1, <1>2, <1>3, Upwards
<1> QED BY <1>1, <1>4

LEMMA TreeStays ==
  ASSUME IsTask(task), NEW ns, IsTree(ns), NEW n \in 1..Len(ns)
  PROVE  ns[n].S \in SUBSET graph.facts
<1>1. Len(ns) \in Nat /\ task.initial \in SUBSET graph.facts
  BY SeqFacts DEF IsTree, IsTask, graph
<1> DEFINE T == {m \in Nat : \A k \in 1..Len(ns) : k <= m => ns[k].S \in SUBSET graph.facts}
<1>2. 0 \in T
  OBVIOUS
<1>3. ASSUME NEW m \in Nat, m \in T PROVE m + 1 \in T
  <2> SUFFICES ASSUME NEW k \in 1..Len(ns), k <= m + 1 PROVE ns[k].S \in SUBSET graph.facts
    OBVIOUS
  <2>1. ns[k].father \in 0..(k - 1)
    BY DEF IsTree
  <2>2. ns[k].father # 0 => ns[ns[k].father].S \in SUBSET graph.facts
    <3>1. ns[k].father # 0 => ns[k].father \in 1..Len(ns) /\ ns[k].father <= m
      BY <1>1, <2>1
    <3> QED BY <1>3, <3>1
  <2>3. ns[k].S = IF ns[k].father = 0 THEN task.initial
                  ELSE result_to_dest(graph, ns[ns[k].father].S, ns[k].op)
    BY DEF IsTree
  <2> QED BY <1>1, <2>2, <2>3, ResultStays
<1>4. n \in T
  <2> HIDE DEF T
  <2> QED BY <1>1, <1>2, <1>3, Upwards
<1> QED BY <1>1, <1>4

\* The agenda is a list.
LEMMA AgendaIsSeq ==
  ASSUME NEW gs \in Seq(Nat), NEW n \in Nat, n = Len(gs),
         NEW C \in SUBSET ((1..n) \X (1..n))
  PROVE  IsSeq(build_goal_agenda(gs, C))
<1>0. DOMAIN gs = 1..n
  OBVIOUS
<1> DEFINE ordered == {i \in 1..n : Hits(C, i) # {}}
           D == {Degree(C, i) : i \in ordered}
           entry_of(k) == {gs[i] : i \in {j \in ordered : Degree(C, j) = Increasing(D)[k]}}
           entries == [k \in DOMAIN Increasing(D) |-> entry_of(k)]
           others == {gs[i] : i \in (1..n) \ ordered}
           degree == [i \in ordered |-> Degree(C, i)]
<1>1. D \in SUBSET Int /\ IsFiniteSet(D)
  <2>1. \A i \in 1..n : Degree(C, i) \in Int
    BY DegreeCounts
  <2>2. IsFiniteSet(1..n)
    BY FS_Interval
  <2>3. IsFiniteSet(ordered)
    BY <2>2, FS_Subset
  <2>4. \A i \in ordered : Degree(C, i) \in Int
    BY <2>1
  <2> HIDE DEF ordered
  <2>5. degree \in Surjection(ordered, D)
    BY DEF Surjection
  <2> QED BY <2>3, <2>4, <2>5, FS_Surjection
<1>2. Cardinality(D) \in Nat /\ DOMAIN Increasing(D) = 1..Cardinality(D)
  <2> HIDE DEF D
  <2> QED BY <1>1, IncreasingIsInOrder
<1>3. IsSeq(entries)
  <2>1. entries = [k \in 1..Cardinality(D) |-> entry_of(k)]
    BY <1>2
  <2> HIDE DEF D, entry_of
  <2>2. entries = [k \in 1..Cardinality(D) |-> entries[k]]
    BY <2>1
  <2> HIDE DEF entries
  <2> QED BY <1>2, <2>2, ListFacts
<1>4. build_goal_agenda(gs, C) = IF others = {} THEN entries ELSE Append(entries, others)
  BY <1>0 DEF build_goal_agenda
<1> HIDE DEF entries, others
<1> QED BY <1>3, <1>4, AppendFacts

-----------------------------------------------------------------------------
(* What best first search has seen                                         *)

Goals == ToSet(task.goals)

\* No operators lead from s to the goals.
IsDead(s) == \E L : Encloses(L, s, Goals)

\* Every node has the estimate of its state.
AreWeighed(ns) == \A k \in 1..Len(ns) : ns[k].h = get_1P_and_H(graph, ns[k].S, Goals).h

IsKnown(s, ns) == (\E k \in 1..Len(ns) : ns[k].S = s) \/ IsDead(s)

IsOpen(k, queue) == \E i \in 1..Len(queue) : queue[i] = k

LEMMA WeightMeans ==
  ASSUME IsTask(task), NEW s \in SUBSET graph.facts
  PROVE  LET v == get_1P_and_H(graph, s, Goals).h
         IN  /\ v = 0 <=> Goals \subseteq s
             /\ v = INFINITY => IsDead(s)
<1> DEFINE v == get_1P_and_H(graph, s, Goals).h
<1>1. /\ v = INFINITY => \E L : Encloses(L, s, Goals)
      /\ v # INFINITY => v \in Nat /\ (v = 0 <=> Goals \subseteq s)
  BY EvaluationIs
<1> HIDE DEF v
<1>2. (\E L : Encloses(L, s, Goals)) => ~(Goals \subseteq s)
  BY DEF Encloses
<1>3. INFINITY # 0
  BY DEF INFINITY
<1>4. v = INFINITY => IsDead(s)
  BY <1>1 DEF IsDead
<1> QED BY <1>1, <1>2, <1>3, <1>4 DEF v

\* Operators lead from a dead state to dead states only.
LEMMA DeadStays ==
  ASSUME NEW s, IsDead(s), NEW op
  PROVE  IsDead(result_to_dest(graph, s, op)) /\ ~(Goals \subseteq s)
BY DEF IsDead, Encloses

LEMMA KnownStays ==
  ASSUME NEW s, NEW old, IsKnown(s, old), NEW ns, Extends(ns, old), IsSeq(ns), IsSeq(old)
  PROVE  IsKnown(s, ns)
<1>1. \A k \in 1..Len(old) : k \in 1..Len(ns) /\ ns[k] = old[k]
  BY SeqFacts DEF Extends
<1> QED BY <1>1 DEF IsKnown

LEMMA InsertFacts ==
  ASSUME NEW n \in Nat, NEW q \in Seq(1..n), NEW at \in 1..(Len(q) + 1), NEW x \in Nat
  PROVE  \A k : k = x \/ IsOpen(k, q) => IsOpen(k, InsertAt(q, at, x))
<1> DEFINE l == Len(q)
           a == SubSeq(q, 1, at - 1)
           c == SubSeq(q, at, l)
           r == InsertAt(q, at, x)
<1>1. q \in Seq(Nat) /\ l \in Nat /\ at \in Nat
  OBVIOUS
<1>2. a \in Seq(Nat) /\ Len(a) = at - 1 /\ \A i \in 1..(at - 1) : a[i] = q[i]
  <2>1. \A i \in 1..(at - 1) : q[i] \in Nat
    BY <1>1
  <2> QED BY <1>1, <2>1, SubSeqProperties
<1>3. c \in Seq(Nat) /\ Len(c) = (l - at) + 1 /\ \A i \in 1..((l - at) + 1) : c[i] = q[at + i - 1]
  <2>1. \A i \in at..l : q[i] \in Nat
    BY <1>1
  <2> QED BY <1>1, <2>1, SubSeqProperties
<1>4. r = (a \o <<x>>) \o c
  BY DEF InsertAt
<1> HIDE DEF a, c, r, l
<1> DEFINE b == a \o <<x>>
<1>5. IsSeq(b) /\ Len(b) = at /\ (\A i \in 1..(at - 1) : b[i] = q[i]) /\ b[at] = x
  <2>1. IsSeq(a) /\ IsSeq(<<x>>) /\ Len(<<x>>) = 1 /\ <<x>>[1] = x
    <3>1. <<x>> \in Seq(Nat)
      OBVIOUS
    <3> QED BY <1>2, <3>1 DEF IsSeq
  <2>2. IsSeq(b) /\ Len(b) = Len(a) + 1 /\ (\A i \in 1..Len(a) : b[i] = a[i]) /\ b[Len(a) + 1] = x
    BY <2>1, ConcatFacts
  <2> HIDE DEF b
  <2> QED BY <1>1, <1>2, <2>2
<1>6. /\ Len(r) = l + 1
      /\ \A i \in 1..at : r[i] = b[i]
      /\ \A i \in 1..((l - at) + 1) : r[at + i] = c[i]
  <2>1. IsSeq(c)
    BY <1>3 DEF IsSeq
  <2>2. r = b \o c
    BY <1>4
  <2> HIDE DEF b
  <2>3. IsSeq(b)
    BY <1>5
  <2>4. /\ Len(b \o c) = Len(b) + Len(c)
        /\ \A i \in 1..Len(b) : (b \o c)[i] = b[i]
        /\ \A i \in 1..Len(c) : (b \o c)[Len(b) + i] = c[i]
    BY <2>1, <2>3, ConcatFacts
  <2> QED BY <1>1, <1>3, <1>5, <2>2, <2>4
<1> HIDE DEF b
<1>7. IsOpen(x, r)
  BY <1>1, <1>5, <1>6 DEF IsOpen, l
<1>8. ASSUME NEW k, NEW i \in 1..l, q[i] = k PROVE IsOpen(k, r)
  <2>1. CASE i < at
    BY <1>1, <1>5, <1>6, <1>8, <2>1 DEF IsOpen
  <2>2. CASE i >= at
    <3>1. (i - at) + 1 \in 1..((l - at) + 1) /\ at + ((i - at) + 1) = i + 1 /\ at + ((i - at) + 1) - 1 = i
      BY <1>1, <2>2
    <3>2. c[(i - at) + 1] = q[i] /\ r[at + ((i - at) + 1)] = c[(i - at) + 1]
      BY <1>3, <1>6, <3>1
    <3>3. r[i + 1] = q[i]
      BY <3>1, <3>2
    <3>4. i + 1 \in 1..(l + 1)
      BY <1>1
    <3> QED BY <1>6, <1>8, <3>3, <3>4 DEF IsOpen
  <2> QED BY <1>1, <2>1, <2>2
<1> QED BY <1>7, <1>8 DEF IsOpen, r, l

\* What was open before, or is new, is open.
StaysOpen(b, old, queue) ==
  \A k \in 1..Len(b.nodes) : k > Len(old) \/ IsOpen(k, queue) => IsOpen(k, b.open)

LEMMA AddIsKnown ==
  ASSUME IsTask(task), NEW b, IsBfs(b), AreWeighed(b.nodes), NEW t \in SUBSET graph.facts,
         NEW op, NEW father
  PROVE  LET e == AddToBfsSpace(b, t, op, father)
         IN  IsKnown(t, e.nodes) /\ AreWeighed(e.nodes) /\ StaysOpen(e, b.nodes, b.open)
<1> DEFINE hs == get_1P_and_H(graph, t, Goals).h
           at == Cardinality({k \in DOMAIN b.open : b.nodes[b.open[k]].h <= hs}) + 1
           x == [S |-> t, op |-> op, h |-> hs, father |-> father]
           e == AddToBfsSpace(b, t, op, father)
           m == Len(b.nodes)
           queue == InsertAt(b.open, at, m + 1)
           new == Append(b.nodes, x)
<1>1. m \in Nat /\ DOMAIN b.nodes = 1..m
  BY SeqFacts DEF IsBfs, IsTree
<1>2. CASE bfs_state_hashed(b.nodes, t)
  <2>1. e = b
    BY <1>2 DEF AddToBfsSpace
  <2> HIDE DEF e
  <2>2. IsKnown(t, b.nodes)
    BY <1>1, <1>2 DEF IsKnown, bfs_state_hashed
  <2> QED BY <1>1, <2>1, <2>2 DEF StaysOpen, e
<1>3. CASE ~bfs_state_hashed(b.nodes, t) /\ hs = INFINITY
  <2>1. e = b
    BY <1>3 DEF AddToBfsSpace, EnterBfsSpace, Goals
  <2> HIDE DEF e
  <2>2. IsDead(t)
    BY <1>3, WeightMeans
  <2> QED BY <1>1, <2>1, <2>2 DEF StaysOpen, IsKnown, e
<1>4. CASE ~bfs_state_hashed(b.nodes, t) /\ hs # INFINITY
  <2>1. e = [open |-> queue, nodes |-> new]
    BY <1>4 DEF AddToBfsSpace, EnterBfsSpace, Goals
  <2>2. /\ Len(new) = m + 1 /\ new[m + 1] = x
        /\ \A i \in 1..m : new[i] = b.nodes[i]
    BY AppendFacts DEF IsBfs, IsTree
  <2>3. at \in 1..(Len(b.open) + 1)
    <3> DEFINE near == {k \in DOMAIN b.open : b.nodes[b.open[k]].h <= hs}
    <3>1. DOMAIN b.open = 1..Len(b.open) /\ Len(b.open) \in Nat
      BY DEF IsBfs
    <3>2. IsFiniteSet(1..Len(b.open)) /\ Cardinality(1..Len(b.open)) = Len(b.open)
      BY <3>1, FS_Interval
    <3>3. near \in SUBSET (1..Len(b.open))
      BY <3>1
    <3> HIDE DEF near
    <3>4. Cardinality(near) \in Nat /\ Cardinality(near) <= Len(b.open)
      BY <3>2, <3>3, FS_Subset, FS_CardinalityType
    <3> QED BY <3>1, <3>4 DEF near
  <2>4. x.S = t /\ x.h = hs
    OBVIOUS
  <2> HIDE DEF at
  <2>5. \A k : k = m + 1 \/ IsOpen(k, b.open) => IsOpen(k, queue)
    <3>1. b.open \in Seq(1..m) /\ m + 1 \in Nat
      BY <1>1 DEF IsBfs
    <3> HIDE DEF m
    <3> QED BY <1>1, <2>3, <3>1, InsertFacts
  <2> HIDE DEF x, new, queue, e, m
  <2>6. IsKnown(t, new)
    <3>1. m + 1 \in 1..Len(new)
      BY <1>1, <2>2
    <3> QED BY <2>2, <2>4, <3>1 DEF IsKnown
  <2>7. AreWeighed(new)
    <3> SUFFICES ASSUME NEW k \in 1..(m + 1) PROVE new[k].h = get_1P_and_H(graph, new[k].S, Goals).h
      BY <2>2 DEF AreWeighed
    <3>1. CASE k = m + 1
      BY <2>2, <2>4, <3>1
    <3>2. CASE k \in 1..m
      BY <2>2, <3>2 DEF AreWeighed, m
    <3> QED BY <1>1, <3>1, <3>2
  <2>8. StaysOpen([open |-> queue, nodes |-> new], b.nodes, b.open)
    BY <1>1, <2>2, <2>5 DEF StaysOpen, m
  <2> QED BY <2>1, <2>6, <2>7, <2>8 DEF e
<1> QED BY <1>2, <1>3, <1>4

LEMMA StaysOpenOn ==
  ASSUME NEW b, NEW c, NEW old, NEW queue, StaysOpen(b, old, queue), StaysOpen(c, b.nodes, b.open),
         IsSeq(b.nodes), IsSeq(c.nodes)
  PROVE  StaysOpen(c, old, queue)
<1>1. Len(b.nodes) \in Nat /\ Len(c.nodes) \in Nat
  BY SeqFacts
<1> SUFFICES ASSUME NEW k \in 1..Len(c.nodes), k > Len(old) \/ IsOpen(k, queue)
             PROVE  IsOpen(k, c.open)
  BY DEF StaysOpen
<1>2. CASE k \in 1..Len(b.nodes)
  BY <1>2 DEF StaysOpen
<1>3. CASE k > Len(b.nodes)
  BY <1>3 DEF StaysOpen
<1> QED BY <1>1, <1>2, <1>3

\* An expansion makes the results of all operators known.
LEMMA ExpandedIsKnown ==
  ASSUME IsTask(task), NEW b, IsBfs(b), b.nodes = nodes, AreWeighed(nodes), NEW n \in 1..Len(nodes)
  PROVE  LET e == Expanded(b, n)
         IN  /\ AreWeighed(e.nodes) /\ StaysOpen(e, nodes, b.open)
             /\ \A op : IsKnown(result_to_dest(graph, nodes[n].S, op), e.nodes)
<1> DEFINE s == nodes[n].S
           ops == get_A(graph, s)
           l == Len(ops)
           t(j) == result_to_dest(graph, s, ops[j])
<1>1. l \in Nat /\ IsSeq(ops)
  BY ApplicableIsSeq, SeqFacts
<1>2. PICK A : AreAdded(A, b, n)
  BY <1>1, AddSteps
<1>3. /\ A[0] = b
      /\ \A j \in 1..l : A[j] = AddToBfsSpace(A[j - 1], t(j), ops[j], n)
      /\ Expanded(b, n) = A[l]
  BY <1>2 DEF AreAdded
<1>4. s \in SUBSET graph.facts /\ graph.facts \subseteq Nat
  BY TreeStays DEF IsBfs, IsTask, graph
<1>5. \A j : t(j) \in SUBSET graph.facts /\ t(j) \in SUBSET Nat
  <2> HIDE DEF s
  <2>1. \A op : result_to_dest(graph, s, op) \in SUBSET graph.facts
    BY <1>4, ResultStays
  <2> QED BY <1>4, <2>1
<1>6. Len(nodes) \in Nat
  BY SeqFacts DEF IsBfs, IsTree
<1>7. \A ns, j : Extends(ns, nodes) => IsSon(t(j), ops[j], n, ns)
  BY <1>6 DEF Extends, IsSon
<1>8. \A op : (\E j \in 1..l : ops[j] = op) \/ result_to_dest(graph, s, op) = s
  <2> SUFFICES ASSUME NEW op, result_to_dest(graph, s, op) # s PROVE \E j \in 1..l : ops[j] = op
    OBVIOUS
  <2>1. TrueEffects(graph, s, op) # {}
    BY DEF result_to_dest, Undeleted
  <2>2. PICK e \in EffectsOf(graph, op) : graph.ef[e].PC \subseteq s
    BY <2>1 DEF TrueEffects
  <2>3. e \in Enabled(graph, s) /\ graph.ef[e].op = op
    BY <2>2 DEF EffectsOf, Kept, Enabled
  <2> DEFINE X == {graph.ef[d].op : d \in Enabled(graph, s)}
  <2>4. X \in SUBSET Int /\ IsFiniteSet(X)
    <3>1. Enabled(graph, s) \in SUBSET DOMAIN graph.ef
      BY DEF Enabled
    <3>2. \A d \in DOMAIN graph.ef : graph.ef[d].op \in Int
      <4>1. \A d \in DOMAIN graph.ef : graph.ef[d] \in EfConn
        <5>1. graph.ef \in Seq(EfConn)
          BY DEF IsTask, graph
        <5> QED BY <5>1
      <4> QED BY <4>1 DEF EfConn
    <3> QED BY <3>1, <3>2, OperatorsAreFew
  <2>5. op \in X
    BY <2>3
  <2>6. ops = Increasing(X)
    BY DEF get_A
  <2> HIDE DEF X, ops
  <2>7. \E j \in DOMAIN ops : ops[j] = op
    BY <2>4, <2>5, <2>6, IncreasingIsInOrder
  <2> QED BY <1>1, <2>7, SeqFacts
<1> HIDE DEF ops, l, t, s
<1> DEFINE Good(j) == /\ IsBfs(A[j]) /\ Extends(A[j].nodes, nodes) /\ AreWeighed(A[j].nodes)
                      /\ StaysOpen(A[j], nodes, b.open)
                      /\ \A i \in 1..j : IsKnown(t(i), A[j].nodes)
           T == {j \in Nat : j <= l => Good(j)}
<1>9. 0 \in T
  BY <1>3, <1>6 DEF Extends, StaysOpen
<1>10. ASSUME NEW j \in Nat, j \in T PROVE j + 1 \in T
  <2> SUFFICES ASSUME j + 1 <= l PROVE Good(j + 1)
    OBVIOUS
  <2>1. j + 1 \in 1..l /\ (j + 1) - 1 = j /\ Good(j)
    BY <1>1, <1>10
  <2>2. A[j + 1] = AddToBfsSpace(A[j], t(j + 1), ops[j + 1], n)
    BY <1>3, <2>1
  <2>3. IsBfs(A[j + 1]) /\ Extends(A[j + 1].nodes, A[j].nodes)
    <3>1. IsSon(t(j + 1), ops[j + 1], n, A[j].nodes)
      BY <1>7, <2>1
    <3> QED BY <1>5, <2>1, <2>2, <3>1, AddIsBfs
  <2>4. /\ IsKnown(t(j + 1), A[j + 1].nodes) /\ AreWeighed(A[j + 1].nodes)
        /\ StaysOpen(A[j + 1], A[j].nodes, A[j].open)
    BY <1>5, <2>1, <2>2, AddIsKnown
  <2>5. IsSeq(A[j].nodes) /\ IsSeq(A[j + 1].nodes)
    BY <2>1, <2>3 DEF IsBfs, IsTree
  <2>6. Extends(A[j + 1].nodes, nodes)
    <3>1. Len(A[j].nodes) \in Nat /\ Len(A[j + 1].nodes) \in Nat
      BY <2>5, SeqFacts
    <3>2. Extends(A[j].nodes, nodes)
      BY <2>1
    <3> HIDE DEF Good
    <3> QED BY <1>6, <2>3, <3>1, <3>2 DEF Extends
  <2>7. StaysOpen(A[j + 1], nodes, b.open)
    BY <2>1, <2>4, <2>5, StaysOpenOn
  <2>8. ASSUME NEW i \in 1..(j + 1) PROVE IsKnown(t(i), A[j + 1].nodes)
    <3>1. CASE i \in 1..j
      BY <2>1, <2>3, <2>5, <3>1, KnownStays
    <3>2. CASE i = j + 1
      BY <2>4, <3>2
    <3> QED BY <3>1, <3>2
  <2> QED BY <2>3, <2>4, <2>6, <2>7, <2>8
<1>11. Good(l)
  <2>1. l \in T
    <3> HIDE DEF T
    <3> QED BY <1>1, <1>9, <1>10, Upwards
  <2> QED BY <1>1, <2>1
<1>12. ASSUME NEW op PROVE IsKnown(result_to_dest(graph, s, op), A[l].nodes)
  <2>1. CASE \E j \in 1..l : ops[j] = op
    BY <1>11, <2>1 DEF t
  <2>2. CASE result_to_dest(graph, s, op) = s
    <3>1. n \in 1..Len(A[l].nodes) /\ A[l].nodes[n].S = s
      <4>1. IsSeq(A[l].nodes)
        BY <1>11 DEF IsBfs, IsTree
      <4>2. Len(A[l].nodes) \in Nat
        BY <4>1, SeqFacts
      <4> QED BY <1>6, <1>11, <4>2 DEF Extends, s
    <3>2. IsKnown(s, A[l].nodes)
      BY <3>1 DEF IsKnown
    <3> QED BY <2>2, <3>2
  <2> QED BY <1>8, <2>1, <2>2
<1> QED BY <1>3, <1>11, <1>12 DEF s

-----------------------------------------------------------------------------
(* Best first search misses no plan                                        *)

\* A node that is not open is no goal state, and the results of its operators are
\* known.
IsSettled(ns, queue) ==
  \A k \in 1..Len(ns) :
    IsOpen(k, queue) \/ /\ ~(Goals \subseteq ns[k].S)
                        /\ \A op : IsKnown(result_to_dest(graph, ns[k].S, op), ns)

HasSearched(ns, queue) ==
  /\ IsTree(ns) /\ queue \in Seq(1..Len(ns)) /\ AreWeighed(ns)
  /\ IsKnown(task.initial, ns) /\ IsSettled(ns, queue)

BestInv ==
  /\ pc \in {"best first", "unsolvable"} => HasSearched(nodes, open)
  /\ pc = "unsolvable" => open = <<>>

LEMMA FirstIsSearched ==
  ASSUME IsTask(task)
  PROVE  LET b == AddToBfsSpace([open |-> <<>>, nodes |-> <<>>], task.initial, -1, 0)
         IN  HasSearched(b.nodes, b.open)
<1> DEFINE c == [open |-> <<>>, nodes |-> <<>>]
           b == AddToBfsSpace(c, task.initial, -1, 0)
<1>1. /\ task.initial \in SUBSET graph.facts /\ task.initial \in SUBSET Nat
  BY DEF IsTask, graph
<1>2. IsBfs(c) /\ IsSon(task.initial, -1, 0, c.nodes) /\ AreWeighed(c.nodes) /\ Len(c.nodes) = 0
  <2>1. IsSeq(<<>>) /\ Len(<<>>) = 0 /\ <<>> \in Seq(1..0)
    BY DEF IsSeq
  <2> QED BY <2>1 DEF IsBfs, IsTree, IsSon, AreWeighed
<1> HIDE DEF c
<1>3. IsBfs(b)
  BY <1>1, <1>2, AddIsBfs
<1>4. IsKnown(task.initial, b.nodes) /\ AreWeighed(b.nodes) /\ StaysOpen(b, c.nodes, c.open)
  BY <1>1, <1>2, AddIsKnown
<1> HIDE DEF b
<1>5. \A k \in 1..Len(b.nodes) : IsOpen(k, b.open)
  <2>1. Len(b.nodes) \in Nat
    BY <1>3, SeqFacts DEF IsBfs, IsTree
  <2> QED BY <1>2, <1>4, <2>1 DEF StaysOpen
<1>6. IsSettled(b.nodes, b.open)
  BY <1>5 DEF IsSettled
<1> QED BY <1>3, <1>4, <1>6 DEF HasSearched, IsBfs, b, c

LEMMA NextIsSearched ==
  ASSUME IsTask(task), HasSearched(nodes, open), open # <<>>, nodes[Head(open)].h # 0
  PROVE  LET b == Expanded([open |-> Tail(open), nodes |-> nodes], Head(open))
         IN  HasSearched(b.nodes, b.open)
<1> DEFINE n == Head(open)  rest == Tail(open)
           c == [open |-> rest, nodes |-> nodes]
           b == Expanded(c, n)
<1>1. /\ IsTree(nodes) /\ open \in Seq(1..Len(nodes)) /\ AreWeighed(nodes)
      /\ IsKnown(task.initial, nodes) /\ IsSettled(nodes, open) /\ Len(nodes) \in Nat
  BY SeqFacts DEF HasSearched, IsTree
<1>2. /\ n \in 1..Len(nodes) /\ rest \in Seq(1..Len(nodes)) /\ Len(open) \in Nat \ {0}
      /\ open[1] = n /\ Len(rest) = Len(open) - 1
      /\ \A i \in 1..Len(rest) : rest[i] = open[i + 1]
  BY <1>1, HeadTailProperties
<1> HIDE DEF n, rest
<1>3. \A k : IsOpen(k, open) => k = n \/ IsOpen(k, rest)
  <2> SUFFICES ASSUME NEW i \in 1..Len(open), i # 1 PROVE IsOpen(open[i], rest)
    BY <1>2 DEF IsOpen
  <2>1. i - 1 \in 1..Len(rest) /\ (i - 1) + 1 = i
    BY <1>2
  <2>2. rest[i - 1] = open[(i - 1) + 1]
    BY <1>2, <2>1
  <2> QED BY <2>1, <2>2 DEF IsOpen
<1>4. IsBfs(c) /\ c.nodes = nodes /\ c.open = rest
  BY <1>1, <1>2 DEF IsBfs
<1> HIDE DEF c
<1>5. IsBfs(b) /\ Extends(b.nodes, nodes)
  BY <1>2, <1>4, ApplicableIsSeq, ExpandedIsBfs
<1>6. /\ AreWeighed(b.nodes) /\ StaysOpen(b, nodes, rest)
      /\ \A op : IsKnown(result_to_dest(graph, nodes[n].S, op), b.nodes)
  BY <1>1, <1>2, <1>4, ExpandedIsKnown
<1> HIDE DEF b
<1>7. IsSeq(b.nodes) /\ IsSeq(nodes) /\ Len(b.nodes) \in Nat
  BY <1>1, <1>5, SeqFacts DEF IsBfs, IsTree
<1>8. IsKnown(task.initial, b.nodes)
  BY <1>1, <1>5, <1>7, KnownStays
<1>9. ~(Goals \subseteq nodes[n].S)
  <2>1. nodes[n].S \in SUBSET graph.facts
    BY <1>1, <1>2, TreeStays
  <2>2. get_1P_and_H(graph, nodes[n].S, Goals).h # 0
    BY <1>1, <1>2 DEF AreWeighed, n
  <2> QED BY <2>1, <2>2, WeightMeans
<1>10. ASSUME NEW k \in 1..Len(b.nodes), ~IsOpen(k, b.open)
       PROVE  /\ ~(Goals \subseteq b.nodes[k].S)
              /\ \A op : IsKnown(result_to_dest(graph, b.nodes[k].S, op), b.nodes)
  <2>1. k \in 1..Len(nodes) /\ ~IsOpen(k, rest)
    BY <1>1, <1>6, <1>7, <1>10 DEF StaysOpen
  <2>2. b.nodes[k] = nodes[k]
    BY <1>5, <2>1 DEF Extends
  <2>3. CASE k = n
    BY <1>6, <1>9, <2>2, <2>3
  <2>4. CASE k # n
    <3>1. /\ ~(Goals \subseteq nodes[k].S)
          /\ \A op : IsKnown(result_to_dest(graph, nodes[k].S, op), nodes)
      BY <1>1, <1>3, <2>1, <2>4 DEF IsSettled
    <3> QED BY <1>5, <1>7, <2>2, <3>1, KnownStays
  <2> QED BY <2>3, <2>4
<1>11. IsSettled(b.nodes, b.open)
  BY <1>10 DEF IsSettled
<1> QED BY <1>5, <1>6, <1>8, <1>11 DEF HasSearched, IsBfs, b, c, n, rest

LEMMA SearchedStays ==
  ASSUME task' = task
  PROVE  \A ns, queue : HasSearched(ns, queue) => HasSearched(ns, queue)'
<1>1. graph' = graph /\ Goals' = Goals
  BY DEF graph, Goals
<1>2. \A ns : IsTree(ns) => IsTree(ns)'
  BY <1>1 DEF IsTree
<1>3. \A s, ns : IsKnown(s, ns) => IsKnown(s, ns)'
  BY <1>1 DEF IsKnown, IsDead, Encloses
<1>4. \A ns : AreWeighed(ns) => AreWeighed(ns)'
  BY <1>1 DEF AreWeighed
<1>5. \A ns, queue : IsSettled(ns, queue) => IsSettled(ns, queue)'
  BY <1>1, <1>3 DEF IsSettled, IsOpen
<1> QED BY <1>2, <1>3, <1>4, <1>5 DEF HasSearched

LEMMA BestStays == FollowInv /\ BestInv /\ [SearchNext]_searchVars => BestInv'
<1> SUFFICES ASSUME FollowInv, BestInv, [SearchNext]_searchVars PROVE BestInv'
  OBVIOUS
<1>0. task' = task /\ IsTask(task) /\ \A ns, queue : HasSearched(ns, queue) => HasSearched(ns, queue)'
  <2>1. task' = task
    BY DEF SearchNext, searchVars, ComputeGoalAgenda, StartClimbing, Widen, ExpandFirstNode,
           SpaceExhausted, ExtractPlanFragment, NextEntry, AgendaDone, StartBestFirst, ExpandBest,
           ExtractPlan, ProvenUnsolvable
  <2> QED BY <2>1, SearchedStays DEF FollowInv
<1>1. CASE StartBestFirst
  <2> DEFINE b == AddToBfsSpace([open |-> <<>>, nodes |-> <<>>], task.initial, -1, 0)
  <2>1. pc' = "best first" /\ nodes' = b.nodes /\ open' = b.open
    BY <1>1 DEF StartBestFirst, Queue
  <2>2. HasSearched(b.nodes, b.open)
    BY <1>0, FirstIsSearched
  <2> HIDE DEF b
  <2> QED BY <1>0, <2>1, <2>2 DEF BestInv, HasSearched, IsTree, AreWeighed, IsKnown, IsSettled
<1>2. CASE ExpandBest
  <2> DEFINE b == Expanded([open |-> Tail(open), nodes |-> nodes], Head(open))
  <2>1. /\ pc = "best first" /\ pc' = "best first" /\ nodes' = b.nodes /\ open' = b.open
        /\ open # <<>> /\ nodes[Head(open)].h # 0
    BY <1>2 DEF ExpandBest, Queue
  <2>2. HasSearched(b.nodes, b.open)
    BY <1>0, <2>1, NextIsSearched DEF BestInv
  <2> HIDE DEF b
  <2> QED BY <1>0, <2>1, <2>2 DEF BestInv, HasSearched, IsTree, AreWeighed, IsKnown, IsSettled
<1>3. CASE ProvenUnsolvable \/ UNCHANGED searchVars
  <2>1. UNCHANGED <<nodes, open>>
    BY <1>3 DEF ProvenUnsolvable, searchVars, bfsVars
  <2>2. HasSearched(nodes, open) => HasSearched(nodes, open)'
    BY <1>0, <2>1 DEF HasSearched, IsTree, AreWeighed, IsKnown, IsSettled
  <2> QED BY <1>3, <2>1, <2>2 DEF BestInv, ProvenUnsolvable, searchVars
<1>4. CASE \/ ComputeGoalAgenda \/ StartClimbing \/ Widen \/ ExpandFirstNode \/ SpaceExhausted
           \/ ExtractPlanFragment \/ NextEntry \/ AgendaDone \/ ExtractPlan
  <2>1. pc' \notin {"best first", "unsolvable"}
    BY <1>4 DEF ComputeGoalAgenda, StartClimbing, Start, Widen, ExpandFirstNode, Judge, SpaceExhausted,
                ExtractPlanFragment, NextEntry, AgendaDone, ExtractPlan
  <2> QED BY <2>1 DEF BestInv
<1> QED BY <1>1, <1>2, <1>3, <1>4 DEF SearchNext

LEMMA BestAtFirst == SearchInit /\ pc = "agenda" /\ IsTask(task) => BestInv
BY DEF SearchInit, BestInv

\* A sequence of operators and the states that it leads through from the start.
LeadsThrough(ops, states) ==
  /\ ops \in Seq(Int) /\ IsSeq(states) /\ Len(states) = Len(ops) + 1 /\ states[1] = task.initial
  /\ \A k \in 1..Len(ops) : states[k + 1] = result_to_dest(graph, states[k], ops[k])

NoPlan == \A ops, states : LeadsThrough(ops, states) => ~(Goals \subseteq states[Len(states)])

LEMMA SearchedHasNoPlan == FollowInv /\ BestInv /\ pc = "unsolvable" => NoPlan
<1> SUFFICES ASSUME BestInv, pc = "unsolvable", NEW ops, NEW states, LeadsThrough(ops, states)
             PROVE  ~(Goals \subseteq states[Len(states)])
  BY DEF NoPlan
<1>1. IsKnown(task.initial, nodes) /\ IsSettled(nodes, open) /\ open = <<>>
  BY DEF BestInv, HasSearched
<1>2. \A k \in 1..Len(nodes) : /\ ~(Goals \subseteq nodes[k].S)
                               /\ \A op : IsKnown(result_to_dest(graph, nodes[k].S, op), nodes)
  <2>1. Len(open) = 0
    BY <1>1
  <2>2. \A k : ~IsOpen(k, open)
    BY <2>1 DEF IsOpen
  <2> QED BY <1>1, <2>2 DEF IsSettled
<1>3. \A s : IsKnown(s, nodes) =>
        ~(Goals \subseteq s) /\ \A op : IsKnown(result_to_dest(graph, s, op), nodes)
  <2> SUFFICES ASSUME NEW s, IsKnown(s, nodes)
               PROVE  ~(Goals \subseteq s) /\ \A op : IsKnown(result_to_dest(graph, s, op), nodes)
    OBVIOUS
  <2>1. CASE \E k \in 1..Len(nodes) : nodes[k].S = s
    BY <1>2, <2>1
  <2>2. CASE IsDead(s)
    BY <2>2, DeadStays DEF IsKnown
  <2> QED BY <2>1, <2>2 DEF IsKnown
<1>4. Len(ops) \in Nat /\ Len(states) = Len(ops) + 1 /\ states[1] = task.initial
      /\ \A k \in 1..Len(ops) : states[k + 1] = result_to_dest(graph, states[k], ops[k])
  BY DEF LeadsThrough
<1> DEFINE T == {k \in Nat : k <= Len(ops) => IsKnown(states[k + 1], nodes)}
<1>5. 0 \in T
  BY <1>1, <1>4
<1>6. ASSUME NEW k \in Nat, k \in T PROVE k + 1 \in T
  <2> SUFFICES ASSUME k + 1 <= Len(ops) PROVE IsKnown(states[(k + 1) + 1], nodes)
    OBVIOUS
  <2>1. k + 1 \in 1..Len(ops) /\ k <= Len(ops)
    BY <1>4
  <2>2. states[(k + 1) + 1] = result_to_dest(graph, states[k + 1], ops[k + 1])
    BY <1>4, <2>1
  <2> QED BY <1>3, <1>6, <2>1, <2>2
<1>7. Len(ops) \in T
  <2> HIDE DEF T
  <2> QED BY <1>4, <1>5, <1>6, Upwards
<1> QED BY <1>3, <1>4, <1>7

\* When best first search has run out of states, no sequence of operators leads
\* from the initial state to the goals: neither the states that the heuristic takes
\* for hopeless nor the hashed ones hid a plan.
THEOREM NoPlanIsMissed == SearchSpec => [](pc = "unsolvable" => NoPlan)
<1>1. FollowInv /\ BestInv => (pc = "unsolvable" => NoPlan)
  BY SearchedHasNoPlan
<1> QED BY <1>1, FollowAtFirst, FollowStays, BestAtFirst, BestStays, PTL DEF SearchSpec

-----------------------------------------------------------------------------
(* The plan reaches the goals                                              *)

GoalInv ==
  /\ pc # "agenda" /\ entry <= Len(agenda) => current_end = UNION {agenda[k] : k \in 1..entry}
  /\ pc = "extract" /\ h = 0 => current_end \subseteq space[current].S
  /\ pc = "reached" => current_end \subseteq plan_states[Len(plan_states)]
  /\ pc = "found" => Goals \subseteq plan_states[Len(plan_states)]

LEMMA AgendaIsList ==
  ASSUME IsTask(task), agenda = compute_goal_agenda(graph, task.goals)
  PROVE  /\ Len(agenda) \in Nat /\ DOMAIN agenda = 1..Len(agenda)
         /\ UNION {agenda[k] : k \in 1..Len(agenda)} = Goals
<1>1. IsSeq(agenda)
  <2> DEFINE gs == task.goals  n == Len(gs)
  <2>1. n \in Nat /\ gs \in Seq(Nat) /\ Orders \in SUBSET ((1..n) \X (1..n))
    BY OrderingsAreOfGoals, ClosureIsTransitive DEF IsTask, Orders
  <2>2. agenda = build_goal_agenda(gs, Orders)
    BY DEF compute_goal_agenda, Orders, Befores
  <2>3. n = Len(gs)
    OBVIOUS
  <2> HIDE DEF n, gs
  <2> QED BY <2>1, <2>2, <2>3, AgendaIsSeq
<1>2. Len(agenda) \in Nat /\ DOMAIN agenda = 1..Len(agenda)
  BY <1>1, SeqFacts
<1> QED BY <1>2, AgendaCovers DEF Goals

\* Every state of the plan is a set of facts.
LEMMA HeldIsFacts ==
  ASSUME IsTask(task), Held, NEW n \in 1..Len(plan_states)
  PROVE  plan_states[n] \in SUBSET graph.facts
<1>1. IsRun(plan_ops, plan_states) /\ plan_states[1] \in SUBSET graph.facts
  BY DEF Held, PlanIsKept, IsTask, graph
<1> QED BY <1>1, RunStays

LEMMA EntryMoves ==
  ASSUME AgendaInv, GoalInv, [SearchNext]_searchVars
  PROVE  pc' # "agenda" /\ entry' <= Len(agenda') =>
           current_end' = UNION {agenda'[k] : k \in 1..entry'}
<1>1. CASE ComputeGoalAgenda
  <2>1. entry' = 1 /\ current_end' = agenda'[1]
    BY <1>1 DEF ComputeGoalAgenda
  <2> QED BY <2>1
<1>2. CASE NextEntry
  <2>1. /\ pc = "reached" /\ entry < Len(agenda) /\ agenda' = agenda /\ entry' = entry + 1
        /\ current_end' = current_end \cup agenda[entry + 1]
    BY <1>2 DEF NextEntry
  <2>2. entry \in Nat /\ Len(agenda) \in Nat
    BY <2>1, AgendaIsList DEF AgendaInv
  <2>3. current_end = UNION {agenda[k] : k \in 1..entry}
    BY <2>1, <2>2 DEF GoalInv
  <2>4. 1..(entry + 1) = (1..entry) \cup {entry + 1}
    BY <2>2
  <2> QED BY <2>1, <2>3, <2>4
<1>3. CASE \/ StartClimbing \/ Widen \/ ExpandFirstNode \/ SpaceExhausted \/ ExtractPlanFragment
           \/ AgendaDone \/ StartBestFirst \/ ExpandBest \/ ExtractPlan \/ ProvenUnsolvable
           \/ UNCHANGED searchVars
  <2>1. UNCHANGED <<agenda, entry, current_end>> /\ (pc' # "agenda" => pc # "agenda")
    BY <1>3 DEF StartClimbing, Start, Widen, ExpandFirstNode, Judge, SpaceExhausted,
                ExtractPlanFragment, AgendaDone, StartBestFirst, ExpandBest,
                ExtractPlan, ProvenUnsolvable, climbVars, searchVars
  <2> QED BY <2>1 DEF GoalInv
<1> QED BY <1>1, <1>2, <1>3 DEF SearchNext

LEMMA BetterHasGoals ==
  ASSUME FollowInv, ExpandFirstNode, pc' = "extract", h' = 0
  PROVE  current_end' \subseteq space'[current'].S
<1> DEFINE s == space[current].S  eval == get_1P_and_H(graph, s, current_end)
<1>1. /\ pc = "expand" /\ current <= Len(space) /\ eval.h = 0 /\ eval.h # INFINITY
      /\ current' = current /\ space' = space /\ current_end' = current_end
  BY DEF ExpandFirstNode, Judge
<1>2. IsSpace(space, S) /\ current \in Nat \ {0} /\ Held /\ S = plan_states[Len(plan_states)] /\ IsTask(task)
  BY <1>1 DEF FollowInv
<1>3. Len(space) \in Nat /\ Len(plan_states) \in 1..Len(plan_states)
  BY <1>2, SeqFacts DEF IsSpace, Held, PlanIsKept, IsRun
<1>4. s \in SUBSET graph.facts
  <2>1. S \in SUBSET graph.facts
    BY <1>2, <1>3, HeldIsFacts
  <2>2. current \in 1..Len(space)
    BY <1>1, <1>2, <1>3
  <2> QED BY <1>2, <2>1, <2>2, SpaceStays
<1>5. current_end \subseteq s
  <2> HIDE DEF s
  <2> QED BY <1>1, <1>2, <1>4, EvaluationIs
<1> QED BY <1>1, <1>5

LEMMA StartHasGoals ==
  ASSUME FollowInv, StartClimbing, pc' = "reached"
  PROVE  current_end' \subseteq plan_states'[Len(plan_states')]
<1> DEFINE s == plan_states[Len(plan_states)]  eval == get_1P_and_H(graph, s, current_end)
<1>1. /\ pc = "climb" /\ eval.h = 0 /\ eval.h # INFINITY
      /\ plan_states' = plan_states /\ current_end' = current_end
  <2>1. /\ pc = "climb" /\ plan_states' = plan_states /\ current_end' = current_end
        /\ pc' = CASE eval.h = INFINITY -> "fallback"
                   [] eval.h = 0        -> "reached"
                   [] OTHER             -> "widen"
    BY DEF StartClimbing, Start, Last, planVars
  <2> HIDE DEF eval
  <2>2. eval.h = 0
    BY <2>1
  <2> QED BY <2>1, <2>2 DEF INFINITY
<1>2. Held /\ IsTask(task)
  BY <1>1 DEF FollowInv
<1>3. Len(plan_states) \in 1..Len(plan_states)
  BY <1>2, SeqFacts DEF Held, PlanIsKept, IsRun
<1>4. s \in SUBSET graph.facts
  BY <1>2, <1>3, HeldIsFacts
<1>5. current_end \subseteq s
  <2> HIDE DEF s
  <2> QED BY <1>1, <1>2, <1>4, EvaluationIs
<1> QED BY <1>1, <1>5

LEMMA DoneHasGoals ==
  ASSUME AgendaInv, GoalInv, AgendaDone
  PROVE  Goals' \subseteq plan_states'[Len(plan_states')]
<1>1. /\ pc = "reached" /\ entry = Len(agenda) /\ plan_states' = plan_states /\ task' = task
  BY DEF AgendaDone, planVars
<1>2. current_end = Goals
  <2>1. agenda = compute_goal_agenda(graph, task.goals) /\ IsTask(task)
    BY <1>1 DEF AgendaInv
  <2>2. Len(agenda) \in Nat /\ UNION {agenda[k] : k \in 1..Len(agenda)} = Goals
    BY <2>1, AgendaIsList
  <2>3. current_end = UNION {agenda[k] : k \in 1..entry}
    BY <1>1, <2>2 DEF GoalInv
  <2> QED BY <1>1, <2>2, <2>3
<1> QED BY <1>1, <1>2 DEF GoalInv, Goals

LEMMA BestHasGoals ==
  ASSUME FollowInv, BestInv, ExtractPlan, pc' = "found"
  PROVE  Goals' \subseteq plan_states'[Len(plan_states')]
<1> DEFINE n == Head(open)
           p == NodesTo(n)
           states == <<task.initial>> \o [k \in DOMAIN p |-> nodes[p[k]].S]
<1>1. /\ pc = "best first" /\ open # <<>> /\ nodes[n].h = 0 /\ task' = task
      /\ plan_states' = <<plan_states[1]>> \o [k \in DOMAIN p |-> nodes[p[k]].S]
  BY DEF ExtractPlan
<1>2. /\ Held /\ IsTask(task) /\ IsTree(nodes) /\ open \in Seq(1..Len(nodes)) /\ AreWeighed(nodes)
  BY <1>1 DEF FollowInv, BestInv, HasSearched
<1>3. n \in 1..Len(nodes)
  BY <1>1, <1>2, HeadTailProperties
<1>4. plan_states' = states
  BY <1>1, <1>2 DEF Held
<1> HIDE DEF n
<1>5. states[Len(states)] = nodes[n].S
  <2> HIDE DEF p
  <2> QED BY <1>2, <1>3, ExtractedIsRun DEF p
<1>6. Goals \subseteq nodes[n].S
  <2>1. nodes[n].S \in SUBSET graph.facts /\ get_1P_and_H(graph, nodes[n].S, Goals).h = 0
    BY <1>1, <1>2, <1>3, TreeStays DEF AreWeighed, n
  <2> QED BY <1>2, <2>1, WeightMeans
<1> HIDE DEF states
<1> QED BY <1>1, <1>4, <1>5, <1>6 DEF Goals

LEMMA GoalStays == FollowInv /\ AgendaInv /\ BestInv /\ GoalInv /\ [SearchNext]_searchVars => GoalInv'
<1> SUFFICES ASSUME FollowInv, AgendaInv, BestInv, GoalInv, [SearchNext]_searchVars PROVE GoalInv'
  OBVIOUS
<1>0. pc' # "agenda" /\ entry' <= Len(agenda') => current_end' = UNION {agenda'[k] : k \in 1..entry'}
  BY EntryMoves
<1>1. CASE StartClimbing
  <2>1. pc' \notin {"extract", "found"}
    BY <1>1 DEF StartClimbing, Start
  <2> QED BY <1>0, <1>1, <2>1, StartHasGoals DEF GoalInv
<1>2. CASE ExpandFirstNode
  <2>1. pc' \notin {"reached", "found"}
    BY <1>2 DEF ExpandFirstNode, Judge
  <2> QED BY <1>0, <1>2, <2>1, BetterHasGoals DEF GoalInv
<1>3. CASE ExtractPlanFragment
  <2>1. pc' \notin {"extract", "found"}
    BY <1>3 DEF ExtractPlanFragment
  <2>2. ASSUME pc' = "reached" PROVE current_end' \subseteq plan_states'[Len(plan_states')]
    <3>1. pc = "extract" /\ h = 0 /\ S' = space[current].S /\ current_end' = current_end
      BY <1>3, <2>2 DEF ExtractPlanFragment
    <3>2. S' = plan_states'[Len(plan_states')]
      BY <1>3, <2>2, FragmentIsHeld
    <3> QED BY <3>1, <3>2 DEF GoalInv
  <2> QED BY <1>0, <2>1, <2>2 DEF GoalInv
<1>4. CASE AgendaDone
  <2>1. pc' = "found"
    BY <1>4 DEF AgendaDone
  <2> QED BY <1>0, <1>4, <2>1, DoneHasGoals DEF GoalInv
<1>5. CASE ExtractPlan
  <2>1. pc' \notin {"extract", "reached"}
    BY <1>5 DEF ExtractPlan
  <2> QED BY <1>0, <1>5, <2>1, BestHasGoals DEF GoalInv
<1>6. CASE UNCHANGED searchVars
  BY <1>0, <1>6 DEF GoalInv, Goals, searchVars, climbVars, planVars
<1>7. CASE \/ ComputeGoalAgenda \/ Widen \/ SpaceExhausted \/ NextEntry \/ StartBestFirst
           \/ ExpandBest \/ ProvenUnsolvable
  <2>1. pc' \notin {"extract", "reached", "found"}
    BY <1>7 DEF ComputeGoalAgenda, Widen, SpaceExhausted, NextEntry, StartBestFirst, ExpandBest,
                ProvenUnsolvable
  <2> QED BY <1>0, <2>1 DEF GoalInv
<1> QED BY <1>1, <1>2, <1>3, <1>4, <1>5, <1>6, <1>7 DEF SearchNext

LEMMA GoalAtFirst == SearchInit /\ pc = "agenda" /\ IsTask(task) => GoalInv
BY DEF SearchInit, GoalInv

LEMMA HeldIsFollowed == FollowInv /\ GoalInv => PlanFollowsStates
<1> SUFFICES ASSUME FollowInv, GoalInv, plan_states # <<>> PROVE PlanFollowsStates
  BY DEF PlanFollowsStates
<1>1. IsRun(plan_ops, plan_states) /\ (nodes = <<>> => Held)
  BY DEF FollowInv, Held, PlanIsKept
<1> DEFINE m == Len(plan_states)
<1>2. /\ m \in Nat /\ Len(plan_ops) \in Nat /\ m = Len(plan_ops) + 1
      /\ DOMAIN plan_states = 1..m /\ DOMAIN plan_ops = 1..Len(plan_ops)
  BY <1>1, SeqFacts DEF IsRun
<1>3. \A k \in DOMAIN plan_ops : plan_states[k + 1] = result_to_dest(graph, plan_states[k], plan_ops[k])
  BY <1>1, <1>2 DEF IsRun
<1>4. IsInjective(plan_states)
  BY <1>1, <1>2 DEF IsRun, IsInjective
<1>5. ASSUME nodes = <<>>, NEW s \in DOMAIN plan_hash \cup ToSet(plan_states)
      PROVE  /\ s \in ToSet(plan_states) <=> InPlan(plan_hash, s)
             /\ InPlan(plan_hash, s) => plan_states[plan_hash[s].step + 1] = s
  <2>1. IsKept(plan_states, plan_hash)
    BY <1>1, <1>5 DEF Held, PlanIsKept
  <2>2. \A k \in 1..m : plan_states[k] \in DOMAIN plan_hash /\ plan_hash[plan_states[k]].step = k - 1
    BY <2>1 DEF IsKept
  <2>3. s \in ToSet(plan_states) <=> \E k \in 1..m : plan_states[k] = s
    BY <1>2 DEF ToSet
  <2>4. ASSUME NEW k \in 1..m, plan_states[k] = s
        PROVE  InPlan(plan_hash, s) /\ plan_states[plan_hash[s].step + 1] = s
    <3>1. s \in DOMAIN plan_hash /\ plan_hash[s].step = k - 1 /\ (k - 1) + 1 = k
      BY <1>2, <2>2, <2>4
    <3>2. k - 1 # INVALID
      BY <1>2 DEF INVALID
    <3> QED BY <2>4, <3>1, <3>2 DEF InPlan
  <2>5. InPlan(plan_hash, s) => \E k \in 1..m : plan_states[k] = s
    BY <2>1 DEF IsKept, InPlan
  <2> QED BY <2>3, <2>4, <2>5
<1>6. pc = "found" => Goals \subseteq Last(plan_states)
  BY DEF GoalInv, Last
<1> QED BY <1>2, <1>3, <1>4, <1>5, <1>6 DEF PlanFollowsStates, Goals

\* The operators of the plan lead through its states, the table has them, and the
\* last state of a plan that was found has all goals.
THEOREM PlanIsFollowed == SearchSpec => []PlanFollowsStates
BY FollowAtFirst, FollowStays, AgendaAtFirst, AgendaStays, BestAtFirst, BestStays,
   GoalAtFirst, GoalStays, HeldIsFollowed, PTL DEF SearchSpec

\* None of the three messages "debug me" of extract_plan_fragment and hash_plan_state
\* is ever printed.
THEOREM NothingToDebug == SearchSpec => [](pc # "debug me")
<1>1. FollowInv => pc # "debug me"
  BY DEF FollowInv
<1> QED BY <1>1, FollowAtFirst, FollowStays, PTL DEF SearchSpec

-----------------------------------------------------------------------------
(* What is selected in an extraction is a relaxed plan                     *)

AddedAt(r, f, t) ==
  \E k \in 1..Len(r.in_plan) :
    r.in_plan[k][2] = t /\ f \in AddedWith(graph, r.in_plan[k][1])

\* What is selected from the last layer down to step time: each effect comes in
\* before its step, and each of its preconditions is a goal or added at the same
\* step before it.
IsSelection(r, F, goals, max, time) ==
  /\ IsSeq(r.in_plan)
  /\ \A k \in 1..Len(r.in_plan) :
       /\ r.in_plan[k][2] \in time..(Len(F) - 1)
       /\ graph.ef[r.in_plan[k][1]].PC \subseteq F[r.in_plan[k][2]].facts
       /\ \A f \in graph.ef[r.in_plan[k][1]].PC :
            \/ f \in r.is_goal
            \/ \E j \in 1..(k - 1) : /\ r.in_plan[j][2] = r.in_plan[k][2]
                                     /\ f \in AddedWith(graph, r.in_plan[j][1])
  /\ \A f \in DOMAIN r.is_true : AddedAt(r, f, r.is_true[f])
  /\ goals \subseteq r.is_goal /\ r.is_goal \subseteq F[Len(F)].facts
  /\ \A f \in r.is_goal :
       /\ FactLevel(F, f) \in 0..max
       /\ \E i \in 1..Len(r.goals_at[FactLevel(F, f)]) : r.goals_at[FactLevel(F, f)][i] = f
  /\ r.used = {<<graph.ef[r.in_plan[k][1]].op, r.in_plan[k][2]>> : k \in 1..Len(r.in_plan)}

\* From r to q, no goal has been put at step time or later, and what was added still is.
GrewBelow(q, r, max, time) ==
  /\ \A t \in time..max :
       /\ Len(q.goals_at[t]) = Len(r.goals_at[t])
       /\ \A i \in 1..Len(r.goals_at[t]) : q.goals_at[t][i] = r.goals_at[t][i]
  /\ \A f, t : AddedAt(r, f, t) => AddedAt(q, f, t)

LEMMA SelectedGrows ==
  ASSUME IsTask(task), NEW F, NEW s, NEW init, IsLayers(F, s, init), NEW goals, NEW max \in Nat, NEW r,
         IsExtraction(r, F, max), NEW time \in 1..max, IsSelection(r, F, goals, max, time),
         time <= Len(F) - 1,
         NEW e \in DOMAIN graph.ef, graph.ef[e].PC \subseteq F[time].facts
  PROVE  LET q == Selected(graph, F, time, r, e)
         IN  /\ IsSelection(q, F, goals, max, time) /\ GrewBelow(q, r, max, time)
             /\ \A f \in AddedWith(graph, e) : AddedAt(q, f, time)
<1> DEFINE q == Selected(graph, F, time, r, e)
           unmet == {f \in graph.ef[e].PC : ~TrueAt(r, f, time) /\ f \notin r.is_goal}
           new(t) == {f \in unmet : FactLevel(F, f) = t}
           p == r.in_plan
           n == Len(p)
<1>0. Len(F) \in Nat /\ time \in 1..Len(F) /\ Len(F) \in time..Len(F) /\ IsSeq(p) /\ n \in Nat
  BY SeqFacts DEF IsLayers, IsSelection
<1>1. /\ q.goals_at = [t \in DOMAIN r.goals_at |-> r.goals_at[t] \o Increasing(new(t))]
      /\ q.used = r.used \cup {<<graph.ef[e].op, time>>}
      /\ q.is_goal = r.is_goal \cup unmet
      /\ q.is_true = Marked(r.is_true, AddedWith(graph, e), time)
      /\ q.in_plan = Append(p, <<e, time>>)
  BY DEF Selected
<1>2. /\ IsSeq(q.in_plan) /\ Len(q.in_plan) = n + 1
      /\ \A k \in 1..n : q.in_plan[k] = p[k]
      /\ q.in_plan[n + 1] = <<e, time>>
  BY <1>0, <1>1, AppendFacts
<1>3. \A f \in unmet : f \in F[time].facts /\ f \in F[Len(F)].facts /\ FactLevel(F, f) \in 0..(time - 1)
  <2> SUFFICES ASSUME NEW f \in unmet
               PROVE  f \in F[Len(F)].facts /\ FactLevel(F, f) \in 0..(time - 1)
    OBVIOUS
  <2>1. f \in F[time].facts
    OBVIOUS
  <2>2. f \in F[Len(F)].facts
    BY <1>0, <2>1, LayersGrow
  <2>3. FactLevel(F, f) \in 0..(Len(F) - 1) /\ FactLevel(F, f) <= time - 1
    BY <1>0, <2>1, <2>2, LevelIsFirst
  <2> QED BY <1>0, <2>2, <2>3
<1>4. unmet \in SUBSET graph.facts
  BY DEF IsTask, graph
<1>5. \A f \in graph.ef[e].PC : f \in unmet \/ f \in r.is_goal \/ TrueAt(r, f, time)
  OBVIOUS
<1> HIDE DEF q, unmet
<1>6. ASSUME NEW t \in 0..max
      PROVE  /\ IsSeq(r.goals_at[t]) /\ IsSeq(Increasing(new(t))) /\ Len(r.goals_at[t]) \in Nat
             /\ Len(Increasing(new(t))) = Cardinality(new(t)) /\ Cardinality(new(t)) \in Nat
             /\ \A f \in new(t) : \E k \in 1..Len(Increasing(new(t))) : Increasing(new(t))[k] = f
             /\ q.goals_at[t] = r.goals_at[t] \o Increasing(new(t))
  <2>1. new(t) \in SUBSET Int /\ IsFiniteSet(new(t))
    <3>1. new(t) \in SUBSET graph.facts
      BY <1>4
    <3> QED BY <3>1, FS_Subset DEF IsTask, graph
  <2>2. IsSeq(r.goals_at[t]) /\ q.goals_at[t] = r.goals_at[t] \o Increasing(new(t))
    BY <1>1 DEF IsExtraction
  <2> DEFINE X == new(t)
  <2>3. X \in SUBSET Int /\ IsFiniteSet(X)
    BY <2>1
  <2> HIDE DEF X
  <2>4. IsSeq(Increasing(X)) /\ Len(Increasing(X)) = Cardinality(X) /\ Cardinality(X) \in Nat
    BY <2>3, IncreasingIsSeq, FS_CardinalityType
  <2>5. \A f \in X : \E k \in 1..Len(Increasing(X)) : Increasing(X)[k] = f
    <3>1. DOMAIN Increasing(X) = 1..Len(Increasing(X))
      BY <2>4, SeqFacts
    <3> QED BY <2>3, <3>1, IncreasingIsInOrder
  <2> QED BY <2>2, <2>4, <2>5, SeqFacts DEF X
<1>7. ASSUME NEW t \in 0..max
      PROVE  /\ Len(q.goals_at[t]) = Len(r.goals_at[t]) + Cardinality(new(t))
             /\ \A i \in 1..Len(r.goals_at[t]) : q.goals_at[t][i] = r.goals_at[t][i]
             /\ \A f \in new(t) : \E i \in 1..Len(q.goals_at[t]) : q.goals_at[t][i] = f
  <2> DEFINE a == r.goals_at[t]  b == Increasing(new(t))
  <2>1. /\ IsSeq(a) /\ IsSeq(b) /\ Len(a) \in Nat /\ Len(b) = Cardinality(new(t)) /\ Len(b) \in Nat
        /\ \A f \in new(t) : \E k \in 1..Len(b) : b[k] = f
        /\ q.goals_at[t] = a \o b
    BY <1>6
  <2> HIDE DEF a, b
  <2>2. /\ Len(a \o b) = Len(a) + Len(b)
        /\ \A i \in 1..Len(a) : (a \o b)[i] = a[i]
        /\ \A i \in 1..Len(b) : (a \o b)[Len(a) + i] = b[i]
    <3>1. IsSeq(a) /\ IsSeq(b)
      BY <2>1
    <3> HIDE DEF new
    <3> QED BY <3>1, ConcatFacts
  <2>3. ASSUME NEW f \in new(t) PROVE \E i \in 1..Len(a \o b) : (a \o b)[i] = f
    <3>1. PICK k \in 1..Len(b) : b[k] = f
      BY <2>1
    <3>2. Len(a) + k \in 1..Len(a \o b)
      BY <2>1, <2>2
    <3> QED BY <2>2, <3>1, <3>2
  <2>4. /\ Len(q.goals_at[t]) = Len(a) + Cardinality(new(t))
        /\ \A i \in 1..Len(a) : q.goals_at[t][i] = a[i]
        /\ \A f \in new(t) : \E i \in 1..Len(q.goals_at[t]) : q.goals_at[t][i] = f
    BY <2>1, <2>2, <2>3
  <2> QED BY <2>4 DEF a
<1>8. \A f, t : AddedAt(r, f, t) => AddedAt(q, f, t)
  <2> SUFFICES ASSUME NEW f, NEW t, AddedAt(r, f, t) PROVE AddedAt(q, f, t)
    OBVIOUS
  <2>1. PICK k \in 1..n : p[k][2] = t /\ f \in AddedWith(graph, p[k][1])
    BY DEF AddedAt
  <2>2. k \in 1..(n + 1)
    BY <1>0
  <2> QED BY <1>2, <2>1, <2>2 DEF AddedAt
<1>9. \A f \in AddedWith(graph, e) : AddedAt(q, f, time)
  <2>1. n + 1 \in 1..(n + 1) /\ <<e, time>>[1] = e /\ <<e, time>>[2] = time
    BY <1>0
  <2> QED BY <1>2, <2>1 DEF AddedAt
<1>10. GrewBelow(q, r, max, time)
  <2>1. ASSUME NEW t \in time..max PROVE Len(q.goals_at[t]) = Len(r.goals_at[t])
    <3>1. t \in 0..max
      OBVIOUS
    <3>2. new(t) = {}
      <4> SUFFICES ASSUME NEW f \in unmet, FactLevel(F, f) = t PROVE FALSE
        OBVIOUS
      <4> QED BY <1>3
    <3>3. Cardinality(new(t)) = 0
      BY <3>2, FS_EmptySet
    <3> HIDE DEF new
    <3> QED BY <1>6, <1>7, <3>1, <3>3
  <2>2. \A t \in time..max : t \in 0..max
    OBVIOUS
  <2> QED BY <1>7, <1>8, <2>1, <2>2 DEF GrewBelow
<1>11. ASSUME NEW k \in 1..Len(q.in_plan)
       PROVE  /\ q.in_plan[k][2] \in time..(Len(F) - 1)
              /\ graph.ef[q.in_plan[k][1]].PC \subseteq F[q.in_plan[k][2]].facts
              /\ \A f \in graph.ef[q.in_plan[k][1]].PC :
                   \/ f \in q.is_goal
                   \/ \E j \in 1..(k - 1) : /\ q.in_plan[j][2] = q.in_plan[k][2]
                                            /\ f \in AddedWith(graph, q.in_plan[j][1])
  <2>1. CASE k \in 1..n
    <3>1. q.in_plan[k] = p[k] /\ \A j \in 1..(k - 1) : j \in 1..n /\ q.in_plan[j] = p[j]
      BY <1>0, <1>2, <2>1
    <3>2. /\ p[k][2] \in time..(Len(F) - 1)
          /\ graph.ef[p[k][1]].PC \subseteq F[p[k][2]].facts
          /\ \A f \in graph.ef[p[k][1]].PC :
               \/ f \in r.is_goal
               \/ \E j \in 1..(k - 1) : /\ p[j][2] = p[k][2]
                                        /\ f \in AddedWith(graph, p[j][1])
      BY <2>1 DEF IsSelection
    <3> QED BY <1>1, <3>1, <3>2
  <2>2. CASE k = n + 1
    <3>1. q.in_plan[k][1] = e /\ q.in_plan[k][2] = time
      BY <1>2, <2>2
    <3>2. ASSUME NEW f \in graph.ef[e].PC, TrueAt(r, f, time)
          PROVE  \E j \in 1..(k - 1) : /\ q.in_plan[j][2] = time
                                       /\ f \in AddedWith(graph, q.in_plan[j][1])
      <4>1. AddedAt(r, f, time)
        BY <3>2 DEF TrueAt, IsSelection
      <4>2. PICK j \in 1..n : p[j][2] = time /\ f \in AddedWith(graph, p[j][1])
        BY <4>1 DEF AddedAt
      <4>3. k - 1 = n
        BY <1>0, <2>2
      <4> QED BY <1>2, <4>2, <4>3
    <3>3. \A f \in graph.ef[e].PC : f \in q.is_goal \/ TrueAt(r, f, time)
      BY <1>1, <1>5
    <3>4. time \in time..(Len(F) - 1)
      BY <1>0
    <3> QED BY <3>1, <3>2, <3>3, <3>4
  <2> QED BY <1>0, <1>2, <2>1, <2>2
<1>12. ASSUME NEW f \in DOMAIN q.is_true PROVE AddedAt(q, f, q.is_true[f])
  <2>1. CASE f \in AddedWith(graph, e)
    <3>1. q.is_true[f] = time
      BY <1>1, <2>1 DEF Marked
    <3> QED BY <1>9, <2>1, <3>1
  <2>2. CASE f \notin AddedWith(graph, e)
    <3>1. f \in DOMAIN r.is_true /\ q.is_true[f] = r.is_true[f]
      BY <1>1, <1>12, <2>2 DEF Marked
    <3>2. AddedAt(r, f, r.is_true[f])
      BY <3>1 DEF IsSelection
    <3> QED BY <1>8, <3>1, <3>2
  <2> QED BY <2>1, <2>2
<1>13. ASSUME NEW f \in q.is_goal
       PROVE  /\ FactLevel(F, f) \in 0..max
              /\ \E i \in 1..Len(q.goals_at[FactLevel(F, f)]) : q.goals_at[FactLevel(F, f)][i] = f
  <2> DEFINE t == FactLevel(F, f)
  <2>1. CASE f \in r.is_goal
    <3>1. t \in 0..max /\ \E i \in 1..Len(r.goals_at[t]) : r.goals_at[t][i] = f
      BY <2>1 DEF IsSelection
    <3> HIDE DEF t, new
    <3>2. PICK i \in 1..Len(r.goals_at[t]) : r.goals_at[t][i] = f
      BY <3>1
    <3>3. i \in 1..Len(q.goals_at[t])
      <4>1. /\ Len(r.goals_at[t]) \in Nat /\ Cardinality(new(t)) \in Nat
            /\ Len(q.goals_at[t]) = Len(r.goals_at[t]) + Cardinality(new(t))
        BY <1>6, <1>7, <3>1
      <4> QED BY <4>1
    <3> QED BY <1>7, <3>1, <3>2, <3>3 DEF t
  <2>2. CASE f \in unmet
    <3>1. t \in 0..max /\ f \in new(t)
      BY <1>3, <2>2
    <3> HIDE DEF t, new
    <3> QED BY <1>7, <3>1 DEF t
  <2> QED BY <1>1, <1>13, <2>1, <2>2
<1>14. q.used = {<<graph.ef[q.in_plan[k][1]].op, q.in_plan[k][2]>> : k \in 1..Len(q.in_plan)}
  <2> DEFINE pair(k) == <<graph.ef[q.in_plan[k][1]].op, q.in_plan[k][2]>>
  <2>1. r.used = {<<graph.ef[p[k][1]].op, p[k][2]>> : k \in 1..n}
    BY DEF IsSelection
  <2>2. \A k \in 1..n : pair(k) = <<graph.ef[p[k][1]].op, p[k][2]>>
    BY <1>2
  <2>3. pair(n + 1) = <<graph.ef[e].op, time>>
    BY <1>2
  <2>4. 1..Len(q.in_plan) = (1..n) \cup {n + 1}
    BY <1>0, <1>2
  <2>5. r.used = {pair(k) : k \in 1..n}
    BY <2>1, <2>2
  <2> HIDE DEF pair
  <2>6. q.used = {pair(k) : k \in 1..Len(q.in_plan)}
    BY <1>1, <2>3, <2>4, <2>5
  <2> QED BY <2>6 DEF pair
<1>15. goals \subseteq q.is_goal /\ q.is_goal \subseteq F[Len(F)].facts
  BY <1>1, <1>3 DEF IsSelection
<1>16. IsSelection(q, F, goals, max, time)
  BY <1>2, <1>11, <1>12, <1>13, <1>14, <1>15 DEF IsSelection
<1> QED BY <1>9, <1>10, <1>16 DEF q

LEMMA GrowsOn ==
  ASSUME NEW F, NEW max, NEW time, NEW a, NEW b, NEW c,
         GrewBelow(b, a, max, time), GrewBelow(c, b, max, time)
  PROVE  GrewBelow(c, a, max, time)
BY DEF GrewBelow

\* The goals of one step are added at this step.
LEMMA AchievePlans ==
  ASSUME IsTask(task), NEW F, NEW s, NEW init, IsLayers(F, s, init), NEW goals, NEW max \in Nat, NEW r,
         IsExtraction(r, F, max), NEW time \in 1..max, IsSelection(r, F, goals, max, time)
  PROVE  LET q == achieve_goals(graph, F, r, time)
         IN  /\ IsExtraction(q, F, max) /\ IsSelection(q, F, goals, max, time)
             /\ GrewBelow(q, r, max, time)
             /\ \A i \in 1..Len(r.goals_at[time]) : AddedAt(q, r.goals_at[time][i], time)
<1> DEFINE list == r.goals_at[time]  n == Len(list)
<1>1. /\ IsSeq(list) /\ n \in Nat
      /\ \A k \in 1..n : list[k] \in F[Len(F)].facts /\ FactLevel(F, list[k]) = time
  <2>1. time \in 0..max
    OBVIOUS
  <2> QED BY <2>1, SeqFacts DEF IsExtraction
<1>2. PICK A : AreAchieved(A, F, r, time)
  BY <1>1, AchieveSteps
<1>3. A[0] = r /\ \A j \in 1..n : A[j] = AchieveGoal(graph, F, time, A[j - 1], list[j])
  BY <1>2 DEF AreAchieved
<1> DEFINE Good(j) ==
       /\ IsExtraction(A[j], F, max) /\ IsSelection(A[j], F, goals, max, time)
       /\ GrewBelow(A[j], r, max, time)
       /\ \A i \in 1..j : AddedAt(A[j], list[i], time)
           T == {j \in Nat : j <= n => Good(j)}
<1>4. 0 \in T
  <2>1. GrewBelow(r, r, max, time)
    BY DEF GrewBelow
  <2> QED BY <1>3, <2>1
<1>5. ASSUME NEW j \in Nat, j \in T PROVE j + 1 \in T
  <2> SUFFICES ASSUME j + 1 <= n PROVE Good(j + 1)
    OBVIOUS
  <2> DEFINE f == list[j + 1]  e == Achiever(graph, F, f, time)
  <2>0. j + 1 \in 1..n /\ (j + 1) - 1 = j
    BY <1>1
  <2>1. Good(j)
    BY <1>1, <1>5
  <2>2. f \in F[Len(F)].facts /\ time = FactLevel(F, f) /\ time >= 1
    BY <1>1, <2>0
  <2>3. A[j + 1] = AchieveGoal(graph, F, time, A[j], f)
    BY <1>3, <2>0
  <2>4. e \in Adders(graph, f) /\ graph.ef[e].PC \subseteq F[time].facts
    <3> HIDE DEF f
    <3> QED BY <2>2, AchieverIs
  <2>5. e \in DOMAIN graph.ef /\ f \in AddedWith(graph, e)
    BY <2>4 DEF Adders, Kept, AddedWith
  <2>6. time <= Len(F) - 1
    <3>1. time \in 0..(Len(F) - 1)
      BY <2>2, LevelIsFirst
    <3>2. Len(F) \in Nat
      BY SeqFacts DEF IsLayers
    <3> QED BY <3>1, <3>2
  <2> HIDE DEF e
  <2>7. /\ IsExtraction(A[j + 1], F, max) /\ IsSelection(A[j + 1], F, goals, max, time)
        /\ GrewBelow(A[j + 1], A[j], max, time) /\ AddedAt(A[j + 1], f, time)
    <3>1. CASE TrueAt(A[j], f, time)
      <4>1. A[j + 1] = A[j]
        BY <2>3, <3>1 DEF AchieveGoal
      <4>2. AddedAt(A[j], f, time)
        BY <2>1, <3>1 DEF TrueAt, IsSelection
      <4>3. GrewBelow(A[j], A[j], max, time)
        BY DEF GrewBelow
      <4> QED BY <2>1, <4>1, <4>2, <4>3
    <3>2. CASE ~TrueAt(A[j], f, time)
      <4> DEFINE a == A[j]
      <4>1. A[j + 1] = Selected(graph, F, time, a, e)
        BY <2>3, <3>2 DEF AchieveGoal, e
      <4>2. IsExtraction(a, F, max) /\ IsSelection(a, F, goals, max, time)
        BY <2>1
      <4>3. graph.ef[e].PC \subseteq F[Len(F)].facts
        <5>1. time \in 1..Len(F) /\ Len(F) \in time..Len(F)
          BY <2>6, SeqFacts DEF IsLayers
        <5> QED BY <2>4, <5>1, LayersGrow
      <4> HIDE DEF a, f
      <4>4. IsExtraction(A[j + 1], F, max)
        BY <2>5, <4>1, <4>2, <4>3, SelectedIs
      <4>5. /\ IsSelection(A[j + 1], F, goals, max, time) /\ GrewBelow(A[j + 1], a, max, time)
            /\ \A x \in AddedWith(graph, e) : AddedAt(A[j + 1], x, time)
        BY <2>4, <2>5, <2>6, <4>1, <4>2, SelectedGrows
      <4> QED BY <2>5, <4>4, <4>5 DEF a
    <3> QED BY <3>1, <3>2
  <2>8. GrewBelow(A[j + 1], r, max, time)
    BY <2>1, <2>7, GrowsOn
  <2>9. ASSUME NEW i \in 1..(j + 1) PROVE AddedAt(A[j + 1], list[i], time)
    <3>1. CASE i = j + 1
      BY <2>7, <3>1
    <3>2. CASE i # j + 1
      <4>1. i \in 1..j
        BY <3>2
      <4>2. AddedAt(A[j], list[i], time)
        BY <2>1, <4>1
      <4> QED BY <2>7, <4>2 DEF GrewBelow
    <3> QED BY <3>1, <3>2
  <2> QED BY <2>7, <2>8, <2>9
<1>6. Good(n)
  <2>1. n \in T
    <3> HIDE DEF T, n
    <3> QED BY <1>1, <1>4, <1>5, Upwards
  <2> QED BY <1>1, <2>1
<1>7. achieve_goals(graph, F, r, time) = A[n]
  BY <1>2 DEF AreAchieved
<1> QED BY <1>6, <1>7

\* Step by step down to the state, every goal above it is added at its level.
LEMMA ExtractionSelects ==
  ASSUME IsTask(task), NEW F, NEW s, NEW goals \in SUBSET F[Len(F)].facts, IsLayers(F, s, goals),
         NEW max \in Nat, max = Max(GoalLevels(F, goals)),
         \A f \in goals : FactLevel(F, f) \in 0..max
  PROVE  LET r == extract_1P(graph, F, goals)
         IN  /\ IsSelection(r, F, goals, max, 1)
             /\ \A t \in 1..max : \A i \in 1..Len(r.goals_at[t]) : AddedAt(r, r.goals_at[t][i], t)
<1>0. goals \in SUBSET Int /\ IsFiniteSet(goals)
  <2>1. Len(F) \in 1..Len(F)
    BY SeqFacts DEF IsLayers
  <2>2. goals \in SUBSET graph.facts
    BY <2>1 DEF IsLayers
  <2> QED BY <2>2, FS_Subset DEF IsTask, graph
<1>1. PICK A : AreDown(A, F, max, goals)
  BY DownSteps
<1>2. A[0] = initialize_goals(F, max, goals) /\ \A k \in 1..max : A[k] = StepDown(F, A[k - 1], k)
  BY <1>1 DEF AreDown, Upto
<1> DEFINE at(t) == {f \in goals : FactLevel(F, f) = t}
<1>3. /\ A[0].goals_at = [t \in 0..max |-> Increasing(at(t))] /\ A[0].is_goal = goals
      /\ A[0].used = {} /\ A[0].in_plan = <<>> /\ DOMAIN A[0].is_true = {}
  BY <1>2 DEF initialize_goals
<1>4. ASSUME NEW t \in 0..max
      PROVE  /\ IsSeq(Increasing(at(t)))
             /\ \A k \in 1..Len(Increasing(at(t))) : Increasing(at(t))[k] \in at(t)
             /\ \A f \in at(t) : \E k \in 1..Len(Increasing(at(t))) : Increasing(at(t))[k] = f
  <2>1. at(t) \in SUBSET goals
    OBVIOUS
  <2> HIDE DEF at
  <2>2. at(t) \in SUBSET Int /\ IsFiniteSet(at(t))
    BY <1>0, <2>1, FS_Subset
  <2>3. IsSeq(Increasing(at(t))) /\ \A k \in 1..Len(Increasing(at(t))) : Increasing(at(t))[k] \in at(t)
    BY <2>2, IncreasingIsSeq
  <2>4. DOMAIN Increasing(at(t)) = 1..Len(Increasing(at(t)))
    BY <2>3, SeqFacts
  <2> QED BY <2>2, <2>3, <2>4, IncreasingIsInOrder
<1>5. IsExtraction(A[0], F, max)
  BY <1>3, <1>4, FS_EmptySet DEF IsExtraction
<1>6. IsSelection(A[0], F, goals, max, max + 1)
  <2>1. IsSeq(A[0].in_plan) /\ Len(A[0].in_plan) = 0
    BY <1>3 DEF IsSeq
  <2>2. ASSUME NEW f \in goals
        PROVE  \E i \in 1..Len(A[0].goals_at[FactLevel(F, f)]) : A[0].goals_at[FactLevel(F, f)][i] = f
    <3> DEFINE t == FactLevel(F, f)
    <3>1. t \in 0..max /\ f \in at(t)
      OBVIOUS
    <3> HIDE DEF t, at
    <3>2. A[0].goals_at[t] = Increasing(at(t))
      BY <1>3, <3>1
    <3>3. \E i \in 1..Len(A[0].goals_at[t]) : A[0].goals_at[t][i] = f
      BY <1>4, <3>1, <3>2
    <3> QED BY <3>3 DEF t
  <2> DEFINE r == A[0]
  <2>3. r.in_plan = <<>> /\ r.is_goal = goals /\ DOMAIN r.is_true = {} /\ r.used = {}
    BY <1>3
  <2> HIDE DEF r, at
  <2>4. 1..Len(r.in_plan) = {} /\ IsSeq(r.in_plan)
    BY <2>1 DEF r
  <2>5. r.used = {<<graph.ef[r.in_plan[k][1]].op, r.in_plan[k][2]>> : k \in 1..Len(r.in_plan)}
    BY <2>3, <2>4
  <2>6. \A f \in r.is_goal :
          /\ FactLevel(F, f) \in 0..max
          /\ \E i \in 1..Len(r.goals_at[FactLevel(F, f)]) : r.goals_at[FactLevel(F, f)][i] = f
    BY <2>2, <2>3 DEF r
  <2>7. IsSelection(r, F, goals, max, max + 1)
    BY <2>3, <2>4, <2>5, <2>6 DEF IsSelection
  <2> QED BY <2>7 DEF r
<1> DEFINE Met(k) ==
       /\ IsExtraction(A[k], F, max) /\ IsSelection(A[k], F, goals, max, (max + 1) - k)
       /\ \A t \in ((max + 1) - k)..max :
            \A i \in 1..Len(A[k].goals_at[t]) : AddedAt(A[k], A[k].goals_at[t][i], t)
           T == {k \in Nat : k <= max => Met(k)}
<1>7. 0 \in T
  BY <1>5, <1>6
<1>8. ASSUME NEW k \in Nat, k \in T PROVE k + 1 \in T
  <2> SUFFICES ASSUME k + 1 <= max PROVE Met(k + 1)
    OBVIOUS
  <2> DEFINE time == (max + 1) - (k + 1)  a == A[k]  b == A[k + 1]
  <2>1. time \in 1..max /\ (max + 1) - k = time + 1 /\ k + 1 \in 1..max /\ (k + 1) - 1 = k
    OBVIOUS
  <2>2. Met(k)
    BY <1>8
  <2>3. b = achieve_goals(graph, F, a, time)
    <3>1. DOMAIN A[k].goals_at = 0..max
      BY <2>2 DEF IsExtraction
    <3>2. Cardinality(0..max) = max + 1
      BY FS_Interval
    <3>3. A[k + 1] = StepDown(F, A[k], k + 1)
      BY <1>2, <2>1
    <3> QED BY <3>1, <3>2, <3>3 DEF StepDown
  <2> HIDE DEF time
  <2>4. /\ IsExtraction(a, F, max) /\ IsSelection(a, F, goals, max, time + 1)
        /\ \A t \in (time + 1)..max :
             \A i \in 1..Len(a.goals_at[t]) : AddedAt(a, a.goals_at[t][i], t)
    BY <2>1, <2>2
  <2> HIDE DEF a, b
  <2>5. IsSelection(a, F, goals, max, time)
    <3>1. \A u \in (time + 1)..(Len(F) - 1) : u \in time..(Len(F) - 1)
      BY <2>1
    <3> QED BY <2>4, <3>1 DEF IsSelection
  <2>6. /\ IsExtraction(b, F, max) /\ IsSelection(b, F, goals, max, time)
        /\ GrewBelow(b, a, max, time)
        /\ \A i \in 1..Len(a.goals_at[time]) : AddedAt(b, a.goals_at[time][i], time)
    BY <2>1, <2>3, <2>4, <2>5, AchievePlans
  <2>7. ASSUME NEW t \in time..max, NEW i \in 1..Len(b.goals_at[t]) PROVE AddedAt(b, b.goals_at[t][i], t)
    <3>1. i \in 1..Len(a.goals_at[t]) /\ b.goals_at[t][i] = a.goals_at[t][i]
      BY <2>6 DEF GrewBelow
    <3>2. CASE t = time
      BY <2>6, <3>1, <3>2
    <3>3. CASE t # time
      <4>1. t \in (time + 1)..max
        BY <2>1, <3>3
      <4>2. AddedAt(a, a.goals_at[t][i], t)
        BY <2>4, <3>1, <4>1
      <4> QED BY <2>6, <3>1, <4>2 DEF GrewBelow
    <3> QED BY <3>2, <3>3
  <2>8. /\ IsExtraction(b, F, max) /\ IsSelection(b, F, goals, max, time)
        /\ \A t \in time..max : \A i \in 1..Len(b.goals_at[t]) : AddedAt(b, b.goals_at[t][i], t)
    BY <2>6, <2>7
  <2> QED BY <2>8 DEF b, time
<1>9. Met(max)
  <2>1. max \in T
    <3> HIDE DEF T
    <3> QED BY <1>7, <1>8, Upwards
  <2> QED BY <2>1
<1>10. extract_1P(graph, F, goals) = A[max] /\ (max + 1) - max = 1
  BY <1>1 DEF AreDown
<1> QED BY <1>9, <1>10

\* What the effects of a relaxed plan do, in the order of their steps and of
\* their selection.
Before(p, k) == {j \in DOMAIN p : p[j][2] < p[k][2] \/ (p[j][2] = p[k][2] /\ j < k)}

After(p, s, K) == s \cup UNION {AddedWith(graph, p[j][1]) : j \in K}

IsRelaxedPlan(eval, s, goals) ==
  /\ \A k \in DOMAIN eval.in_plan :
       graph.ef[eval.in_plan[k][1]].PC \subseteq After(eval.in_plan, s, Before(eval.in_plan, k))
  /\ goals \subseteq After(eval.in_plan, s, DOMAIN eval.in_plan)
  /\ eval.h = Cardinality({<<graph.ef[eval.in_plan[k][1]].op, eval.in_plan[k][2]>> : k \in DOMAIN eval.in_plan})

\* The preconditions and goals above the state are added at their levels.
LEMMA SelectionWorks ==
  ASSUME NEW F, NEW s, NEW goals, IsLayers(F, s, goals), NEW max \in Nat, NEW r,
         IsSelection(r, F, goals, max, 1),
         \A t \in 1..max : \A i \in 1..Len(r.goals_at[t]) : AddedAt(r, r.goals_at[t][i], t)
  PROVE  /\ \A k \in DOMAIN r.in_plan :
              graph.ef[r.in_plan[k][1]].PC \subseteq After(r.in_plan, s, Before(r.in_plan, k))
         /\ goals \subseteq After(r.in_plan, s, DOMAIN r.in_plan)
<1> DEFINE p == r.in_plan  n == Len(p)
<1>1. n \in Nat /\ DOMAIN p = 1..n /\ Len(F) \in Nat \ {0} /\ F[1].facts = s
  BY SeqFacts DEF IsSelection, IsLayers
<1>2. ASSUME NEW f \in r.is_goal
      PROVE  /\ f \in F[Len(F)].facts /\ FactLevel(F, f) \in Nat
             /\ f \in s \/ AddedAt(r, f, FactLevel(F, f))
  <2> DEFINE t == FactLevel(F, f)
  <2>1. f \in F[Len(F)].facts /\ t \in 0..max
    BY DEF IsSelection
  <2>2. PICK i \in 1..Len(r.goals_at[t]) : r.goals_at[t][i] = f
    BY DEF IsSelection
  <2>3. f \in F[t + 1].facts
    BY <2>1, LevelIsFirst
  <2> HIDE DEF t
  <2>4. CASE t = 0
    BY <1>1, <2>1, <2>3, <2>4 DEF t
  <2>5. CASE t # 0
    <3>1. t \in 1..max
      BY <2>1, <2>5
    <3>2. AddedAt(r, f, t)
      BY <2>2, <3>1
    <3> QED BY <2>1, <3>2 DEF t
  <2> QED BY <2>4, <2>5
<1>3. ASSUME NEW k \in 1..n, NEW f \in graph.ef[p[k][1]].PC
      PROVE  f \in After(p, s, Before(p, k))
  <2>1. p[k][2] \in 1..(Len(F) - 1) /\ f \in F[p[k][2]].facts
    BY DEF IsSelection
  <2>2. CASE f \in r.is_goal
    <3>1. f \in s \/ AddedAt(r, f, FactLevel(F, f))
      BY <1>2, <2>2
    <3>2. ASSUME AddedAt(r, f, FactLevel(F, f)) PROVE f \in After(p, s, Before(p, k))
      <4>1. FactLevel(F, f) \in Nat /\ FactLevel(F, f) <= p[k][2] - 1
        <5>1. p[k][2] \in 1..Len(F)
          BY <1>1, <2>1
        <5>2. \A t \in 1..Len(F) : f \in F[t].facts => FactLevel(F, f) <= t - 1
          BY <1>2, <2>2, LevelIsFirst
        <5> QED BY <1>2, <2>1, <2>2, <5>1, <5>2
      <4>2. PICK j \in 1..n : p[j][2] = FactLevel(F, f) /\ f \in AddedWith(graph, p[j][1])
        BY <3>2 DEF AddedAt
      <4>3. p[j][2] < p[k][2]
        BY <2>1, <4>1, <4>2
      <4>4. j \in Before(p, k)
        BY <1>1, <4>3 DEF Before
      <4> QED BY <4>2, <4>4 DEF After
    <3> QED BY <3>1, <3>2 DEF After
  <2>3. CASE f \notin r.is_goal
    <3>1. PICK j \in 1..(k - 1) : p[j][2] = p[k][2] /\ f \in AddedWith(graph, p[j][1])
      BY <2>3 DEF IsSelection
    <3>2. j \in 1..n /\ j < k
      BY <1>1
    <3>3. j \in Before(p, k)
      BY <1>1, <3>1, <3>2 DEF Before
    <3> QED BY <3>1, <3>3 DEF After
  <2> QED BY <2>2, <2>3
<1>4. ASSUME NEW f \in goals PROVE f \in After(p, s, DOMAIN p)
  <2>1. f \in r.is_goal
    BY DEF IsSelection
  <2>2. f \in s \/ \E j \in 1..n : f \in AddedWith(graph, p[j][1])
    BY <1>2, <2>1 DEF AddedAt
  <2> QED BY <1>1, <2>2 DEF After
<1> QED BY <1>1, <1>3, <1>4

LEMMA EvaluationWorks ==
  ASSUME IsTask(task), NEW s \in SUBSET graph.facts, NEW goals, get_1P_and_H(graph, s, goals).h # INFINITY
  PROVE  IsRelaxedPlan(get_1P_and_H(graph, s, goals), s, goals)
<1> DEFINE F == build_fixpoint(graph, s, goals)
           last == F[Len(F)].facts
           r == extract_1P(graph, F, goals)
           eval == get_1P_and_H(graph, s, goals)
           levels == GoalLevels(F, goals)
           max == Max(levels)
<1>1. IsLayers(F, s, goals) /\ Len(F) \in Nat \ {0}
  <2>1. IsLayers(F, s, goals)
    BY FixpointIs DEF IsFixpoint
  <2> HIDE DEF F
  <2> QED BY <2>1, SeqFacts DEF IsLayers
<1>2. eval = IF goals \subseteq last THEN Evaluation(graph, F, r)
             ELSE [h |-> INFINITY, in_plan |-> <<>>, H |-> <<>>]
  BY DEF get_1P_and_H, Evaluate, Last
<1>3. eval.h # INFINITY
  OBVIOUS
<1> HIDE DEF F, eval
<1>4. goals \in SUBSET last /\ eval = Evaluation(graph, F, r)
  BY <1>2, <1>3
<1>5. max \in Nat /\ \A f \in goals : FactLevel(F, f) \in 0..max
  <2>1. \A f \in goals : FactLevel(F, f) \in 0..(Len(F) - 1)
    BY <1>1, <1>4, LevelIsFirst
  <2>2. levels \in SUBSET (0..(Len(F) - 1)) /\ 0 \in levels /\ Len(F) - 1 \in Nat
    BY <1>1, <2>1 DEF GoalLevels
  <2>3. \A f \in goals : FactLevel(F, f) \in levels
    BY DEF GoalLevels
  <2> HIDE DEF levels
  <2>4. max \in levels /\ \A y \in levels : max >= y
    BY <2>2, MaxIsLast
  <2> HIDE DEF max
  <2>5. max \in Nat
    BY <1>1, <2>2, <2>4
  <2>6. ASSUME NEW f \in goals PROVE FactLevel(F, f) \in 0..max
    <3>1. FactLevel(F, f) \in Nat /\ max >= FactLevel(F, f)
      BY <1>1, <2>1, <2>3, <2>4
    <3> QED BY <2>5, <3>1
  <2> QED BY <2>5, <2>6
<1>6. /\ IsSelection(r, F, goals, max, 1)
      /\ \A t \in 1..max : \A i \in 1..Len(r.goals_at[t]) : AddedAt(r, r.goals_at[t][i], t)
  <2> DEFINE m == max
  <2>1. m \in Nat /\ m = Max(GoalLevels(F, goals)) /\ \A f \in goals : FactLevel(F, f) \in 0..m
    BY <1>5
  <2> HIDE DEF m
  <2>2. /\ IsSelection(extract_1P(graph, F, goals), F, goals, m, 1)
        /\ \A t \in 1..m : \A i \in 1..Len(extract_1P(graph, F, goals).goals_at[t]) :
             AddedAt(extract_1P(graph, F, goals), extract_1P(graph, F, goals).goals_at[t][i], t)
    BY <1>1, <1>4, <2>1, ExtractionSelects
  <2> QED BY <2>2 DEF m
<1> HIDE DEF r, max
<1>7. /\ eval.in_plan = r.in_plan /\ eval.h = Cardinality(r.used)
  BY <1>4 DEF Evaluation
<1>8. r.used = {<<graph.ef[r.in_plan[k][1]].op, r.in_plan[k][2]>> : k \in DOMAIN r.in_plan}
  <2>1. DOMAIN r.in_plan = 1..Len(r.in_plan)
    BY <1>6, SeqFacts DEF IsSelection
  <2> QED BY <1>6, <2>1 DEF IsSelection
<1>9. /\ \A k \in DOMAIN r.in_plan :
           graph.ef[r.in_plan[k][1]].PC \subseteq After(r.in_plan, s, Before(r.in_plan, k))
      /\ goals \subseteq After(r.in_plan, s, DOMAIN r.in_plan)
  BY <1>1, <1>5, <1>6, SelectionWorks
<1>10. IsRelaxedPlan(eval, s, goals)
  BY <1>7, <1>8, <1>9 DEF IsRelaxedPlan
<1> QED BY <1>10 DEF eval

-----------------------------------------------------------------------------
(* The evaluation a climb goes on with                                     *)

\* The distance and the helpful operators a climb goes on with.
IsEvaluated(s) ==
  LET eval == get_1P_and_H(graph, s, current_end)
  IN  eval.h # INFINITY /\ h = eval.h /\ gH = eval.H

EvalInv ==
  /\ pc = "extract" => IsEvaluated(space[current].S)
  /\ pc = "widen" => IsEvaluated(S)

LEMMA EvalAtFirst == SearchInit /\ pc = "agenda" /\ IsTask(task) => EvalInv
BY DEF SearchInit, EvalInv

LEMMA EvalStays == EvalInv /\ [SearchNext]_searchVars => EvalInv'
<1> SUFFICES ASSUME EvalInv, [SearchNext]_searchVars PROVE EvalInv'
  OBVIOUS
<1>1. CASE StartClimbing
  <2> DEFINE s == Last(plan_states)  eval == get_1P_and_H(graph, s, current_end)
  <2>1. /\ S' = s /\ h' = eval.h /\ gH' = eval.H /\ task' = task /\ current_end' = current_end
        /\ pc' = CASE eval.h = INFINITY -> "fallback"
                   [] eval.h = 0        -> "reached"
                   [] OTHER             -> "widen"
    BY <1>1 DEF StartClimbing, Start
  <2> HIDE DEF eval, s
  <2>2. pc' # "extract" /\ (pc' = "widen" => eval.h # INFINITY)
    BY <2>1
  <2> QED BY <2>1, <2>2 DEF EvalInv, IsEvaluated, graph, eval
<1>2. CASE ExpandFirstNode
  <2> DEFINE s == space[current].S  eval == get_1P_and_H(graph, s, current_end)
  <2>1. pc' # "widen" /\ task' = task /\ current_end' = current_end
    BY <1>2 DEF ExpandFirstNode, Judge
  <2>2. ASSUME pc' = "extract"
        PROVE  /\ eval.h # INFINITY /\ h' = eval.h /\ gH' = eval.H
               /\ space' = space /\ current' = current
    BY <1>2, <2>2 DEF ExpandFirstNode, Judge
  <2> HIDE DEF eval
  <2> QED BY <2>1, <2>2 DEF EvalInv, IsEvaluated, graph, eval
<1>3. CASE ExtractPlanFragment
  <2>1. pc = "extract" /\ pc' # "extract"
    BY <1>3 DEF ExtractPlanFragment
  <2>2. ASSUME pc' = "widen"
        PROVE  S' = space[current].S /\ UNCHANGED <<task, current_end, h, gH>>
    BY <1>3, <2>2 DEF ExtractPlanFragment
  <2> QED BY <2>1, <2>2 DEF EvalInv, IsEvaluated, graph
<1>4. CASE UNCHANGED searchVars
  BY <1>4 DEF EvalInv, IsEvaluated, graph, searchVars, climbVars
<1>5. CASE \/ ComputeGoalAgenda \/ Widen \/ SpaceExhausted \/ NextEntry \/ AgendaDone
           \/ StartBestFirst \/ ExpandBest \/ ExtractPlan \/ ProvenUnsolvable
  <2>1. pc' \notin {"extract", "widen"}
    BY <1>5 DEF ComputeGoalAgenda, Widen, SpaceExhausted, NextEntry, AgendaDone,
                StartBestFirst, ExpandBest, ExtractPlan, ProvenUnsolvable
  <2> QED BY <2>1 DEF EvalInv
<1> QED BY <1>1, <1>2, <1>3, <1>4, <1>5 DEF SearchNext

LEMMA EvaluatedWorks == FollowInv /\ EvalInv => RelaxedPlanWorks
<1> SUFFICES ASSUME FollowInv, EvalInv, pc = "widen" PROVE RelaxedPlanWorks
  BY DEF RelaxedPlanWorks
<1>1. IsTask(task) /\ Held /\ S = plan_states[Len(plan_states)]
  BY DEF FollowInv
<1>2. S \in SUBSET graph.facts
  <2>1. Len(plan_states) \in 1..Len(plan_states)
    BY <1>1, SeqFacts DEF Held, PlanIsKept, IsRun
  <2> QED BY <1>1, <2>1, HeldIsFacts
<1> DEFINE r == get_1P_and_H(graph, S, current_end)
<1>3. r.h # INFINITY /\ h = r.h /\ gH = r.H
  BY DEF EvalInv, IsEvaluated
<1>4. IsRelaxedPlan(r, S, current_end)
  BY <1>1, <1>2, <1>3, EvaluationWorks
<1> HIDE DEF r
<1>5. /\ \A k \in DOMAIN r.in_plan : graph.ef[r.in_plan[k][1]].PC \subseteq After(r.in_plan, S, Before(r.in_plan, k))
      /\ current_end \subseteq After(r.in_plan, S, DOMAIN r.in_plan)
      /\ r.h = Cardinality({<<graph.ef[r.in_plan[k][1]].op, r.in_plan[k][2]>> : k \in DOMAIN r.in_plan})
      /\ h = r.h /\ gH = r.H
  BY <1>3, <1>4 DEF IsRelaxedPlan
<1> QED BY <1>5 DEF RelaxedPlanWorks, After, Before, r

\* The relaxed plan of the state a climb widens is a plan of the task without
\* deletes, and its length and operators are those the climb goes on with.
THEOREM RelaxedPlanIsPlan == SearchSpec => []RelaxedPlanWorks
BY FollowAtFirst, FollowStays, EvalAtFirst, EvalStays, EvaluatedWorks, PTL DEF SearchSpec

-----------------------------------------------------------------------------
(* The plan ends where the goals hold                                      *)

FathersLack(ns) == \A k \in 1..Len(ns) : ns[k].father # 0 => ~(Goals \subseteq ns[ns[k].father].S)

\* What a climb widens and what best first search expands has not all goals.
EndInv ==
  Goals # {} =>
    /\ pc # "agenda" => entry = 1 \/ entry <= Len(agenda)
    /\ \A k \in 1..Len(plan_states) : k < Len(plan_states) => ~(Goals \subseteq plan_states[k])
    /\ pc \in {"widen", "expand", "extract"} => ~(Goals \subseteq S) /\ h \in Nat
    /\ pc \in {"widen", "expand"} => h # 0
    /\ pc \in {"expand", "extract"} => FathersLack(space)
    /\ pc = "best first" => FathersLack(nodes)

LEMMA EntryIsOfGoals ==
  ASSUME AgendaInv, GoalInv, pc # "agenda", entry <= Len(agenda)
  PROVE  current_end \subseteq Goals
<1>1. agenda = compute_goal_agenda(graph, task.goals) /\ IsTask(task) /\ entry \in Nat
  BY DEF AgendaInv
<1>2. Len(agenda) \in Nat /\ UNION {agenda[k] : k \in 1..Len(agenda)} = Goals
  BY <1>1, AgendaIsList
<1>3. current_end = UNION {agenda[k] : k \in 1..entry}
  BY DEF GoalInv
<1>4. 1..entry \subseteq 1..Len(agenda)
  BY <1>1, <1>2
<1> QED BY <1>2, <1>3, <1>4

LEMMA AppendLacks ==
  ASSUME NEW ns, IsSeq(ns), \A k \in 1..Len(ns) : ns[k].father \in 0..(k - 1), FathersLack(ns), NEW x,
         x.father # 0 => x.father \in 1..Len(ns) /\ ~(Goals \subseteq ns[x.father].S)
  PROVE  FathersLack(Append(ns, x))
<1> DEFINE e == Append(ns, x)
           m == Len(ns)
<1>1. m \in Nat /\ Len(e) = m + 1 /\ e[m + 1] = x /\ \A i \in 1..m : e[i] = ns[i]
  BY SeqFacts, AppendFacts
<1> HIDE DEF e
<1> SUFFICES ASSUME NEW k \in 1..(m + 1), e[k].father # 0 PROVE ~(Goals \subseteq e[e[k].father].S)
  BY <1>1 DEF FathersLack, e
<1>2. CASE k = m + 1
  BY <1>1, <1>2
<1>3. CASE k \in 1..m
  <2>1. e[k] = ns[k] /\ ns[k].father \in 1..m
    BY <1>1, <1>3
  <2>2. ~(Goals \subseteq ns[ns[k].father].S)
    BY <1>3, <2>1 DEF FathersLack
  <2> QED BY <1>1, <2>1, <2>2
<1> QED BY <1>1, <1>2, <1>3

LEMMA SuccessorsLack ==
  ASSUME IsTask(task), NEW sp, IsSpace(sp, S), NEW s \in SUBSET Nat, NEW father,
         IsFather(father, s, sp, S), NEW ops, IsSeq(ops), FathersLack(sp), ~(Goals \subseteq s)
  PROVE  FathersLack(Successors(sp, ops, s, father))
<1> DEFINE n == Len(ops)
<1>1. n \in Nat
  BY SeqFacts
<1>2. PICK A : AreEntered(A, sp, ops, s, father)
  BY EnterSteps
<1>3. /\ A[0] = sp
      /\ \A j \in 1..n : A[j] = EnterSpace(A[j - 1], ops[j], s, father)
      /\ Successors(sp, ops, s, father) = A[n]
  BY <1>2 DEF AreEntered
<1> HIDE DEF n
<1>4. ASSUME NEW q, IsSpace(q, S), IsFather(father, s, q, S), FathersLack(q), NEW op
      PROVE  FathersLack(EnterSpace(q, op, s, father))
  <2> DEFINE t == result_to_dest(graph, s, op)
             x == [S |-> t, op |-> op, father |-> father, new_goal |-> new_goal(graph, s, op)]
  <2>1. EnterSpace(q, op, s, father) = q \/ EnterSpace(q, op, s, father) = Append(q, x)
    BY DEF EnterSpace
  <2>2. x.father = father
    OBVIOUS
  <2> HIDE DEF x
  <2>3. father # 0 => father \in 1..Len(q) /\ ~(Goals \subseteq q[father].S)
    BY <1>4 DEF IsFather
  <2>4. IsSeq(q) /\ \A k \in 1..Len(q) : q[k].father \in 0..(k - 1)
    BY <1>4 DEF IsSpace
  <2>5. FathersLack(Append(q, x))
    BY <1>4, <2>2, <2>3, <2>4, AppendLacks
  <2> QED BY <1>4, <2>1, <2>5
<1> DEFINE T == {j \in Nat : j <= n => IsSpace(A[j], S) /\ IsFather(father, s, A[j], S) /\ FathersLack(A[j])}
<1>5. 0 \in T
  BY <1>3
<1>6. ASSUME NEW j \in Nat, j \in T PROVE j + 1 \in T
  <2> SUFFICES ASSUME j + 1 <= n
               PROVE  IsSpace(A[j + 1], S) /\ IsFather(father, s, A[j + 1], S) /\ FathersLack(A[j + 1])
    OBVIOUS
  <2>1. /\ j + 1 \in 1..n /\ (j + 1) - 1 = j
        /\ IsSpace(A[j], S) /\ IsFather(father, s, A[j], S) /\ FathersLack(A[j])
    BY <1>1, <1>6
  <2>2. A[j + 1] = EnterSpace(A[j], ops[j + 1], s, father)
    BY <1>3, <2>1
  <2>3. IsSpace(A[j + 1], S) /\ IsFather(father, s, A[j + 1], S)
    BY <2>1, <2>2, EnterIsSpace
  <2>4. FathersLack(A[j + 1])
    BY <1>4, <2>1, <2>2
  <2> QED BY <2>3, <2>4
<1>7. n \in T
  <2> HIDE DEF T
  <2> QED BY <1>1, <1>5, <1>6, Upwards
<1> QED BY <1>1, <1>3, <1>7

LEMMA AddLacks ==
  ASSUME NEW b, IsBfs(b), FathersLack(b.nodes), NEW t, NEW op, NEW father,
         father # 0 => father \in 1..Len(b.nodes) /\ ~(Goals \subseteq b.nodes[father].S)
  PROVE  FathersLack(AddToBfsSpace(b, t, op, father).nodes)
<1> DEFINE hs == get_1P_and_H(graph, t, ToSet(task.goals)).h
           x == [S |-> t, op |-> op, h |-> hs, father |-> father]
           e == AddToBfsSpace(b, t, op, father).nodes
<1>1. e = b.nodes \/ e = Append(b.nodes, x)
  <2> DEFINE at == Cardinality({k \in DOMAIN b.open : b.nodes[b.open[k]].h <= hs}) + 1
             c == [open |-> InsertAt(b.open, at, Len(b.nodes) + 1), nodes |-> Append(b.nodes, x)]
  <2>1. AddToBfsSpace(b, t, op, father) = b \/ AddToBfsSpace(b, t, op, father) = c
    BY DEF AddToBfsSpace, EnterBfsSpace
  <2>2. c.nodes = Append(b.nodes, x)
    OBVIOUS
  <2> HIDE DEF c
  <2> QED BY <2>1, <2>2
<1>2. x.father = father
  OBVIOUS
<1> HIDE DEF x, e
<1>3. IsSeq(b.nodes) /\ \A k \in 1..Len(b.nodes) : b.nodes[k].father \in 0..(k - 1)
  BY DEF IsBfs, IsTree
<1>4. FathersLack(Append(b.nodes, x))
  BY <1>2, <1>3, AppendLacks
<1> QED BY <1>1, <1>4 DEF e

LEMMA ExpandedLacks ==
  ASSUME IsTask(task), NEW b, IsBfs(b), b.nodes = nodes, NEW n \in 1..Len(nodes),
         IsSeq(get_A(graph, nodes[n].S)), FathersLack(nodes), ~(Goals \subseteq nodes[n].S)
  PROVE  FathersLack(Expanded(b, n).nodes)
<1> DEFINE ops == get_A(graph, nodes[n].S)
           l == Len(ops)
           t(j) == result_to_dest(graph, nodes[n].S, ops[j])
<1>1. l \in Nat
  BY SeqFacts
<1>2. PICK A : AreAdded(A, b, n)
  BY AddSteps
<1>3. /\ A[0] = b
      /\ \A j \in 1..l : A[j] = AddToBfsSpace(A[j - 1], t(j), ops[j], n)
      /\ Expanded(b, n) = A[l]
  BY <1>2 DEF AreAdded
<1>4. \A j : t(j) \in SUBSET Nat
  <2>1. nodes[n].S \in SUBSET Nat
    BY DEF IsBfs, IsTree
  <2> QED BY <2>1, ResultIsState
<1>5. Len(nodes) \in Nat
  BY SeqFacts DEF IsBfs, IsTree
<1>6. \A ns, j : Extends(ns, nodes) =>
        /\ IsSon(t(j), ops[j], n, ns)
        /\ (Len(ns) \in Nat => n \in 1..Len(ns)) /\ ns[n] = nodes[n]
  BY <1>5 DEF Extends, IsSon
<1>7. \A c, d : Extends(c, nodes) /\ Extends(d, c) /\ Len(c) \in Nat /\ Len(d) \in Nat => Extends(d, nodes)
  BY <1>5 DEF Extends
<1>8. Extends(nodes, nodes)
  BY <1>5 DEF Extends
<1> HIDE DEF l, t, ops
<1> DEFINE T == {j \in Nat : j <= l => IsBfs(A[j]) /\ Extends(A[j].nodes, nodes) /\ FathersLack(A[j].nodes)}
<1>9. 0 \in T
  BY <1>3, <1>8
<1>10. ASSUME NEW j \in Nat, j \in T PROVE j + 1 \in T
  <2> SUFFICES ASSUME j + 1 <= l
               PROVE  IsBfs(A[j + 1]) /\ Extends(A[j + 1].nodes, nodes) /\ FathersLack(A[j + 1].nodes)
    OBVIOUS
  <2> DEFINE c == A[j]
             d == A[j + 1]
  <2>1. j + 1 \in 1..l /\ (j + 1) - 1 = j /\ IsBfs(c) /\ Extends(c.nodes, nodes) /\ FathersLack(c.nodes)
    BY <1>1, <1>10
  <2>2. d = AddToBfsSpace(c, t(j + 1), ops[j + 1], n)
    BY <1>3, <2>1
  <2>3. IsSon(t(j + 1), ops[j + 1], n, c.nodes)
    BY <1>6, <2>1
  <2> HIDE DEF c, d
  <2>4. IsBfs(d) /\ Extends(d.nodes, c.nodes)
    BY <1>4, <2>1, <2>2, <2>3, AddIsBfs
  <2>5. Len(c.nodes) \in Nat /\ Len(d.nodes) \in Nat
    BY <2>1, <2>4, SeqFacts DEF IsBfs, IsTree
  <2>6. Extends(d.nodes, nodes)
    BY <1>7, <2>1, <2>4, <2>5
  <2>7. n \in 1..Len(c.nodes) /\ c.nodes[n] = nodes[n]
    BY <1>6, <2>1, <2>5
  <2>8. FathersLack(d.nodes)
    BY <2>1, <2>2, <2>7, AddLacks
  <2> QED BY <2>4, <2>6, <2>8 DEF d
<1>11. l \in T
  <2> HIDE DEF T
  <2> QED BY <1>1, <1>9, <1>10, Upwards
<1> QED BY <1>1, <1>3, <1>11

\* Only the last node of a path may have all goals.
LEMMA PathLacks ==
  ASSUME IsSpace(space, S), FathersLack(space), NEW n \in 1..Len(space), NEW i \in 1..Len(PathTo(n))
  PROVE  PathTo(n)[i] = space[n] \/ ~(Goals \subseteq PathTo(n)[i].S)
<1> DEFINE m == Len(space)
           P == [k \in 1..m |-> PathTo(k)]
           Good(k) == \A l \in 1..Len(P[k]) : P[k][l] = space[k] \/ ~(Goals \subseteq P[k][l].S)
           G == {k \in Nat : \A j \in 1..k : j <= m => Good(j)}
<1>1. m \in Nat /\ \A k \in 1..m : space[k].father \in 0..(k - 1)
  BY SeqFacts DEF IsSpace
<1>2. Paths(P, m)
  BY PathToIs
<1>3. \A k \in 1..m : IsSeq(P[k])
  BY PathToIsPath DEF IsPath
<1>4. PathTo(n) = P[n]
  OBVIOUS
<1> HIDE DEF P
<1>5. \A k \in 1..m : P[k] = IF space[k].father = 0 THEN <<space[k]>> ELSE Append(P[space[k].father], space[k])
  BY <1>2 DEF Paths
<1>6. \A k \in 1..m : space[k].father # 0 => ~(Goals \subseteq space[space[k].father].S)
  BY DEF FathersLack
<1> HIDE DEF m
<1>7. 0 \in G
  OBVIOUS
<1>8. ASSUME NEW k \in Nat, k \in G PROVE k + 1 \in G
  <2> SUFFICES ASSUME k + 1 <= m PROVE Good(k + 1)
    <3> HIDE DEF Good
    <3> QED BY <1>8
  <2>0. k + 1 \in 1..m /\ (k + 1) - 1 = k
    BY <1>1
  <2> DEFINE node == space[k + 1]
             f == node.father
  <2>1. f \in 0..k
    BY <1>1, <2>0
  <2>2. CASE f = 0
    <3>1. P[k + 1] = <<node>>
      BY <1>5, <2>0, <2>2
    <3>2. Len(<<node>>) = 1 /\ <<node>>[1] = node
      OBVIOUS
    <3> HIDE DEF node
    <3> QED BY <3>1, <3>2 DEF node
  <2>3. CASE f # 0
    <3>1. f \in 1..k /\ f \in 1..m
      BY <1>1, <2>0, <2>1, <2>3
    <3>2. Good(f) /\ IsSeq(P[f])
      <4> HIDE DEF Good
      <4> QED BY <1>3, <1>8, <3>1, <1>1
    <3>3. P[k + 1] = Append(P[f], node)
      BY <1>5, <2>0, <2>3
    <3>4. ~(Goals \subseteq space[f].S)
      BY <1>6, <2>0, <2>3
    <3> DEFINE p == P[f]
               q == Append(p, node)
    <3>5. Len(p) \in Nat /\ Len(q) = Len(p) + 1 /\ q[Len(p) + 1] = node /\ \A l \in 1..Len(p) : q[l] = p[l]
      BY <3>2, SeqFacts, AppendFacts
    <3>6. \A l \in 1..Len(p) : ~(Goals \subseteq p[l].S)
      BY <3>2, <3>4
    <3> HIDE DEF p, q, node
    <3>7. \A l \in 1..Len(q) : q[l] = node \/ ~(Goals \subseteq q[l].S)
      <4> TAKE l \in 1..Len(q)
      <4>1. l \in 1..Len(p) \/ l = Len(p) + 1
        BY <3>5
      <4> QED BY <3>5, <3>6, <4>1
    <3> QED BY <3>3, <3>7 DEF p, q, node
  <2> QED BY <2>2, <2>3
<1>9. n \in G
  <2> HIDE DEF G
  <2>1. Nat \subseteq G
    BY <1>7, <1>8, Upwards
  <2> QED BY <1>1, <2>1 DEF m
<1> QED BY <1>4, <1>9, <1>1 DEF m

LEMMA ChainLacks ==
  ASSUME IsTree(nodes), FathersLack(nodes), NEW n \in 1..Len(nodes)
  PROVE  /\ nodes[n].father # 0 => ~(Goals \subseteq task.initial)
         /\ \A i \in 1..Len(NodesTo(n)) : NodesTo(n)[i] = n \/ ~(Goals \subseteq nodes[NodesTo(n)[i]].S)
<1> DEFINE m == Len(nodes)
           P == [k \in 1..m |-> NodesTo(k)]
           Good(k) == /\ nodes[k].father # 0 => ~(Goals \subseteq task.initial)
                      /\ \A l \in 1..Len(P[k]) : P[k][l] = k \/ ~(Goals \subseteq nodes[P[k][l]].S)
           G == {k \in Nat : \A j \in 1..k : j <= m => Good(j)}
<1>1. m \in Nat /\ \A k \in 1..m : nodes[k].father \in 0..(k - 1) /\ (nodes[k].father = 0 => nodes[k].S = task.initial)
  BY SeqFacts DEF IsTree
<1>2. Chains(P, m)
  BY NodesToIs
<1>3. \A k \in 1..m : IsSeq(P[k])
  BY NodesToIsChain DEF IsChain
<1>4. NodesTo(n) = P[n]
  OBVIOUS
<1> HIDE DEF P
<1>5. \A k \in 1..m : P[k] = IF nodes[k].father = 0 THEN <<>> ELSE Append(P[nodes[k].father], k)
  BY <1>2 DEF Chains
<1>6. \A k \in 1..m : nodes[k].father # 0 => ~(Goals \subseteq nodes[nodes[k].father].S)
  BY DEF FathersLack
<1> HIDE DEF m
<1>7. 0 \in G
  OBVIOUS
<1>8. ASSUME NEW k \in Nat, k \in G PROVE k + 1 \in G
  <2> SUFFICES ASSUME k + 1 <= m PROVE Good(k + 1)
    <3> HIDE DEF Good
    <3> QED BY <1>8
  <2>0. k + 1 \in 1..m /\ (k + 1) - 1 = k
    BY <1>1
  <2> DEFINE f == nodes[k + 1].father
  <2>1. f \in 0..k
    BY <1>1, <2>0
  <2>2. CASE f = 0
    <3>1. P[k + 1] = <<>>
      BY <1>5, <2>0, <2>2
    <3>2. Len(<<>>) = 0
      OBVIOUS
    <3> QED BY <2>2, <3>1, <3>2
  <2>3. CASE f # 0
    <3>1. f \in 1..k /\ f \in 1..m
      BY <1>1, <2>0, <2>1, <2>3
    <3>2. Good(f) /\ IsSeq(P[f])
      <4> HIDE DEF Good
      <4> QED BY <1>3, <1>8, <3>1, <1>1
    <3>3. P[k + 1] = Append(P[f], k + 1)
      BY <1>5, <2>0, <2>3
    <3>4. ~(Goals \subseteq nodes[f].S)
      BY <1>6, <2>0, <2>3
    <3> DEFINE p == P[f]
               q == Append(p, k + 1)
    <3>5. Len(p) \in Nat /\ Len(q) = Len(p) + 1 /\ q[Len(p) + 1] = k + 1 /\ \A l \in 1..Len(p) : q[l] = p[l]
      BY <3>2, SeqFacts, AppendFacts
    <3>6. \A l \in 1..Len(p) : ~(Goals \subseteq nodes[p[l]].S)
      BY <3>2, <3>4
    <3>8. ~(Goals \subseteq task.initial)
      BY <1>1, <3>1, <3>2, <3>4
    <3> HIDE DEF p, q
    <3>7. \A l \in 1..Len(q) : q[l] = k + 1 \/ ~(Goals \subseteq nodes[q[l]].S)
      <4> TAKE l \in 1..Len(q)
      <4>1. l \in 1..Len(p) \/ l = Len(p) + 1
        BY <3>5
      <4> QED BY <3>5, <3>6, <4>1
    <3> QED BY <3>3, <3>7, <3>8 DEF p, q
  <2> QED BY <2>2, <2>3
<1>9. n \in G
  <2> HIDE DEF G
  <2>1. Nat \subseteq G
    BY <1>7, <1>8, Upwards
  <2> QED BY <1>1, <2>1 DEF m
<1> QED BY <1>4, <1>9, <1>1 DEF m
LEMMA EndAtFirst == SearchInit /\ pc = "agenda" /\ IsTask(task) => EndInv
<1> SUFFICES ASSUME SearchInit, pc = "agenda" PROVE EndInv
  OBVIOUS
<1>1. plan_states = <<>> /\ Len(<<>>) = 0
  BY DEF SearchInit
<1> QED BY <1>1 DEF EndInv

\* Every state of a fragment is one the plan had, or one of the path.
LEMMA FragmentStates ==
  ASSUME NEW base, IsSeq(base.states), NEW rest, IsSeq(rest), NEW f, f = FoldLeft(Extend, base, rest)
  PROVE  \A j \in 1..Len(f.states) :
           \/ \E i \in 1..Len(base.states) : f.states[j] = base.states[i]
           \/ \E i \in 1..Len(rest) : f.states[j] = rest[i].S
<1> DEFINE n == Len(rest)
           Comes(x) == \/ \E i \in 1..Len(base.states) : x = base.states[i]
                       \/ \E i \in 1..n : x = rest[i].S
           Good(acc) == IsSeq(acc.states) /\ \A j \in 1..Len(acc.states) : Comes(acc.states[j])
<1>1. n \in Nat
  BY SeqFacts
<1>2. PICK A : AreExtensions(A, base, rest)
  BY ExtendSteps
<1>3. /\ A[0] = base
      /\ \A j \in 1..n : A[j] = Extend(A[j - 1], rest[j])
      /\ FoldLeft(Extend, base, rest) = A[n]
  BY <1>2 DEF AreExtensions
<1>4. \A i \in 1..n : Comes(rest[i].S)
  OBVIOUS
<1>5. Good(base)
  OBVIOUS
<1> HIDE DEF n, Comes
<1> DEFINE T == {j \in Nat : j <= n => Good(A[j])}
<1>6. 0 \in T
  BY <1>3, <1>5
<1>7. ASSUME NEW j \in Nat, j \in T PROVE j + 1 \in T
  <2> SUFFICES ASSUME j + 1 <= n PROVE Good(A[j + 1])
    <3> HIDE DEF Good
    <3> QED OBVIOUS
  <2> DEFINE st == A[j].states  x == rest[j + 1].S
  <2>1. j + 1 \in 1..n /\ (j + 1) - 1 = j /\ j <= n
    BY <1>1
  <2>2. Good(A[j])
    <3> HIDE DEF Good
    <3> QED BY <1>7, <2>1
  <2>3. A[j + 1] = Extend(A[j], rest[j + 1])
    BY <1>3, <2>1
  <2>4. A[j + 1].states = Append(st, x)
    <3>1. \A acc, m : Extend(acc, m).states = Append(acc.states, m.S)
      BY DEF Extend
    <3> QED BY <2>3, <3>1
  <2>5. IsSeq(st) /\ (\A k \in 1..Len(st) : Comes(st[k])) /\ Comes(x)
    BY <1>4, <2>1, <2>2
  <2> HIDE DEF st, x
  <2>6. /\ IsSeq(Append(st, x)) /\ Len(Append(st, x)) = Len(st) + 1
        /\ \A i \in 1..Len(st) : Append(st, x)[i] = st[i]
        /\ Append(st, x)[Len(st) + 1] = x
    BY <2>5, AppendFacts
  <2>7. \A k \in 1..(Len(st) + 1) : k \in 1..Len(st) \/ k = Len(st) + 1
    BY <2>5, SeqFacts
  <2> QED BY <2>4, <2>5, <2>6, <2>7
<1>8. Good(A[n])
  <2> HIDE DEF Good
  <2>1. n \in T
    <3> HIDE DEF T
    <3> QED BY <1>1, <1>6, <1>7, Upwards
  <2> QED BY <1>1, <2>1
<1> QED BY <1>3, <1>8 DEF Comes, n

LEMMA FragmentLacks ==
  ASSUME FollowInv, EndInv, Goals # {}, ExtractPlanFragment
  PROVE  \A k \in 1..Len(plan_states') : k < Len(plan_states') => ~(Goals \subseteq plan_states'[k])
<1> DEFINE path  == PathTo(current)
           cut   == CutAt(path)
           from  == IF cut = 0 THEN S ELSE path[cut].S
           step  == IF cut = 0 THEN Len(plan_ops) ELSE plan_hash[from].step
           rest  == SubSeq(path, cut + 1, Len(path))
           hash  == IF cut = 0 THEN plan_hash ELSE CutBack(plan_hash, from)
           st    == SubSeq(plan_states, 1, step + 1)
           base  == [hash |-> hash, start |-> from, ops |-> SubSeq(plan_ops, 1, step), states |-> st]
           f     == FoldLeft(Extend, base, rest)
<1>1. /\ pc = "extract" /\ Held /\ IsSpace(space, S) /\ current \in Nat \ {0} /\ current <= Len(space)
      /\ S = plan_states[Len(plan_states)]
  BY DEF ExtractPlanFragment, FollowInv
<1>2. current \in 1..Len(space) /\ PlanIsKept(plan_ops, plan_states, plan_hash)
  BY <1>1, SeqFacts DEF IsSpace, Held
<1>3. /\ IsSeq(plan_states) /\ Len(plan_states) \in Nat /\ Len(plan_ops) \in Nat
      /\ Len(plan_states) = Len(plan_ops) + 1
  BY <1>2, SeqFacts DEF PlanIsKept, IsRun
<1>4. \A k \in 1..Len(plan_states) : ~(Goals \subseteq plan_states[k])
  <2>1. ~(Goals \subseteq plan_states[Len(plan_states)]) /\
        \A k \in 1..Len(plan_states) : k < Len(plan_states) => ~(Goals \subseteq plan_states[k])
    BY <1>1 DEF EndInv
  <2>2. \A k \in 1..Len(plan_states) : k < Len(plan_states) \/ k = Len(plan_states)
    BY <1>3
  <2> QED BY <2>1, <2>2
<1>5. IsPath(path, S) /\ path[Len(path)] = space[current]
  BY <1>1, <1>2, PathToIsPath
<1>6. \A i \in 1..Len(path) : path[i] = space[current] \/ ~(Goals \subseteq path[i].S)
  BY <1>1, <1>2, PathLacks DEF EndInv
<1>7. CASE plan_states' = plan_states
  BY <1>4, <1>7
<1>8. CASE plan_states' # plan_states
  <2>1. plan_states' = f.states /\ S' = space[current].S /\ pc' \in {"reached", "widen"}
    BY <1>8 DEF ExtractPlanFragment, planVars
  <2>2. Held' /\ S' = plan_states'[Len(plan_states')]
    BY <2>1, FragmentIsHeld
  <2> HIDE DEF path
  <2>3. IsCut(path, cut, from, rest, hash)
    BY DEF IsCut
  <2>4. /\ cut \in 0..Len(path) /\ InPlan(plan_hash, from)
        /\ IsSeq(rest) /\ Len(rest) = Len(path) - cut
        /\ \A i \in 1..Len(rest) : rest[i] = path[cut + i]
    <3> HIDE DEF cut, from, rest, hash
    <3> QED BY <1>1, <1>2, <1>5, <2>3, CutFacts
  <2>5. Len(path) \in Nat
    BY <1>5, SeqFacts DEF IsPath
  <2>6. step \in 0..Len(plan_ops)
    <3>1. CASE cut = 0
      BY <1>3, <3>1
    <3>2. CASE cut # 0
      <4>1. PICK k \in 1..Len(plan_states) : plan_states[k] = from
        BY <1>2, <2>4 DEF PlanIsKept, IsKept, InPlan
      <4>2. step = k - 1
        BY <1>2, <3>2, <4>1 DEF PlanIsKept, IsKept
      <4> QED BY <1>3, <4>2
    <3> QED BY <3>1, <3>2
  <2> HIDE DEF cut, from, hash, rest, step
  <2>7. IsSeq(st) /\ \A i \in 1..Len(st) : \E k \in 1..Len(plan_states) : st[i] = plan_states[k]
    <3>1. 1 \in Nat \ {0} /\ step + 1 \in Nat /\ 1 <= (step + 1) + 1 /\ step + 1 <= Len(plan_states)
      BY <1>3, <2>6
    <3>2. /\ IsSeq(st) /\ Len(st) = (step + 1) - 1 + 1
          /\ \A i \in 1..((step + 1) - 1 + 1) : st[i] = plan_states[1 + i - 1]
      BY <1>3, <3>1, SubSeqFacts
    <3> HIDE DEF st
    <3>3. ASSUME NEW i \in 1..Len(st) PROVE st[i] = plan_states[i] /\ i \in 1..Len(plan_states)
      <4>1. (step + 1) - 1 + 1 = step + 1 /\ 1 + i - 1 = i /\ i \in 1..(step + 1)
        BY <1>3, <2>6, <3>2
      <4>2. i \in 1..((step + 1) - 1 + 1)
        BY <4>1
      <4>3. st[i] = plan_states[1 + i - 1]
        BY <3>2, <4>2
      <4>4. i \in 1..Len(plan_states)
        BY <3>1, <4>1, <1>3
      <4> QED BY <4>1, <4>3, <4>4
    <3> QED BY <3>2, <3>3
  <2>8. base.states = st
    OBVIOUS
  <2>f. f = FoldLeft(Extend, base, rest)
    OBVIOUS
  <2> HIDE DEF base, st, f
  <2>9. \A j \in 1..Len(f.states) :
           \/ \E i \in 1..Len(st) : f.states[j] = st[i]
           \/ \E i \in 1..Len(rest) : f.states[j] = rest[i].S
    <3>1. IsSeq(base.states) /\ IsSeq(rest)
      BY <2>4, <2>7, <2>8
    <3>2. \A j \in 1..Len(f.states) :
            \/ \E i \in 1..Len(base.states) : f.states[j] = base.states[i]
            \/ \E i \in 1..Len(rest) : f.states[j] = rest[i].S
      <4> HIDE DEF step, rest, hash, from
      <4> QED BY <3>1, <2>f, FragmentStates
    <3> QED BY <2>8, <3>2
  <2>10. ASSUME NEW j \in 1..Len(f.states), Goals \subseteq f.states[j] PROVE j = Len(f.states)
    <3>1. ~(\E i \in 1..Len(st) : f.states[j] = st[i])
      BY <1>4, <2>7, <2>10
    <3>2. PICK i \in 1..Len(rest) : f.states[j] = rest[i].S
      BY <2>9, <3>1
    <3>3. cut + i \in 1..Len(path) /\ rest[i] = path[cut + i]
      BY <2>4, <2>5
    <3>4. path[cut + i] = space[current]
      BY <1>6, <2>10, <3>2, <3>3
    <3>5. f.states[j] = f.states[Len(f.states)]
      BY <2>1, <2>2, <3>2, <3>3, <3>4
    <3>7. IsSeq(f.states) /\ \A a, b \in 1..Len(f.states) : f.states[a] = f.states[b] => a = b
      BY <2>1, <2>2 DEF Held, PlanIsKept, IsRun
    <3>8. Len(f.states) \in 1..Len(f.states)
      BY <3>7, SeqFacts
    <3> QED BY <3>5, <3>7, <3>8
  <2>11. Len(f.states) \in Nat
    BY <2>1, <2>2, SeqFacts DEF Held, PlanIsKept, IsRun
  <2>12. \A k \in 1..Len(f.states) : k < Len(f.states) => ~(Goals \subseteq f.states[k])
    BY <2>10, <2>11
  <2> QED BY <2>1, <2>12
<1> QED BY <1>7, <1>8

\* The agenda has the entry that is worked on.
LEMMA EntryIsThere ==
  ASSUME AgendaInv, EndInv, Goals # {}, pc # "agenda"
  PROVE  entry <= Len(agenda)
<1>1. IsTask(task) /\ agenda = compute_goal_agenda(graph, task.goals)
  BY DEF AgendaInv
<1>2. Len(agenda) \in Nat /\ UNION {agenda[k] : k \in 1..Len(agenda)} = Goals
  BY <1>1, AgendaIsList
<1>3. Len(agenda) # 0
  <2> SUFFICES ASSUME Len(agenda) = 0 PROVE FALSE
    OBVIOUS
  <2>1. UNION {agenda[k] : k \in 1..Len(agenda)} = {}
    OBVIOUS
  <2> QED BY <1>2, <2>1
<1>4. entry = 1 \/ entry <= Len(agenda)
  BY DEF EndInv
<1> QED BY <1>2, <1>3, <1>4

LEMMA EntryStays ==
  ASSUME AgendaInv, pc # "agenda" => entry = 1 \/ entry <= Len(agenda), [SearchNext]_searchVars
  PROVE  pc' # "agenda" => entry' = 1 \/ entry' <= Len(agenda')
<1>1. CASE ComputeGoalAgenda
  BY <1>1 DEF ComputeGoalAgenda
<1>2. CASE NextEntry
  <2>1. pc = "reached" /\ entry < Len(agenda) /\ agenda' = agenda /\ entry' = entry + 1
    BY <1>2 DEF NextEntry
  <2>2. entry \in Nat /\ Len(agenda) \in Nat
    BY <2>1, AgendaIsList DEF AgendaInv
  <2>3. entry + 1 <= Len(agenda)
    BY <2>1, <2>2
  <2> QED BY <2>1, <2>3
<1>3. CASE \/ StartClimbing \/ Widen \/ ExpandFirstNode \/ SpaceExhausted \/ ExtractPlanFragment
           \/ AgendaDone \/ StartBestFirst \/ ExpandBest \/ ExtractPlan \/ ProvenUnsolvable
           \/ UNCHANGED searchVars
  <2>1. UNCHANGED <<agenda, entry>> /\ (pc' # "agenda" => pc # "agenda")
    BY <1>3 DEF StartClimbing, Start, Widen, ExpandFirstNode, Judge, SpaceExhausted,
                ExtractPlanFragment, AgendaDone, StartBestFirst, ExpandBest,
                ExtractPlan, ProvenUnsolvable, climbVars, searchVars
  <2> QED BY <2>1
<1> QED BY <1>1, <1>2, <1>3 DEF SearchNext

\* A climb widens a state that does not have all goals.
LEMMA StartLacks ==
  ASSUME FollowInv, AgendaInv, GoalInv, Goals # {}, EndInv, StartClimbing, pc' = "widen"
  PROVE  ~(Goals \subseteq S') /\ h' \in Nat /\ h' # 0
<1> DEFINE s == plan_states[Len(plan_states)]  eval == get_1P_and_H(graph, s, current_end)
<1>1. /\ pc = "climb" /\ S' = s /\ h' = eval.h
      /\ pc' = CASE eval.h = INFINITY -> "fallback"
                 [] eval.h = 0        -> "reached"
                 [] OTHER             -> "widen"
  BY DEF StartClimbing, Start, Last
<1> HIDE DEF eval
<1>2. eval.h # INFINITY /\ eval.h # 0
  BY <1>1
<1>3. Held /\ IsTask(task)
  BY <1>1 DEF FollowInv
<1>4. Len(plan_states) \in 1..Len(plan_states)
  BY <1>3, SeqFacts DEF Held, PlanIsKept, IsRun
<1>5. s \in SUBSET graph.facts
  BY <1>3, <1>4, HeldIsFacts
<1>6. eval.h \in Nat /\ ~(current_end \subseteq s)
  <2> HIDE DEF s
  <2> QED BY <1>2, <1>3, <1>5, EvaluationIs DEF eval
<1>7. current_end \subseteq Goals
  BY <1>1, EntryIsThere, EntryIsOfGoals
<1> QED BY <1>1, <1>2, <1>6, <1>7

LEMMA WidenLacks ==
  ASSUME FollowInv, EndInv, Goals # {}, Widen
  PROVE  FathersLack(space)' /\ ~(Goals \subseteq S) /\ h \in Nat /\ h # 0
<1>1. /\ pc = "widen" /\ space' = Successors(<<>>, gH, S, 0) /\ task' = task
  BY DEF Widen
<1>2. Held /\ S = plan_states[Len(plan_states)] /\ IsTask(task) /\ IsSeq(gH)
  BY <1>1 DEF FollowInv
<1>3. ~(Goals \subseteq S) /\ h \in Nat /\ h # 0
  BY <1>1 DEF EndInv
<1>4. IsSpace(<<>>, S) /\ IsFather(0, S, <<>>, S) /\ FathersLack(<<>>)
  <2>1. IsSeq(<<>>) /\ Len(<<>>) = 0
    BY DEF IsSeq
  <2> QED BY <2>1 DEF IsSpace, IsFather, FathersLack
<1>5. FathersLack(Successors(<<>>, gH, S, 0))
  BY <1>2, <1>3, <1>4, LastIsState, SuccessorsLack
<1> DEFINE new == Successors(<<>>, gH, S, 0)
<1> HIDE DEF new
<1>6. FathersLack(new) /\ space' = new /\ Goals' = Goals
  BY <1>1, <1>5 DEF new, Goals
<1> QED BY <1>3, <1>6 DEF FathersLack

LEMMA ExpandLacks ==
  ASSUME FollowInv, AgendaInv, GoalInv, EndInv, Goals # {}, ExpandFirstNode
  PROVE  /\ FathersLack(space)' /\ ~(Goals \subseteq S) /\ h' \in Nat
         /\ pc' = "expand" => h' # 0
<1> DEFINE n == space[current]
           eval == get_1P_and_H(graph, n.S, current_end)
           new == Successors(space, eval.H, n.S, current)
           dropped == eval.h = INFINITY \/ new_goal_gets_deleted(n, eval)
           better == ~dropped /\ eval.h < h
<1>1. /\ pc = "expand" /\ UNCHANGED <<task, S>> /\ current <= Len(space)
      /\ h' = IF better THEN eval.h ELSE h
      /\ pc' = IF better THEN "extract" ELSE "expand"
      /\ space' = IF dropped \/ better THEN space ELSE new
  BY DEF ExpandFirstNode, Judge
<1>2. /\ Held /\ S = plan_states[Len(plan_states)] /\ IsTask(task)
      /\ IsSpace(space, S) /\ current \in Nat \ {0}
  BY <1>1 DEF FollowInv
<1>3. ~(Goals \subseteq S) /\ h \in Nat /\ h # 0 /\ FathersLack(space)
  BY <1>1 DEF EndInv
<1>4. current \in 1..Len(space) /\ Len(plan_states) \in 1..Len(plan_states)
  BY <1>1, <1>2, SeqFacts DEF IsSpace, Held, PlanIsKept, IsRun
<1>5. n.S \in SUBSET graph.facts /\ n.S \in SUBSET Nat
  <2>1. S \in SUBSET graph.facts
    BY <1>2, <1>4, HeldIsFacts
  <2> QED BY <1>2, <1>4, <2>1, SpaceStays DEF IsSpace
<1>6. eval.h # INFINITY => eval.h \in Nat /\ (eval.h = 0 <=> current_end \subseteq n.S)
  <2> HIDE DEF n
  <2> QED BY <1>2, <1>5, EvaluationIs
<1>7. current_end \subseteq Goals
  BY <1>1, EntryIsThere, EntryIsOfGoals
<1>8. IsSeq(eval.H)
  BY <1>2, HelpfulIsSeq
<1> HIDE DEF eval
<1>9. h' \in Nat /\ (pc' = "expand" => h' # 0)
  BY <1>1, <1>3, <1>6
<1>10. ASSUME ~dropped, ~better PROVE FathersLack(new)
  <2>1. ~(Goals \subseteq n.S)
    BY <1>3, <1>6, <1>7, <1>10
  <2>2. IsFather(current, n.S, space, S)
    BY <1>2, <1>4 DEF IsFather
  <2> HIDE DEF n
  <2> QED BY <1>2, <1>3, <1>5, <1>8, <2>1, <2>2, SuccessorsLack
<1> HIDE DEF new
<1>11. FathersLack(space') /\ Goals' = Goals
  <2>1. Goals' = Goals
    BY <1>1 DEF Goals
  <2>2. CASE dropped \/ better
    BY <1>1, <1>3, <2>1, <2>2
  <2>3. CASE ~(dropped \/ better)
    <3> HIDE DEF dropped, better
    <3>1. space' = new
      BY <1>1, <2>3
    <3>2. FathersLack(new)
      BY <1>10, <2>3
    <3> QED BY <2>1, <3>1, <3>2
  <2> QED BY <2>1, <2>2, <2>3
<1>12. FathersLack(space)'
  BY <1>11 DEF FathersLack
<1> QED BY <1>3, <1>9, <1>12

LEMMA GoneOnLacks ==
  ASSUME FollowInv, AgendaInv, GoalInv, EvalInv, EndInv, Goals # {}, ExtractPlanFragment, pc' = "widen"
  PROVE  ~(Goals \subseteq S') /\ h' \in Nat /\ h' # 0
<1> DEFINE s == space[current].S  eval == get_1P_and_H(graph, s, current_end)
<1>1. pc = "extract" /\ S' = s /\ h' = h /\ h # 0
  BY DEF ExtractPlanFragment
<1>2. /\ Held /\ S = plan_states[Len(plan_states)] /\ IsTask(task)
      /\ IsSpace(space, S) /\ current \in Nat \ {0} /\ current <= Len(space)
  BY <1>1 DEF FollowInv
<1>3. current \in 1..Len(space) /\ Len(plan_states) \in 1..Len(plan_states)
  BY <1>2, SeqFacts DEF IsSpace, Held, PlanIsKept, IsRun
<1>4. s \in SUBSET graph.facts
  <2>1. S \in SUBSET graph.facts
    BY <1>2, <1>3, HeldIsFacts
  <2> QED BY <1>2, <1>3, <2>1, SpaceStays
<1>5. eval.h # INFINITY /\ h = eval.h
  BY <1>1 DEF EvalInv, IsEvaluated
<1>6. h \in Nat /\ ~(current_end \subseteq s)
  <2>1. eval.h \in Nat /\ (eval.h = 0 <=> current_end \subseteq s)
    <3> HIDE DEF s
    <3> QED BY <1>2, <1>4, <1>5, EvaluationIs
  <2> QED BY <1>1, <1>5, <2>1
<1>7. current_end \subseteq Goals
  BY <1>1, EntryIsThere, EntryIsOfGoals
<1> QED BY <1>1, <1>6, <1>7

LEMMA FirstNodeLacks ==
  ASSUME FollowInv, StartBestFirst
  PROVE  FathersLack(nodes)'
<1> DEFINE b == [open |-> <<>>, nodes |-> <<>>]
           new == AddToBfsSpace(b, task.initial, -1, 0).nodes
<1>1. nodes' = new /\ task' = task
  BY DEF StartBestFirst, Queue
<1>2. IsBfs(b) /\ FathersLack(b.nodes)
  <2>1. IsSeq(<<>>) /\ Len(<<>>) = 0 /\ <<>> \in Seq(1..0)
    BY DEF IsSeq
  <2> QED BY <2>1 DEF IsBfs, IsTree, FathersLack
<1>3. FathersLack(new)
  <2> HIDE DEF b
  <2> QED BY <1>2, AddLacks
<1> HIDE DEF new
<1> QED BY <1>1, <1>3 DEF FathersLack, Goals

LEMMA BestLacks ==
  ASSUME FollowInv, BestInv, EndInv, Goals # {}, ExpandBest
  PROVE  FathersLack(nodes)'
<1> DEFINE b == [open |-> Tail(open), nodes |-> nodes]
           n == Head(open)
           new == Expanded(b, n).nodes
<1>1. pc = "best first" /\ open # <<>> /\ nodes[n].h # 0 /\ nodes' = new /\ task' = task
  BY DEF ExpandBest, Queue
<1>2. /\ IsTree(nodes) /\ open \in Seq(1..Len(nodes)) /\ IsTask(task) /\ AreWeighed(nodes)
      /\ FathersLack(nodes)
  BY <1>1 DEF FollowInv, BestInv, HasSearched, EndInv
<1>3. n \in 1..Len(nodes) /\ Tail(open) \in Seq(1..Len(nodes))
  BY <1>1, <1>2, HeadTailProperties
<1>4. IsBfs(b) /\ b.nodes = nodes
  BY <1>2, <1>3 DEF IsBfs
<1> HIDE DEF n
<1>5. ~(Goals \subseteq nodes[n].S)
  <2>1. nodes[n].S \in SUBSET graph.facts /\ get_1P_and_H(graph, nodes[n].S, Goals).h # 0
    BY <1>1, <1>2, <1>3, TreeStays DEF AreWeighed
  <2> QED BY <1>2, <2>1, WeightMeans
<1>6. FathersLack(new)
  <2> HIDE DEF b
  <2> QED BY <1>2, <1>3, <1>4, <1>5, ApplicableIsSeq, ExpandedLacks
<1> HIDE DEF new
<1> QED BY <1>1, <1>6 DEF FathersLack, Goals

LEMMA ExtractedLacks ==
  ASSUME FollowInv, EndInv, Goals # {}, ExtractPlan
  PROVE  \A k \in 1..Len(plan_states') : k < Len(plan_states') => ~(Goals \subseteq plan_states'[k])
<1> DEFINE n == Head(open)
           p == NodesTo(n)
           c == Len(p)
           after == [k \in DOMAIN p |-> nodes[p[k]].S]
           states == <<task.initial>> \o after
<1>1. pc = "best first" /\ open # <<>> /\ (plan_states' = plan_states \/ plan_states' = <<plan_states[1]>> \o after)
  BY DEF ExtractPlan, planVars
<1>2. /\ Held /\ IsTask(task) /\ IsTree(nodes) /\ open \in Seq(1..Len(nodes)) /\ FathersLack(nodes)
  BY <1>1 DEF FollowInv, EndInv
<1>3. n \in 1..Len(nodes)
  BY <1>1, <1>2, HeadTailProperties
<1>4. plan_states' = plan_states \/ plan_states' = states
  BY <1>1, <1>2 DEF Held
<1> HIDE DEF n
<1>5. IsChain(p, n)
  BY <1>2, <1>3, NodesToIsChain
<1>6. /\ nodes[n].father # 0 => ~(Goals \subseteq task.initial)
      /\ \A i \in 1..c : p[i] = n \/ ~(Goals \subseteq nodes[p[i]].S)
  BY <1>2, <1>3, ChainLacks
<1> HIDE DEF p
<1>7. c \in Nat /\ DOMAIN p = 1..c
  BY <1>5, SeqFacts DEF IsChain
<1>8. IsSeq(after) /\ Len(after) = c /\ \A k \in 1..c : after[k] = nodes[p[k]].S
  <2>1. after = [k \in 1..c |-> nodes[p[k]].S]
    BY <1>7
  <2>2. after = [k \in 1..c |-> after[k]]
    BY <2>1
  <2> HIDE DEF after
  <2> QED BY <1>7, <2>1, <2>2, ListFacts
<1> HIDE DEF after
<1>9. /\ Len(states) = c + 1 /\ states[1] = task.initial
      /\ \A i \in 1..c : states[i + 1] = after[i]
  BY <1>8, ConsFacts
<1> HIDE DEF states
<1>10. ASSUME NEW k \in 1..(c + 1), k < c + 1 PROVE ~(Goals \subseteq states[k])
  <2>1. c # 0
    BY <1>7, <1>10
  <2>2. p[c] = n /\ c \in 1..c
    BY <1>5, <1>7, <2>1 DEF IsChain
  <2>3. CASE k = 1
    <3>1. nodes[p[c]].father # 0
      BY <1>5, <2>2 DEF IsChain
    <3> QED BY <1>6, <1>9, <2>2, <2>3, <3>1
  <2>4. CASE k # 1
    <3>1. k - 1 \in 1..c /\ (k - 1) + 1 = k /\ k - 1 # c
      BY <1>7, <1>10, <2>4
    <3>2. states[(k - 1) + 1] = after[k - 1] /\ after[k - 1] = nodes[p[k - 1]].S
      BY <1>8, <1>9, <3>1
    <3>3. p[k - 1] # n
      BY <1>5, <2>2, <3>1 DEF IsChain
    <3> QED BY <1>6, <3>1, <3>2, <3>3
  <2> QED BY <2>3, <2>4
<1>11. CASE plan_states' = states
  BY <1>9, <1>10, <1>11
<1>12. CASE plan_states' = plan_states
  BY <1>1, <1>12 DEF EndInv
<1> QED BY <1>4, <1>11, <1>12

LEMMA EndStays ==
  FollowInv /\ AgendaInv /\ BestInv /\ GoalInv /\ EvalInv /\ EndInv /\ [SearchNext]_searchVars => EndInv'
<1> SUFFICES ASSUME FollowInv, AgendaInv, BestInv, GoalInv, EvalInv, EndInv, [SearchNext]_searchVars,
                    Goals' # {}
             PROVE  EndInv'
  BY DEF EndInv
<1>0. task' = task /\ Goals' = Goals /\ Goals # {}
  <2>1. task' = task
    BY DEF SearchNext, ComputeGoalAgenda, StartClimbing, Widen, ExpandFirstNode, SpaceExhausted,
           ExtractPlanFragment, NextEntry, AgendaDone, StartBestFirst, ExpandBest, ExtractPlan,
           ProvenUnsolvable, searchVars
  <2> QED BY <2>1 DEF Goals
<1>1. pc' # "agenda" => entry' = 1 \/ entry' <= Len(agenda')
  BY <1>0, EntryStays DEF EndInv
<1>2. \A ns : FathersLack(ns) <=> FathersLack(ns)'
  BY <1>0 DEF FathersLack
<1>3. UNCHANGED planVars => \A k \in 1..Len(plan_states') : k < Len(plan_states') => ~(Goals' \subseteq plan_states'[k])
  BY <1>0 DEF EndInv, planVars
<1>4. CASE ComputeGoalAgenda
  <2>1. plan_states' = <<task.initial>> /\ pc' = "climb" /\ Len(<<task.initial>>) = 1
    BY <1>4 DEF ComputeGoalAgenda
  <2>2. \A k \in 1..1 : ~(k < 1)
    OBVIOUS
  <2> QED BY <1>1, <2>1, <2>2 DEF EndInv
<1>5. CASE StartClimbing
  <2>1. UNCHANGED planVars /\ pc' \in {"fallback", "reached", "widen"}
    BY <1>5 DEF StartClimbing, Start
  <2>2. pc' = "widen" => ~(Goals' \subseteq S') /\ h' \in Nat /\ h' # 0
    BY <1>0, <1>5, StartLacks
  <2> QED BY <1>1, <1>3, <2>1, <2>2 DEF EndInv
<1>6. CASE Widen
  <2>1. UNCHANGED <<planVars, S, h>> /\ pc' = "expand"
    BY <1>6 DEF Widen
  <2>2. FathersLack(space)' /\ ~(Goals \subseteq S) /\ h \in Nat /\ h # 0
    BY <1>0, <1>6, WidenLacks
  <2> QED BY <1>0, <1>1, <1>3, <2>1, <2>2 DEF EndInv
<1>7. CASE ExpandFirstNode
  <2>1. UNCHANGED <<planVars, S>> /\ pc' \in {"expand", "extract"}
    BY <1>7 DEF ExpandFirstNode, Judge
  <2>2. FathersLack(space)' /\ ~(Goals \subseteq S) /\ h' \in Nat /\ (pc' = "expand" => h' # 0)
    BY <1>0, <1>7, ExpandLacks
  <2> QED BY <1>0, <1>1, <1>3, <2>1, <2>2 DEF EndInv
<1>8. CASE ExtractPlanFragment
  <2>1. \A k \in 1..Len(plan_states') : k < Len(plan_states') => ~(Goals' \subseteq plan_states'[k])
    BY <1>0, <1>8, FragmentLacks
  <2>2. pc' \in {"too long", "endless", "reached", "widen"}
    BY <1>8, FragmentIsHeld
  <2>3. ASSUME pc' = "widen" PROVE ~(Goals' \subseteq S') /\ h' \in Nat /\ h' # 0
    BY <1>0, <1>8, <2>3, GoneOnLacks
  <2> QED BY <1>1, <2>1, <2>2, <2>3 DEF EndInv
<1>9. CASE NextEntry \/ AgendaDone \/ SpaceExhausted \/ ProvenUnsolvable
  <2>1. UNCHANGED planVars /\ pc' \in {"climb", "found", "fallback", "unsolvable"}
    BY <1>9 DEF NextEntry, AgendaDone, SpaceExhausted, ProvenUnsolvable
  <2> QED BY <1>1, <1>3, <2>1 DEF EndInv
<1>10. CASE StartBestFirst
  <2>1. UNCHANGED planVars /\ pc' = "best first"
    BY <1>10 DEF StartBestFirst
  <2>2. FathersLack(nodes)'
    BY <1>10, FirstNodeLacks
  <2> QED BY <1>1, <1>3, <2>1, <2>2 DEF EndInv
<1>11. CASE ExpandBest
  <2>1. UNCHANGED planVars /\ pc' = "best first"
    BY <1>11 DEF ExpandBest
  <2>2. FathersLack(nodes)'
    BY <1>0, <1>11, BestLacks
  <2> QED BY <1>1, <1>3, <2>1, <2>2 DEF EndInv
<1>12. CASE ExtractPlan
  <2>1. \A k \in 1..Len(plan_states') : k < Len(plan_states') => ~(Goals' \subseteq plan_states'[k])
    BY <1>0, <1>12, ExtractedLacks
  <2>2. pc' \in {"too long", "found"}
    BY <1>12 DEF ExtractPlan
  <2> QED BY <1>1, <2>1, <2>2 DEF EndInv
<1>13. CASE UNCHANGED searchVars
  BY <1>0, <1>13 DEF EndInv, FathersLack, searchVars, climbVars, planVars, bfsVars
<1> QED BY <1>4, <1>5, <1>6, <1>7, <1>8, <1>9, <1>10, <1>11, <1>12, <1>13 DEF SearchNext

\* FF's plan ends where all goals first hold: no state before the last one has them.
\* Climbing goes on only from a state that lacks a goal and only through such states,
\* and best first search expands no goal state (search.c).
THEOREM PlanEndsAtGoals ==
  SearchSpec => [](Goals # {} => \A k \in 1..Len(plan_states) :
                                   k < Len(plan_states) => ~(Goals \subseteq plan_states[k]))
<1>1. EndInv => (Goals # {} => \A k \in 1..Len(plan_states) :
                                 k < Len(plan_states) => ~(Goals \subseteq plan_states[k]))
  BY DEF EndInv
<1> QED BY <1>1, FollowAtFirst, FollowStays, AgendaAtFirst, AgendaStays, BestAtFirst, BestStays,
           GoalAtFirst, GoalStays, EvalAtFirst, EvalStays, EndAtFirst, EndStays, PTL DEF SearchSpec

-----------------------------------------------------------------------------
(* Lists of sets, and lists of lists                                       *)

IsListing(s, F) ==
  /\ IsSeq(s) /\ \A i \in 1..Len(s) : s[i] \in F
  /\ \A x \in F : \E i \in 1..Len(s) : s[i] = x
  /\ \A i, j \in 1..Len(s) : s[i] = s[j] => i = j

ListFold(g, P, m) ==
  g = [q \in Few(P, m) |-> IF q = {} THEN <<>> ELSE Append(g[q \ {Some(q)}], Some(q))]

LEMMA AppendIsListing ==
  ASSUME NEW q, NEW x \in q, NEW s, IsListing(s, q \ {x})
  PROVE  IsListing(Append(s, x), q)
<1> DEFINE t == Append(s, x)
           n == Len(s)
<1>1. /\ IsSeq(t) /\ Len(t) = n + 1 /\ n \in Nat
      /\ \A i \in 1..n : t[i] = s[i]
      /\ t[n + 1] = x
  BY AppendFacts, SeqFacts DEF IsListing
<1>2. 1..(n + 1) = (1..n) \cup {n + 1}
  BY <1>1
<1> HIDE DEF t, n
<1>3. \A i \in 1..n : s[i] \in q \ {x}
  BY DEF IsListing, n
<1>4. \A y \in q \ {x} : \E i \in 1..n : s[i] = y
  BY DEF IsListing, n
<1>5. \A i, j \in 1..n : s[i] = s[j] => i = j
  BY DEF IsListing, n
<1>6. \A i \in 1..(n + 1) : t[i] \in q
  BY <1>1, <1>2, <1>3
<1>7. \A y \in q : \E i \in 1..(n + 1) : t[i] = y
  BY <1>1, <1>2, <1>4
<1>8. \A i, j \in 1..(n + 1) : t[i] = t[j] => i = j
  <2>1. \A i \in 1..n : t[i] # x
    BY <1>1, <1>3
  <2> QED BY <1>1, <1>2, <1>5, <2>1
<1> QED BY <1>1, <1>6, <1>7, <1>8 DEF IsListing, t

LEMMA EmptyIsListing == IsListing(<<>>, {})
<1>1. IsSeq(<<>>) /\ Len(<<>>) = 0
  BY DEF IsSeq
<1> QED BY <1>1 DEF IsListing

\* The list of a finite set holds each of its elements once.
LEMMA ListedIsListing ==
  ASSUME NEW P, IsFiniteSet(P)
  PROVE  IsListing(Listed(P), P)
<1> DEFINE n == Cardinality(P)
           T == {m \in Nat : \E g : ListFold(g, P, m)}
<1>0. n \in Nat
  BY FS_CardinalityType
<1>a. Few(P, 0) = {{}}
  <2>1. ASSUME NEW q \in SUBSET P PROVE Cardinality(q) <= 0 <=> q = {}
    <3>1. IsFiniteSet(q)
      BY FS_Subset
    <3> QED BY <3>1, FS_CardinalityType, FS_EmptySet
  <2> QED BY <2>1 DEF Few
<1>1. 0 \in T
  <2>1. ListFold([q \in {{}} |-> <<>>], P, 0)
    BY <1>a DEF ListFold
  <2> QED BY <2>1
<1>2. ASSUME NEW m \in Nat, m \in T PROVE m + 1 \in T
  <2>1. PICK g : ListFold(g, P, m)
    BY <1>2
  <2> DEFINE h1 == [q \in Few(P, m + 1) |->
                      IF q = {} THEN <<>> ELSE Append(g[q \ {Some(q)}], Some(q))]
  <2>2. Few(P, m) \subseteq Few(P, m + 1)
    <3>1. ASSUME NEW q \in SUBSET P, Cardinality(q) <= m PROVE Cardinality(q) <= m + 1
      <4>1. Cardinality(q) \in Nat
        BY FS_Subset, FS_CardinalityType
      <4> QED BY <3>1, <4>1
    <3> QED BY <3>1 DEF Few
  <2>3. \A q \in Few(P, m) : h1[q] = g[q]
    BY <2>1, <2>2 DEF ListFold
  <2>4. \A q \in Few(P, m + 1) : q # {} => q \ {Some(q)} \in Few(P, m)
    BY FewFacts
  <2>5. ListFold(h1, P, m + 1)
    <3>1. \A q \in Few(P, m + 1) : q # {} =>
            h1[q \ {Some(q)}] = g[q \ {Some(q)}]
      <4> HIDE DEF h1
      <4> QED BY <2>3, <2>4
    <3> QED BY <3>1 DEF ListFold
  <2> QED BY <2>5
<1>3. n \in T
  <2> HIDE DEF T, n
  <2> QED BY <1>0, <1>1, <1>2, Upwards
<1>4. Few(P, n) = SUBSET P
  BY FS_Subset DEF Few
<1> HIDE DEF n
<1> DEFINE fold == CHOOSE g : ListFold(g, P, n)
<1>5. ListFold(fold, P, n)
  BY <1>3
<1>6. Listed(P) = fold[P]
  BY <1>4 DEF Listed, FoldSet, MapThenFoldSet, ListFold, Some
<1> HIDE DEF fold
<1> DEFINE U == {m \in Nat : \A q \in Few(P, m) : IsListing(fold[q], q)}
<1>7. 0 \in U
  <2>1. fold[{}] = <<>>
    BY <1>4, <1>5 DEF ListFold
  <2> QED BY <1>a, <2>1, EmptyIsListing
<1>8. ASSUME NEW m \in Nat, m \in U PROVE m + 1 \in U
  <2>1. ASSUME NEW q \in Few(P, m + 1) PROVE IsListing(fold[q], q)
    <3>1. CASE q = {}
      <4>1. fold[{}] = <<>>
        BY <1>4, <1>5 DEF ListFold
      <4> QED BY <3>1, <4>1, EmptyIsListing
    <3>2. CASE q # {}
      <4> DEFINE x == Some(q)
      <4>1. q \in SUBSET P /\ x \in q /\ q \ {x} \in Few(P, m)
        BY <3>2, FewFacts DEF Few, Some
      <4>2. fold[q] = Append(fold[q \ {x}], x)
        BY <1>4, <1>5, <3>2, <4>1 DEF ListFold
      <4> HIDE DEF x
      <4>3. IsListing(fold[q \ {x}], q \ {x})
        BY <1>8, <4>1
      <4> QED BY <4>1, <4>2, <4>3, AppendIsListing
    <3> QED BY <3>1, <3>2
  <2> QED BY <2>1
<1>9. n \in U
  <2> HIDE DEF U
  <2> QED BY <1>0, <1>7, <1>8, Upwards
<1>10. P \in Few(P, n)
  BY <1>4
<1> QED BY <1>6, <1>9, <1>10

FlattenUpTo(g, s, m) == g = [i \in 1..m |-> IF i = 1 THEN s[i] ELSE g[i - 1] \o s[i]]

\* A list of lists, flattened, holds the elements of the lists and no others.
IsFlat(t, s, n) ==
  /\ IsSeq(t)
  /\ \A i \in 1..Len(t) : \E j \in 1..n : \E k \in 1..Len(s[j]) : t[i] = s[j][k]
  /\ \A j \in 1..n : \A k \in 1..Len(s[j]) : \E i \in 1..Len(t) : t[i] = s[j][k]

LEMMA ConcatIsFlat ==
  ASSUME NEW s, NEW l \in Nat, NEW a, IsFlat(a, s, l), NEW b, IsSeq(b), b = s[l + 1]
  PROVE  IsFlat(a \o b, s, l + 1)
<1>3. IsSeq(a)
  BY DEF IsFlat
<1>4. /\ IsSeq(a \o b) /\ Len(a \o b) = Len(a) + Len(b)
      /\ Len(a) \in Nat /\ Len(b) \in Nat
      /\ \A i \in 1..Len(a) : (a \o b)[i] = a[i]
      /\ \A i \in 1..Len(b) : (a \o b)[Len(a) + i] = b[i]
  <2>1. Len(a) \in Nat /\ Len(b) \in Nat
    BY <1>3, SeqFacts
  <2>2. /\ Len(a \o b) = Len(a) + Len(b)
        /\ \A i \in 1..Len(a) : (a \o b)[i] = a[i]
        /\ \A i \in 1..Len(b) : (a \o b)[Len(a) + i] = b[i]
    BY <1>3, ConcatFacts
  <2>3. IsSeq(a \o b)
    BY <1>3, ConcatFacts
  <2> QED BY <2>1, <2>2, <2>3
<1>5. \A i \in 1..Len(a \o b) : i \in 1..Len(a) \/ \E k \in 1..Len(b) : i = Len(a) + k
  <2>1. ASSUME NEW i \in 1..Len(a \o b), i \notin 1..Len(a) PROVE \E k \in 1..Len(b) : i = Len(a) + k
    <3>1. i - Len(a) \in 1..Len(b) /\ i = Len(a) + (i - Len(a))
      BY <1>4, <2>1
    <3> QED BY <3>1
  <2> QED BY <2>1
<1>6. \A i \in 1..Len(a \o b) : \E j \in 1..(l + 1) : \E k \in 1..Len(s[j]) : (a \o b)[i] = s[j][k]
  <2>1. ASSUME NEW i \in 1..Len(a) PROVE \E j \in 1..(l + 1) : \E k \in 1..Len(s[j]) : (a \o b)[i] = s[j][k]
    <3>1. PICK j \in 1..l : \E k \in 1..Len(s[j]) : a[i] = s[j][k]
      BY DEF IsFlat
    <3>2. j \in 1..(l + 1)
      OBVIOUS
    <3> QED BY <1>4, <3>1, <3>2
  <2>2. ASSUME NEW k \in 1..Len(b) PROVE \E j \in 1..(l + 1) : \E kk \in 1..Len(s[j]) : (a \o b)[Len(a) + k] = s[j][kk]
    <3>1. l + 1 \in 1..(l + 1)
      OBVIOUS
    <3> QED BY <1>4, <3>1
  <2>3. ASSUME NEW i \in 1..Len(a \o b)
        PROVE  \E j \in 1..(l + 1) : \E k \in 1..Len(s[j]) : (a \o b)[i] = s[j][k]
    <3>1. CASE i \in 1..Len(a)
      BY <2>1, <3>1
    <3>2. CASE i \notin 1..Len(a)
      <4>1. PICK k \in 1..Len(b) : i = Len(a) + k
        BY <1>5, <2>3, <3>2
      <4> QED BY <2>2, <4>1
    <3> QED BY <3>1, <3>2
  <2> QED BY <2>3
<1>7. \A j \in 1..(l + 1) : \A k \in 1..Len(s[j]) : \E i \in 1..Len(a \o b) : (a \o b)[i] = s[j][k]
  <2>1. ASSUME NEW j \in 1..l, NEW k \in 1..Len(s[j]) PROVE \E i \in 1..Len(a \o b) : (a \o b)[i] = s[j][k]
    <3>1. PICK i \in 1..Len(a) : a[i] = s[j][k]
      BY DEF IsFlat
    <3>2. i \in 1..Len(a \o b)
      BY <1>4
    <3> QED BY <1>4, <3>1, <3>2
  <2>2. ASSUME NEW k \in 1..Len(b) PROVE \E i \in 1..Len(a \o b) : (a \o b)[i] = b[k]
    <3>1. Len(a) + k \in 1..Len(a \o b)
      BY <1>4
    <3> QED BY <1>4, <3>1
  <2>3. \A j \in 1..(l + 1) : j \in 1..l \/ j = l + 1
    OBVIOUS
  <2> QED BY <2>1, <2>2, <2>3
<1>8. IsFlat(a \o b, s, l + 1)
  BY <1>4, <1>6, <1>7 DEF IsFlat
<1> QED BY <1>8

LEMMA FlattenHolds ==
  ASSUME NEW s, IsSeq(s), \A j \in 1..Len(s) : IsSeq(s[j])
  PROVE  IsFlat(FlattenSeq(s), s, Len(s))
<1> DEFINE n == Len(s)
           T == {m \in Nat : \E g : FlattenUpTo(g, s, m)}
<1>0. n \in Nat
  BY SeqFacts
<1>a. CASE n = 0
  <2>1. FlattenSeq(s) = s
    BY <1>a DEF FlattenSeq
  <2> QED BY <1>a, <2>1 DEF IsFlat
<1>b. CASE n # 0
  <2>1. 0 \in T
    <3>1. FlattenUpTo([i \in 1..0 |-> {}], s, 0)
      BY DEF FlattenUpTo
    <3> QED BY <3>1
  <2>2. ASSUME NEW m \in Nat, m \in T PROVE m + 1 \in T
    <3>1. PICK g : FlattenUpTo(g, s, m)
      BY <2>2
    <3> DEFINE h1 == [i \in 1..(m + 1) |-> IF i = 1 THEN s[i] ELSE g[i - 1] \o s[i]]
    <3>2. \A i \in 1..m : h1[i] = g[i]
      <4>1. 1..m \subseteq 1..(m + 1)
        OBVIOUS
      <4> QED BY <3>1, <4>1 DEF FlattenUpTo
    <3>3. \A i \in 1..(m + 1) : i # 1 => i - 1 \in 1..m
      OBVIOUS
    <3>4. FlattenUpTo(h1, s, m + 1)
      <4>1. \A i \in 1..(m + 1) : i # 1 => h1[i - 1] = g[i - 1]
        <5> HIDE DEF h1
        <5> QED BY <3>2, <3>3
      <4> QED BY <4>1 DEF FlattenUpTo
    <3> QED BY <3>4
  <2>3. n \in T
    <3> HIDE DEF T, n
    <3> QED BY <1>0, <2>1, <2>2, Upwards
  <2> DEFINE fold == CHOOSE g : FlattenUpTo(g, s, n)
  <2>4. FlattenUpTo(fold, s, n)
    BY <2>3
  <2>5. FlattenSeq(s) = fold[n]
    BY <1>b DEF FlattenSeq, FlattenUpTo
  <2> HIDE DEF fold
  <2> DEFINE U == {m \in Nat : m + 1 \in 1..n => IsFlat(fold[m + 1], s, m + 1)}
  <2>6. 0 \in U
    <3>1. fold[1] = s[1] /\ IsSeq(s[1])
      BY <1>0, <1>b, <2>4 DEF FlattenUpTo
    <3> QED BY <3>1 DEF IsFlat
  <2>7. ASSUME NEW m \in Nat, m \in U PROVE m + 1 \in U
    <3> SUFFICES ASSUME (m + 1) + 1 \in 1..n PROVE IsFlat(fold[(m + 1) + 1], s, (m + 1) + 1)
      OBVIOUS
    <3> DEFINE l == m + 1
               a == fold[l]
               b == s[l + 1]
    <3>1. IsFlat(a, s, l) /\ l \in Nat /\ l \in 1..n /\ l + 1 \in 1..n
      BY <1>0, <2>7
    <3>2. fold[l + 1] = a \o b
      <4>1. l + 1 # 1 /\ (l + 1) - 1 = l
        OBVIOUS
      <4> HIDE DEF l
      <4> QED BY <2>4, <3>1, <4>1 DEF FlattenUpTo
    <3>3. IsSeq(b) /\ IsSeq(a)
      BY <3>1 DEF IsFlat
    <3> HIDE DEF n, l, a
    <3>4. IsFlat(a \o b, s, l + 1)
      BY <3>1, <3>3, ConcatIsFlat
    <3> QED BY <3>2, <3>4 DEF l
  <2>8. n - 1 \in U
    <3>1. n - 1 \in Nat
      BY <1>0, <1>b
    <3> HIDE DEF U, n
    <3> QED BY <2>6, <2>7, <3>1, Upwards
  <2>9. (n - 1) + 1 = n /\ n \in 1..n
    BY <1>0, <1>b
  <2> QED BY <2>5, <2>8, <2>9
<1> QED BY <1>a, <1>b

-----------------------------------------------------------------------------
(* The effects of the connectivity graph                                   *)

\* A numbered action, and the effect that its group of effect i becomes.
AreActions(as) == IsSeq(as) /\ \A op \in 1..Len(as) : IsSeq(as[op].effects)

Conn(a, op, i) ==
  [op |-> op, PC |-> Integrated(a, i).PC, A |-> Integrated(a, i).A, D |-> Integrated(a, i).D,
   removed |-> RemovedEffect(a, Integrated(a, i))]

LEMMA LeadersAreNumbers ==
  ASSUME NEW a, IsSeq(a.effects)
  PROVE  /\ Leaders(a) \in SUBSET Int /\ IsFiniteSet(Leaders(a)) /\ Leaders(a) \subseteq DOMAIN a.effects
         /\ DOMAIN a.effects \subseteq Int
<1>1. Len(a.effects) \in Nat /\ DOMAIN a.effects = 1..Len(a.effects)
  BY SeqFacts
<1>2. IsFiniteSet(1..Len(a.effects))
  BY <1>1, FS_Interval
<1>3. Leaders(a) \subseteq 1..Len(a.effects)
  BY <1>1 DEF Leaders
<1> QED BY <1>1, <1>2, <1>3, FS_Subset

\* Every effect is in the group of a leader.
LEMMA LeaderOf ==
  ASSUME NEW a, IsSeq(a.effects), NEW j \in DOMAIN a.effects
  PROVE  \E i \in Leaders(a) : j \in Group(a, i) /\ Group(a, i) = Group(a, j)
                               /\ a.effects[i].conditions = a.effects[j].conditions
<1> DEFINE i == Min(Group(a, j))
<1>1. DOMAIN a.effects = 1..Len(a.effects) /\ Len(a.effects) \in Nat
  BY SeqFacts
<1>2. Group(a, j) \subseteq Nat /\ j \in Group(a, j)
  BY <1>1 DEF Group
<1>3. i \in Group(a, j) /\ \A k \in Group(a, j) : i <= k
  BY <1>2, MinIsFirst
<1>4. i \in DOMAIN a.effects /\ a.effects[i].conditions = a.effects[j].conditions
  BY <1>3 DEF Group
<1>5. Group(a, i) = Group(a, j)
  BY <1>4 DEF Group
<1> HIDE DEF i
<1> QED BY <1>2, <1>3, <1>4, <1>5 DEF Leaders

LEMMA ConnsOf ==
  ASSUME NEW a, IsSeq(a.effects), NEW op
  PROVE  LET c == EffectConns(a, op)
         IN  /\ IsSeq(c)
             /\ \A k \in 1..Len(c) : \E i \in Leaders(a) : c[k] = Conn(a, op, i)
             /\ \A i \in Leaders(a) : \E k \in 1..Len(c) : c[k] = Conn(a, op, i)
<1> DEFINE is == Increasing(Leaders(a))
           c == EffectConns(a, op)
<1>1. Leaders(a) \in SUBSET Int /\ IsFiniteSet(Leaders(a))
  BY LeadersAreNumbers
<1>2. IsSeq(is) /\ Len(is) \in Nat /\ DOMAIN is = 1..Len(is)
  BY <1>1, IncreasingIsSeq, SeqFacts
<1>3. /\ \A k \in DOMAIN is : is[k] \in Leaders(a)
      /\ \A i \in Leaders(a) : \E k \in DOMAIN is : is[k] = i
  BY <1>1, IncreasingIsInOrder
<1>4. c = [k \in DOMAIN is |-> Conn(a, op, is[k])]
  BY DEF EffectConns, Conn
<1> HIDE DEF c, is
<1>5. c = [k \in 1..Len(is) |-> c[k]]
  BY <1>2, <1>4
<1>6. IsSeq(c) /\ Len(c) = Len(is)
  BY <1>2, <1>5, ListFacts
<1> QED BY <1>2, <1>3, <1>4, <1>6 DEF c

\* The effects of the graph are those that the groups of the actions become.
IsGraphOf(g, as) ==
  /\ IsSeq(g.ef)
  /\ \A e \in DOMAIN g.ef : \E op \in 1..Len(as) :
       \E i \in Leaders(as[op]) : g.ef[e] = Conn(as[op], op, i)
  /\ \A op \in 1..Len(as) : \A i \in Leaders(as[op]) :
       \E e \in DOMAIN g.ef : g.ef[e] = Conn(as[op], op, i)

LEMMA GraphEffects ==
  ASSUME NEW facts, NEW goal, NEW as, AreActions(as)
  PROVE  IsGraphOf(build_connectivity_graph(facts, as, goal), as)
<1> DEFINE s == [op \in DOMAIN as |-> EffectConns(as[op], op)]
           n == Len(as)
           t == FlattenSeq(s)
<1>1. n \in Nat /\ DOMAIN as = 1..n /\ \A op \in 1..n : IsSeq(as[op].effects)
  BY SeqFacts DEF AreActions
<1>2. IsSeq(s) /\ Len(s) = n
  BY <1>1, ListFacts
<1>3. \A op \in 1..n : s[op] = EffectConns(as[op], op)
  BY <1>1
<1>4. build_connectivity_graph(facts, as, goal).ef = t
  BY DEF build_connectivity_graph
<1> HIDE DEF s, n
<1>5. ASSUME NEW op \in 1..n
      PROVE  /\ IsSeq(s[op])
             /\ \A k \in 1..Len(s[op]) : \E i \in Leaders(as[op]) : s[op][k] = Conn(as[op], op, i)
             /\ \A i \in Leaders(as[op]) : \E k \in 1..Len(s[op]) : s[op][k] = Conn(as[op], op, i)
  <2> DEFINE a == as[op]
             c == EffectConns(a, op)
  <2>1. IsSeq(a.effects) /\ s[op] = c
    BY <1>1, <1>3
  <2> HIDE DEF a
  <2>2. /\ IsSeq(c)
        /\ \A k \in 1..Len(c) : \E i \in Leaders(a) : c[k] = Conn(a, op, i)
        /\ \A i \in Leaders(a) : \E k \in 1..Len(c) : c[k] = Conn(a, op, i)
    BY <2>1, ConnsOf
  <2> QED BY <2>1, <2>2 DEF a
<1>6. IsFlat(t, s, n)
  BY <1>2, <1>5, FlattenHolds
<1> HIDE DEF t
<1>7. IsSeq(t) /\ DOMAIN t = 1..Len(t)
  BY <1>6, SeqFacts DEF IsFlat
<1>8. ASSUME NEW e \in DOMAIN t
      PROVE  \E op \in 1..n : \E i \in Leaders(as[op]) : t[e] = Conn(as[op], op, i)
  <2>1. PICK op \in 1..n : \E k \in 1..Len(s[op]) : t[e] = s[op][k]
    BY <1>6, <1>7 DEF IsFlat
  <2>2. PICK k \in 1..Len(s[op]) : t[e] = s[op][k]
    BY <2>1
  <2>3. \E i \in Leaders(as[op]) : s[op][k] = Conn(as[op], op, i)
    BY <1>5
  <2> QED BY <2>2, <2>3
<1>9. ASSUME NEW op \in 1..n, NEW i \in Leaders(as[op])
      PROVE  \E e \in DOMAIN t : t[e] = Conn(as[op], op, i)
  <2>1. PICK k \in 1..Len(s[op]) : s[op][k] = Conn(as[op], op, i)
    BY <1>5
  <2>2. PICK e \in 1..Len(t) : t[e] = s[op][k]
    BY <1>6 DEF IsFlat
  <2> QED BY <1>7, <2>1, <2>2
<1> QED BY <1>4, <1>7, <1>8, <1>9 DEF n, IsGraphOf

-----------------------------------------------------------------------------
(* The transition                                                          *)

Acting(a, s)  == {j \in DOMAIN a.effects : a.effects[j].conditions \subseteq s}
Moved(a, s) == (s \ UNION {a.effects[j].dels : j \in Acting(a, s)})
                 \cup UNION {a.effects[j].adds : j \in Acting(a, s)}

\* No effect deletes what is added as a precondition of another one.
KeepsAdds(a) ==
  \A i, j \in DOMAIN a.effects :
    a.effects[i].conditions # a.effects[j].conditions
      => a.effects[i].adds \cap a.effects[j].dels \cap (a.preconds \cup a.effects[i].conditions) = {}

NoAdds(a) == \A i \in Leaders(a) : Integrated(a, i).A = {}

\* The leaders of an operator whose effects fire.
Firing(a, s) == {i \in Leaders(a) : Integrated(a, i).PC \subseteq s /\ ~RemovedEffect(a, Integrated(a, i))}

Fired(a, s) == (s \ UNION {Integrated(a, i).D : i \in Firing(a, s)})
                 \cup UNION {Integrated(a, i).A : i \in Firing(a, s)}

LEMMA TransitionIs ==
  ASSUME NEW g, NEW as, IsGraphOf(g, as), NEW s, NEW op \in 1..Len(as), NEW a, a = as[op]
  PROVE  /\ (TrueEffects(g, s, op) = {}) <=> (Firing(a, s) = {})
         /\ result_to_dest(g, s, op) = Fired(a, s)
<1> DEFINE on == Firing(a, s)
           es == TrueEffects(g, s, op)
<1>1. /\ \A e \in DOMAIN g.ef : \E o \in 1..Len(as) : \E i \in Leaders(as[o]) : g.ef[e] = Conn(as[o], o, i)
      /\ \A i \in Leaders(a) : \E e \in DOMAIN g.ef : g.ef[e] = Conn(a, op, i)
  BY DEF IsGraphOf
<1>2. es = {e \in DOMAIN g.ef : ~g.ef[e].removed /\ g.ef[e].op = op /\ g.ef[e].PC \subseteq s}
  BY DEF TrueEffects, EffectsOf, Kept
<1>4. ASSUME NEW e \in es PROVE \E i \in on : g.ef[e].D = Integrated(a, i).D /\ g.ef[e].A = Integrated(a, i).A
  <2>1. e \in DOMAIN g.ef /\ ~g.ef[e].removed /\ g.ef[e].op = op /\ g.ef[e].PC \subseteq s
    BY <1>2
  <2>2. PICK o \in 1..Len(as) : \E i \in Leaders(as[o]) : g.ef[e] = Conn(as[o], o, i)
    BY <1>1, <2>1
  <2>3. PICK i \in Leaders(as[o]) : g.ef[e] = Conn(as[o], o, i)
    BY <2>2
  <2>4. g.ef[e].op = o
    BY <2>3 DEF Conn
  <2>5. i \in Leaders(a) /\ g.ef[e] = Conn(a, op, i)
    BY <2>1, <2>3, <2>4
  <2>6. /\ Integrated(a, i).PC = g.ef[e].PC /\ g.ef[e].D = Integrated(a, i).D /\ g.ef[e].A = Integrated(a, i).A
        /\ RemovedEffect(a, Integrated(a, i)) = g.ef[e].removed
    BY <2>5 DEF Conn
  <2> QED BY <2>1, <2>5, <2>6 DEF Firing
<1>5. ASSUME NEW i \in on PROVE \E e \in es : g.ef[e].D = Integrated(a, i).D /\ g.ef[e].A = Integrated(a, i).A
  <2>1. i \in Leaders(a) /\ Integrated(a, i).PC \subseteq s /\ ~RemovedEffect(a, Integrated(a, i))
    BY DEF Firing
  <2>2. PICK e \in DOMAIN g.ef : g.ef[e] = Conn(a, op, i)
    BY <1>1, <2>1
  <2>3. /\ Integrated(a, i).PC = g.ef[e].PC /\ g.ef[e].D = Integrated(a, i).D /\ g.ef[e].A = Integrated(a, i).A
        /\ RemovedEffect(a, Integrated(a, i)) = g.ef[e].removed /\ g.ef[e].op = op
    BY <2>2 DEF Conn
  <2>4. e \in es
    BY <1>2, <2>1, <2>3
  <2> QED BY <2>3, <2>4
<1> HIDE DEF es, on
<1>6. \A e \in es : \E i \in on : g.ef[e].D = Integrated(a, i).D /\ g.ef[e].A = Integrated(a, i).A
  BY <1>4
<1>7. \A i \in on : \E e \in es : g.ef[e].D = Integrated(a, i).D /\ g.ef[e].A = Integrated(a, i).A
  BY <1>5
<1>8. result_to_dest(g, s, op) = (s \ UNION {g.ef[e].D : e \in es}) \cup UNION {g.ef[e].A : e \in es}
  BY DEF result_to_dest, Undeleted, es
<1>9. UNION {g.ef[e].D : e \in es} = UNION {Integrated(a, i).D : i \in on}
  BY <1>6, <1>7
<1>10. UNION {g.ef[e].A : e \in es} = UNION {Integrated(a, i).A : i \in on}
  BY <1>6, <1>7
<1>11. es = {} <=> on = {}
  BY <1>6, <1>7
<1> QED BY <1>8, <1>9, <1>10, <1>11 DEF es, on, Fired

\* An operator changes the state as its action says, or it is left without effects.
LEMMA TransitionMoves ==
  ASSUME NEW g, NEW as, AreActions(as), IsGraphOf(g, as), NEW s, NEW op \in 1..Len(as), NEW a, a = as[op],
         a.preconds \subseteq s, KeepsAdds(a)
  PROVE  \/ ~NoAdds(a) /\ result_to_dest(g, s, op) = Moved(a, s)
         \/ NoAdds(a) /\ result_to_dest(g, s, op) = s /\ Moved(a, s) \subseteq s
<1> DEFINE in(i) == Integrated(a, i)
           on == Firing(a, s)
           A(i) == UNION {a.effects[j].adds : j \in Group(a, i)}
           D(i) == UNION {a.effects[j].dels : j \in Group(a, i)}
           P(i) == a.preconds \cup a.effects[i].conditions
           led == {i \in Leaders(a) : a.effects[i].conditions \subseteq s}
<1>1. result_to_dest(g, s, op) = (s \ UNION {in(i).D : i \in on}) \cup UNION {in(i).A : i \in on}
  <2>1. \A f, bs : IsGraphOf(f, bs) =>
          \A t : \A o \in 1..Len(bs) : \A b : b = bs[o] => result_to_dest(f, t, o) = Fired(b, t)
    BY TransitionIs
  <2>2. \A t : \A o \in 1..Len(as) : \A b : b = as[o] => result_to_dest(g, t, o) = Fired(b, t)
    BY <2>1
  <2>3. \A b : b = as[op] => result_to_dest(g, s, op) = Fired(b, s)
    BY <2>2
  <2>4. result_to_dest(g, s, op) = Fired(a, s)
    BY <2>3
  <2>5. Fired(a, s) = (s \ UNION {in(i).D : i \in on}) \cup UNION {in(i).A : i \in on}
    BY DEF Fired
  <2> HIDE DEF in, on
  <2> QED BY <2>4, <2>5
<1>2. \A i : in(i).PC = P(i) /\ in(i).A = A(i) \ P(i) /\ in(i).D = D(i) \ A(i)
  BY DEF Integrated
<1>3. IsSeq(a.effects)
  BY DEF AreActions
<1>4. led \subseteq DOMAIN a.effects /\ \A i \in led : P(i) \subseteq s /\ i \in Leaders(a)
  BY <1>3, LeadersAreNumbers
<1>a. \A j \in Acting(a, s) : \E i \in led : j \in Group(a, i)
  <2> SUFFICES ASSUME NEW j \in Acting(a, s) PROVE \E i \in led : j \in Group(a, i)
    OBVIOUS
  <2>1. j \in DOMAIN a.effects /\ a.effects[j].conditions \subseteq s
    BY DEF Acting
  <2>2. PICK i \in Leaders(a) : j \in Group(a, i) /\ a.effects[i].conditions = a.effects[j].conditions
    BY <1>3, <2>1, LeaderOf
  <2> QED BY <2>1, <2>2
<1>b. \A i \in led : \A j \in Group(a, i) : j \in Acting(a, s)
  BY DEF Acting, Group
<1>5. UNION {a.effects[j].adds : j \in Acting(a, s)} = UNION {A(i) : i \in led}
  <2>1. ASSUME NEW x, NEW j \in Acting(a, s), x \in a.effects[j].adds PROVE \E i \in led : x \in A(i)
    <3>1. PICK i \in led : j \in Group(a, i)
      BY <1>a
    <3> QED BY <2>1, <3>1
  <2>2. ASSUME NEW x, NEW i \in led, x \in A(i) PROVE \E j \in Acting(a, s) : x \in a.effects[j].adds
    <3>1. PICK j \in Group(a, i) : x \in a.effects[j].adds
      BY <2>2
    <3> QED BY <1>b, <3>1
  <2> HIDE DEF led, A
  <2> QED BY <2>1, <2>2
<1>6. UNION {a.effects[j].dels : j \in Acting(a, s)} = UNION {D(i) : i \in led}
  <2>1. ASSUME NEW x, NEW j \in Acting(a, s), x \in a.effects[j].dels PROVE \E i \in led : x \in D(i)
    <3>1. PICK i \in led : j \in Group(a, i)
      BY <1>a
    <3> QED BY <2>1, <3>1
  <2>2. ASSUME NEW x, NEW i \in led, x \in D(i) PROVE \E j \in Acting(a, s) : x \in a.effects[j].dels
    <3>1. PICK j \in Group(a, i) : x \in a.effects[j].dels
      BY <2>2
    <3> QED BY <1>b, <3>1
  <2> HIDE DEF led, D
  <2> QED BY <2>1, <2>2
<1>7. Moved(a, s) = (s \ UNION {D(i) : i \in led}) \cup UNION {A(i) : i \in led}
  BY <1>5, <1>6 DEF Moved
<1>8. \A i, k \in led : A(i) \cap (D(k) \ A(k)) \cap P(i) = {}
  <2> SUFFICES ASSUME NEW i \in led, NEW k \in led, NEW x \in A(i), x \in D(k), x \notin A(k), x \in P(i)
               PROVE  FALSE
    OBVIOUS
  <2>1. PICK m \in Group(a, i) : x \in a.effects[m].adds
    OBVIOUS
  <2>2. PICK l \in Group(a, k) : x \in a.effects[l].dels
    OBVIOUS
  <2>3. /\ m \in DOMAIN a.effects /\ l \in DOMAIN a.effects
        /\ a.effects[m].conditions = a.effects[i].conditions
        /\ a.effects[l].conditions = a.effects[k].conditions
    BY DEF Group
  <2>4. CASE a.effects[i].conditions = a.effects[k].conditions
    <3>1. m \in Group(a, k)
      BY <2>3, <2>4 DEF Group
    <3> QED BY <2>1, <3>1
  <2>5. CASE a.effects[i].conditions # a.effects[k].conditions
    <3>1. a.effects[m].adds \cap a.effects[l].dels \cap (a.preconds \cup a.effects[m].conditions) = {}
      BY <2>3, <2>5 DEF KeepsAdds
    <3> QED BY <2>1, <2>2, <2>3, <3>1
  <2> QED BY <2>4, <2>5
<1>c. ASSUME NEW i \in Leaders(a) PROVE (in(i).PC \subseteq s) <=> (i \in led)
  <2>1. in(i).PC = a.preconds \cup a.effects[i].conditions
    BY <1>2
  <2> HIDE DEF in
  <2> QED BY <2>1
<1>9. CASE ~NoAdds(a)
  <2>1. \A i \in Leaders(a) : RemovedEffect(a, in(i)) <=> in(i).A = {} /\ in(i).D = {}
    BY <1>9 DEF RemovedEffect, NoAdds
  <2>2. on = {i \in led : ~(in(i).A = {} /\ in(i).D = {})}
    BY <1>4, <1>c, <2>1 DEF Firing
  <2> HIDE DEF on, led, in
  <2>3. UNION {in(i).D : i \in on} = UNION {in(i).D : i \in led}
    BY <2>2
  <2>4. UNION {in(i).A : i \in on} = UNION {in(i).A : i \in led}
    BY <2>2
  <2> HIDE DEF A, D, P
  <2>5. result_to_dest(g, s, op) = (s \ UNION {D(i) \ A(i) : i \in led}) \cup UNION {A(i) \ P(i) : i \in led}
    BY <1>1, <1>2, <2>3, <2>4
  <2>6. ASSUME NEW x \in Moved(a, s) PROVE x \in result_to_dest(g, s, op)
    <3>1. CASE \E i \in led : x \in A(i) \ P(i)
      BY <2>5, <3>1
    <3>2. CASE \E i \in led : x \in A(i) /\ x \in P(i)
      <4>1. x \in s
        BY <1>4, <3>2
      <4>2. \A k \in led : x \notin D(k) \ A(k)
        BY <1>8, <3>2
      <4> QED BY <2>5, <4>1, <4>2
    <3>3. CASE x \in s /\ \A i \in led : x \notin D(i)
      BY <2>5, <3>3
    <3> QED BY <1>7, <2>6, <3>1, <3>2, <3>3
  <2>7. ASSUME NEW x \in result_to_dest(g, s, op) PROVE x \in Moved(a, s)
    BY <1>7, <2>5, <2>7
  <2> QED BY <1>9, <2>6, <2>7
<1>10. CASE NoAdds(a)
  <2>1. on = {}
    BY <1>10 DEF RemovedEffect, NoAdds, Firing
  <2>2. result_to_dest(g, s, op) = s
    BY <1>1, <2>1
  <2>3. \A i \in led : in(i).A = {}
    BY <1>4, <1>10 DEF NoAdds
  <2> HIDE DEF A, D, P, led, in
  <2>4. \A i \in led : A(i) \subseteq P(i)
    BY <1>2, <2>3
  <2>5. Moved(a, s) \subseteq s
    BY <1>4, <1>7, <2>4
  <2> QED BY <1>10, <2>2, <2>5
<1> QED BY <1>9, <1>10

-----------------------------------------------------------------------------
(* The numbers of the relevant facts                                       *)

\* What the reachability analysis leaves, and a goal that it has not decided.
IsResult(r) ==
  /\ IsFiniteSet(r.pos) /\ r.initial \subseteq r.pos
  /\ r.fluents \subseteq r.initial /\ r.initial \cap Deleted(r) \subseteq r.fluents
  /\ IsFiniteSet(r.actions)
  /\ \A a \in r.actions : /\ IsFiniteSet(a.effects) /\ a.preconds \subseteq r.pos
                          /\ \A e \in a.effects : e.adds \subseteq r.pos

IsGoal(r, goal) ==
  /\ IsFiniteSet(goal) /\ goal # {} /\ {} \notin goal
  /\ \A d \in goal : d \subseteq Relevant(r)

Facts(r) == Listed(Relevant(r))
Index(r) == [f \in Relevant(r) |-> CHOOSE i \in DOMAIN Facts(r) : Facts(r)[i] = f]
Size(r)  == Cardinality(Relevant(r))
Always(r) == r.initial \ Deleted(r)

\* The facts that a state of the search stands for.
Shown(r, s) == Always(r) \cup {Facts(r)[i] : i \in s \cap DOMAIN Facts(r)}

LEMMA IndexIs ==
  ASSUME NEW r, IsResult(r)
  PROVE  /\ IsSeq(Facts(r)) /\ Len(Facts(r)) = Size(r) /\ DOMAIN Facts(r) = 1..Size(r) /\ Size(r) \in Nat
         /\ \A f \in Relevant(r) : Index(r)[f] \in 1..Size(r) /\ Facts(r)[Index(r)[f]] = f
         /\ \A i \in 1..Size(r) : Facts(r)[i] \in Relevant(r) /\ Index(r)[Facts(r)[i]] = i
<1> DEFINE F == Relevant(r)
           s == Facts(r)
           n == Len(s)
<1>1. IsFiniteSet(F)
  BY FS_Subset DEF IsResult, Relevant, Neg
<1>2. IsListing(s, F)
  BY <1>1, ListedIsListing DEF Facts
<1>3. IsSeq(s) /\ n \in Nat /\ DOMAIN s = 1..n
  BY <1>2, SeqFacts DEF IsListing
<1>4. \A f \in F : Index(r)[f] = CHOOSE i \in 1..n : s[i] = f
  BY <1>3 DEF Index
<1> HIDE DEF s, F
<1>5. /\ \A i \in 1..n : s[i] \in F
      /\ \A x \in F : \E i \in 1..n : s[i] = x
      /\ \A i, j \in 1..n : s[i] = s[j] => i = j
  BY <1>2 DEF IsListing
<1>6. \A f \in F : Index(r)[f] \in 1..n /\ s[Index(r)[f]] = f
  BY <1>4, <1>5
<1>7. \A i \in 1..n : Index(r)[s[i]] = i
  BY <1>5, <1>6
<1>8. Cardinality(F) = n
  <2> DEFINE b == [i \in 1..n |-> s[i]]
  <2>1. b \in [1..n -> F] /\ IsInjective(b)
    BY <1>5 DEF IsInjective
  <2>2. \A x \in F : \E i \in 1..n : b[i] = x
    BY <1>5
  <2>3. b \in Bijection(1..n, F)
    BY <2>1, <2>2 DEF Bijection, Injection, Surjection
  <2>4. IsFiniteSet(1..n) /\ Cardinality(1..n) = n
    <3>1. 1 \in Int /\ n \in Int
      BY <1>3
    <3>2. IsFiniteSet(1..n) /\ Cardinality(1..n) = IF 1 > n THEN 0 ELSE n - 1 + 1
      BY <3>1, FS_Interval
    <3> QED BY <1>3, <3>2
  <2>5. ExistsBijection(1..n, F)
    BY <2>3 DEF ExistsBijection
  <2>6. Cardinality(F) = Cardinality(1..n)
    BY <2>4, <2>5, FS_Bijection
  <2> QED BY <2>4, <2>6
<1> QED BY <1>3, <1>5, <1>6, <1>7, <1>8 DEF Size, F, s

\* What is shown is possible, and a number shows its fact.
LEMMA ShownIs ==
  ASSUME NEW r, IsResult(r), NEW s
  PROVE  /\ Shown(r, s) \subseteq r.pos
         /\ \A x : x \in Shown(r, s) <=> x \in Always(r) \/ (x \in Relevant(r) /\ Index(r)[x] \in s)
         /\ Always(r) \cap Relevant(r) = {}
<1>1. Relevant(r) \subseteq r.pos /\ Always(r) \subseteq r.pos /\ Always(r) \cap Relevant(r) = {}
  BY DEF Relevant, Neg, Always, IsResult
<1>2. \A x : x \in Shown(r, s) <=> x \in Always(r) \/ \E i \in s \cap (1..Size(r)) : x = Facts(r)[i]
  BY IndexIs DEF Shown
<1>3. \A x : (\E i \in s \cap (1..Size(r)) : x = Facts(r)[i]) <=> x \in Relevant(r) /\ Index(r)[x] \in s
  BY IndexIs
<1>4. \A x : x \in Shown(r, s) <=> x \in Always(r) \/ (x \in Relevant(r) /\ Index(r)[x] \in s)
  BY <1>2, <1>3
<1> QED BY <1>1, <1>4

\* Possible facts hold in a state if the numbers of the relevant ones are in it.
LEMMA NumbersHold ==
  ASSUME NEW r, IsResult(r), NEW s, NEW F \in SUBSET r.pos
  PROVE  (Numbers(Index(r), Neg(r, F)) \subseteq s) <=> (F \subseteq Shown(r, s))
<1>1. Neg(r, F) = {f \in F : f \in Relevant(r)} /\ \A f \in F : f \in Relevant(r) \/ f \in Always(r)
  BY DEF Neg, Relevant, Always, IsResult
<1>2. (Numbers(Index(r), Neg(r, F)) \subseteq s) <=> \A f \in F : f \in Relevant(r) => Index(r)[f] \in s
  BY <1>1 DEF Numbers
<1>3. ASSUME NEW f \in F
      PROVE  (f \in Relevant(r) => Index(r)[f] \in s) <=> f \in Shown(r, s)
  BY <1>1, ShownIs
<1> QED BY <1>2, <1>3

\* A number is one of a set of relevant facts if its fact is in the set.
LEMMA NumberIs ==
  ASSUME NEW r, IsResult(r), NEW F \in SUBSET Relevant(r)
  PROVE  /\ Numbers(Index(r), F) \subseteq 1..Size(r)
         /\ \A x \in Relevant(r) : Index(r)[x] \in Numbers(Index(r), F) <=> x \in F
         /\ \A i \in Numbers(Index(r), F) : Facts(r)[i] \in F /\ Index(r)[Facts(r)[i]] = i
BY IndexIs DEF Numbers

LEMMA NegIsRelevant ==
  ASSUME NEW r, NEW F \in SUBSET r.pos
  PROVE  Neg(r, F) = F \cap Relevant(r)
BY DEF Neg, Relevant

-----------------------------------------------------------------------------
(* The actions with numbers                                                *)

FinalEffect(r, e) ==
  [conditions |-> Numbers(Index(r), Neg(r, e.conditions)),
   adds       |-> Numbers(Index(r), Neg(r, e.adds)),
   dels       |-> Numbers(Index(r), e.dels \cap r.pos)]

Reachable(r, a) == {e \in a.effects : e.conditions \subseteq r.pos}
Final(r, a) == FinalAction(r, Index(r), a)

\* The list of effects holds those with reachable conditions, with numbers.
LEMMA FinalIs ==
  ASSUME NEW r, IsResult(r), NEW a \in r.actions
  PROVE  /\ Final(r, a).preconds = Numbers(Index(r), Neg(r, a.preconds))
         /\ IsSeq(Final(r, a).effects)
         /\ \A j \in DOMAIN Final(r, a).effects :
              \E e \in Reachable(r, a) : Final(r, a).effects[j] = FinalEffect(r, e)
         /\ \A e \in Reachable(r, a) :
              \E j \in DOMAIN Final(r, a).effects : Final(r, a).effects[j] = FinalEffect(r, e)
<1> DEFINE E == Reachable(r, a)
           F == FinalEffects(r, Index(r), a)
           s == Final(r, a).effects
<1>1. Final(r, a).preconds = Numbers(Index(r), Neg(r, a.preconds)) /\ s = Listed(F)
  BY DEF Final, FinalAction
<1>2. F = {FinalEffect(r, e) : e \in E}
  BY DEF FinalEffects, FinalEffect, Reachable
<1>3. IsFiniteSet(E)
  BY FS_Subset DEF Reachable, IsResult
<1> HIDE DEF E, F, s
<1>4. IsFiniteSet(F)
  <2> DEFINE final == [e \in E |-> FinalEffect(r, e)]
  <2>1. final \in Surjection(E, F)
    BY <1>2 DEF Surjection
  <2> QED BY <1>3, <2>1, FS_Surjection
<1>5. IsListing(s, F)
  BY <1>1, <1>4, ListedIsListing
<1>6. IsSeq(s) /\ DOMAIN s = 1..Len(s)
  BY <1>5, SeqFacts DEF IsListing
<1>7. \A j \in DOMAIN s : s[j] \in F
  BY <1>5, <1>6 DEF IsListing
<1>8. \A x \in F : \E j \in DOMAIN s : s[j] = x
  BY <1>5, <1>6 DEF IsListing
<1> QED BY <1>1, <1>2, <1>6, <1>7, <1>8 DEF E, s

\* The facts of a reachable effect are relevant or always true, and the deleted
\* ones that are possible are relevant.
LEMMA EffectIs ==
  ASSUME NEW r, IsResult(r), NEW a \in r.actions, NEW e \in Reachable(r, a)
  PROVE  /\ e.conditions \subseteq r.pos /\ e.adds \subseteq r.pos /\ e.dels \cap r.pos \subseteq Relevant(r)
         /\ e.dels \cap Always(r) = {} /\ e \in a.effects
         /\ FinalEffect(r, e).conditions = Numbers(Index(r), e.conditions \cap Relevant(r))
         /\ FinalEffect(r, e).adds = Numbers(Index(r), e.adds \cap Relevant(r))
         /\ FinalEffect(r, e).dels = Numbers(Index(r), e.dels \cap r.pos)
<1>1. e \in a.effects /\ e.conditions \subseteq r.pos /\ e.adds \subseteq r.pos
  BY DEF Reachable, IsResult
<1>2. e.dels \subseteq Deleted(r)
  BY <1>1 DEF Deleted
<1>3. Neg(r, e.conditions) = e.conditions \cap Relevant(r) /\ Neg(r, e.adds) = e.adds \cap Relevant(r)
  BY <1>1, NegIsRelevant
<1>4. e.dels \cap r.pos \subseteq Relevant(r) /\ e.dels \cap Always(r) = {}
  BY <1>2 DEF Relevant, Neg, Always
<1> QED BY <1>1, <1>3, <1>4 DEF FinalEffect

\* An operator moves a state as its action moves the facts that the state stands for.
LEMMA FinalMoves ==
  ASSUME NEW r, IsResult(r), NEW a \in r.actions, NEW s
  PROVE  Shown(r, Moved(Final(r, a), s)) = Applied(Shown(r, s), a)
<1> DEFINE na == Final(r, a)
           X == Shown(r, s)
           num(x) == Index(r)[x]
<1>1. /\ \A j \in DOMAIN na.effects : \E e \in Reachable(r, a) : na.effects[j] = FinalEffect(r, e)
      /\ \A e \in Reachable(r, a) : \E j \in DOMAIN na.effects : na.effects[j] = FinalEffect(r, e)
  BY FinalIs
<1>2. ASSUME NEW e \in Reachable(r, a)
      PROVE  (FinalEffect(r, e).conditions \subseteq s) <=> (e.conditions \subseteq X)
  <2>1. e.conditions \in SUBSET r.pos
    BY EffectIs
  <2> QED BY <2>1, NumbersHold DEF FinalEffect
<1>3. X \subseteq r.pos /\ \A x : x \in X <=> x \in Always(r) \/ (x \in Relevant(r) /\ num(x) \in s)
  BY ShownIs
<1>4. Always(r) \cap Relevant(r) = {}
  BY ShownIs
<1> HIDE DEF na, X
<1>5. Fires(X, a) = {e \in Reachable(r, a) : FinalEffect(r, e).conditions \subseteq s}
  BY <1>2, <1>3 DEF Fires, Reachable
<1>6. ASSUME NEW e \in Reachable(r, a), NEW x \in Relevant(r)
      PROVE  /\ (num(x) \in FinalEffect(r, e).adds) <=> (x \in e.adds)
             /\ (num(x) \in FinalEffect(r, e).dels) <=> (x \in e.dels)
  <2>1. /\ e.dels \cap r.pos \in SUBSET Relevant(r) /\ e.adds \cap Relevant(r) \in SUBSET Relevant(r)
        /\ FinalEffect(r, e).adds = Numbers(Index(r), e.adds \cap Relevant(r))
        /\ FinalEffect(r, e).dels = Numbers(Index(r), e.dels \cap r.pos)
    BY EffectIs
  <2>2. (num(x) \in FinalEffect(r, e).adds) <=> (x \in e.adds \cap Relevant(r))
    BY <2>1, NumberIs
  <2>3. (num(x) \in FinalEffect(r, e).dels) <=> (x \in e.dels \cap r.pos)
    BY <2>1, NumberIs
  <2>4. x \in r.pos
    BY DEF Relevant, Neg
  <2> QED BY <2>2, <2>3, <2>4
<1>7. ASSUME NEW x \in Relevant(r)
      PROVE  /\ (\E j \in Acting(na, s) : num(x) \in na.effects[j].adds) <=> (\E e \in Fires(X, a) : x \in e.adds)
             /\ (\E j \in Acting(na, s) : num(x) \in na.effects[j].dels) <=> (\E e \in Fires(X, a) : x \in e.dels)
  <2>1. \A j \in Acting(na, s) : \E e \in Fires(X, a) : na.effects[j] = FinalEffect(r, e)
    BY <1>1, <1>5 DEF Acting
  <2>2. \A e \in Fires(X, a) : \E j \in Acting(na, s) : na.effects[j] = FinalEffect(r, e)
    <3> SUFFICES ASSUME NEW e \in Fires(X, a) PROVE \E j \in Acting(na, s) : na.effects[j] = FinalEffect(r, e)
      OBVIOUS
    <3>1. e \in Reachable(r, a) /\ FinalEffect(r, e).conditions \subseteq s
      BY <1>5
    <3>2. PICK j \in DOMAIN na.effects : na.effects[j] = FinalEffect(r, e)
      BY <1>1, <3>1
    <3> QED BY <3>1, <3>2 DEF Acting
  <2>3. \A e \in Fires(X, a) : /\ (num(x) \in FinalEffect(r, e).adds) <=> (x \in e.adds)
                               /\ (num(x) \in FinalEffect(r, e).dels) <=> (x \in e.dels)
    BY <1>5, <1>6
  <2> QED BY <2>1, <2>2, <2>3
<1>8. ASSUME NEW x \in Relevant(r)
      PROVE  num(x) \in Moved(na, s) <=> x \in Applied(X, a)
  <2>1. num(x) \in s <=> x \in X
    BY <1>3, <1>4
  <2>2. num(x) \in Moved(na, s) <=> \/ num(x) \in s /\ ~(\E j \in Acting(na, s) : num(x) \in na.effects[j].dels)
                                   \/ \E j \in Acting(na, s) : num(x) \in na.effects[j].adds
    BY DEF Moved
  <2>3. x \in Applied(X, a) <=> \/ x \in X /\ ~(\E e \in Fires(X, a) : x \in e.dels)
                               \/ \E e \in Fires(X, a) : x \in e.adds
    BY DEF Applied
  <2> QED BY <1>7, <2>1, <2>2, <2>3
<1>9. ASSUME NEW x \in Always(r) PROVE x \in Applied(X, a)
  <2>1. \A e \in Fires(X, a) : x \notin e.dels
    BY <1>5, EffectIs
  <2>2. x \in X
    BY <1>3
  <2> QED BY <2>1, <2>2 DEF Applied
<1>10. ASSUME NEW x \in Applied(X, a) PROVE x \in Always(r) \/ x \in Relevant(r)
  <2>1. \A e \in Fires(X, a) : e.adds \subseteq r.pos
    BY <1>5, EffectIs
  <2>2. x \in r.pos
    BY <1>3, <2>1 DEF Applied
  <2> QED BY <2>2 DEF Always, Relevant, Neg
<1>11. \A x : x \in Shown(r, Moved(na, s)) <=> x \in Always(r) \/ (x \in Relevant(r) /\ num(x) \in Moved(na, s))
  BY ShownIs
<1>12. \A x : x \in Shown(r, Moved(na, s)) <=> x \in Applied(X, a)
  BY <1>8, <1>9, <1>10, <1>11
<1> DEFINE L == Shown(r, Moved(Final(r, a), s))
           R == Applied(Shown(r, s), a)
<1>13. \A x : x \in L <=> x \in R
  BY <1>12 DEF na, X
<1>14. L \subseteq R /\ R \subseteq L
  <2> HIDE DEF L, R
  <2> QED BY <1>13
<1>15. L = R
  <2> HIDE DEF L, R
  <2> QED BY <1>14
<1> QED BY <1>15

LEMMA FinalKeeps ==
  ASSUME NEW r, IsResult(r), NEW a \in r.actions, AddsStay(a)
  PROVE  KeepsAdds(Final(r, a))
<1> DEFINE na == Final(r, a)
<1> SUFFICES ASSUME NEW i \in DOMAIN na.effects, NEW j \in DOMAIN na.effects,
                    na.effects[i].conditions # na.effects[j].conditions,
                    NEW k \in na.effects[i].adds, k \in na.effects[j].dels,
                    k \in na.preconds \cup na.effects[i].conditions
             PROVE  FALSE
  BY DEF KeepsAdds
<1>1. PICK e \in Reachable(r, a) : na.effects[i] = FinalEffect(r, e)
  BY FinalIs
<1>2. PICK d \in Reachable(r, a) : na.effects[j] = FinalEffect(r, d)
  BY FinalIs
<1>3. e.conditions # d.conditions
  BY <1>1, <1>2 DEF FinalEffect
<1>4. k \in Numbers(Index(r), e.adds \cap Relevant(r)) /\ k \in Numbers(Index(r), d.dels \cap r.pos)
      /\ d.dels \cap r.pos \subseteq Relevant(r)
  BY <1>1, <1>2, EffectIs
<1>5. k \in Numbers(Index(r), a.preconds \cap Relevant(r)) \/ k \in Numbers(Index(r), e.conditions \cap Relevant(r))
  <2>1. a.preconds \in SUBSET r.pos
    BY DEF IsResult
  <2>2. na.preconds = Numbers(Index(r), a.preconds \cap Relevant(r))
    <3>1. na.preconds = Numbers(Index(r), Neg(r, a.preconds))
      BY FinalIs
    <3>2. Neg(r, a.preconds) = a.preconds \cap Relevant(r)
      BY <2>1, NegIsRelevant
    <3> QED BY <3>1, <3>2
  <2>3. na.effects[i].conditions = Numbers(Index(r), e.conditions \cap Relevant(r))
    BY <1>1, EffectIs
  <2> QED BY <2>2, <2>3
<1> DEFINE x == Facts(r)[k]
<1>6. x \in e.adds /\ x \in d.dels /\ (x \in a.preconds \/ x \in e.conditions)
  <2>1. \A F \in SUBSET Relevant(r) : k \in Numbers(Index(r), F) => x \in F
    BY NumberIs
  <2> HIDE DEF x
  <2>2. x \in e.adds \cap Relevant(r)
    BY <1>4, <2>1
  <2>3. x \in d.dels \cap r.pos
    BY <1>4, <2>1
  <2>4. x \in a.preconds \cap Relevant(r) \/ x \in e.conditions \cap Relevant(r)
    BY <1>5, <2>1
  <2> QED BY <2>2, <2>3, <2>4
<1>7. e \in a.effects /\ d \in a.effects
  BY DEF Reachable
<1> QED BY <1>3, <1>6, <1>7 DEF AddsStay

\* An operator that is left without effects changes nothing anyway, if its action
\* does not delete.
LEMMA NothingMoves ==
  ASSUME NEW r, IsResult(r), NEW a \in r.actions, ~OnlyDeletes(r, a), NEW s,
         NoAdds(Final(r, a)), Moved(Final(r, a), s) \subseteq s
  PROVE  Moved(Final(r, a), s) = s
<1> DEFINE na == Final(r, a)
<1>1. IsSeq(na.effects)
  BY FinalIs
<1>2. na.preconds = Numbers(Index(r), Neg(r, a.preconds))
  BY FinalIs
<1>3. a.preconds \in SUBSET r.pos
  BY DEF IsResult
<1>4. Neg(r, a.preconds) = a.preconds \cap Relevant(r)
  BY <1>3, NegIsRelevant
<1>5. ASSUME NEW e \in Reachable(r, a) PROVE Neg(r, e.adds) \subseteq a.preconds \cup e.conditions
  <2> SUFFICES ASSUME NEW x \in Neg(r, e.adds) PROVE x \in a.preconds \cup e.conditions
    OBVIOUS
  <2>1. /\ e.adds \in SUBSET r.pos /\ FinalEffect(r, e).adds = Numbers(Index(r), e.adds \cap Relevant(r))
        /\ FinalEffect(r, e).conditions = Numbers(Index(r), e.conditions \cap Relevant(r))
    BY EffectIs
  <2>2. x \in e.adds \cap Relevant(r)
    BY <2>1, NegIsRelevant
  <2>3. PICK j \in DOMAIN na.effects : na.effects[j] = FinalEffect(r, e)
    BY FinalIs
  <2> DEFINE k == Index(r)[x]
  <2>4. k \in na.effects[j].adds
    BY <2>1, <2>2, <2>3, NumberIs
  <2> HIDE DEF na
  <2>5. PICK i \in Leaders(na) : j \in Group(na, i) /\ na.effects[i].conditions = na.effects[j].conditions
    BY <1>1, LeaderOf
  <2>6. Integrated(na, i).A = {}
    BY DEF NoAdds, na
  <2>7. na.effects[j].adds \subseteq Integrated(na, i).A \cup (na.preconds \cup na.effects[i].conditions)
    BY <2>5 DEF Integrated
  <2> HIDE DEF k
  <2>8. k \in na.preconds \cup na.effects[j].conditions
    BY <2>4, <2>5, <2>6, <2>7
  <2>9. \/ k \in Numbers(Index(r), a.preconds \cap Relevant(r))
        \/ k \in Numbers(Index(r), e.conditions \cap Relevant(r))
    BY <1>2, <1>4, <2>1, <2>3, <2>8 DEF na
  <2>10. \A F \in SUBSET Relevant(r) : k \in Numbers(Index(r), F) => x \in F
    BY <2>2, NumberIs DEF k
  <2>11. x \in a.preconds \cap Relevant(r) \/ x \in e.conditions \cap Relevant(r)
    BY <2>9, <2>10
  <2> QED BY <2>11
<1>6. \A e \in Reachable(r, a) : e.dels \cap r.pos \subseteq e.adds
  BY <1>5 DEF OnlyDeletes, Reachable
<1>7. ASSUME NEW j \in DOMAIN na.effects PROVE na.effects[j].dels \subseteq na.effects[j].adds
  <2>1. PICK e \in Reachable(r, a) : na.effects[j] = FinalEffect(r, e)
    BY FinalIs
  <2>2. /\ FinalEffect(r, e).adds = Numbers(Index(r), e.adds \cap Relevant(r))
        /\ FinalEffect(r, e).dels = Numbers(Index(r), e.dels \cap r.pos)
        /\ e.dels \cap r.pos \subseteq Relevant(r)
    BY EffectIs
  <2>3. e.dels \cap r.pos \subseteq e.adds \cap Relevant(r)
    BY <1>6, <2>2
  <2>4. Numbers(Index(r), e.dels \cap r.pos) \subseteq Numbers(Index(r), e.adds \cap Relevant(r))
    BY <2>3 DEF Numbers
  <2> HIDE DEF na
  <2> QED BY <2>1, <2>2, <2>4
<1> HIDE DEF na
<1>8. UNION {na.effects[j].dels : j \in Acting(na, s)} \subseteq UNION {na.effects[j].adds : j \in Acting(na, s)}
  BY <1>7 DEF Acting
<1>9. s \subseteq Moved(na, s)
  BY <1>8 DEF Moved
<1> QED BY <1>9 DEF na

-----------------------------------------------------------------------------
(* The final task                                                          *)

GoalOp(r, d) == [preconds |-> Numbers(Index(r), d),
                 effects  |-> <<[conditions |-> {}, adds |-> {GoalFact(r)}, dels |-> {}]>>]

GoalOps(r, goal) == Listed(GoalActions(r, Index(r), goal))
Found(r) == Listed(r.actions)
FoundOps(r) == [k \in DOMAIN Found(r) |-> Final(r, Found(r)[k])]
FinalOps(r, goal) == GoalOps(r, goal) \o FoundOps(r)
FinalGoals(r, goal) == final_goals(r, Index(r), goal)

LEMMA CollectedIs ==
  ASSUME NEW r, NEW goal, NEW t, t = collect_relevant_facts(r, goal)
  PROVE  /\ t.facts = Facts(r) /\ t.initial = Numbers(Index(r), Neg(r, r.fluents))
         /\ t.goals = Increasing(FinalGoals(r, goal))
         /\ t.graph = build_connectivity_graph((1..Len(Facts(r))) \cup FinalGoals(r, goal), FinalOps(r, goal),
                                               FinalGoals(r, goal))
         /\ t.names = [k \in DOMAIN GoalOps(r, goal) |-> GOAL_REACHED]
                        \o [k \in DOMAIN Found(r) |-> [name |-> Found(r)[k].name, inst |-> Found(r)[k].inst]]
BY Zenon DEF collect_relevant_facts, Facts, Index, FinalGoals, FinalOps, GoalOps, FoundOps, Found, Final

\* The operators are those of the goal's disjuncts and those of the actions.
LEMMA OpsAre ==
  ASSUME NEW r, IsResult(r), NEW goal, IsGoal(r, goal)
  PROVE  LET ops == FinalOps(r, goal)
             m   == Len(GoalOps(r, goal))
         IN  /\ IsSeq(ops) /\ IsSeq(GoalOps(r, goal)) /\ IsSeq(Found(r)) /\ Len(ops) = m + Len(Found(r))
             /\ m \in Nat /\ Len(Found(r)) \in Nat
             /\ \A op \in 1..m : IsOr(goal) /\ \E d \in goal : ops[op] = GoalOp(r, d)
             /\ \A k \in 1..Len(Found(r)) : Found(r)[k] \in r.actions /\ ops[m + k] = Final(r, Found(r)[k])
             /\ IsOr(goal) => \A d \in goal : \E op \in 1..m : ops[op] = GoalOp(r, d)
             /\ \A a \in r.actions : \E k \in 1..Len(Found(r)) : Found(r)[k] = a
<1> DEFINE G == GoalActions(r, Index(r), goal)
           gs == GoalOps(r, goal)
           fs == Found(r)
           os == FoundOps(r)
           ops == FinalOps(r, goal)
           m == Len(gs)
<1>1. G = IF ~IsOr(goal) THEN {} ELSE {GoalOp(r, d) : d \in goal}
  BY DEF GoalActions, GoalOp
<1>2. IsFiniteSet(G)
  <2>1. CASE IsOr(goal)
    <3> DEFINE opOf == [d \in goal |-> GoalOp(r, d)]
    <3>1. opOf \in Surjection(goal, G)
      BY <1>1, <2>1 DEF Surjection
    <3>2. IsFiniteSet(goal)
      BY DEF IsGoal
    <3> QED BY <3>1, <3>2, FS_Surjection
  <2>2. CASE ~IsOr(goal)
    BY <1>1, <2>2, FS_EmptySet
  <2> QED BY <2>1, <2>2
<1>3. IsListing(gs, G) /\ IsListing(fs, r.actions)
  BY <1>2, ListedIsListing DEF GoalOps, Found, IsResult
<1>4. IsSeq(gs) /\ IsSeq(fs) /\ m \in Nat /\ Len(fs) \in Nat /\ DOMAIN fs = 1..Len(fs)
  BY <1>3, SeqFacts DEF IsListing
<1>5. os = [k \in 1..Len(fs) |-> Final(r, fs[k])]
  BY <1>4 DEF FoundOps
<1> HIDE DEF G, gs, fs, os
<1>6. IsSeq(os) /\ Len(os) = Len(fs) /\ \A k \in 1..Len(fs) : os[k] = Final(r, fs[k])
  BY <1>4, <1>5, ListFacts
<1>7. /\ IsSeq(ops) /\ Len(ops) = m + Len(fs)
      /\ \A op \in 1..m : ops[op] = gs[op]
      /\ \A k \in 1..Len(fs) : ops[m + k] = os[k]
  <2>1. ops = gs \o os
    BY DEF FinalOps, gs, os
  <2> HIDE DEF ops
  <2>2. /\ IsSeq(gs \o os) /\ Len(gs \o os) = m + Len(os)
    BY <1>4, <1>6, ConcatFacts
  <2>3. /\ \A op \in 1..m : (gs \o os)[op] = gs[op]
        /\ \A k \in 1..Len(os) : (gs \o os)[m + k] = os[k]
    BY <1>4, <1>6, ConcatFacts
  <2> QED BY <1>6, <2>1, <2>2, <2>3
<1> HIDE DEF ops
<1>8. \A op \in 1..m : IsOr(goal) /\ \E d \in goal : ops[op] = GoalOp(r, d)
  <2>1. \A op \in 1..m : gs[op] \in G
    BY <1>3 DEF IsListing
  <2> QED BY <1>1, <1>7, <2>1
<1>9. IsOr(goal) => \A d \in goal : \E op \in 1..m : ops[op] = GoalOp(r, d)
  <2>1. \A x \in G : \E op \in 1..m : gs[op] = x
    BY <1>3 DEF IsListing
  <2> QED BY <1>1, <1>7, <2>1
<1>10. /\ \A k \in 1..Len(fs) : fs[k] \in r.actions
       /\ \A a \in r.actions : \E k \in 1..Len(fs) : fs[k] = a
  BY <1>3 DEF IsListing
<1> HIDE DEF m
<1>11. \A k \in 1..Len(fs) : fs[k] \in r.actions /\ ops[m + k] = Final(r, fs[k])
  BY <1>6, <1>7, <1>10
<1> QED BY <1>4, <1>7, <1>8, <1>9, <1>10, <1>11 DEF gs, fs, ops, m

LEMMA ListOf ==
  ASSUME NEW s, IsSeq(s), NEW T, \A i \in DOMAIN s : s[i] \in T
  PROVE  s \in Seq(T)
<1>1. PICK V : s \in Seq(V)
  BY DEF IsSeq
<1> QED BY <1>1

AllFacts(r, goal) == (1..Len(Facts(r))) \cup FinalGoals(r, goal)

LEMMA GoalsAre ==
  ASSUME NEW r, IsResult(r), NEW goal, IsGoal(r, goal)
  PROVE  /\ FinalGoals(r, goal) \in SUBSET Nat /\ IsFiniteSet(FinalGoals(r, goal))
         /\ GoalFact(r) = Size(r) + 1 /\ Size(r) \in Nat /\ Len(Facts(r)) = Size(r)
         /\ IsOr(goal) => FinalGoals(r, goal) = {GoalFact(r)}
         /\ ~IsOr(goal) => /\ FinalGoals(r, goal) \subseteq 1..Size(r)
                           /\ \A d \in goal : FinalGoals(r, goal) = Numbers(Index(r), d)
         /\ IsFiniteSet(AllFacts(r, goal)) /\ AllFacts(r, goal) \in SUBSET Nat
<1> DEFINE n == Size(r)
           G == FinalGoals(r, goal)
<1>1. n \in Nat /\ Len(Facts(r)) = n /\ GoalFact(r) = n + 1
  BY IndexIs DEF GoalFact, Size
<1>2. IsOr(goal) => G = {GoalFact(r)}
  BY DEF FinalGoals, final_goals
<1>3. ~IsOr(goal) => /\ G = UNION {Numbers(Index(r), d) : d \in goal}
                     /\ \E d \in goal : goal = {d}
  <2>1. ~IsOr(goal) => G = UNION {Numbers(Index(r), d) : d \in goal}
    BY DEF FinalGoals, final_goals
  <2>2. IsFiniteSet(goal) /\ goal # {} /\ Cardinality(goal) \in Nat
    BY FS_CardinalityType DEF IsGoal
  <2>3. ~IsOr(goal) => Cardinality(goal) = 1
    BY <2>2, FS_EmptySet DEF IsOr
  <2>4. ~IsOr(goal) => \E d \in goal : goal = {d}
    BY <2>2, <2>3, FS_Singleton
  <2> QED BY <2>1, <2>4
<1> HIDE DEF n, G
<1>4. ~IsOr(goal) => \A d \in goal : G = Numbers(Index(r), d)
  BY <1>3
<1>5. \A d \in goal : Numbers(Index(r), d) \subseteq 1..n
  <2>1. \A d \in goal : d \in SUBSET Relevant(r)
    BY DEF IsGoal
  <2> QED BY <2>1, NumberIs DEF n
<1>6. ~IsOr(goal) => G \subseteq 1..n
  BY <1>4, <1>5 DEF IsGoal
<1>7. IsFiniteSet(1..n) /\ IsFiniteSet({GoalFact(r)}) /\ GoalFact(r) \in Nat /\ 1..n \in SUBSET Nat
  <2>1. 1 \in Int /\ n \in Int /\ GoalFact(r) \in Nat
    BY <1>1
  <2>2. IsFiniteSet(1..n)
    BY <2>1, FS_Interval
  <2>3. IsFiniteSet({GoalFact(r)})
    BY FS_Singleton
  <2>4. 1..n \in SUBSET Nat
    BY <1>1
  <2> QED BY <2>1, <2>2, <2>3, <2>4
<1>8. IsFiniteSet(G) /\ G \in SUBSET Nat
  <2>1. CASE IsOr(goal)
    <3>1. G = {GoalFact(r)}
      BY <1>2, <2>1
    <3> QED BY <3>1, <1>7
  <2>2. CASE ~IsOr(goal)
    <3>1. G \subseteq 1..n
      BY <1>6, <2>2
    <3>2. IsFiniteSet(G)
      BY <3>1, <1>7, FS_Subset
    <3> QED BY <3>1, <3>2, <1>7
  <2> QED BY <2>1, <2>2
<1>9. IsFiniteSet((1..n) \cup G) /\ (1..n) \cup G \in SUBSET Nat
  <2>1. IsFiniteSet((1..n) \cup G)
    BY <1>7, <1>8, FS_Union
  <2> QED BY <2>1, <1>7, <1>8
<1>10. AllFacts(r, goal) = (1..n) \cup G
  BY <1>1 DEF AllFacts, G
<1> QED BY <1>1, <1>2, <1>4, <1>6, <1>8, <1>9, <1>10 DEF n, G

IsNumbered(a, facts) ==
  /\ IsSeq(a.effects) /\ a.preconds \subseteq facts
  /\ \A j \in DOMAIN a.effects : /\ a.effects[j].conditions \subseteq facts /\ a.effects[j].adds \subseteq facts
                                 /\ a.effects[j].dels \subseteq facts

LEMMA GoalOpIs ==
  ASSUME NEW r, IsResult(r), NEW goal, IsGoal(r, goal), NEW d \in goal, NEW o, o = GoalOp(r, d)
  PROVE  /\ o.preconds = Numbers(Index(r), d) /\ Numbers(Index(r), d) \subseteq 1..Size(r)
         /\ IsSeq(o.effects) /\ DOMAIN o.effects = {1}
         /\ o.effects[1].conditions = {} /\ o.effects[1].adds = {GoalFact(r)} /\ o.effects[1].dels = {}
<1> DEFINE e == [conditions |-> {}, adds |-> {GoalFact(r)}, dels |-> {}]
<1>1. o.preconds = Numbers(Index(r), d) /\ o.effects = <<e>>
  BY DEF GoalOp
<1>2. d \in SUBSET Relevant(r)
  BY DEF IsGoal
<1>3. Numbers(Index(r), d) \subseteq 1..Size(r)
  BY <1>2, NumberIs
<1>4. e.conditions = {} /\ e.adds = {GoalFact(r)} /\ e.dels = {}
  OBVIOUS
<1> HIDE DEF e
<1>5. <<e>> \in Seq({e}) /\ DOMAIN <<e>> = {1} /\ <<e>>[1] = e
  OBVIOUS
<1>6. IsSeq(<<e>>)
  BY <1>5 DEF IsSeq
<1> QED BY <1>1, <1>3, <1>4, <1>5, <1>6

LEMMA OpsAreNumbered ==
  ASSUME NEW r, IsResult(r), NEW goal, IsGoal(r, goal), NEW op \in 1..Len(FinalOps(r, goal))
  PROVE  IsNumbered(FinalOps(r, goal)[op], AllFacts(r, goal))
<1> DEFINE ops == FinalOps(r, goal)
           m == Len(GoalOps(r, goal))
           F == AllFacts(r, goal)
           n == Size(r)
<1>1. 1..n \subseteq F
  BY GoalsAre DEF AllFacts
<1>2. CASE op \in 1..m
  <2>1. PICK d \in goal : ops[op] = GoalOp(r, d)
    BY <1>2, OpsAre
  <2>2. IsOr(goal)
    BY <1>2, OpsAre
  <2>3. GoalFact(r) \in F
    BY <2>2, GoalsAre DEF AllFacts
  <2> DEFINE o == ops[op]
  <2> HIDE DEF n, F, ops
  <2>4. /\ o.preconds \subseteq 1..n /\ IsSeq(o.effects) /\ DOMAIN o.effects = {1}
        /\ o.effects[1].conditions = {} /\ o.effects[1].adds = {GoalFact(r)} /\ o.effects[1].dels = {}
    BY <2>1, GoalOpIs DEF n
  <2>5. IsNumbered(o, F)
    BY <1>1, <2>3, <2>4 DEF IsNumbered
  <2> QED BY <2>5 DEF F, ops
<1>3. CASE op \notin 1..m
  <2>1. PICK k \in 1..Len(Found(r)) : op = m + k
    <3>1. m \in Nat /\ Len(Found(r)) \in Nat /\ Len(ops) = m + Len(Found(r))
      BY OpsAre
    <3> HIDE DEF m, ops
    <3>2. op \in 1..Len(ops)
      BY DEF ops
    <3>3. op - m \in 1..Len(Found(r)) /\ op = m + (op - m)
      BY <1>3, <3>1, <3>2
    <3> QED BY <3>3
  <2>2. Found(r)[k] \in r.actions /\ ops[op] = Final(r, Found(r)[k])
    BY <2>1, OpsAre
  <2> DEFINE a == Found(r)[k]
             o == Final(r, a)
  <2> HIDE DEF n, F, a
  <2>3. a \in r.actions
    BY <2>2 DEF a
  <2>4. IsSeq(o.effects) /\ o.preconds \subseteq 1..n
    <3>1. a.preconds \in SUBSET r.pos
      BY <2>3 DEF IsResult
    <3>2. Neg(r, a.preconds) \in SUBSET Relevant(r)
      BY <3>1, NegIsRelevant
    <3>3. IsSeq(o.effects) /\ o.preconds = Numbers(Index(r), Neg(r, a.preconds))
      BY <2>3, FinalIs
    <3> QED BY <3>2, <3>3, NumberIs DEF n
  <2>5. ASSUME NEW j \in DOMAIN o.effects
        PROVE  /\ o.effects[j].conditions \subseteq 1..n /\ o.effects[j].adds \subseteq 1..n
               /\ o.effects[j].dels \subseteq 1..n
    <3>1. PICK e \in Reachable(r, a) : o.effects[j] = FinalEffect(r, e)
      BY <2>3, FinalIs
    <3>2. /\ e.dels \cap r.pos \subseteq Relevant(r)
          /\ FinalEffect(r, e).conditions = Numbers(Index(r), e.conditions \cap Relevant(r))
          /\ FinalEffect(r, e).adds = Numbers(Index(r), e.adds \cap Relevant(r))
          /\ FinalEffect(r, e).dels = Numbers(Index(r), e.dels \cap r.pos)
      BY <2>3, EffectIs
    <3>3. \A X \in SUBSET Relevant(r) : Numbers(Index(r), X) \subseteq 1..n
      BY NumberIs DEF n
    <3> HIDE DEF o
    <3> QED BY <3>1, <3>2, <3>3
  <2> HIDE DEF o
  <2>6. IsNumbered(o, F)
    BY <1>1, <2>4, <2>5 DEF IsNumbered
  <2> QED BY <2>2, <2>6 DEF F, a, o
<1> QED BY <1>2, <1>3

\* What the search relies on: the effects of the graph are about numbered facts.
LEMMA ConnIsEfConn ==
  ASSUME NEW a, NEW facts \in SUBSET Nat, IsNumbered(a, facts), NEW op \in Nat, NEW i \in Leaders(a)
  PROVE  LET c == Conn(a, op, i)
         IN  c \in EfConn /\ c.PC \cup c.A \subseteq facts /\ (c.removed => c.A = {})
<1> DEFINE in == Integrated(a, i)
           c == Conn(a, op, i)
<1>1. i \in DOMAIN a.effects /\ Group(a, i) \subseteq DOMAIN a.effects
  BY DEF Leaders, Group
<1>2. in.PC \subseteq facts /\ in.A \subseteq facts /\ in.D \subseteq facts
  BY <1>1 DEF Integrated, IsNumbered
<1>3. RemovedEffect(a, in) => in.A = {}
  BY DEF RemovedEffect
<1>4. c.op = op /\ c.PC = in.PC /\ c.A = in.A /\ c.D = in.D /\ c.removed = RemovedEffect(a, in)
  BY DEF Conn
<1>5. RemovedEffect(a, in) \in BOOLEAN
  BY DEF RemovedEffect
<1> HIDE DEF in
<1>6. c \in EfConn
  BY <1>2, <1>5 DEF Conn, EfConn, in
<1> HIDE DEF c
<1> QED BY <1>2, <1>3, <1>4, <1>6 DEF c

LEMMA TaskIsTask ==
  ASSUME NEW r, IsResult(r), NEW goal, IsGoal(r, goal)
  PROVE  IsTask(collect_relevant_facts(r, goal))
<1> DEFINE t == collect_relevant_facts(r, goal)
           ops == FinalOps(r, goal)
           F == AllFacts(r, goal)
           G == FinalGoals(r, goal)
<1>1. /\ t.initial = Numbers(Index(r), Neg(r, r.fluents)) /\ t.goals = Increasing(G)
      /\ t.graph = build_connectivity_graph(F, ops, G)
  BY CollectedIs DEF AllFacts
<1>2. /\ IsFiniteSet(F) /\ F \in SUBSET Nat /\ 1..Size(r) \subseteq F
      /\ G \in SUBSET Nat /\ IsFiniteSet(G)
  BY GoalsAre DEF AllFacts
<1>3. t.graph.facts = F
  BY <1>1 DEF build_connectivity_graph
<1>4. IsSeq(ops) /\ \A op \in 1..Len(ops) : IsNumbered(ops[op], F)
  BY OpsAre, OpsAreNumbered
<1>5. AreActions(ops)
  BY <1>4 DEF AreActions, IsNumbered
<1> HIDE DEF t, ops, F, G
<1>6. IsGraphOf(t.graph, ops)
  BY <1>1, <1>5, GraphEffects
<1>7. ASSUME NEW e \in DOMAIN t.graph.ef
      PROVE  /\ t.graph.ef[e] \in EfConn /\ t.graph.ef[e].PC \cup t.graph.ef[e].A \subseteq F
             /\ (t.graph.ef[e].removed => t.graph.ef[e].A = {})
  <2>1. PICK op \in 1..Len(ops) : \E i \in Leaders(ops[op]) : t.graph.ef[e] = Conn(ops[op], op, i)
    BY <1>6 DEF IsGraphOf
  <2>2. PICK i \in Leaders(ops[op]) : t.graph.ef[e] = Conn(ops[op], op, i)
    BY <2>1
  <2>3. op \in Nat /\ IsNumbered(ops[op], F) /\ F \in SUBSET Nat
    BY <1>2, <1>4, SeqFacts
  <2> QED BY <2>2, <2>3, ConnIsEfConn
<1>8. t.graph.ef \in Seq(EfConn)
  BY <1>6, <1>7, ListOf DEF IsGraphOf
<1>9. t.initial \subseteq F
  <2>1. Neg(r, r.fluents) \in SUBSET Relevant(r)
    BY DEF IsResult, Neg, Relevant
  <2>2. Numbers(Index(r), Neg(r, r.fluents)) \subseteq 1..Size(r)
    BY <2>1, NumberIs
  <2> QED BY <1>1, <1>2, <2>2
<1>10. t.goals \in Seq(Nat) /\ IsInjective(t.goals)
  <2>1. G \in SUBSET Int
    BY <1>2
  <2>2. /\ DOMAIN Increasing(G) = 1..Cardinality(G) /\ Cardinality(G) \in Nat
        /\ \A j \in DOMAIN Increasing(G) : Increasing(G)[j] \in G
        /\ \A j, l \in DOMAIN Increasing(G) : j < l <=> Increasing(G)[j] < Increasing(G)[l]
    BY <1>2, <2>1, IncreasingIsInOrder
  <2>3. IsSeq(Increasing(G))
    BY <1>2, <2>1, IncreasingIsSeq
  <2> DEFINE s == Increasing(G)
  <2> HIDE DEF s
  <2>4. s \in Seq(Nat)
    BY <1>2, <2>2, <2>3, ListOf DEF s
  <2>5. IsInjective(s)
    <3> SUFFICES ASSUME NEW j \in DOMAIN s, NEW l \in DOMAIN s, s[j] = s[l] PROVE j = l
      BY DEF IsInjective
    <3>1. j \in Nat /\ l \in Nat /\ s[j] \in Nat /\ s[l] \in Nat
      <4>1. DOMAIN s \subseteq Nat /\ \A k \in DOMAIN s : s[k] \in G
        BY <2>2 DEF s
      <4> QED BY <4>1, <1>2
    <3>2. (j < l <=> s[j] < s[l]) /\ (l < j <=> s[l] < s[j])
      BY <2>2 DEF s
    <3> QED BY <3>1, <3>2
  <2> QED BY <1>1, <2>4, <2>5 DEF s
<1>11. IsTask(t)
  BY <1>2, <1>3, <1>7, <1>8, <1>9, <1>10 DEF IsTask
<1> QED BY <1>11 DEF t

-----------------------------------------------------------------------------
(* From the templates to the search                                        *)

\* All that is proved about the search.
SearchInv == FollowInv /\ AgendaInv /\ BestInv /\ GoalInv /\ EvalInv /\ EndInv

LEMMA SearchAtFirst == SearchInit /\ pc = "agenda" /\ IsTask(task) => SearchInv
BY FollowAtFirst, AgendaAtFirst, BestAtFirst, GoalAtFirst, EvalAtFirst, EndAtFirst DEF SearchInv

LEMMA SearchAtFirstNext == (SearchInit /\ pc = "agenda" /\ IsTask(task))' => SearchInv'
BY SearchAtFirst, PTL

LEMMA SearchStays == SearchInv /\ [SearchNext]_searchVars => SearchInv'
BY FollowStays, AgendaStays, BestStays, GoalStays, EvalStays, EndStays DEF SearchInv

Analysed(initial, fluents) == [initial |-> initial, fluents |-> fluents, pos |-> pos, actions |-> gactions]

\* The goal as the reachability analysis leaves it.
GoalLeft(initial, fluents, disjuncts) == set_relevants_in_wff(Analysed(initial, fluents), disjuncts)

Before_search == {"reach", "collect", "empty plan", "no plan"}

\* The reachability analysis: what it has turned to actions and what is left.
ReachInv(initial, fluents, actions, disjuncts) ==
  /\ IsGround(initial, fluents, actions, disjuncts)
  /\ templates \cup gactions = actions
  /\ IsFiniteSet(pos) /\ initial \subseteq pos
  /\ \A a \in gactions : a.preconds \subseteq pos /\ \A e \in a.effects : e.adds \subseteq pos
  /\ pc # "reach" => \A a \in templates : ~(a.preconds \subseteq pos)

GroundInv(initial, fluents, actions, disjuncts) ==
  /\ ReachInv(initial, fluents, actions, disjuncts)
  /\ pc \in Before_search => SearchInit
  /\ pc = "empty plan" => {} \in GoalLeft(initial, fluents, disjuncts)
  /\ pc = "no plan" => GoalLeft(initial, fluents, disjuncts) = {}
  /\ pc \notin Before_search =>
       /\ {} \notin GoalLeft(initial, fluents, disjuncts) /\ GoalLeft(initial, fluents, disjuncts) # {}
       /\ task = collect_relevant_facts(Analysed(initial, fluents), GoalLeft(initial, fluents, disjuncts))
       /\ SearchInv

LEMMA AddedIsFinite ==
  ASSUME NEW T, IsFiniteSet(T), \A a \in T : IsFiniteSet(a.effects) /\ \A e \in a.effects : IsFiniteSet(e.adds)
  PROVE  IsFiniteSet(UNION {UNION {e.adds : e \in a.effects} : a \in T})
<1> DEFINE Of(a) == UNION {e.adds : e \in a.effects}
<1>1. ASSUME NEW a \in T PROVE IsFiniteSet(Of(a))
  <2> DEFINE A == {e.adds : e \in a.effects}
             adds == [e \in a.effects |-> e.adds]
  <2>1. adds \in Surjection(a.effects, A)
    BY DEF Surjection
  <2>2. IsFiniteSet(a.effects)
    OBVIOUS
  <2>3. IsFiniteSet(A)
    BY <2>1, <2>2, FS_Surjection
  <2>4. \A X \in A : IsFiniteSet(X)
    OBVIOUS
  <2> HIDE DEF A
  <2>5. IsFiniteSet(UNION A)
    BY <2>3, <2>4, FS_UNION
  <2> QED BY <2>5 DEF A
<1> HIDE DEF Of
<1> DEFINE all == {Of(a) : a \in T}
           of  == [a \in T |-> Of(a)]
<1>2. of \in Surjection(T, all)
  BY DEF Surjection
<1>3. IsFiniteSet(all)
  BY <1>2, FS_Surjection
<1>4. \A X \in all : IsFiniteSet(X)
  BY <1>1
<1> HIDE DEF all
<1>5. IsFiniteSet(UNION all)
  BY <1>3, <1>4, FS_UNION
<1> QED BY <1>5 DEF all, Of

LEMMA ReachIsResult ==
  ASSUME NEW initial, NEW fluents, NEW actions, NEW disjuncts, ReachInv(initial, fluents, actions, disjuncts)
  PROVE  /\ IsResult(Analysed(initial, fluents))
         /\ gactions \subseteq actions
         /\ LET goal == GoalLeft(initial, fluents, disjuncts)
            IN  {} \notin goal /\ goal # {} => IsGoal(Analysed(initial, fluents), goal)
<1> DEFINE r == Analysed(initial, fluents)
           goal == GoalLeft(initial, fluents, disjuncts)
<1>1. r.initial = initial /\ r.fluents = fluents /\ r.pos = pos /\ r.actions = gactions
  BY DEF Analysed
<1>2. /\ IsGround(initial, fluents, actions, disjuncts)
      /\ templates \cup gactions = actions /\ IsFiniteSet(pos) /\ initial \subseteq pos
      /\ \A a \in gactions : a.preconds \subseteq pos /\ \A e \in a.effects : e.adds \subseteq pos
  BY DEF ReachInv
<1>3. gactions \subseteq actions
  BY <1>2
<1>4. /\ fluents \subseteq initial /\ IsFiniteSet(disjuncts) /\ IsFiniteSet(actions)
      /\ \A a \in actions : IsFiniteSet(a.effects) /\ \A e \in a.effects : e.dels \cap initial \subseteq fluents
  BY <1>2 DEF IsGround
<1>5. IsFiniteSet(gactions)
  BY <1>3, <1>4, FS_Subset
<1>6. initial \cap Deleted(r) \subseteq fluents
  BY <1>1, <1>3, <1>4 DEF Deleted
<1>7. IsResult(r)
  <2> HIDE DEF r
  <2> QED BY <1>1, <1>2, <1>3, <1>4, <1>5, <1>6 DEF IsResult
<1>8. IsFiniteSet(goal)
  <2> DEFINE D == {d \in disjuncts : d \subseteq r.pos}
             left == [d \in D |-> Neg(r, d)]
  <2>1. IsFiniteSet(D)
    BY <1>4, FS_Subset
  <2>2. goal = {Neg(r, d) : d \in D}
    BY DEF GoalLeft, set_relevants_in_wff
  <2> HIDE DEF D, goal
  <2>3. left \in Surjection(D, goal)
    BY <2>2 DEF Surjection
  <2> QED BY <2>1, <2>3, FS_Surjection
<1>9. \A d \in goal : d \subseteq Relevant(r)
  BY DEF GoalLeft, set_relevants_in_wff, Neg, Relevant
<1> HIDE DEF r, goal
<1>10. {} \notin goal /\ goal # {} => IsGoal(r, goal)
  BY <1>8, <1>9 DEF IsGoal
<1> QED BY <1>3, <1>7, <1>10 DEF r, goal

LEMMA PassKeeps ==
  ASSUME NEW initial, NEW fluents, NEW actions, NEW disjuncts,
         ReachInv(initial, fluents, actions, disjuncts), ReachabilityPass
  PROVE  ReachInv(initial, fluents, actions, disjuncts)' /\ pc' \in {"reach", "collect"}
<1> DEFINE ready == {t \in templates : t.preconds \subseteq pos}
           added == UNION {UNION {e.adds : e \in t.effects} : t \in ready}
<1>1. /\ templates' = templates \ ready /\ gactions' = gactions \cup ready /\ pos' = pos \cup added
      /\ pc' = IF added \subseteq pos THEN "collect" ELSE "reach"
  BY DEF ReachabilityPass
<1>2. /\ IsGround(initial, fluents, actions, disjuncts)
      /\ templates \cup gactions = actions /\ IsFiniteSet(pos) /\ initial \subseteq pos
      /\ \A a \in gactions : a.preconds \subseteq pos /\ \A e \in a.effects : e.adds \subseteq pos
  BY DEF ReachInv
<1>3. ready \subseteq actions /\ ready \subseteq templates
  BY <1>2
<1>4. IsFiniteSet(added)
  <2>1. /\ IsFiniteSet(actions)
        /\ \A a \in actions : IsFiniteSet(a.effects) /\ \A e \in a.effects : IsFiniteSet(e.adds)
    BY <1>2 DEF IsGround
  <2>2. IsFiniteSet(ready)
    BY <2>1, <1>3, FS_Subset
  <2> HIDE DEF ready
  <2> QED BY <1>3, <2>1, <2>2, AddedIsFinite
<1>5. IsFiniteSet(pos')
  BY <1>1, <1>2, <1>4, FS_Union
<1>6. \A a \in ready : a.preconds \subseteq pos /\ \A e \in a.effects : e.adds \subseteq added
  OBVIOUS
<1>7. pc' # "reach" => pos' = pos
  BY <1>1
<1>8. \A a \in templates \ ready : ~(a.preconds \subseteq pos)
  OBVIOUS
<1> HIDE DEF ready, added
<1>9. ReachInv(initial, fluents, actions, disjuncts)'
  <2>1. IsGround(initial, fluents, actions, disjuncts)'
    BY <1>2 DEF IsGround
  <2>2. templates' \cup gactions' = actions
    BY <1>1, <1>2, <1>3
  <2>3. \A a \in gactions' : a.preconds \subseteq pos' /\ \A e \in a.effects : e.adds \subseteq pos'
    <3> SUFFICES ASSUME NEW a \in gactions'
                 PROVE  a.preconds \subseteq pos' /\ \A e \in a.effects : e.adds \subseteq pos'
      OBVIOUS
    <3>1. CASE a \in gactions
      BY <1>1, <1>2, <3>1
    <3>2. CASE a \in ready
      BY <1>1, <1>6, <3>2
    <3> QED BY <1>1, <3>1, <3>2
  <2>4. pc' # "reach" => \A a \in templates' : ~(a.preconds \subseteq pos')
    BY <1>1, <1>7, <1>8
  <2>5. initial \subseteq pos'
    BY <1>1, <1>2
  <2> QED BY <1>5, <2>1, <2>2, <2>3, <2>4, <2>5 DEF ReachInv
<1> QED BY <1>1, <1>9

LEMMA GroundAtFirst ==
  ASSUME NEW initial, NEW fluents, NEW actions, NEW disjuncts, GroundInit(initial, fluents, actions, disjuncts)
  PROVE  GroundInv(initial, fluents, actions, disjuncts)
<1>1. /\ IsGround(initial, fluents, actions, disjuncts) /\ SearchInit
      /\ pc = "reach" /\ templates = actions /\ pos = initial /\ gactions = {}
  BY DEF GroundInit
<1>2. IsFiniteSet(pos)
  BY <1>1 DEF IsGround
<1>3. ReachInv(initial, fluents, actions, disjuncts)
  BY <1>1, <1>2 DEF ReachInv
<1> QED BY <1>1, <1>3 DEF GroundInv, Before_search

LEMMA GroundStays ==
  ASSUME NEW initial, NEW fluents, NEW actions, NEW disjuncts,
         GroundInv(initial, fluents, actions, disjuncts),
         [GroundNext(initial, fluents, disjuncts)]_<<reachVars, searchVars>>
  PROVE  GroundInv(initial, fluents, actions, disjuncts)'
<1> DEFINE r == Analysed(initial, fluents)
           goal == GoalLeft(initial, fluents, disjuncts)
<1>1. CASE ReachabilityPass
  <2>1. pc = "reach" /\ pc' \in {"reach", "collect"} /\ ReachInv(initial, fluents, actions, disjuncts)'
    BY <1>1, PassKeeps DEF GroundInv, ReachabilityPass
  <2>2. SearchInit
    BY <2>1 DEF GroundInv, Before_search
  <2>3. UNCHANGED <<climbVars, planVars, bfsVars>>
    BY <1>1 DEF ReachabilityPass, Keep
  <2>4. SearchInit'
    BY <2>2, <2>3 DEF SearchInit, climbVars, planVars, bfsVars
  <2> QED BY <2>1, <2>4 DEF GroundInv, Before_search
<1>2. CASE CollectRelevantFacts(initial, fluents, disjuncts)
  <2>1. /\ pc = "collect" /\ UNCHANGED <<templates, pos, gactions, climbVars, planVars, bfsVars>>
        /\ CASE {} \in goal -> pc' = "empty plan" /\ UNCHANGED task
             [] goal = {}   -> pc' = "no plan" /\ UNCHANGED task
             [] OTHER       -> pc' = "agenda" /\ task' = collect_relevant_facts(r, goal)
    BY <1>2 DEF CollectRelevantFacts, Keep, reachVars, GoalLeft, Analysed
  <2>2. SearchInit /\ ReachInv(initial, fluents, actions, disjuncts)
    BY <2>1 DEF GroundInv, Before_search
  <2>3. SearchInit'
    BY <2>1, <2>2 DEF SearchInit, climbVars, planVars, bfsVars
  <2>4. r' = r /\ goal' = goal
    BY <2>1 DEF Analysed, GoalLeft
  <2>5. ReachInv(initial, fluents, actions, disjuncts)'
    BY <2>1, <2>2 DEF ReachInv, IsGround
  <2> HIDE DEF r, goal
  <2>6. CASE {} \in goal
    BY <2>1, <2>3, <2>4, <2>5, <2>6 DEF GroundInv, Before_search, goal
  <2>7. CASE {} \notin goal /\ goal = {}
    <3>1. pc' = "no plan"
      BY <2>1, <2>7
    <3> QED BY <3>1, <2>3, <2>4, <2>5, <2>7 DEF GroundInv, Before_search, goal
  <2>8. CASE {} \notin goal /\ goal # {}
    <3>1. pc' = "agenda" /\ task' = collect_relevant_facts(r, goal)
      BY <2>1, <2>8
    <3>2. IsResult(r) /\ IsGoal(r, goal)
      BY <2>2, <2>8, ReachIsResult DEF r, goal
    <3>3. IsTask(collect_relevant_facts(r, goal))
      BY <3>2, TaskIsTask
    <3>4. IsTask(task)'
      BY <3>1, <3>3
    <3>5. SearchInv'
      BY <3>1, <3>4, <2>3, SearchAtFirstNext
    <3> QED BY <3>1, <3>5, <2>4, <2>5, <2>8 DEF GroundInv, Before_search, goal, r
  <2> QED BY <2>6, <2>7, <2>8
<1>3. ASSUME [SearchNext]_searchVars, UNCHANGED reachVars
      PROVE  GroundInv(initial, fluents, actions, disjuncts)'
  <2>1. UNCHANGED <<templates, pos, gactions>>
    BY <1>3 DEF reachVars
  <2>2. r' = r /\ goal' = goal
    BY <2>1 DEF Analysed, GoalLeft
  <2>3. CASE pc \in Before_search
    <3>1. UNCHANGED searchVars
      BY <1>3, <2>3 DEF Before_search, SearchNext, ComputeGoalAgenda, StartClimbing, Widen, ExpandFirstNode,
           SpaceExhausted, ExtractPlanFragment, NextEntry, AgendaDone, StartBestFirst, ExpandBest, ExtractPlan,
           ProvenUnsolvable
    <3>2. UNCHANGED <<task, pc, climbVars, planVars, bfsVars>>
      BY <3>1 DEF searchVars
    <3>3. SearchInit' /\ ReachInv(initial, fluents, actions, disjuncts)'
      BY <2>1, <2>3, <3>2 DEF GroundInv, SearchInit, climbVars, planVars, bfsVars, ReachInv, IsGround
    <3> HIDE DEF goal, r
    <3> QED BY <2>2, <2>3, <3>2, <3>3 DEF GroundInv, goal
  <2>4. CASE pc \notin Before_search
    <3>1. SearchInv
      BY <2>4 DEF GroundInv
    <3>2. SearchInv'
      BY <3>1, <1>3, SearchStays
    <3>3. pc' \notin Before_search
      BY <3>2 DEF SearchInv, FollowInv, Before_search
    <3>4. task' = task
      BY <1>3 DEF searchVars, climbVars, planVars, bfsVars, SearchNext, ComputeGoalAgenda, StartClimbing, Widen,
           ExpandFirstNode, SpaceExhausted, ExtractPlanFragment, NextEntry, AgendaDone, StartBestFirst, ExpandBest,
           ExtractPlan, ProvenUnsolvable
    <3>5. ReachInv(initial, fluents, actions, disjuncts)'
      <4>1. ReachInv(initial, fluents, actions, disjuncts) /\ pc # "reach" /\ pc' # "reach"
        BY <2>4, <3>3 DEF GroundInv, Before_search
      <4> QED BY <2>1, <4>1 DEF ReachInv, IsGround
    <3>6. {} \notin goal /\ goal # {} /\ task = collect_relevant_facts(r, goal)
      BY <2>4 DEF GroundInv
    <3> HIDE DEF goal, r
    <3>7. {} \notin goal' /\ goal' # {} /\ task' = collect_relevant_facts(r', goal')
      BY <2>2, <3>4, <3>6
    <3>8. pc' # "empty plan" /\ pc' # "no plan"
      BY <3>3 DEF Before_search
    <3> QED BY <3>2, <3>3, <3>5, <3>7, <3>8 DEF GroundInv, goal, r
  <2> QED BY <2>3, <2>4
<1>4. CASE SearchNext /\ UNCHANGED reachVars
  BY <1>3, <1>4
<1>5. CASE UNCHANGED <<reachVars, searchVars>>
  BY <1>3, <1>5
<1> QED BY <1>1, <1>2, <1>4, <1>5 DEF GroundNext

LEMMA GroundHolds ==
  ASSUME NEW CONSTANT initial, NEW CONSTANT fluents, NEW CONSTANT actions, NEW CONSTANT disjuncts
  PROVE  GroundSpec(initial, fluents, actions, disjuncts) => []GroundInv(initial, fluents, actions, disjuncts)
<1>1. GroundInit(initial, fluents, actions, disjuncts) => GroundInv(initial, fluents, actions, disjuncts)
  BY GroundAtFirst
<1>2. GroundInv(initial, fluents, actions, disjuncts)
        /\ [GroundNext(initial, fluents, disjuncts)]_<<reachVars, searchVars>>
        => GroundInv(initial, fluents, actions, disjuncts)'
  BY GroundStays
<1> QED BY <1>1, <1>2, PTL DEF GroundSpec

LEMMA GroundHasSearched ==
  ASSUME NEW initial, NEW fluents, NEW actions, NEW disjuncts, GroundInv(initial, fluents, actions, disjuncts)
  PROVE  AgendaRespectsOrders /\ PlanFollowsStates /\ RelaxedPlanWorks /\ pc # "debug me"
<1>1. CASE pc \in Before_search
  <2>1. plan_states = <<>> /\ pc \notin {"climb", "widen", "debug me"}
    BY <1>1 DEF GroundInv, SearchInit, Before_search
  <2> QED BY <2>1 DEF AgendaRespectsOrders, PlanFollowsStates, RelaxedPlanWorks
<1>2. CASE pc \notin Before_search
  <2>1. SearchInv
    BY <1>2 DEF GroundInv
  <2>2. pc # "debug me"
    BY <2>1 DEF SearchInv, FollowInv
  <2>3. AgendaRespectsOrders
    BY <2>1, AgendaIsOrdered DEF SearchInv, AgendaInv, AgendaRespectsOrders
  <2> QED BY <2>1, <2>2, <2>3, HeldIsFollowed, EvaluatedWorks DEF SearchInv
<1> QED BY <1>1, <1>2

\* What is proved of the search alone holds from the templates on: the reachability
\* analysis and collect_relevant_facts (inst_final.c) hand it over a task of finitely
\* many numbered facts with distinct goals, and none of its "debug me" messages comes.
THEOREM SearchIsSoundFromTemplates ==
  ASSUME NEW CONSTANT initial, NEW CONSTANT fluents, NEW CONSTANT actions, NEW CONSTANT disjuncts
  PROVE  GroundSpec(initial, fluents, actions, disjuncts) =>
           [](AgendaRespectsOrders /\ PlanFollowsStates /\ RelaxedPlanWorks /\ pc # "debug me")
<1>1. GroundInv(initial, fluents, actions, disjuncts) =>
        AgendaRespectsOrders /\ PlanFollowsStates /\ RelaxedPlanWorks /\ pc # "debug me"
  BY GroundHasSearched
<1> QED BY <1>1, GroundHolds, PTL

-----------------------------------------------------------------------------
(* The operators of the task and the ground actions                        *)

Collected(r, goal) == IsResult(r) /\ IsGoal(r, goal) /\ task = collect_relevant_facts(r, goal)

LEMMA CollectedGraph ==
  ASSUME NEW r, NEW goal, Collected(r, goal)
  PROVE  /\ AreActions(FinalOps(r, goal)) /\ IsGraphOf(graph, FinalOps(r, goal))
         /\ Goals = FinalGoals(r, goal) /\ task.facts = Facts(r)
         /\ task.initial = Numbers(Index(r), Neg(r, r.fluents))
<1> DEFINE ops == FinalOps(r, goal)
           G == FinalGoals(r, goal)
<1>1. IsResult(r) /\ IsGoal(r, goal)
  BY DEF Collected
<1>2. /\ task.facts = Facts(r) /\ task.initial = Numbers(Index(r), Neg(r, r.fluents))
      /\ task.goals = Increasing(G)
      /\ task.graph = build_connectivity_graph((1..Len(Facts(r))) \cup G, ops, G)
  BY CollectedIs DEF Collected
<1>3. IsSeq(ops) /\ \A op \in 1..Len(ops) : IsNumbered(ops[op], AllFacts(r, goal))
  BY <1>1, OpsAre, OpsAreNumbered
<1> HIDE DEF ops, G
<1>4. AreActions(ops)
  BY <1>3 DEF AreActions, IsNumbered
<1>5. IsGraphOf(graph, ops)
  BY <1>2, <1>4, GraphEffects DEF graph
<1>6. G \in SUBSET Int /\ IsFiniteSet(G)
  BY <1>1, GoalsAre DEF G
<1>7. Goals = G
  <2>1. /\ \A j \in DOMAIN Increasing(G) : Increasing(G)[j] \in G
        /\ \A x \in G : \E j \in DOMAIN Increasing(G) : Increasing(G)[j] = x
    BY <1>6, IncreasingIsInOrder
  <2> QED BY <1>2, <2>1 DEF Goals, ToSet
<1> QED BY <1>2, <1>4, <1>5, <1>7 DEF ops, G

\* What changes a state is one of the operators, its preconditions hold, and one of
\* its effects adds.
LEMMA ChangeIsOp ==
  ASSUME NEW r, NEW goal, Collected(r, goal), NEW s, NEW op, result_to_dest(graph, s, op) # s
  PROVE  op \in 1..Len(FinalOps(r, goal)) /\ FinalOps(r, goal)[op].preconds \subseteq s
         /\ ~NoAdds(FinalOps(r, goal)[op])
<1> DEFINE ops == FinalOps(r, goal)
<1>1. IsGraphOf(graph, ops)
  BY CollectedGraph
<1> HIDE DEF ops
<1>2. TrueEffects(graph, s, op) # {}
  BY DEF result_to_dest, Undeleted
<1>3. PICK e \in TrueEffects(graph, s, op) : TRUE
  BY <1>2
<1>4. e \in DOMAIN graph.ef /\ ~graph.ef[e].removed /\ graph.ef[e].op = op /\ graph.ef[e].PC \subseteq s
  BY <1>3 DEF TrueEffects, EffectsOf, Kept
<1>5. PICK o \in 1..Len(ops) : \E i \in Leaders(ops[o]) : graph.ef[e] = Conn(ops[o], o, i)
  BY <1>1, <1>4 DEF IsGraphOf
<1>6. PICK i \in Leaders(ops[o]) : graph.ef[e] = Conn(ops[o], o, i)
  BY <1>5
<1>7. /\ o = op /\ ~RemovedEffect(ops[op], Integrated(ops[op], i))
      /\ ops[op].preconds \cup ops[op].effects[i].conditions \subseteq s
  BY <1>4, <1>6 DEF Conn, Integrated
<1>8. ~NoAdds(ops[op])
  BY <1>7 DEF NoAdds, RemovedEffect
<1> QED BY <1>5, <1>7, <1>8 DEF ops

\* An operator of a disjunct only adds the fact that stands for the goal.
LEMMA GoalOpMoves ==
  ASSUME NEW r, NEW goal, Collected(r, goal), NEW op \in 1..Len(GoalOps(r, goal)), NEW d,
         FinalOps(r, goal)[op] = GoalOp(r, d), d \in goal, NEW s, Numbers(Index(r), d) \subseteq s
  PROVE  /\ result_to_dest(graph, s, op) = IF NoAdds(FinalOps(r, goal)[op]) THEN s ELSE s \cup {GoalFact(r)}
         /\ GoalFact(r) \in result_to_dest(graph, s, op)
         /\ Shown(r, result_to_dest(graph, s, op)) = Shown(r, s)
<1> DEFINE ops == FinalOps(r, goal)
           a == ops[op]
           t == result_to_dest(graph, s, op)
           G == GoalFact(r)
<1>1. IsResult(r) /\ IsGoal(r, goal) /\ AreActions(ops) /\ IsGraphOf(graph, ops)
  BY CollectedGraph DEF Collected
<1>2. op \in 1..Len(ops)
  <2>1. Len(ops) = Len(GoalOps(r, goal)) + Len(Found(r)) /\ Len(GoalOps(r, goal)) \in Nat /\ Len(Found(r)) \in Nat
    BY <1>1, OpsAre
  <2> HIDE DEF ops
  <2> QED BY <2>1
<1>3. /\ a.preconds = Numbers(Index(r), d) /\ Numbers(Index(r), d) \subseteq 1..Size(r)
      /\ IsSeq(a.effects) /\ DOMAIN a.effects = {1}
      /\ a.effects[1].conditions = {} /\ a.effects[1].adds = {G} /\ a.effects[1].dels = {}
  <2>1. \A o : o = GoalOp(r, d) =>
          /\ o.preconds = Numbers(Index(r), d) /\ Numbers(Index(r), d) \subseteq 1..Size(r)
          /\ IsSeq(o.effects) /\ DOMAIN o.effects = {1}
          /\ o.effects[1].conditions = {} /\ o.effects[1].adds = {GoalFact(r)} /\ o.effects[1].dels = {}
    BY <1>1, GoalOpIs
  <2> QED BY <2>1
<1>4. G = Size(r) + 1 /\ Size(r) \in Nat /\ Facts(r) = Facts(r) /\ DOMAIN Facts(r) = 1..Size(r)
  BY <1>1, GoalsAre, IndexIs
<1> HIDE DEF ops
<1>5. \/ ~NoAdds(a) /\ t = Moved(a, s)
      \/ NoAdds(a) /\ t = s /\ Moved(a, s) \subseteq s
  <2> DEFINE k == a
  <2>1. KeepsAdds(a)
    BY <1>3 DEF KeepsAdds
  <2>2. a.preconds \subseteq s
    BY <1>3
  <2>3. \A o \in 1..Len(ops) : \A b : b = ops[o] /\ b.preconds \subseteq s /\ KeepsAdds(b) =>
          \/ ~NoAdds(b) /\ result_to_dest(graph, s, o) = Moved(b, s)
          \/ NoAdds(b) /\ result_to_dest(graph, s, o) = s /\ Moved(b, s) \subseteq s
    BY <1>1, TransitionMoves
  <2> QED BY <1>2, <2>1, <2>2, <2>3
<1> HIDE DEF a
<1>6. Moved(a, s) = s \cup {G}
  <2>1. Acting(a, s) = {1}
    BY <1>3 DEF Acting
  <2> QED BY <1>3, <2>1 DEF Moved
<1> HIDE DEF t, G
<1>7. t = (IF NoAdds(a) THEN s ELSE s \cup {G}) /\ G \in t /\ (t = s \/ t = s \cup {G})
  BY <1>5, <1>6
<1>8. t \cap DOMAIN Facts(r) = s \cap DOMAIN Facts(r)
  BY <1>4, <1>7
<1>9. Shown(r, t) = Shown(r, s)
  BY <1>8 DEF Shown
<1> QED BY <1>7, <1>9 DEF t, G, a, ops

\* An operator of an action changes the facts as the action does, as long as no
\* effect deletes what another one adds again.
LEMMA ActionMoves ==
  ASSUME NEW r, NEW goal, Collected(r, goal), NEW k \in 1..Len(Found(r)), NEW a, a = Found(r)[k], AddsStay(a),
         NEW op, op = Len(GoalOps(r, goal)) + k, NEW s, a.preconds \subseteq Shown(r, s)
  PROVE  /\ op \in 1..Len(FinalOps(r, goal)) /\ FinalOps(r, goal)[op] = Final(r, a) /\ a \in r.actions
         /\ ~NoAdds(Final(r, a)) => Shown(r, result_to_dest(graph, s, op)) = Applied(Shown(r, s), a)
         /\ NoAdds(Final(r, a)) => /\ result_to_dest(graph, s, op) = s /\ Moved(Final(r, a), s) \subseteq s
                                   /\ Applied(Shown(r, s), a) \subseteq Shown(r, s)
<1> DEFINE ops == FinalOps(r, goal)
           na == Final(r, a)
<1>1. IsResult(r) /\ IsGoal(r, goal) /\ AreActions(ops) /\ IsGraphOf(graph, ops)
  BY CollectedGraph DEF Collected
<1>2. /\ Len(ops) = Len(GoalOps(r, goal)) + Len(Found(r)) /\ Len(GoalOps(r, goal)) \in Nat /\ Len(Found(r)) \in Nat
      /\ \A j \in 1..Len(Found(r)) : Found(r)[j] \in r.actions
                                     /\ ops[Len(GoalOps(r, goal)) + j] = Final(r, Found(r)[j])
  BY <1>1, OpsAre
<1> HIDE DEF ops
<1>3. op \in 1..Len(ops) /\ ops[op] = na /\ a \in r.actions
  BY <1>2
<1>4. na.preconds \subseteq s
  <2>1. na.preconds = Numbers(Index(r), Neg(r, a.preconds))
    BY <1>1, <1>3, FinalIs
  <2>2. a.preconds \in SUBSET r.pos
    BY <1>1, <1>3 DEF IsResult
  <2> QED BY <1>1, <2>1, <2>2, NumbersHold
<1>5. KeepsAdds(na)
  BY <1>1, <1>3, FinalKeeps
<1>6. Shown(r, Moved(na, s)) = Applied(Shown(r, s), a)
  BY <1>1, <1>3, FinalMoves
<1> HIDE DEF na
<1>7. \/ ~NoAdds(na) /\ result_to_dest(graph, s, op) = Moved(na, s)
      \/ NoAdds(na) /\ result_to_dest(graph, s, op) = s /\ Moved(na, s) \subseteq s
  <2>1. \A o \in 1..Len(ops) : \A b : b = ops[o] /\ b.preconds \subseteq s /\ KeepsAdds(b) =>
          \/ ~NoAdds(b) /\ result_to_dest(graph, s, o) = Moved(b, s)
          \/ NoAdds(b) /\ result_to_dest(graph, s, o) = s /\ Moved(b, s) \subseteq s
    BY <1>1, TransitionMoves
  <2> QED BY <1>3, <1>4, <1>5, <2>1
<1>8. Moved(na, s) \subseteq s => Shown(r, Moved(na, s)) \subseteq Shown(r, s)
  BY DEF Shown
<1> QED BY <1>3, <1>6, <1>7, <1>8 DEF na, ops

\* What the initial state of the task shows.
LEMMA InitialIsShown ==
  ASSUME NEW r, NEW goal, Collected(r, goal)
  PROVE  Shown(r, task.initial) = r.initial
<1>1. IsResult(r) /\ task.initial = Numbers(Index(r), Neg(r, r.fluents))
  BY CollectedGraph DEF Collected
<1>2. r.fluents \subseteq r.initial /\ r.initial \subseteq r.pos /\ r.initial \cap Deleted(r) \subseteq r.fluents
  BY <1>1 DEF IsResult
<1>3. Neg(r, r.fluents) \in SUBSET Relevant(r)
  BY <1>2 DEF Neg, Relevant
<1>4. \A x : x \in Shown(r, task.initial) <=> x \in Always(r) \/ x \in Neg(r, r.fluents)
  <2>1. \A x : x \in Shown(r, task.initial) <=> x \in Always(r) \/ (x \in Relevant(r) /\ Index(r)[x] \in task.initial)
    BY <1>1, ShownIs
  <2>2. \A x \in Relevant(r) : Index(r)[x] \in task.initial <=> x \in Neg(r, r.fluents)
    BY <1>1, <1>3, NumberIs
  <2> QED BY <1>3, <2>1, <2>2
<1>5. \A x : x \in Always(r) \/ x \in Neg(r, r.fluents) <=> x \in r.initial
  BY <1>2 DEF Always, Neg
<1> QED BY <1>4, <1>5

-----------------------------------------------------------------------------
(* Plans of the ground actions are plans of the task                       *)

\* What the run of a ground plan needs and keeps: the reachability analysis has
\* found its actions, and its facts are possible.
RunsWithin(initial, acts, states) ==
  /\ Len(acts) \in Nat /\ states[1] = initial /\ states[Len(acts) + 1] \subseteq pos
  /\ \A k \in 1..Len(acts) : /\ acts[k] \in gactions /\ acts[k].preconds \subseteq states[k]
                             /\ states[k + 1] = Applied(states[k], acts[k])

LEMMA RunIsReachable ==
  ASSUME NEW initial, NEW fluents, NEW actions, NEW disjuncts,
         ReachInv(initial, fluents, actions, disjuncts), pc # "reach",
         NEW acts, NEW states, GroundRun(initial, actions, acts, states)
  PROVE  RunsWithin(initial, acts, states)
<1>1. /\ acts \in Seq(actions) /\ states[1] = initial
      /\ \A k \in DOMAIN acts : acts[k].preconds \subseteq states[k] /\ states[k + 1] = Applied(states[k], acts[k])
  BY DEF GroundRun
<1>2. Len(acts) \in Nat /\ DOMAIN acts = 1..Len(acts) /\ \A k \in 1..Len(acts) : acts[k] \in actions
  BY <1>1
<1>3. /\ templates \cup gactions = actions /\ initial \subseteq pos
      /\ \A a \in gactions : \A e \in a.effects : e.adds \subseteq pos
      /\ \A a \in templates : ~(a.preconds \subseteq pos)
  BY DEF ReachInv
<1>4. ASSUME NEW k \in 1..Len(acts), states[k] \subseteq pos
      PROVE  acts[k] \in gactions /\ states[k + 1] \subseteq pos
  <2>1. acts[k].preconds \subseteq pos /\ acts[k] \in actions /\ states[k + 1] = Applied(states[k], acts[k])
    BY <1>1, <1>2, <1>4
  <2>2. acts[k] \in gactions
    BY <1>3, <2>1
  <2>3. \A e \in acts[k].effects : e.adds \subseteq pos
    BY <1>3, <2>2
  <2>4. Applied(states[k], acts[k]) \subseteq pos
    BY <1>4, <2>3 DEF Applied, Fires
  <2> QED BY <2>1, <2>2, <2>4
<1> DEFINE T == {k \in Nat : k <= Len(acts) => states[k + 1] \subseteq pos}
<1>5. 0 \in T
  BY <1>1, <1>3
<1>6. ASSUME NEW k \in Nat, k \in T PROVE k + 1 \in T
  <2> SUFFICES ASSUME k + 1 <= Len(acts) PROVE states[(k + 1) + 1] \subseteq pos
    OBVIOUS
  <2>1. k + 1 \in 1..Len(acts) /\ states[k + 1] \subseteq pos
    BY <1>2, <1>6
  <2> QED BY <2>1, <1>4
<1>7. Nat \subseteq T
  <2> HIDE DEF T
  <2> QED BY <1>5, <1>6, Upwards
<1>8. \A k \in 0..Len(acts) : states[k + 1] \subseteq pos
  BY <1>2, <1>7
<1>9. \A k \in 1..Len(acts) : states[k] \subseteq pos
  <2> TAKE k \in 1..Len(acts)
  <2>1. k - 1 \in 0..Len(acts) /\ (k - 1) + 1 = k
    BY <1>2
  <2> QED BY <1>8, <2>1
<1>10. states[Len(acts) + 1] \subseteq pos
  <2>1. Len(acts) \in 0..Len(acts)
    BY <1>2
  <2> QED BY <1>8, <2>1
<1> QED BY <1>1, <1>2, <1>4, <1>9, <1>10 DEF RunsWithin

\* A state that shows at least the facts of a state of the run, or just these.
Covers(r, X, s) == \/ X = Shown(r, s)
                   \/ (\A a \in r.actions : Unconditional(a)) /\ X \subseteq Shown(r, s)

Covered(r) == \/ \A a \in r.actions : AddsStay(a) /\ ~OnlyDeletes(r, a)
              \/ \A a \in r.actions : Unconditional(a)

LEMMA UnconditionalGrows ==
  ASSUME NEW a, Unconditional(a), NEW X, NEW Y, X \subseteq Y
  PROVE  AddsStay(a) /\ Applied(X, a) \subseteq Applied(Y, a)
<1>1. \A e \in a.effects : e.conditions = {}
  BY DEF Unconditional
<1>2. AddsStay(a)
  BY <1>1 DEF AddsStay
<1>3. Fires(X, a) = a.effects /\ Fires(Y, a) = a.effects
  BY <1>1 DEF Fires
<1>4. Applied(X, a) \subseteq Applied(Y, a)
  BY <1>3 DEF Applied
<1> QED BY <1>2, <1>4

\* An action that can be applied has an operator that covers what it leads to.
LEMMA ActionIsCovered ==
  ASSUME NEW r, NEW goal, Collected(r, goal), Covered(r), NEW a \in r.actions, NEW s, NEW X,
         Covers(r, X, s), a.preconds \subseteq X
  PROVE  \E op \in Int : Covers(r, Applied(X, a), result_to_dest(graph, s, op))
<1>1. IsResult(r) /\ IsGoal(r, goal)
  BY DEF Collected
<1>2. /\ Len(GoalOps(r, goal)) \in Nat /\ Len(Found(r)) \in Nat
      /\ \A b \in r.actions : \E k \in 1..Len(Found(r)) : Found(r)[k] = b
  BY <1>1, OpsAre
<1>3. PICK k \in 1..Len(Found(r)) : Found(r)[k] = a
  BY <1>2
<1> DEFINE op == Len(GoalOps(r, goal)) + k
           t == result_to_dest(graph, s, op)
           na == Final(r, a)
<1>4. X \subseteq Shown(r, s) /\ a.preconds \subseteq Shown(r, s)
  BY DEF Covers
<1>5. AddsStay(a)
  BY UnconditionalGrows DEF Covered
<1>6. /\ ~NoAdds(na) => Shown(r, t) = Applied(Shown(r, s), a)
      /\ NoAdds(na) => t = s /\ Moved(na, s) \subseteq s /\ Applied(Shown(r, s), a) \subseteq Shown(r, s)
  BY <1>3, <1>4, <1>5, ActionMoves
<1>7. op \in Int
  BY <1>2
<1>8. Shown(r, Moved(na, s)) = Applied(Shown(r, s), a)
  BY <1>1, FinalMoves
<1>9. ~OnlyDeletes(r, a) /\ NoAdds(na) /\ Moved(na, s) \subseteq s => Moved(na, s) = s
  BY <1>1, NothingMoves
<1> HIDE DEF op, t, na
<1>10. CASE \A b \in r.actions : Unconditional(b)
  <2>1. Applied(X, a) \subseteq Applied(Shown(r, s), a)
    BY <1>4, <1>10, UnconditionalGrows
  <2>2. Applied(Shown(r, s), a) \subseteq Shown(r, t)
    BY <1>6
  <2>3. Applied(X, a) \subseteq Shown(r, t)
    BY <2>1, <2>2
  <2> QED BY <1>7, <1>10, <2>3 DEF Covers, t
<1>11. CASE ~\A b \in r.actions : Unconditional(b)
  <2>1. X = Shown(r, s) /\ ~OnlyDeletes(r, a)
    BY <1>11 DEF Covers, Covered
  <2>2. Applied(X, a) = Shown(r, t)
    BY <1>6, <1>8, <1>9, <2>1
  <2> QED BY <1>7, <2>2 DEF Covers, t
<1> QED BY <1>10, <1>11

LEMMA LeadsOn ==
  ASSUME NEW ops, NEW ss, LeadsThrough(ops, ss), NEW op \in Int
  PROVE  LET t == result_to_dest(graph, ss[Len(ss)], op)
         IN  LeadsThrough(Append(ops, op), Append(ss, t)) /\ Len(Append(ops, op)) = Len(ops) + 1
             /\ Append(ss, t)[Len(Append(ss, t))] = t
<1> DEFINE t == result_to_dest(graph, ss[Len(ss)], op)
           os == Append(ops, op)
           ts == Append(ss, t)
<1>1. /\ ops \in Seq(Int) /\ IsSeq(ss) /\ Len(ss) = Len(ops) + 1 /\ ss[1] = task.initial
      /\ \A k \in 1..Len(ops) : ss[k + 1] = result_to_dest(graph, ss[k], ops[k])
  BY DEF LeadsThrough
<1>2. os \in Seq(Int) /\ Len(os) = Len(ops) + 1 /\ Len(ops) \in Nat
      /\ (\A k \in 1..Len(ops) : os[k] = ops[k]) /\ os[Len(ops) + 1] = op
  BY <1>1
<1> HIDE DEF os
<1>3. /\ IsSeq(ts) /\ Len(ts) = Len(ss) + 1 /\ (\A k \in 1..Len(ss) : ts[k] = ss[k]) /\ ts[Len(ss) + 1] = t
  <2> HIDE DEF t
  <2> QED BY <1>1, AppendFacts
<1>4. t = result_to_dest(graph, ss[Len(ss)], op)
  OBVIOUS
<1> HIDE DEF ts, t
<1>5. ASSUME NEW k \in 1..Len(os) PROVE ts[k + 1] = result_to_dest(graph, ts[k], os[k])
  <2>1. CASE k \in 1..Len(ops)
    <3>1. ts[k + 1] = ss[k + 1] /\ ts[k] = ss[k] /\ os[k] = ops[k]
      BY <1>1, <1>2, <1>3, <2>1
    <3> QED BY <1>1, <2>1, <3>1
  <2>2. CASE k = Len(ops) + 1
    <3>1. ts[k + 1] = t /\ ts[k] = ss[Len(ss)] /\ os[k] = op
      BY <1>1, <1>2, <1>3, <2>2
    <3> QED BY <1>4, <3>1
  <2> QED BY <1>2, <2>1, <2>2
<1>6. ts[1] = task.initial /\ Len(ts) = Len(os) + 1 /\ ts[Len(ts)] = t
  BY <1>1, <1>2, <1>3
<1>7. LeadsThrough(os, ts)
  BY <1>2, <1>3, <1>5, <1>6 DEF LeadsThrough
<1> QED BY <1>2, <1>6, <1>7 DEF os, ts, t

LEMMA LeadsNowhere == LeadsThrough(<<>>, <<task.initial>>)
<1>1. <<>> \in Seq(Int) /\ Len(<<>>) = 0 /\ Len(<<task.initial>>) = 1 /\ <<task.initial>>[1] = task.initial
  OBVIOUS
<1>2. IsSeq(<<task.initial>>)
  <2>1. <<task.initial>> \in Seq({task.initial})
    OBVIOUS
  <2> QED BY <2>1 DEF IsSeq
<1> QED BY <1>1, <1>2 DEF LeadsThrough

\* The operators lead through states that cover those of a run of ground actions.
LEMMA RunIsCovered ==
  ASSUME NEW r, NEW goal, Collected(r, goal), Covered(r),
         NEW acts, NEW states, Len(acts) \in Nat, states[1] = r.initial,
         \A k \in 1..Len(acts) : /\ acts[k] \in r.actions /\ acts[k].preconds \subseteq states[k]
                                 /\ states[k + 1] = Applied(states[k], acts[k])
  PROVE  \E ops, ss : LeadsThrough(ops, ss) /\ Covers(r, states[Len(acts) + 1], ss[Len(ss)])
<1> DEFINE Reaches(k) == \E ops, ss : LeadsThrough(ops, ss) /\ Covers(r, states[k + 1], ss[Len(ss)])
           T == {k \in Nat : k <= Len(acts) => Reaches(k)}
<1>1. 0 \in T
  <2>1. LeadsThrough(<<>>, <<task.initial>>) /\ <<task.initial>>[Len(<<task.initial>>)] = task.initial
    BY LeadsNowhere
  <2>2. Covers(r, states[1], task.initial)
    BY InitialIsShown DEF Covers
  <2>3. Reaches(0)
    BY <2>1, <2>2
  <2> HIDE DEF Reaches
  <2> QED BY <2>3
<1>2. ASSUME NEW k \in Nat, k \in T PROVE k + 1 \in T
  <2> SUFFICES ASSUME k + 1 <= Len(acts) PROVE Reaches(k + 1)
    OBVIOUS
  <2>1. k + 1 \in 1..Len(acts) /\ Reaches(k)
    BY <1>2
  <2>2. PICK ops, ss : LeadsThrough(ops, ss) /\ Covers(r, states[k + 1], ss[Len(ss)])
    BY <2>1
  <2>3. /\ acts[k + 1] \in r.actions /\ acts[k + 1].preconds \subseteq states[k + 1]
        /\ states[(k + 1) + 1] = Applied(states[k + 1], acts[k + 1])
    BY <2>1
  <2>4. PICK op \in Int :
          Covers(r, Applied(states[k + 1], acts[k + 1]), result_to_dest(graph, ss[Len(ss)], op))
    BY <2>2, <2>3, ActionIsCovered
  <2> DEFINE t == result_to_dest(graph, ss[Len(ss)], op)
             os == Append(ops, op)
             ts == Append(ss, t)
  <2>5. LeadsThrough(os, ts) /\ ts[Len(ts)] = t
    BY <2>2, LeadsOn
  <2>6. Covers(r, states[(k + 1) + 1], t)
    BY <2>3, <2>4
  <2> HIDE DEF os, ts, t
  <2> QED BY <2>5, <2>6
<1>3. Len(acts) \in T
  <2> HIDE DEF T
  <2> QED BY <1>1, <1>2, Upwards
<1> QED BY <1>3

\* A state that covers the facts of a disjunct has the goals of the task, or an
\* operator that leads to them.
LEMMA GoalIsCovered ==
  ASSUME NEW r, NEW goal, Collected(r, goal), NEW X, NEW d, d \subseteq X, NEW s, Covers(r, X, s),
         d \subseteq r.pos, Neg(r, d) \in goal
  PROVE  Goals \subseteq s \/ \E op \in Int : Goals \subseteq result_to_dest(graph, s, op)
<1> DEFINE e == Neg(r, d)
<1>1. IsResult(r) /\ IsGoal(r, goal) /\ Goals = FinalGoals(r, goal) /\ e \in goal
  BY CollectedGraph DEF Collected
<1>2. d \subseteq Shown(r, s)
  BY DEF Covers
<1>3. Numbers(Index(r), e) \subseteq s
  BY <1>1, <1>2, NumbersHold
<1> HIDE DEF e
<1>4. CASE ~IsOr(goal)
  <2>1. Goals = Numbers(Index(r), e)
    BY <1>1, <1>4, GoalsAre
  <2> QED BY <1>3, <2>1
<1>5. CASE IsOr(goal)
  <2>1. PICK op \in 1..Len(GoalOps(r, goal)) : FinalOps(r, goal)[op] = GoalOp(r, e)
    BY <1>1, <1>5, OpsAre
  <2>2. GoalFact(r) \in result_to_dest(graph, s, op)
    <3>1. \A d1 : FinalOps(r, goal)[op] = GoalOp(r, d1) /\ d1 \in goal /\ Numbers(Index(r), d1) \subseteq s
                    => GoalFact(r) \in result_to_dest(graph, s, op)
      BY GoalOpMoves
    <3> QED BY <1>1, <1>3, <2>1, <3>1
  <2>3. Goals = {GoalFact(r)} /\ op \in Int
    BY <1>1, <1>5, GoalsAre, OpsAre
  <2> QED BY <2>2, <2>3
<1> QED BY <1>4, <1>5

LEMMA NoPlanNoGroundPlan ==
  ASSUME NEW initial, NEW fluents, NEW actions, NEW disjuncts, GroundInv(initial, fluents, actions, disjuncts),
         \/ pc = "no plan"
         \/ pc = "unsolvable" /\ Covered(Analysed(initial, fluents))
  PROVE  NoGroundPlan(initial, actions, disjuncts)
<1> DEFINE r == Analysed(initial, fluents)
           goal == GoalLeft(initial, fluents, disjuncts)
<1>0. \A acts, states : GroundRun(initial, actions, acts, states) => RunsWithin(initial, acts, states)
  <2>1. ReachInv(initial, fluents, actions, disjuncts) /\ pc # "reach"
    BY DEF GroundInv
  <2> QED BY <2>1, RunIsReachable
<1> SUFFICES ASSUME NEW acts, NEW states, GroundRun(initial, actions, acts, states), NEW d \in disjuncts,
                    d \subseteq states[Len(acts) + 1]
             PROVE  FALSE
  BY DEF NoGroundPlan
<1>1. r.initial = initial /\ r.pos = pos /\ r.actions = gactions
  BY DEF Analysed
<1>2. /\ Len(acts) \in Nat /\ states[1] = initial /\ states[Len(acts) + 1] \subseteq pos
      /\ \A k \in 1..Len(acts) : /\ acts[k] \in gactions /\ acts[k].preconds \subseteq states[k]
                                 /\ states[k + 1] = Applied(states[k], acts[k])
  BY <1>0 DEF RunsWithin
<1>3. d \subseteq r.pos
  BY <1>1, <1>2
<1>4. Neg(r, d) \in goal
  BY <1>3 DEF GoalLeft, set_relevants_in_wff
<1>5. CASE pc = "no plan"
  BY <1>4, <1>5 DEF GroundInv
<1>6. CASE pc = "unsolvable" /\ Covered(r)
  <2>1. SearchInv /\ task = collect_relevant_facts(r, goal) /\ {} \notin goal /\ goal # {}
    BY <1>6 DEF GroundInv, Before_search
  <2>2. NoPlan
    BY <1>6, <2>1, SearchedHasNoPlan DEF SearchInv
  <2>3. Collected(r, goal)
    BY <2>1, ReachIsResult DEF Collected, GroundInv
  <2> HIDE DEF r, goal
  <2>4. /\ states[1] = r.initial
        /\ \A k \in 1..Len(acts) : /\ acts[k] \in r.actions /\ acts[k].preconds \subseteq states[k]
                                   /\ states[k + 1] = Applied(states[k], acts[k])
    BY <1>1, <1>2
  <2>5. PICK ops, ss : LeadsThrough(ops, ss) /\ Covers(r, states[Len(acts) + 1], ss[Len(ss)])
    BY <1>2, <1>6, <2>3, <2>4, RunIsCovered
  <2>6. Goals \subseteq ss[Len(ss)] \/ \E op \in Int : Goals \subseteq result_to_dest(graph, ss[Len(ss)], op)
    BY <1>3, <1>4, <2>3, <2>5, GoalIsCovered
  <2>7. ~(Goals \subseteq ss[Len(ss)])
    BY <2>2, <2>5 DEF NoPlan
  <2>8. PICK op \in Int : Goals \subseteq result_to_dest(graph, ss[Len(ss)], op)
    BY <2>6, <2>7
  <2> DEFINE t == result_to_dest(graph, ss[Len(ss)], op)
             os == Append(ops, op)
             ts == Append(ss, t)
  <2>9. LeadsThrough(os, ts) /\ ts[Len(ts)] = t
    BY <2>5, LeadsOn
  <2>10. Goals \subseteq t
    BY <2>8
  <2> HIDE DEF os, ts, t
  <2> QED BY <2>2, <2>9, <2>10 DEF NoPlan
<1> QED BY <1>5, <1>6

-----------------------------------------------------------------------------
(* The plan that is found is one of the ground actions                     *)

LEMMA NamesDiffer ==
  ASSUME NEW x, NEW y PROVE [name |-> x, inst |-> y] # GOAL_REACHED
<1>1. DOMAIN [name |-> x, inst |-> y] = {"name", "inst"}
  OBVIOUS
<1>2. DOMAIN GOAL_REACHED = {"name"}
  BY DEF GOAL_REACHED
<1>3. "inst" # "name"
  OBVIOUS
<1> QED BY <1>1, <1>2, <1>3

LEMMA NamesAre ==
  ASSUME NEW r, NEW goal, Collected(r, goal)
  PROVE  /\ \A op \in 1..Len(GoalOps(r, goal)) : task.names[op] = GOAL_REACHED
         /\ \A k \in 1..Len(Found(r)) :
              task.names[Len(GoalOps(r, goal)) + k] = [name |-> Found(r)[k].name, inst |-> Found(r)[k].inst]
<1> DEFINE gs == GoalOps(r, goal)
           fs == Found(r)
           m  == Len(gs)
           a  == [k \in DOMAIN gs |-> GOAL_REACHED]
           b  == [k \in DOMAIN fs |-> [name |-> fs[k].name, inst |-> fs[k].inst]]
<1>1. IsSeq(gs) /\ IsSeq(fs) /\ task.names = a \o b
  BY OpsAre, CollectedIs DEF Collected
<1> HIDE DEF gs, fs
<1>2. m \in Nat /\ DOMAIN gs = 1..m /\ Len(fs) \in Nat /\ DOMAIN fs = 1..Len(fs)
  BY <1>1, SeqFacts
<1>3. IsSeq(a) /\ Len(a) = m /\ \A k \in 1..m : a[k] = GOAL_REACHED
  <2>1. a = [k \in 1..m |-> GOAL_REACHED]
    BY <1>2
  <2>2. a = [k \in 1..m |-> a[k]]
    BY <2>1
  <2> HIDE DEF a
  <2> QED BY <1>2, <2>1, <2>2, ListFacts
<1>4. IsSeq(b) /\ Len(b) = Len(fs) /\ \A k \in 1..Len(fs) : b[k] = [name |-> fs[k].name, inst |-> fs[k].inst]
  <2>1. b = [k \in 1..Len(fs) |-> [name |-> fs[k].name, inst |-> fs[k].inst]]
    BY <1>2
  <2>2. b = [k \in 1..Len(fs) |-> b[k]]
    BY <2>1
  <2> HIDE DEF b
  <2> QED BY <1>2, <2>1, <2>2, ListFacts
<1> HIDE DEF a, b, m
<1>5. /\ \A i \in 1..Len(a) : (a \o b)[i] = a[i]
      /\ \A i \in 1..Len(b) : (a \o b)[Len(a) + i] = b[i]
  BY <1>3, <1>4, ConcatFacts
<1> QED BY <1>1, <1>3, <1>4, <1>5 DEF gs, fs, m

LEMMA StateIsShown ==
  ASSUME NEW r, NEW goal, Collected(r, goal), NEW s
  PROVE  StateOf(r, s) = Shown(r, s)
<1>1. task.facts = Facts(r)
  BY CollectedGraph
<1> QED BY <1>1 DEF StateOf, Shown, Always

\* What an operator of the task does, for the facts it stands for.
LEMMA StepIsGround ==
  ASSUME NEW r, NEW goal, Collected(r, goal), \A a \in r.actions : AddsStay(a),
         NEW s, NEW op, NEW t, t = result_to_dest(graph, s, op), t # s
  PROVE  /\ IF task.names[op] = GOAL_REACHED THEN Shown(r, t) = Shown(r, s)
            ELSE \E a \in r.actions : /\ task.names[op] = [name |-> a.name, inst |-> a.inst]
                                      /\ a.preconds \subseteq Shown(r, s)
                                      /\ Shown(r, t) = Applied(Shown(r, s), a)
         /\ IsOr(goal) /\ GoalFact(r) \in t /\ GoalFact(r) \notin s =>
              /\ Shown(r, t) = Shown(r, s)
              /\ \E d \in goal : Numbers(Index(r), d) \subseteq s
<1> DEFINE ops == FinalOps(r, goal)
           m   == Len(GoalOps(r, goal))
<1>1. IsResult(r) /\ IsGoal(r, goal)
  BY DEF Collected
<1>2. op \in 1..Len(ops) /\ ops[op].preconds \subseteq s /\ ~NoAdds(ops[op])
  BY ChangeIsOp
<1>3. /\ Len(ops) = m + Len(Found(r)) /\ m \in Nat /\ Len(Found(r)) \in Nat
      /\ \A o \in 1..m : IsOr(goal) /\ \E d \in goal : ops[o] = GoalOp(r, d)
      /\ \A k \in 1..Len(Found(r)) : Found(r)[k] \in r.actions /\ ops[m + k] = Final(r, Found(r)[k])
  BY <1>1, OpsAre
<1> HIDE DEF ops, m
<1>4. CASE op \in 1..m
  <2>1. PICK d \in goal : ops[op] = GoalOp(r, d)
    BY <1>3, <1>4
  <2>2. ops[op].preconds = Numbers(Index(r), d)
    BY <1>1, <2>1, GoalOpIs
  <2>3. Numbers(Index(r), d) \subseteq s
    BY <1>2, <2>2
  <2>4. Shown(r, t) = Shown(r, s)
    BY <1>4, <2>1, <2>3, GoalOpMoves DEF ops, m
  <2>5. task.names[op] = GOAL_REACHED
    BY <1>4, NamesAre DEF m
  <2> QED BY <2>3, <2>4, <2>5
<1>5. CASE op \notin 1..m
  <2>1. PICK k \in 1..Len(Found(r)) : op = m + k
    <3>1. op - m \in 1..Len(Found(r)) /\ op = m + (op - m)
      BY <1>2, <1>3, <1>5
    <3> QED BY <3>1
  <2> DEFINE a == Found(r)[k]
             na == Final(r, a)
  <2>2. a \in r.actions /\ ops[op] = na
    BY <1>3, <2>1
  <2>3. a.preconds \subseteq Shown(r, s)
    <3>1. na.preconds = Numbers(Index(r), Neg(r, a.preconds)) /\ a.preconds \in SUBSET r.pos
      BY <1>1, <2>2, FinalIs DEF IsResult
    <3> HIDE DEF a
    <3> QED BY <1>1, <1>2, <2>2, <3>1, NumbersHold
  <2>4. Shown(r, t) = Applied(Shown(r, s), a)
    <3>1. ~NoAdds(na) /\ AddsStay(a)
      BY <1>2, <2>2
    <3> HIDE DEF a
    <3>2. ~NoAdds(na) => Shown(r, result_to_dest(graph, s, op)) = Applied(Shown(r, s), a)
      BY <2>1, <2>3, <3>1, ActionMoves DEF a, m
    <3> QED BY <3>1, <3>2
  <2>5. task.names[op] = [name |-> a.name, inst |-> a.inst] /\ task.names[op] # GOAL_REACHED
    <3>1. task.names[op] = [name |-> a.name, inst |-> a.inst]
      BY <2>1, NamesAre DEF m
    <3> HIDE DEF a
    <3> QED BY <3>1, NamesDiffer
  <2>6. ASSUME GoalFact(r) \in t PROVE GoalFact(r) \in s
    <3>1. AreActions(ops) /\ IsGraphOf(graph, ops)
      BY CollectedGraph DEF ops
    <3>2. KeepsAdds(na)
      <4> HIDE DEF a
      <4> QED BY <1>1, <2>2, FinalKeeps
    <3> HIDE DEF a
    <3>3. t = Moved(na, s)
      <4>1. \A o \in 1..Len(ops) : \A b : b = ops[o] /\ b.preconds \subseteq s /\ KeepsAdds(b) =>
              \/ ~NoAdds(b) /\ result_to_dest(graph, s, o) = Moved(b, s)
              \/ NoAdds(b) /\ result_to_dest(graph, s, o) = s /\ Moved(b, s) \subseteq s
        BY <3>1, TransitionMoves
      <4> HIDE DEF na
      <4> QED BY <1>2, <2>2, <3>2, <4>1
    <3>4. \A j \in DOMAIN na.effects : GoalFact(r) \notin na.effects[j].adds
      <4> SUFFICES ASSUME NEW j \in DOMAIN na.effects, GoalFact(r) \in na.effects[j].adds PROVE FALSE
        OBVIOUS
      <4>1. PICK e \in Reachable(r, a) : na.effects[j] = FinalEffect(r, e)
        BY <1>1, <2>2, FinalIs
      <4>2. na.effects[j].adds = Numbers(Index(r), e.adds \cap Relevant(r))
        BY <1>1, <2>2, <4>1, EffectIs
      <4>3. Numbers(Index(r), e.adds \cap Relevant(r)) \subseteq 1..Size(r)
        BY <1>1, NumberIs
      <4>4. GoalFact(r) = Size(r) + 1 /\ Size(r) \in Nat
        BY <1>1, GoalsAre
      <4>5. GoalFact(r) \in 1..Size(r)
        <5> HIDE DEF na
        <5> QED BY <4>2, <4>3
      <4> QED BY <4>4, <4>5
    <3> HIDE DEF na
    <3> QED BY <2>6, <3>3, <3>4 DEF Moved, Acting
  <2> HIDE DEF a
  <2> QED BY <2>2, <2>3, <2>4, <2>5, <2>6
<1> QED BY <1>4, <1>5

\* The plan that was found leads through states that show what its actions do.
LEMMA FoundIsGround ==
  ASSUME NEW initial, NEW fluents, NEW actions, NEW disjuncts, GroundInv(initial, fluents, actions, disjuncts),
         pc = "found", \A a \in gactions : AddsStay(a)
  PROVE  PlanIsGround(Analysed(initial, fluents), disjuncts)
<1> DEFINE r == Analysed(initial, fluents)
           goal == GoalLeft(initial, fluents, disjuncts)
           n == Len(plan_states)
<1>1. /\ SearchInv /\ task = collect_relevant_facts(r, goal) /\ {} \notin goal /\ goal # {}
      /\ ReachInv(initial, fluents, actions, disjuncts)
  BY DEF GroundInv, Before_search
<1>2. Collected(r, goal)
  BY <1>1, ReachIsResult DEF Collected
<1>3. \A d \in goal : \E e \in disjuncts : e \subseteq r.pos /\ d = Neg(r, e)
  BY DEF GoalLeft, set_relevants_in_wff
<1>4. r.actions = gactions
  BY DEF Analysed
<1> HIDE DEF r, goal
<1>5. IsRun(plan_ops, plan_states) /\ plan_states[1] = task.initial
  BY <1>1 DEF SearchInv, FollowInv, Held, PlanIsKept
<1>6. /\ Len(plan_ops) \in Nat /\ n = Len(plan_ops) + 1 /\ DOMAIN plan_ops = 1..Len(plan_ops)
      /\ \A k \in 1..Len(plan_ops) : plan_states[k + 1] = result_to_dest(graph, plan_states[k], plan_ops[k])
      /\ \A j, k \in 1..n : plan_states[j] = plan_states[k] => j = k
  BY <1>5, SeqFacts DEF IsRun
<1>7. \A s : StateOf(r, s) = Shown(r, s)
  BY <1>2, StateIsShown
<1>8. StateOf(r, plan_states[1]) = r.initial
  BY <1>2, <1>5, <1>7, InitialIsShown
<1>9. \A k \in 1..Len(plan_ops) : plan_states[k + 1] # plan_states[k]
  <2> TAKE k \in 1..Len(plan_ops)
  <2>1. k \in 1..n /\ k + 1 \in 1..n /\ k + 1 # k
    BY <1>6
  <2> QED BY <1>6, <2>1
<1>10. ASSUME NEW k \in 1..Len(plan_ops)
       PROVE  IF task.names[plan_ops[k]] = GOAL_REACHED THEN StateOf(r, plan_states[k + 1]) = StateOf(r, plan_states[k])
              ELSE \E a \in r.actions : /\ task.names[plan_ops[k]] = [name |-> a.name, inst |-> a.inst]
                                        /\ a.preconds \subseteq StateOf(r, plan_states[k])
                                        /\ StateOf(r, plan_states[k + 1]) = Applied(StateOf(r, plan_states[k]), a)
  BY <1>2, <1>4, <1>6, <1>7, <1>9, StepIsGround
<1>11. IsResult(r) /\ IsGoal(r, goal) /\ Goals = FinalGoals(r, goal)
  BY <1>2, CollectedGraph DEF Collected
<1>12. Goals \subseteq plan_states[n]
  BY <1>1 DEF SearchInv, GoalInv
<1>13. \E d \in goal : Numbers(Index(r), d) \subseteq plan_states[n]
                        \/ \E k \in 1..n : Numbers(Index(r), d) \subseteq plan_states[k]
                                            /\ Shown(r, plan_states[n]) = Shown(r, plan_states[k])
  <2>1. CASE ~IsOr(goal)
    <3>1. PICK d \in goal : TRUE
      BY <1>11 DEF IsGoal
    <3>2. Goals = Numbers(Index(r), d)
      BY <1>11, <2>1, GoalsAre
    <3> QED BY <1>12, <3>2
  <2>2. CASE IsOr(goal)
    <3>1. Goals = {GoalFact(r)} /\ GoalFact(r) = Size(r) + 1 /\ Size(r) \in Nat
      BY <1>11, <2>2, GoalsAre
    <3>2. GoalFact(r) \in plan_states[n]
      BY <1>12, <3>1
    <3>3. GoalFact(r) \notin plan_states[1]
      <4>1. task.initial = Numbers(Index(r), Neg(r, r.fluents))
        BY <1>2, CollectedGraph
      <4>2. Neg(r, r.fluents) \in SUBSET Relevant(r)
        BY <1>11 DEF IsResult, Neg, Relevant
      <4>3. Numbers(Index(r), Neg(r, r.fluents)) \subseteq 1..Size(r)
        BY <1>11, <4>2, NumberIs
      <4>4. GoalFact(r) \notin 1..Size(r)
        BY <3>1
      <4> QED BY <1>5, <4>1, <4>3, <4>4
    <3>4. n # 1
      BY <3>2, <3>3
    <3> DEFINE k == n - 1
    <3>5. k \in 1..Len(plan_ops) /\ k + 1 = n /\ k \in 1..n /\ k < n
      BY <1>6, <3>4
    <3> HIDE DEF k, n
    <3>6. GoalFact(r) \notin plan_states[k]
      BY <1>1, <3>1, <3>5 DEF SearchInv, EndInv, n
    <3>7. plan_states[n] = result_to_dest(graph, plan_states[k], plan_ops[k]) /\ plan_states[n] # plan_states[k]
      BY <1>6, <1>9, <3>5
    <3>8. /\ Shown(r, plan_states[n]) = Shown(r, plan_states[k])
          /\ \E d \in goal : Numbers(Index(r), d) \subseteq plan_states[k]
      BY <1>2, <1>4, <2>2, <3>2, <3>6, <3>7, StepIsGround
    <3> QED BY <3>5, <3>8
  <2> QED BY <2>1, <2>2
<1>14. \E d \in disjuncts : d \subseteq StateOf(r, plan_states[n])
  <2>1. PICK d \in goal : \/ Numbers(Index(r), d) \subseteq plan_states[n]
                          \/ \E k \in 1..n : Numbers(Index(r), d) \subseteq plan_states[k]
                                              /\ Shown(r, plan_states[n]) = Shown(r, plan_states[k])
    BY <1>13
  <2>2. PICK e \in disjuncts : e \subseteq r.pos /\ d = Neg(r, e)
    BY <1>3
  <2>3. \A s : Numbers(Index(r), d) \subseteq s => e \subseteq Shown(r, s)
    BY <1>11, <2>2, NumbersHold
  <2>4. e \subseteq Shown(r, plan_states[n])
    BY <2>1, <2>3
  <2> QED BY <1>7, <2>4
<1> QED BY <1>6, <1>8, <1>10, <1>14 DEF PlanIsGround, r

LEMMA EmptyIsGround ==
  ASSUME NEW initial, NEW fluents, NEW actions, NEW disjuncts, GroundInv(initial, fluents, actions, disjuncts),
         pc = "empty plan"
  PROVE  \E d \in disjuncts : d \subseteq initial
<1> DEFINE r == Analysed(initial, fluents)
<1>1. {} \in set_relevants_in_wff(r, disjuncts)
  BY DEF GroundInv, GoalLeft
<1>2. PICK d \in disjuncts : d \subseteq r.pos /\ Neg(r, d) = {}
  BY <1>1 DEF set_relevants_in_wff
<1>3. d \subseteq r.initial
  BY <1>2 DEF Neg
<1> QED BY <1>3 DEF Analysed

\* From the templates on, FF's answers are true of the ground actions, for every task.
\* "goal can be simplified to TRUE" means that a disjunct holds at the start, and to
\* FALSE that no actions lead to one.  The plan that is found leads, action by action,
\* through states whose last one has a disjunct, if no effect deletes what another one
\* of its action adds.  "problem proven unsolvable" means that there is no plan, unless
\* building the graph left out an action that is good for its deletes alone.
THEOREM AnswersAreTrueOfActions ==
  ASSUME NEW CONSTANT initial, NEW CONSTANT fluents, NEW CONSTANT actions, NEW CONSTANT disjuncts
  PROVE  GroundSpec(initial, fluents, actions, disjuncts) =>
           []AnswersAreTrue(initial, fluents, actions, disjuncts)
<1>1. ASSUME GroundInv(initial, fluents, actions, disjuncts)
      PROVE  AnswersAreTrue(initial, fluents, actions, disjuncts)
  <2> DEFINE r == Analysed(initial, fluents)
  <2>1. pc = "empty plan" => \E d \in disjuncts : d \subseteq initial
    BY <1>1, EmptyIsGround
  <2>2. pc = "no plan" => NoGroundPlan(initial, actions, disjuncts)
    BY <1>1, NoPlanNoGroundPlan
  <2>3. pc = "found" /\ (\A a \in gactions : AddsStay(a)) => PlanIsGround(r, disjuncts)
    BY <1>1, FoundIsGround
  <2>4. pc = "unsolvable" /\ Covered(r) => NoGroundPlan(initial, actions, disjuncts)
    BY <1>1, NoPlanNoGroundPlan
  <2>5. Covered(r) <=> \/ \A a \in gactions : AddsStay(a) /\ ~OnlyDeletes(r, a)
                      \/ \A a \in gactions : Unconditional(a)
    BY DEF Covered, Analysed
  <2> HIDE DEF r
  <2>6. r = [initial |-> initial, fluents |-> fluents, pos |-> pos, actions |-> gactions]
    BY DEF r, Analysed
  <2> QED BY <2>1, <2>2, <2>3, <2>4, <2>5, <2>6 DEF AnswersAreTrue
<1>2. GroundInv(initial, fluents, actions, disjuncts) => AnswersAreTrue(initial, fluents, actions, disjuncts)
  BY <1>1
<1> QED BY <1>2, GroundHolds, PTL
=============================================================================
