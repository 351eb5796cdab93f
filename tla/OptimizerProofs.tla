--------------------------- MODULE OptimizerProofs ---------------------------
(***************************************************************************)
(* min_seats and pack for any legs: min_seats is the greatest number of    *)
(* passengers anywhere on the line (PeakIsDepth), and pack seats everybody *)
(* apart on that many seats.                                               *)
(*                                                                         *)
(* Both are folds over data.  The library's induction theorems take the    *)
(* property to be proved as a parameter; here it is the set of the         *)
(* counterexamples that has a least or a smallest member.                  *)
(***************************************************************************)
EXTENDS Optimizer, Sequences, FiniteSetTheorems, WellFoundedInduction, TLAPS

(* Numbers and finite sets.                                                *)

\* The least-number principle for a set.
LEMMA LeastNumber ==
    ASSUME NEW S, S \subseteq Nat, S # {}
    PROVE  \E m \in S : \A n \in S : m <= n
<1> DEFINE R == OpToRel(<, Nat)
<1>1. IsWellFoundedOn(R, Nat)
    BY NatLessThanWellFounded
<1>2. R = {p \in Nat \X Nat : p[1] < p[2]}
    BY DEF OpToRel
<1> HIDE DEF R
<1>3. PICK m \in S : \A n \in S : ~ (<<n, m>> \in R)
    BY <1>1, WFMin
<1>4. ASSUME NEW n \in S PROVE m <= n
  <2>1. ~ n < m
    BY <1>2, <1>3
  <2> QED
    BY <2>1
<1> QED
    BY <1>4

\* A bounded set of numbers has a greatest one.
LEMMA GreatestNumber ==
    ASSUME NEW S, S \subseteq Nat, S # {}, NEW m \in Nat, \A n \in S : n <= m
    PROVE  \E g \in S : \A n \in S : n <= g
<1> DEFINE U == {u \in Nat : \A n \in S : n <= u}
<1>1. m \in U
    OBVIOUS
<1>2. PICK g \in U : \A u \in U : g <= u
  <2>1. U \subseteq Nat /\ U # {}
    BY <1>1
  <2> HIDE DEF U
  <2> QED
    BY <2>1, LeastNumber
<1>3. g \in Nat /\ \A n \in S : n <= g
    OBVIOUS
<1>4. CASE g \in S
    BY <1>3, <1>4
<1>5. CASE g \notin S
  <2>1. PICK k \in S : TRUE
    OBVIOUS
  <2>2. g - 1 \in Nat
    <3>1. k \in Nat /\ k <= g /\ k # g
      BY <1>3, <1>5
    <3> QED
      BY <1>3, <3>1
  <2>3. ASSUME NEW n \in S PROVE n <= g - 1
    <3>1. n \in Nat /\ n <= g /\ n # g
      BY <1>3, <1>5
    <3> QED
      BY <1>3, <3>1
  <2>4. g - 1 \in U
    BY <2>2, <2>3
  <2>5. g <= g - 1
    BY <1>2, <2>4
  <2> QED
    BY <1>3, <2>5
<1> QED
    BY <1>4, <1>5

\* Finitely many numbers have a bound.
LEMMA Bounded ==
    ASSUME NEW N \in Nat, NEW d \in [1 .. N -> Nat]
    PROVE  \E m \in Nat : \A i \in 1 .. N : d[i] <= m
<1> DEFINE G == {n \in 0 .. N : \E m \in Nat : \A i \in 1 .. n : d[i] <= m}
<1>1. 0 \in G
    OBVIOUS
<1>2. PICK g \in G : \A n \in G : n <= g
  <2>1. G \subseteq 0 .. N
    OBVIOUS
  <2> HIDE DEF G
  <2>2. G \subseteq Nat /\ \A n \in G : n <= N
    BY <2>1
  <2> QED
    BY <1>1, <2>2, GreatestNumber
<1>3. g \in 0 .. N
    OBVIOUS
<1>4. PICK m \in Nat : \A i \in 1 .. g : d[i] <= m
    OBVIOUS
<1>5. CASE g < N
  <2>1. g + 1 \in 1 .. N /\ d[g + 1] \in Nat
    BY <1>3, <1>5
  <2>2. ASSUME NEW i \in 1 .. g + 1 PROVE d[i] <= m + d[g + 1]
    <3>1. CASE i = g + 1
      <4>1. d[i] \in Nat
        BY <2>1, <3>1
      <4> QED
        BY <3>1, <4>1
    <3>2. CASE i # g + 1
      <4>1. i \in 1 .. g /\ d[i] \in Nat
        BY <1>3, <1>5, <3>2
      <4>2. d[i] <= m
        BY <1>4, <4>1
      <4> QED
        BY <2>1, <4>1, <4>2
    <3> QED
      BY <3>1, <3>2
  <2>3. m + d[g + 1] \in Nat
    BY <2>1
  <2>4. g + 1 \in G
    <3>1. g + 1 \in 0 .. N
      BY <1>3, <1>5
    <3>2. \E k \in Nat : \A i \in 1 .. g + 1 : d[i] <= k
      BY <2>2, <2>3
    <3> QED
      BY <3>1, <3>2
  <2>5. g + 1 <= g
    BY <1>2, <2>4
  <2> QED
    BY <1>3, <2>5
<1>6. CASE g = N
    BY <1>4, <1>6
<1> QED
    BY <1>3, <1>5, <1>6

\* Of the subsets of a finite set that have a property, one has all others' no smaller.
LEMMA Smallest ==
    ASSUME NEW S, IsFiniteSet(S), NEW B, B \subseteq SUBSET S, B # {}
    PROVE  \E m \in B : \A n \in B : Cardinality(m) <= Cardinality(n)
<1> DEFINE C == {Cardinality(b) : b \in B}
<1>1. \A b \in B : Cardinality(b) \in Nat
    BY FS_Subset, FS_CardinalityType
<1>2. C \subseteq Nat /\ C # {}
    BY <1>1
<1>3. PICK c \in C : \A d \in C : c <= d
  <2> HIDE DEF C
  <2> QED
    BY <1>2, LeastNumber
<1> QED
    BY <1>3

\* g is the fold over the subsets of S that takes out the element c[T] of T and combines
\* it with the fold of the rest by G[T].
Folds(g, S, base, c, G) ==
    g = [T \in SUBSET S |-> IF T = {} THEN base ELSE G[T][g[T \ {c[T]}]]]

LEMMA FoldExists ==
    ASSUME NEW S, IsFiniteSet(S), NEW V, NEW base \in V, NEW c, NEW G,
           \A T \in SUBSET S : T # {} => c[T] \in T /\ G[T] \in [V -> V]
    PROVE  \E g \in [SUBSET S -> V] : Folds(g, S, base, c, G)
<1> DEFINE UpTo(g, n) == \A T \in SUBSET S : Cardinality(T) <= n =>
                            g[T] = IF T = {} THEN base ELSE G[T][g[T \ {c[T]}]]
           Bad == {n \in Nat : ~ \E g \in [SUBSET S -> V] : UpTo(g, n)}
<1>1. Cardinality(S) \in Nat /\ \A T \in SUBSET S :
          /\ IsFiniteSet(T) /\ Cardinality(T) \in Nat /\ Cardinality(T) <= Cardinality(S)
          /\ Cardinality(T) = 0 <=> T = {}
    BY FS_Subset, FS_CardinalityType, FS_EmptySet
<1>2. ASSUME NEW T \in SUBSET S, T # {}
      PROVE  T \ {c[T]} \in SUBSET S /\ Cardinality(T \ {c[T]}) = Cardinality(T) - 1
    BY <1>1, <1>2, FS_RemoveElement
<1>3. 0 \notin Bad
  <2> DEFINE g == [T \in SUBSET S |-> base]
  <2>1. g \in [SUBSET S -> V]
    OBVIOUS
  <2>2. UpTo(g, 0)
    BY <1>1
  <2> QED
    BY <2>1, <2>2
<1>4. ASSUME NEW n \in Nat, n \notin Bad PROVE n + 1 \notin Bad
  <2>1. PICK g \in [SUBSET S -> V] : UpTo(g, n)
    BY <1>4
  <2> DEFINE h == [T \in SUBSET S |-> IF T = {} THEN base ELSE G[T][g[T \ {c[T]}]]]
  <2>2. h \in [SUBSET S -> V]
    <3> SUFFICES ASSUME NEW T \in SUBSET S, T # {} PROVE G[T][g[T \ {c[T]}]] \in V
      OBVIOUS
    <3>1. g[T \ {c[T]}] \in V
      BY <1>2
    <3> QED
      BY <3>1
  <2>3. UpTo(h, n + 1)
    <3> SUFFICES ASSUME NEW T \in SUBSET S, T # {}, Cardinality(T) <= n + 1
                 PROVE  h[T] = G[T][h[T \ {c[T]}]]
      OBVIOUS
    <3>1. /\ T \ {c[T]} \in SUBSET S /\ Cardinality(T \ {c[T]}) <= n
      BY <1>1, <1>2
    <3>2. h[T \ {c[T]}] = g[T \ {c[T]}]
      BY <2>1, <3>1
    <3> QED
      BY <3>2
  <2> QED
    BY <2>2, <2>3
<1>5. Bad = {}
  <2> SUFFICES ASSUME Bad # {} PROVE FALSE
    OBVIOUS
  <2>1. Bad \subseteq Nat
    OBVIOUS
  <2> HIDE DEF Bad
  <2>2. PICK m \in Bad : \A n \in Bad : m <= n
    BY <2>1, LeastNumber
  <2>3. m \in Nat /\ m # 0
    BY <1>3, <2>1, <2>2
  <2>4. m - 1 \in Nat /\ m - 1 \notin Bad
    BY <2>2, <2>3
  <2>5. (m - 1) + 1 \notin Bad
    BY <1>4, <2>4
  <2> QED
    BY <2>2, <2>3, <2>5
<1>6. PICK g \in [SUBSET S -> V] : UpTo(g, Cardinality(S))
    BY <1>1, <1>5
<1>7. Folds(g, S, base, c, G)
  <2>1. \A T \in SUBSET S : g[T] = IF T = {} THEN base ELSE G[T][g[T \ {c[T]}]]
    BY <1>1, <1>6
  <2>2. g = [T \in SUBSET S |-> g[T]]
    OBVIOUS
  <2>3. [T \in SUBSET S |-> g[T]]
          = [T \in SUBSET S |-> IF T = {} THEN base ELSE G[T][g[T \ {c[T]}]]]
    BY <2>1
  <2> QED
    BY <2>2, <2>3 DEF Folds
<1> QED
    BY <1>6, <1>7

-----------------------------------------------------------------------------
(* Sums.                                                                   *)

SumOver(f, S) == Fin!MapThenSumSet(LAMBDA x : f[x], S)

\* The recursion of the sum over the subsets of S.
Sums(g, f, S) ==
    g = [T \in SUBSET S |->
            IF T = {} THEN 0
            ELSE f[CHOOSE x \in T : TRUE] + g[T \ {CHOOSE x \in T : TRUE}]]

LEMMA SumsFold ==
    ASSUME NEW S, NEW f, \A x \in S : f[x] \in Int, NEW g \in [SUBSET S -> Int]
    PROVE  LET c == [T \in SUBSET S |-> CHOOSE x \in T : TRUE]
               G == [T \in SUBSET S |-> [v \in Int |-> f[c[T]] + v]]
           IN  Sums(g, f, S) <=> Folds(g, S, 0, c, G)
<1> DEFINE c == [T \in SUBSET S |-> CHOOSE x \in T : TRUE]
           G == [T \in SUBSET S |-> [v \in Int |-> f[c[T]] + v]]
<1>1. ASSUME NEW T \in SUBSET S, T # {}
      PROVE  f[CHOOSE x \in T : TRUE] + g[T \ {CHOOSE x \in T : TRUE}] = G[T][g[T \ {c[T]}]]
    OBVIOUS
<1>2. [T \in SUBSET S |-> IF T = {} THEN 0 ELSE
           f[CHOOSE x \in T : TRUE] + g[T \ {CHOOSE x \in T : TRUE}]]
        = [T \in SUBSET S |-> IF T = {} THEN 0 ELSE G[T][g[T \ {c[T]}]]]
    BY <1>1
<1> QED
    BY <1>2 DEF Sums, Folds


\* There is only one such recursion, on the subsets of whatever set.
LEMMA SumsAgree ==
    ASSUME NEW S, IsFiniteSet(S), NEW R, S \subseteq R, NEW f, NEW g, NEW h,
           Sums(g, f, S), Sums(h, f, R)
    PROVE  \A T \in SUBSET S : g[T] = h[T]
<1> DEFINE B == {T \in SUBSET S : g[T] # h[T]}
<1> SUFFICES ASSUME B # {} PROVE FALSE
    OBVIOUS
<1>1. PICK T \in B : \A U \in B : Cardinality(T) <= Cardinality(U)
  <2>1. B \subseteq SUBSET S
    OBVIOUS
  <2> HIDE DEF B
  <2> QED
    BY <2>1, Smallest
<1> DEFINE x == CHOOSE y \in T : TRUE
<1>2. T \in SUBSET S /\ T \in SUBSET R /\ T # {} /\ g[T] # h[T]
    BY DEF Sums
<1>3. g[T] = f[x] + g[T \ {x}] /\ h[T] = f[x] + h[T \ {x}]
    BY <1>2 DEF Sums
<1>4. x \in T /\ IsFiniteSet(T) /\ Cardinality(T) \in Nat
    BY <1>2, FS_Subset, FS_CardinalityType
<1>5. Cardinality(T \ {x}) = Cardinality(T) - 1
    BY <1>4, FS_RemoveElement
<1>6. g[T \ {x}] = h[T \ {x}]
    BY <1>1, <1>2, <1>4, <1>5
<1> QED
    BY <1>2, <1>3, <1>6

LEMMA SumDefined ==
    ASSUME NEW S, IsFiniteSet(S), NEW f, \A x \in S : f[x] \in Int
    PROVE  \E g \in [SUBSET S -> Int] : Sums(g, f, S) /\ SumOver(f, S) = g[S]
<1> DEFINE c == [T \in SUBSET S |-> CHOOSE x \in T : TRUE]
           G == [T \in SUBSET S |-> [v \in Int |-> f[c[T]] + v]]
<1>1. \A T \in SUBSET S : T # {} => c[T] \in T /\ G[T] \in [Int -> Int]
    OBVIOUS
<1>2. PICK g \in [SUBSET S -> Int] : Folds(g, S, 0, c, G)
  <2> DEFINE V == Int
  <2>1. 0 \in V /\ \A T \in SUBSET S : T # {} => c[T] \in T /\ G[T] \in [V -> V]
    BY <1>1
  <2> HIDE DEF c, G, V
  <2>2. \E g \in [SUBSET S -> V] : Folds(g, S, 0, c, G)
    BY <2>1, FoldExists
  <2> QED
    BY <2>2 DEF V
<1>3. Sums(g, f, S)
    BY <1>2, SumsFold
<1> DEFINE h == CHOOSE i : Sums(i, f, S)
<1>4. Sums(h, f, S)
    BY <1>3
<1>5. SumOver(f, S) = h[S]
    BY DEF SumOver, Fin!MapThenSumSet, Fin!MapThenFoldSet, Sums
<1>6. h[S] = g[S]
  <2> HIDE DEF h
  <2> QED
    BY <1>3, <1>4, SumsAgree
<1> QED
    BY <1>3, <1>5, <1>6

\* The sum over nothing.
LEMMA SumEmpty ==
    ASSUME NEW f
    PROVE  SumOver(f, {}) = 0
<1>1. PICK g \in [SUBSET {} -> Int] : Sums(g, f, {}) /\ SumOver(f, {}) = g[{}]
    BY SumDefined, FS_EmptySet
<1> QED
    BY <1>1 DEF Sums

LEMMA SumType ==
    ASSUME NEW S, IsFiniteSet(S), NEW f, \A x \in S : f[x] \in Int
    PROVE  SumOver(f, S) \in Int
<1>1. PICK g \in [SUBSET S -> Int] : Sums(g, f, S) /\ SumOver(f, S) = g[S]
    BY SumDefined
<1> QED
    BY <1>1

\* One element can be taken out, the one the recursion takes out ...
LEMMA SumChosen ==
    ASSUME NEW S, IsFiniteSet(S), S # {}, NEW f, \A x \in S : f[x] \in Int
    PROVE  \E x \in S : SumOver(f, S) = f[x] + SumOver(f, S \ {x})
<1> DEFINE x == CHOOSE y \in S : TRUE
           R == S \ {x}
<1>1. x \in S /\ IsFiniteSet(R) /\ R \subseteq S /\ \A y \in R : f[y] \in Int
    BY FS_RemoveElement
<1>2. PICK g \in [SUBSET S -> Int] : Sums(g, f, S) /\ SumOver(f, S) = g[S]
    BY SumDefined
<1>3. PICK h \in [SUBSET R -> Int] : Sums(h, f, R) /\ SumOver(f, R) = h[R]
    BY <1>1, SumDefined
<1>4. g[S] = f[x] + g[R]
    BY <1>2 DEF Sums
<1>5. h[R] = g[R]
  <2> HIDE DEF R
  <2> QED
    BY <1>1, <1>2, <1>3, SumsAgree
<1> QED
    BY <1>1, <1>2, <1>3, <1>4, <1>5

\* ... or any other.
LEMMA SumRemove ==
    ASSUME NEW S, IsFiniteSet(S), NEW f, \A x \in S : f[x] \in Int, NEW z \in S
    PROVE  SumOver(f, S) = f[z] + SumOver(f, S \ {z})
<1> DEFINE B == {T \in SUBSET S : \E y \in T : SumOver(f, T) # f[y] + SumOver(f, T \ {y})}
<1> SUFFICES ASSUME B # {} PROVE FALSE
    OBVIOUS
<1>1. PICK T \in B : \A U \in B : Cardinality(T) <= Cardinality(U)
  <2>1. B \subseteq SUBSET S
    OBVIOUS
  <2> HIDE DEF B
  <2> QED
    BY <2>1, Smallest
<1>2. PICK y \in T : SumOver(f, T) # f[y] + SumOver(f, T \ {y})
    OBVIOUS
<1>3. /\ T \subseteq S /\ IsFiniteSet(T) /\ Cardinality(T) \in Nat
      /\ \A x \in T : f[x] \in Int
    BY FS_Subset, FS_CardinalityType
<1>4. PICK x \in T : SumOver(f, T) = f[x] + SumOver(f, T \ {x})
    BY <1>2, <1>3, SumChosen
<1>5. x # y
    BY <1>2, <1>4
<1>6. /\ IsFiniteSet(T \ {x}) /\ Cardinality(T \ {x}) = Cardinality(T) - 1
      /\ IsFiniteSet(T \ {y}) /\ Cardinality(T \ {y}) = Cardinality(T) - 1
    BY <1>3, <1>4, <1>2, FS_RemoveElement
<1>7. T \ {x} \notin B /\ T \ {y} \notin B
    BY <1>1, <1>3, <1>6
<1>8. T \ {x} \in SUBSET S /\ T \ {y} \in SUBSET S /\ y \in T \ {x} /\ x \in T \ {y}
    BY <1>2, <1>3, <1>4, <1>5
<1>9. /\ SumOver(f, T \ {x}) = f[y] + SumOver(f, (T \ {x}) \ {y})
      /\ SumOver(f, T \ {y}) = f[x] + SumOver(f, (T \ {y}) \ {x})
    BY <1>7, <1>8
<1>10. (T \ {x}) \ {y} = (T \ {y}) \ {x} /\ IsFiniteSet((T \ {y}) \ {x})
    BY <1>6, FS_RemoveElement
<1>11. SumOver(f, (T \ {y}) \ {x}) \in Int /\ f[x] \in Int /\ f[y] \in Int
    BY <1>3, <1>10, SumType
<1> DEFINE w == SumOver(f, (T \ {y}) \ {x})
<1>12. SumOver(f, T \ {x}) = f[y] + w
    BY <1>9, <1>10
<1>13. SumOver(f, T \ {y}) = f[x] + w
    BY <1>9
<1> HIDE DEF w
<1>14. SumOver(f, T) = f[x] + (f[y] + w)
    BY <1>4, <1>12
<1>15. f[x] + (f[y] + w) = f[y] + (f[x] + w)
    BY <1>11 DEF w
<1> QED
    BY <1>2, <1>13, <1>14, <1>15
\* Sums add up.
LEMMA SumPlus ==
    ASSUME NEW S, IsFiniteSet(S), NEW f, NEW g, NEW h,
           \A x \in S : f[x] \in Int /\ g[x] \in Int /\ h[x] = f[x] + g[x]
    PROVE  SumOver(h, S) = SumOver(f, S) + SumOver(g, S)
<1> DEFINE B == {T \in SUBSET S : SumOver(h, T) # SumOver(f, T) + SumOver(g, T)}
<1> SUFFICES ASSUME B # {} PROVE FALSE
    OBVIOUS
<1>1. PICK T \in B : \A U \in B : Cardinality(T) <= Cardinality(U)
  <2>1. B \subseteq SUBSET S
    OBVIOUS
  <2> HIDE DEF B
  <2> QED
    BY <2>1, Smallest
<1>2. /\ T \subseteq S /\ IsFiniteSet(T) /\ Cardinality(T) \in Nat
      /\ SumOver(h, T) # SumOver(f, T) + SumOver(g, T)
    BY FS_Subset, FS_CardinalityType
<1>3. T # {}
  <2>1. ASSUME T = {} PROVE FALSE
    <3>1. SumOver(f, T) = 0 /\ SumOver(g, T) = 0 /\ SumOver(h, T) = 0
      BY <2>1, SumEmpty
    <3> QED
      BY <1>2, <3>1
  <2> QED
    BY <2>1
<1>4. PICK x \in T : TRUE
    BY <1>3
<1> DEFINE R == T \ {x}
<1>5. IsFiniteSet(R) /\ R \subseteq S /\ Cardinality(R) = Cardinality(T) - 1
    BY <1>2, <1>4, FS_RemoveElement
<1>6. SumOver(h, R) = SumOver(f, R) + SumOver(g, R)
    BY <1>1, <1>2, <1>5
<1>7. /\ \A y \in T : f[y] \in Int /\ g[y] \in Int /\ h[y] \in Int
      /\ \A y \in R : f[y] \in Int /\ g[y] \in Int
    BY <1>2
<1>8. SumOver(h, T) = h[x] + SumOver(h, R)
    BY <1>2, <1>7, SumRemove
<1>9. SumOver(f, T) = f[x] + SumOver(f, R) /\ SumOver(g, T) = g[x] + SumOver(g, R)
    BY <1>2, <1>7, SumRemove
<1>10. SumOver(f, R) \in Int /\ SumOver(g, R) \in Int
    BY <1>5, <1>7, SumType
<1>11. h[x] = f[x] + g[x] /\ f[x] \in Int /\ g[x] \in Int
    BY <1>2, <1>4
<1> HIDE DEF R
<1> QED
    BY <1>2, <1>6, <1>8, <1>9, <1>10, <1>11

LEMMA OneMore ==
    ASSUME NEW k \in Int, NEW n \in Int
    PROVE  k * (n + 1) = k * n + k
OBVIOUS

\* A number added up once per element of P.
LEMMA SumCount ==
    ASSUME NEW S, IsFiniteSet(S), NEW P, P \subseteq S, NEW k \in Int, NEW f,
           \A x \in S : f[x] = IF x \in P THEN k ELSE 0
    PROVE  SumOver(f, S) = k * Cardinality(P)
<1> DEFINE B == {T \in SUBSET S : SumOver(f, T) # k * Cardinality(T \cap P)}
<1>1. B = {}
  <2> SUFFICES ASSUME B # {} PROVE FALSE
    OBVIOUS
  <2>1. PICK T \in B : \A U \in B : Cardinality(T) <= Cardinality(U)
    <3>1. B \subseteq SUBSET S
      OBVIOUS
    <3> HIDE DEF B
    <3> QED
      BY <3>1, Smallest
  <2>2. /\ T \subseteq S /\ IsFiniteSet(T) /\ Cardinality(T) \in Nat
        /\ SumOver(f, T) # k * Cardinality(T \cap P)
    BY FS_Subset, FS_CardinalityType
  <2>3. T # {}
    <3>1. ASSUME T = {} PROVE FALSE
      <4>1. SumOver(f, T) = 0 /\ Cardinality(T \cap P) = 0
        BY <3>1, SumEmpty, FS_EmptySet
      <4> QED
        BY <2>2, <4>1
    <3> QED
      BY <3>1
  <2>4. PICK x \in T : TRUE
    BY <2>3
  <2> DEFINE R == T \ {x}
  <2>5. IsFiniteSet(R) /\ R \subseteq S /\ Cardinality(R) = Cardinality(T) - 1
    BY <2>2, <2>4, FS_RemoveElement
  <2>6. SumOver(f, R) = k * Cardinality(R \cap P)
    BY <2>1, <2>2, <2>5
  <2>7. SumOver(f, T) = f[x] + SumOver(f, R)
    BY <2>2, SumRemove
  <2>8. IsFiniteSet(R \cap P) /\ Cardinality(R \cap P) \in Nat
    BY <2>5, FS_Intersection, FS_CardinalityType
  <2>9. CASE x \in P
    <3>1. T \cap P = (R \cap P) \cup {x} /\ x \notin R \cap P
      BY <2>4, <2>9
    <3>2. Cardinality(T \cap P) = Cardinality(R \cap P) + 1
      BY <2>8, <3>1, FS_AddElement
    <3>3. f[x] = k
      BY <2>2, <2>4, <2>9
    <3>4. k * (Cardinality(R \cap P) + 1) = k * Cardinality(R \cap P) + k
      BY <2>8, OneMore
    <3> DEFINE m == k * Cardinality(R \cap P)
    <3>5. m \in Int
      BY <2>8
    <3>6. SumOver(f, T) = k + m
      BY <2>6, <2>7, <3>3
    <3>7. k * Cardinality(T \cap P) = m + k
      BY <3>2, <3>4
    <3> HIDE DEF m
    <3> QED
      BY <2>2, <3>5, <3>6, <3>7
  <2>10. CASE x \notin P
    <3>1. T \cap P = R \cap P
      BY <2>10
    <3>2. f[x] = 0
      BY <2>2, <2>4, <2>10
    <3> DEFINE m == k * Cardinality(R \cap P)
    <3>3. m \in Int
      BY <2>8
    <3>4. SumOver(f, T) = 0 + m /\ k * Cardinality(T \cap P) = m
      BY <2>6, <2>7, <3>1, <3>2
    <3> HIDE DEF m
    <3> QED
      BY <2>2, <3>3, <3>4
  <2> QED
    BY <2>9, <2>10
<1>2. S \cap P = P
    OBVIOUS
<1> QED
    BY <1>1, <1>2

\* A sum whose summands are written with an expression is the sum of the function.
LEMMA SumsAre ==
    ASSUME NEW S, IsFiniteSet(S), NEW f, \A x \in S : f[x] \in Int,
           NEW g, Sums(g, f, S)
    PROVE  g[S] = SumOver(f, S)
<1>1. PICK h \in [SUBSET S -> Int] : Sums(h, f, S) /\ SumOver(f, S) = h[S]
    BY SumDefined
<1> QED
    BY <1>1, SumsAgree

-----------------------------------------------------------------------------
(* min_seats.                                                              *)

\* Finitely many legs, each ending after it starts.
AreLegs(legs) ==
    /\ IsFiniteSet(DOMAIN legs)
    /\ \A i \in DOMAIN legs :
        legs[i] \in [origin : Nat, dest : Nat] /\ legs[i].origin < legs[i].dest

\* A one-to-one function has as many values as arguments.
LEMMA ImageSize ==
    ASSUME NEW D, IsFiniteSet(D), NEW f, \A i, j \in D : f[i] = f[j] => i = j
    PROVE  /\ IsFiniteSet({f[i] : i \in D})
           /\ Cardinality({f[i] : i \in D}) = Cardinality(D)
<1> DEFINE R == {f[i] : i \in D}
           g == [i \in D |-> f[i]]
<1>1. g \in Bijection(D, R)
    BY DEF Bijection, Injection, Surjection, IsInjective
<1>2. ExistsBijection(D, R)
    BY <1>1 DEF ExistsBijection
<1> HIDE DEF R
<1>3. IsFiniteSet(R) /\ Cardinality(R) = Cardinality(D)
    BY <1>2, FS_Bijection
<1> QED
    BY <1>3 DEF R

\* An end of each leg of I, as an event.
StartsOf(legs, I) == {<<legs[i].origin, 1, i>> : i \in I}
EndsOf(legs, I) == {<<legs[i].dest, -1, i>> : i \in I}

LEMMA EndsSize ==
    ASSUME NEW legs, AreLegs(legs), NEW I, I \subseteq DOMAIN legs
    PROVE  /\ IsFiniteSet(I) /\ Cardinality(I) \in Nat
           /\ IsFiniteSet(StartsOf(legs, I)) /\ Cardinality(StartsOf(legs, I)) = Cardinality(I)
           /\ IsFiniteSet(EndsOf(legs, I)) /\ Cardinality(EndsOf(legs, I)) = Cardinality(I)
<1>1. IsFiniteSet(I) /\ Cardinality(I) \in Nat
    BY FS_Subset, FS_CardinalityType DEF AreLegs
<1> DEFINE s == [i \in I |-> <<legs[i].origin, 1, i>>]
           d == [i \in I |-> <<legs[i].dest, -1, i>>]
<1>2. \A i, j \in I : (s[i] = s[j] => i = j) /\ (d[i] = d[j] => i = j)
    OBVIOUS
<1>3. StartsOf(legs, I) = {s[i] : i \in I} /\ EndsOf(legs, I) = {d[i] : i \in I}
    BY DEF StartsOf, EndsOf
<1> HIDE DEF s, d
<1> QED
    BY <1>1, <1>2, <1>3, ImageSize

\* The running depth: the legs that have started less those that have ended.
LEMMA DepthCounts ==
    ASSUME NEW legs, AreLegs(legs), NEW e, NEW I, I \subseteq DOMAIN legs,
           NEW J, J \subseteq DOMAIN legs,
           {f \in Events(legs) : ~EndsFirst(e, f)} = StartsOf(legs, I) \cup EndsOf(legs, J)
    PROVE  DepthAfter(legs, e) = Cardinality(I) - Cardinality(J)
<1> DEFINE P == StartsOf(legs, I)
           M == EndsOf(legs, J)
           S == P \cup M
           c == [f \in S |-> f[2]]
           p == [f \in S |-> IF f \in P THEN 1 ELSE 0]
           m == [f \in S |-> IF f \in M THEN -1 ELSE 0]
<1>1. /\ IsFiniteSet(P) /\ Cardinality(P) = Cardinality(I) /\ Cardinality(I) \in Nat
      /\ IsFiniteSet(M) /\ Cardinality(M) = Cardinality(J) /\ Cardinality(J) \in Nat
    BY EndsSize
<1>2. IsFiniteSet(S)
    BY <1>1, FS_Union
<1>3. (\A f \in P : f[2] = 1) /\ (\A f \in M : f[2] = -1)
    BY DEF StartsOf, EndsOf
<1>4. \A f \in S : c[f] \in Int /\ p[f] \in Int /\ m[f] \in Int /\ c[f] = p[f] + m[f]
  <2> HIDE DEF P, M
  <2> QED
    BY <1>3
<1>5. SumOver(p, S) = 1 * Cardinality(P) /\ SumOver(m, S) = (-1) * Cardinality(M)
  <2>1. P \subseteq S /\ \A f \in S : p[f] = IF f \in P THEN 1 ELSE 0
    OBVIOUS
  <2>2. M \subseteq S /\ \A f \in S : m[f] = IF f \in M THEN -1 ELSE 0
    OBVIOUS
  <2> HIDE DEF P, M, S, p, m
  <2> QED
    BY <1>2, <2>1, <2>2, SumCount
<1>6. SumOver(c, S) = SumOver(p, S) + SumOver(m, S)
  <2> HIDE DEF P, M, S, c, p, m
  <2> QED
    BY <1>2, <1>4, SumPlus
<1>7. DepthAfter(legs, e) = SumOver(c, S)
  <2> DEFINE Adds(g) == g = [T \in SUBSET S |->
                IF T = {} THEN 0
                ELSE (CHOOSE x \in T : TRUE)[2] + g[T \ {CHOOSE x \in T : TRUE}]]
             it == CHOOSE g : Adds(g)
  <2>1. \A g : Adds(g) <=> Sums(g, c, S)
    <3> TAKE g
    <3>1. \A T \in SUBSET S :
            T # {} => c[CHOOSE x \in T : TRUE] = (CHOOSE x \in T : TRUE)[2]
      <4> HIDE DEF S
      <4> QED
        OBVIOUS
    <3>2. [T \in SUBSET S |->
              IF T = {} THEN 0
              ELSE (CHOOSE x \in T : TRUE)[2] + g[T \ {CHOOSE x \in T : TRUE}]]
            = [T \in SUBSET S |->
              IF T = {} THEN 0
              ELSE c[CHOOSE x \in T : TRUE] + g[T \ {CHOOSE x \in T : TRUE}]]
      <4> HIDE DEF c, S
      <4> QED
        BY <3>1
    <3> HIDE DEF c, S
    <3> QED
      BY <3>2 DEF Sums
  <2>2. \A f \in S : c[f] \in Int
    BY <1>4
  <2>3. Adds(it)
    <3> HIDE DEF c, S, Adds
    <3>1. \E g \in [SUBSET S -> Int] : Sums(g, c, S)
      BY <1>2, <2>2, SumDefined
    <3> QED
      BY <2>1, <3>1
  <2>4. DepthAfter(legs, e) = it[S]
    <3>1. S = {f \in Events(legs) : ~EndsFirst(e, f)}
      OBVIOUS
    <3> HIDE DEF S
    <3> QED
      BY <3>1 DEF DepthAfter, Fin!MapThenSumSet, Fin!MapThenFoldSet
  <2> HIDE DEF c, S, it, Adds
  <2> QED
    BY <1>2, <2>1, <2>2, <2>3, <2>4, SumsAre
<1> HIDE DEF P, M, S, c, p, m
<1> QED
    BY <1>1, <1>5, <1>6, <1>7

\* Those a passenger at station p meets are those who got on by then, less those who
\* got off by then.
LEMMA DepthIs ==
    ASSUME NEW legs, AreLegs(legs), NEW p \in Nat,
           NEW I, I \subseteq DOMAIN legs, NEW J, J \subseteq I,
           \A i \in I : Contains(legs[i], p) \/ i \in J
    PROVE  /\ Depth(legs, p) \in Nat /\ Cardinality(I) - Cardinality(J) <= Depth(legs, p)
           /\ (\A i \in DOMAIN legs : Contains(legs[i], p) => i \in I \ J)
                    => Depth(legs, p) = Cardinality(I) - Cardinality(J)
<1> DEFINE At == {i \in DOMAIN legs : Contains(legs[i], p)}
<1>1. /\ IsFiniteSet(I) /\ IsFiniteSet(I \ J)
      /\ Cardinality(I) \in Nat /\ Cardinality(J) \in Nat /\ Cardinality(I \ J) \in Nat
    BY FS_Subset, FS_CardinalityType DEF AreLegs
<1>2. Cardinality(I \ J) = Cardinality(I) - Cardinality(J)
  <2>1. I \cap J = J
    OBVIOUS
  <2> QED
    BY <1>1, <2>1, FS_Difference
<1>3. IsFiniteSet(At) /\ Cardinality(At) \in Nat
    BY FS_Subset, FS_CardinalityType DEF AreLegs
<1>4. I \ J \subseteq At
    OBVIOUS
<1>5. Cardinality(I \ J) <= Cardinality(At)
    BY <1>3, <1>4, FS_Subset
<1>6. ASSUME \A i \in DOMAIN legs : Contains(legs[i], p) => i \in I \ J
      PROVE  Cardinality(At) = Cardinality(I \ J)
  <2>1. At = I \ J
    BY <1>4, <1>6
  <2> QED
    BY <2>1
<1> QED
    BY <1>1, <1>2, <1>3, <1>5, <1>6 DEF Depth

\* After a start the running depth is the depth there; after an end it is no more.
LEMMA StartDepth ==
    ASSUME NEW legs, AreLegs(legs), NEW k \in DOMAIN legs
    PROVE  DepthAfter(legs, <<legs[k].origin, 1, k>>) = Depth(legs, legs[k].origin)
<1> DEFINE x == legs[k].origin
           e == <<x, 1, k>>
           I == {i \in DOMAIN legs : legs[i].origin <= x}
           J == {i \in DOMAIN legs : legs[i].dest <= x}
<1>1. /\ I \subseteq DOMAIN legs /\ J \subseteq I /\ x \in Nat
      /\ \A i \in DOMAIN legs : Contains(legs[i], x) <=> i \in I \ J
    BY DEF AreLegs, Contains
<1>2. {f \in Events(legs) : ~EndsFirst(e, f)} = StartsOf(legs, I) \cup EndsOf(legs, J)
  <2>1. \A i \in DOMAIN legs :
          /\ ~EndsFirst(e, <<legs[i].origin, 1, i>>) <=> i \in I
          /\ ~EndsFirst(e, <<legs[i].dest, -1, i>>) <=> i \in J
    BY DEF AreLegs, EndsFirst
  <2> HIDE DEF e, I, J
  <2> QED
    BY <1>1, <2>1 DEF Events, StartsOf, EndsOf
<1> HIDE DEF x, I, J
<1>3. DepthAfter(legs, e) = Cardinality(I) - Cardinality(J)
    BY <1>1, <1>2, DepthCounts
<1>4. Depth(legs, x) = Cardinality(I) - Cardinality(J)
    BY <1>1, DepthIs
<1> QED
    BY <1>3, <1>4 DEF x

LEMMA EndDepth ==
    ASSUME NEW legs, AreLegs(legs), NEW k \in DOMAIN legs
    PROVE  /\ DepthAfter(legs, <<legs[k].dest, -1, k>>) \in Nat
           /\ DepthAfter(legs, <<legs[k].dest, -1, k>>) <= Depth(legs, legs[k].dest)
<1> DEFINE x == legs[k].dest
           e == <<x, -1, k>>
           I == {i \in DOMAIN legs : legs[i].origin < x}
           J == {i \in DOMAIN legs : legs[i].dest <= x}
<1>1. /\ I \subseteq DOMAIN legs /\ J \subseteq I /\ x \in Nat /\ J \subseteq DOMAIN legs
      /\ \A i \in I : Contains(legs[i], x) \/ i \in J
    BY DEF AreLegs, Contains
<1>2. {f \in Events(legs) : ~EndsFirst(e, f)} = StartsOf(legs, I) \cup EndsOf(legs, J)
  <2>1. \A i \in DOMAIN legs :
          /\ ~EndsFirst(e, <<legs[i].origin, 1, i>>) <=> i \in I
          /\ ~EndsFirst(e, <<legs[i].dest, -1, i>>) <=> i \in J
    BY DEF AreLegs, EndsFirst
  <2> HIDE DEF e, I, J
  <2> QED
    BY <1>1, <2>1 DEF Events, StartsOf, EndsOf
<1> HIDE DEF x, I, J
<1>3. DepthAfter(legs, e) = Cardinality(I) - Cardinality(J)
    BY <1>1, <1>2, DepthCounts
<1>4. Cardinality(I) - Cardinality(J) <= Depth(legs, x)
    BY <1>1, DepthIs
<1>5. Cardinality(I) \in Nat /\ Cardinality(J) \in Nat /\ Cardinality(J) <= Cardinality(I)
    BY <1>1, FS_Subset, FS_CardinalityType DEF AreLegs
<1> QED
    BY <1>3, <1>4, <1>5 DEF x

\* No depth is greater than that at the start of some leg.
LEMMA DeepestAtStart ==
    ASSUME NEW legs, AreLegs(legs), NEW p \in Nat, Depth(legs, p) # 0
    PROVE  \E k \in DOMAIN legs : Depth(legs, p) <= Depth(legs, legs[k].origin)
<1> DEFINE At == {i \in DOMAIN legs : Contains(legs[i], p)}
           S == {legs[i].origin : i \in At}
<1>1. IsFiniteSet(At) /\ At # {}
    BY FS_Subset, FS_EmptySet DEF AreLegs, Depth
<1>2. S \subseteq Nat /\ S # {} /\ \A n \in S : n <= p
    BY <1>1 DEF AreLegs, Contains
<1>3. PICK g \in S : \A n \in S : n <= g
  <2> HIDE DEF S
  <2> QED
    BY <1>2, GreatestNumber
<1>4. PICK k \in At : legs[k].origin = g
    OBVIOUS
<1> DEFINE There == {i \in DOMAIN legs : Contains(legs[i], legs[k].origin)}
<1>5. At \subseteq There
  <2> SUFFICES ASSUME NEW i \in At PROVE Contains(legs[i], g)
    BY <1>4
  <2>1. legs[i].origin <= g /\ g <= p /\ p < legs[i].dest
    BY <1>2, <1>3 DEF Contains
  <2>2. g \in Nat /\ legs[i].dest \in Nat
    BY <1>2 DEF AreLegs
  <2> QED
    BY <2>1, <2>2 DEF Contains
<1>6. IsFiniteSet(There)
    BY FS_Subset DEF AreLegs
<1> HIDE DEF At, There
<1>7. Cardinality(At) <= Cardinality(There)
    BY <1>5, <1>6, FS_Subset
<1> QED
    BY <1>4, <1>7 DEF Depth, At, There

\* The peak of the running depth is the greatest depth, and it is reached where some leg
\* starts or ends (domain/packing.py: "= max overlap depth").
THEOREM PeakIsDepth ==
    ASSUME NEW legs, AreLegs(legs)
    PROVE  /\ MinSeats(legs) \in Nat
           /\ \A p \in Nat : Depth(legs, p) <= MinSeats(legs)
           /\ \/ DOMAIN legs = {} /\ MinSeats(legs) = 0
              \/ \E k \in DOMAIN legs :
                    \/ MinSeats(legs) = Depth(legs, legs[k].origin)
                    \/ MinSeats(legs) = Depth(legs, legs[k].dest)
<1> DEFINE D == {0} \cup {DepthAfter(legs, e) : e \in Events(legs)}
           N == Cardinality(DOMAIN legs)
<1>1. ASSUME NEW p \in Nat PROVE Depth(legs, p) \in Nat /\ Depth(legs, p) <= N
  <2>1. {i \in DOMAIN legs : Contains(legs[i], p)} \in SUBSET DOMAIN legs
    OBVIOUS
  <2> QED
    BY <2>1, FS_Subset, FS_CardinalityType DEF AreLegs, Depth
<1>2. N \in Nat
    BY FS_CardinalityType DEF AreLegs
<1>3. ASSUME NEW e \in Events(legs)
      PROVE  /\ DepthAfter(legs, e) \in Nat
             /\ \E k \in DOMAIN legs :
                    \/ DepthAfter(legs, e) = Depth(legs, legs[k].origin)
                    \/ DepthAfter(legs, e) <= Depth(legs, legs[k].dest)
  <2>1. CASE \E k \in DOMAIN legs : e = <<legs[k].origin, 1, k>>
    BY <1>1, <2>1, StartDepth DEF AreLegs
  <2>2. CASE \E k \in DOMAIN legs : e = <<legs[k].dest, -1, k>>
    BY <2>2, EndDepth
  <2> QED
    BY <2>1, <2>2 DEF Events
<1>4. \A d \in D : d \in Nat /\ d <= N
  <2> SUFFICES ASSUME NEW e \in Events(legs) PROVE DepthAfter(legs, e) <= N
    BY <1>2, <1>3
  <2>1. PICK k \in DOMAIN legs :
          \/ DepthAfter(legs, e) = Depth(legs, legs[k].origin)
          \/ DepthAfter(legs, e) <= Depth(legs, legs[k].dest)
    BY <1>3
  <2>2. /\ Depth(legs, legs[k].origin) \in Nat /\ Depth(legs, legs[k].origin) <= N
        /\ Depth(legs, legs[k].dest) \in Nat /\ Depth(legs, legs[k].dest) <= N
    BY <1>1 DEF AreLegs
  <2> QED
    BY <1>2, <1>3, <2>1, <2>2
<1>5. MinSeats(legs) \in D /\ \A d \in D : d <= MinSeats(legs)
  <2>1. MinSeats(legs) = CHOOSE m \in D : \A d \in D : m >= d
    BY DEF MinSeats, Fin!Max
  <2>2. D \subseteq Nat /\ D # {} /\ \A d \in D : d <= N
    BY <1>4
  <2> HIDE DEF D, N
  <2>3. PICK g \in D : \A d \in D : d <= g
    BY <1>2, <2>2, GreatestNumber
  <2>4. \E m \in D : \A d \in D : m >= d
    BY <2>2, <2>3
  <2>5. MinSeats(legs) \in D /\ \A d \in D : MinSeats(legs) >= d
    BY <2>1, <2>4
  <2> QED
    BY <2>2, <2>5
<1>6. MinSeats(legs) \in Nat
    BY <1>4, <1>5
<1>7. ASSUME NEW k \in DOMAIN legs PROVE Depth(legs, legs[k].origin) <= MinSeats(legs)
  <2>1. <<legs[k].origin, 1, k>> \in Events(legs)
    BY DEF Events
  <2>2. Depth(legs, legs[k].origin) \in D
    BY <2>1, StartDepth
  <2> QED
    BY <1>5, <2>2
<1>8. ASSUME NEW p \in Nat PROVE Depth(legs, p) <= MinSeats(legs)
  <2>1. CASE Depth(legs, p) = 0
    BY <1>6, <2>1
  <2>2. CASE Depth(legs, p) # 0
    <3>1. PICK k \in DOMAIN legs : Depth(legs, p) <= Depth(legs, legs[k].origin)
      BY <2>2, DeepestAtStart
    <3>2. Depth(legs, legs[k].origin) \in Nat /\ Depth(legs, p) \in Nat
      BY <1>1 DEF AreLegs
    <3> QED
      BY <1>6, <1>7, <3>1, <3>2
  <2> QED
    BY <2>1, <2>2
<1>9. CASE DOMAIN legs = {}
  <2>1. Events(legs) = {}
    BY <1>9 DEF Events
  <2> QED
    BY <1>5, <1>6, <1>8, <1>9, <2>1
<1>10. CASE DOMAIN legs # {}
  <2> SUFFICES \E k \in DOMAIN legs :
                    \/ MinSeats(legs) = Depth(legs, legs[k].origin)
                    \/ MinSeats(legs) = Depth(legs, legs[k].dest)
    BY <1>6, <1>8
  <2>1. CASE MinSeats(legs) = 0
    <3>1. PICK k \in DOMAIN legs : TRUE
      BY <1>10
    <3>2. Depth(legs, legs[k].origin) \in Nat
      BY <1>1 DEF AreLegs
    <3> QED
      BY <1>7, <2>1, <3>2
  <2>2. CASE \E e \in Events(legs) : MinSeats(legs) = DepthAfter(legs, e)
    <3>1. PICK k \in DOMAIN legs :
            \/ MinSeats(legs) = Depth(legs, legs[k].origin)
            \/ MinSeats(legs) <= Depth(legs, legs[k].dest)
      BY <1>3, <2>2
    <3>2. legs[k].dest \in Nat
      BY DEF AreLegs
    <3>3. Depth(legs, legs[k].dest) <= MinSeats(legs) /\ Depth(legs, legs[k].dest) \in Nat
      BY <1>1, <1>8, <3>2
    <3> QED
      BY <1>6, <3>1, <3>3
  <2> QED
    BY <1>5, <2>1, <2>2
<1> QED
    BY <1>9, <1>10

-----------------------------------------------------------------------------
(* The order in which pack takes the legs.                                 *)

\* Of two legs one comes first, and the order is transitive.
LEMMA BeforeOrders ==
    ASSUME NEW legs, AreLegs(legs), DOMAIN legs \subseteq Nat
    PROVE  /\ \A i, j \in DOMAIN legs : i # j => Before(legs, i, j) \/ Before(legs, j, i)
           /\ \A i, j, k \in DOMAIN legs :
                Before(legs, i, j) /\ Before(legs, j, k) => Before(legs, i, k)
           /\ \A i, j \in DOMAIN legs : Before(legs, i, j) => legs[i].origin <= legs[j].origin
<1>1. \A i \in DOMAIN legs :
        /\ i \in Nat /\ legs[i].origin \in Nat /\ legs[i].dest \in Nat
        /\ legs[i] = [origin |-> legs[i].origin, dest |-> legs[i].dest]
    BY DEF AreLegs
<1>2. ASSUME NEW i \in DOMAIN legs, NEW j \in DOMAIN legs, i # j
      PROVE  Before(legs, i, j) \/ Before(legs, j, i)
  <2>1. CASE legs[i].origin = legs[j].origin /\ legs[i].dest = legs[j].dest
    <3>1. legs[i] = legs[j]
      BY <1>1, <2>1
    <3> QED
      BY <1>1, <1>2, <3>1 DEF Before
  <2>2. CASE ~(legs[i].origin = legs[j].origin /\ legs[i].dest = legs[j].dest)
    BY <1>1, <2>2 DEF Before
  <2> QED
    BY <2>1, <2>2
<1>3. ASSUME NEW i \in DOMAIN legs, NEW j \in DOMAIN legs, NEW k \in DOMAIN legs,
             Before(legs, i, j), Before(legs, j, k)
      PROVE  Before(legs, i, k)
    BY <1>1, <1>3 DEF Before
<1>4. ASSUME NEW i \in DOMAIN legs, NEW j \in DOMAIN legs, Before(legs, i, j)
      PROVE  legs[i].origin <= legs[j].origin
    BY <1>1, <1>4 DEF Before
<1> QED
    BY <1>2, <1>3, <1>4

\* Some leg comes last.
LEMMA LastLeg ==
    ASSUME NEW legs, AreLegs(legs), DOMAIN legs \subseteq Nat,
           NEW T \in SUBSET DOMAIN legs, T # {}
    PROVE  \E z \in T : \A i \in T \ {z} : Before(legs, i, z)
<1> DEFINE D == DOMAIN legs
           Last(U, z) == z \in U /\ \A i \in U \ {z} : Before(legs, i, z)
           B == {U \in SUBSET D : U # {} /\ ~ \E z \in U : Last(U, z)}
<1>1. B = {}
  <2> SUFFICES ASSUME B # {} PROVE FALSE
    OBVIOUS
  <2>1. PICK U \in B : \A W \in B : Cardinality(U) <= Cardinality(W)
    <3>1. IsFiniteSet(D) /\ B \subseteq SUBSET D
      BY DEF AreLegs
    <3> HIDE DEF B, D
    <3> QED
      BY <3>1, Smallest
  <2>2. PICK y \in U : TRUE
    OBVIOUS
  <2>3. IsFiniteSet(U) /\ Cardinality(U) \in Nat
    BY FS_Subset, FS_CardinalityType DEF AreLegs
  <2>4. Cardinality(U \ {y}) = Cardinality(U) - 1
    BY <2>2, <2>3, FS_RemoveElement
  <2>5. U \ {y} \notin B
    <3> HIDE DEF B
    <3> QED
      BY <2>1, <2>3, <2>4
  <2>6. U \ {y} # {}
    <3>1. ASSUME U \ {y} = {} PROVE FALSE
      <4>1. Last(U, y)
        BY <2>2, <3>1
      <4> QED
        BY <4>1
    <3> QED
      BY <3>1
  <2>7. PICK z \in U \ {y} : Last(U \ {y}, z)
    BY <2>5, <2>6
  <2>8. y \in D /\ z \in D /\ y # z
    OBVIOUS
  <2>9. CASE Before(legs, y, z)
    <3>1. Last(U, z)
      BY <2>7, <2>9
    <3> QED
      BY <3>1
  <2>10. CASE Before(legs, z, y)
    <3>1. ASSUME NEW i \in U \ {y} PROVE Before(legs, i, y)
      <4>1. CASE i = z
        BY <2>10, <4>1
      <4>2. CASE i # z
        <5>1. Before(legs, i, z) /\ i \in D
          BY <2>7, <4>2
        <5> QED
          BY <2>8, <2>10, <5>1, BeforeOrders
      <4> QED
        BY <4>1, <4>2
    <3>2. Last(U, y)
      BY <3>1
    <3> QED
      BY <3>2
  <2> QED
    BY <2>8, <2>9, <2>10, BeforeOrders
<1> QED
    BY <1>1

\* s lists the members of T in order.
Lists(legs, s, T) ==
    /\ s \in [1 .. Cardinality(T) -> T]
    /\ \A i, j \in 1 .. Cardinality(T) : i # j => s[i] # s[j]
    /\ \A i, j \in 1 .. Cardinality(T) : i < j => Before(legs, s[i], s[j])

LEMMA OrderExists ==
    ASSUME NEW legs, AreLegs(legs), DOMAIN legs \subseteq Nat
    PROVE  \E s : Lists(legs, s, DOMAIN legs)
<1> DEFINE D == DOMAIN legs
           B == {T \in SUBSET D : ~ \E s : Lists(legs, s, T)}
<1> SUFFICES ASSUME B # {} PROVE FALSE
    OBVIOUS
<1>1. PICK T \in B : \A U \in B : Cardinality(T) <= Cardinality(U)
  <2>1. IsFiniteSet(D) /\ B \subseteq SUBSET D
    BY DEF AreLegs
  <2> HIDE DEF B, D
  <2> QED
    BY <2>1, Smallest
<1> DEFINE n == Cardinality(T)
<1>2. IsFiniteSet(T) /\ n \in Nat
    BY FS_Subset, FS_CardinalityType DEF AreLegs
<1>3. T # {}
  <2>1. ASSUME T = {} PROVE FALSE
    <3>1. Cardinality(T) = 0 /\ 1 .. 0 = {}
      BY <2>1, FS_EmptySet
    <3>2. Lists(legs, [i \in {} |-> i], T)
      BY <2>1, <3>1 DEF Lists
    <3> QED
      BY <3>2
  <2> QED
    BY <2>1
<1>4. PICK z \in T : \A i \in T \ {z} : Before(legs, i, z)
    BY <1>3, LastLeg
<1> DEFINE R == T \ {z}
<1>5. Cardinality(R) = n - 1 /\ R \in SUBSET D
    BY <1>2, <1>4, FS_RemoveElement
<1>6. R \notin B
    BY <1>1, <1>2, <1>5
<1>7. PICK s : Lists(legs, s, R)
    BY <1>5, <1>6
<1> DEFINE t == [k \in 1 .. n |-> IF k = n THEN z ELSE s[k]]
<1>8. /\ s \in [1 .. n - 1 -> R]
      /\ \A i, j \in 1 .. n - 1 : i # j => s[i] # s[j]
      /\ \A i, j \in 1 .. n - 1 : i < j => Before(legs, s[i], s[j])
    BY <1>5, <1>7 DEF Lists
<1>9. \A k \in 1 .. n :
        \/ k = n /\ t[k] = z
        \/ k \in 1 .. n - 1 /\ t[k] = s[k] /\ s[k] \in R
    BY <1>2, <1>8
<1>10. t \in [1 .. n -> T]
  <2> HIDE DEF R
  <2>1. R \subseteq T
    BY DEF R
  <2> QED
    BY <1>8, <1>9, <2>1
<1>11. \A i, j \in 1 .. n : i # j => t[i] # t[j]
    BY <1>8, <1>9
<1>12. \A i, j \in 1 .. n : i < j => Before(legs, t[i], t[j])
  <2> SUFFICES ASSUME NEW i \in 1 .. n, NEW j \in 1 .. n, i < j
               PROVE  Before(legs, t[i], t[j])
    OBVIOUS
  <2>1. i \in 1 .. n - 1 /\ t[i] = s[i] /\ s[i] \in R
    BY <1>2, <1>9
  <2>2. CASE j = n
    BY <1>4, <1>9, <2>1, <2>2
  <2>3. CASE j # n
    <3>1. j \in 1 .. n - 1 /\ t[j] = s[j]
      BY <1>9, <2>3
    <3> QED
      BY <1>8, <2>1, <3>1
  <2> QED
    BY <2>2, <2>3
<1>13. Lists(legs, t, T)
  <2> HIDE DEF t
  <2> QED
    BY <1>10, <1>11, <1>12 DEF Lists
<1> QED
    BY <1>13

\* sorted: every leg once, in order.
LEMMA SortedLists ==
    ASSUME NEW legs, AreLegs(legs), DOMAIN legs \subseteq Nat
    PROVE  /\ Lists(legs, Sorted(legs), DOMAIN legs)
           /\ \A i \in DOMAIN legs : \E k \in 1 .. Cardinality(DOMAIN legs) : Sorted(legs)[k] = i
<1> DEFINE D == DOMAIN legs
           n == Cardinality(D)
           s == Sorted(legs)
<1>1. Lists(legs, s, D)
  <2>1. PICK t : Lists(legs, t, D)
    BY OrderExists
  <2>2. /\ t \in [1 .. n -> D]
        /\ \A i, j \in DOMAIN t : i < j => Before(legs, t[i], t[j])
    BY <2>1 DEF Lists
  <2>3. /\ s \in [1 .. n -> D]
        /\ \A i, j \in DOMAIN s : i < j => Before(legs, s[i], s[j])
    BY <2>2 DEF Sorted
  <2>4. \A i \in D : ~Before(legs, i, i)
    BY DEF AreLegs, Before
  <2>5. n \in Nat
    BY FS_CardinalityType DEF AreLegs
  <2>6. ASSUME NEW i \in 1 .. n, NEW j \in 1 .. n, i # j PROVE s[i] # s[j]
    <3>1. i < j \/ j < i
      BY <2>5, <2>6
    <3> HIDE DEF s
    <3> QED
      BY <2>3, <2>4, <3>1
  <2> HIDE DEF s
  <2> QED
    BY <2>3, <2>6 DEF Lists
<1>2. s \in [1 .. n -> D] /\ \A i, j \in 1 .. n : s[i] = s[j] => i = j
    BY <1>1 DEF Lists
<1>3. n \in Nat /\ IsFiniteSet(D)
    BY FS_CardinalityType DEF AreLegs
<1>4. Cardinality(1 .. n) = n /\ IsFiniteSet(1 .. n)
    BY <1>3, FS_Interval
<1>5. s \in Injection(1 .. n, D)
    BY <1>2 DEF Injection, IsInjective
<1>6. s \in Surjection(1 .. n, D)
  <2> HIDE DEF s, n, D
  <2> QED
    BY <1>3, <1>4, <1>5, FS_Injection DEF n
<1> QED
    BY <1>1, <1>6 DEF Surjection

-----------------------------------------------------------------------------
(* pack.                                                                   *)

\* The heap has a least entry.
LEMMA TopLeast ==
    ASSUME NEW free, free \subseteq Nat \X Nat, free # {}
    PROVE  /\ Top(free) \in free
           /\ \A f \in free :
                Top(free)[1] < f[1] \/ (Top(free)[1] = f[1] /\ Top(free)[2] <= f[2])
<1> DEFINE S == {f[1] : f \in free}
<1>1. S \subseteq Nat /\ S # {}
    OBVIOUS
<1>2. PICK m \in S : \A n \in S : m <= n
  <2> HIDE DEF S
  <2> QED
    BY <1>1, LeastNumber
<1> DEFINE U == {f[2] : f \in {g \in free : g[1] = m}}
<1>3. U \subseteq Nat /\ U # {}
    OBVIOUS
<1>4. PICK u \in U : \A v \in U : u <= v
  <2> HIDE DEF U
  <2> QED
    BY <1>3, LeastNumber
<1>5. PICK e \in free : e[1] = m /\ e[2] = u
    OBVIOUS
<1>6. ASSUME NEW f \in free PROVE e[1] < f[1] \/ (e[1] = f[1] /\ e[2] <= f[2])
  <2>1. f[1] \in Nat /\ f[2] \in Nat /\ m \in Nat /\ m <= f[1]
    BY <1>1, <1>2
  <2>2. CASE f[1] = m
    <3>1. u <= f[2]
      BY <1>4, <2>2
    <3> QED
      BY <1>5, <2>2, <3>1
  <2>3. CASE f[1] # m
    BY <1>5, <2>1, <2>3
  <2> QED
    BY <2>2, <2>3
<1> QED
    BY <1>5, <1>6 DEF Top

\* What pack keeps.
Accs(legs) == [seat : [DOMAIN legs -> Nat], free : SUBSET (Nat \X Nat), count : Nat]

LEMMA PlaceType ==
    ASSUME NEW legs, AreLegs(legs), NEW acc \in Accs(legs), NEW i \in DOMAIN legs
    PROVE  Place(legs, acc, i) \in Accs(legs)
<1> DEFINE reuse == acc.free # {} /\ Top(acc.free)[1] <= legs[i].origin
           seat == IF reuse THEN Top(acc.free)[2] ELSE acc.count
<1>1. /\ acc.free \subseteq Nat \X Nat /\ acc.count \in Nat /\ acc.seat \in [DOMAIN legs -> Nat]
      /\ legs[i].dest \in Nat
    BY DEF Accs, AreLegs
<1>2. seat \in Nat
    BY <1>1, TopLeast
<1>3. Place(legs, acc, i) =
        [seat |-> [acc.seat EXCEPT ![i] = seat],
         free |-> (IF reuse THEN acc.free \ {Top(acc.free)} ELSE acc.free)
                     \cup {<<legs[i].dest, seat>>},
         count |-> IF reuse THEN acc.count ELSE acc.count + 1]
    BY DEF Place
<1> HIDE DEF reuse, seat
<1>4. /\ [acc.seat EXCEPT ![i] = seat] \in [DOMAIN legs -> Nat]
      /\ (IF reuse THEN acc.free \ {Top(acc.free)} ELSE acc.free)
                     \cup {<<legs[i].dest, seat>>} \subseteq Nat \X Nat
      /\ (IF reuse THEN acc.count ELSE acc.count + 1) \in Nat
    BY <1>1, <1>2
<1> QED
    BY <1>3, <1>4 DEF Accs

\* The loop: what pack keeps after the first k legs in order.
Loop(legs, acc) ==
    LET n == Cardinality(DOMAIN legs)
    IN  /\ acc[0] = Nobody(legs)
        /\ \A k \in 1 .. n : acc[k] = Place(legs, acc[k - 1], Sorted(legs)[k])
        /\ Pack(legs) = acc[n]

LEMMA PackLoops ==
    ASSUME NEW legs, AreLegs(legs), DOMAIN legs \subseteq Nat
    PROVE  \E acc : Loop(legs, acc)
<1> DEFINE n == Cardinality(DOMAIN legs)
           s == Sorted(legs)
           S == DOMAIN s
           Max(T) == CHOOSE x \in T : \A y \in T : x >= y
           Steps(g) == g = [T \in SUBSET S |->
              IF T = {} THEN Nobody(legs) ELSE Place(legs, g[T \ {Max(T)}], s[Max(T)])]
           it == CHOOSE g : Steps(g)
<1>1. n \in Nat /\ s \in [1 .. n -> DOMAIN legs] /\ S = 1 .. n
    BY SortedLists, FS_CardinalityType DEF Lists, AreLegs
<1>2. ASSUME NEW T \in SUBSET S, T # {} PROVE Max(T) \in T /\ \A y \in T : Max(T) >= y
  <2>1. T \subseteq Nat /\ \A y \in T : y <= n
    BY <1>1
  <2>2. PICK g \in T : \A y \in T : y <= g
    BY <1>1, <1>2, <2>1, GreatestNumber
  <2>3. \A y \in T : g >= y
    BY <2>1, <2>2
  <2> QED
    BY <2>3
<1>3. Pack(legs) = it[S]
    BY DEF Pack, Seqs!FoldLeft, Seqs!MapThenFoldSet, Seqs!Max
<1>4. \E g : Steps(g)
  <2> DEFINE c == [T \in SUBSET S |-> IF T = {} THEN 0 ELSE Max(T)]
             G == [T \in SUBSET S |-> [v \in Accs(legs) |-> Place(legs, v, s[c[T]])]]
  <2>1. IsFiniteSet(S)
    BY <1>1, FS_Interval
  <2>2. Nobody(legs) \in Accs(legs)
    BY DEF Nobody, Accs
  <2>3. ASSUME NEW T \in SUBSET S, T # {}
        PROVE  c[T] \in T /\ G[T] \in [Accs(legs) -> Accs(legs)]
    <3>1. c[T] \in T /\ c[T] = Max(T)
      BY <1>2, <2>3
    <3>2. s[c[T]] \in DOMAIN legs
      BY <1>1, <3>1
    <3>3. G[T] = [v \in Accs(legs) |-> Place(legs, v, s[c[T]])]
      OBVIOUS
    <3> HIDE DEF c, G, s, S, Max
    <3> QED
      BY <3>1, <3>2, <3>3, PlaceType
  <2>4. PICK g \in [SUBSET S -> Accs(legs)] : Folds(g, S, Nobody(legs), c, G)
    <3> HIDE DEF c, G, s, S, Max
    <3> QED
      BY <2>1, <2>2, <2>3, FoldExists
  <2>5. ASSUME NEW T \in SUBSET S, T # {}
        PROVE  G[T][g[T \ {c[T]}]] = Place(legs, g[T \ {Max(T)}], s[Max(T)])
    <3>1. c[T] = Max(T)
      BY <2>5
    <3>2. g[T \ {c[T]}] \in Accs(legs)
      OBVIOUS
    <3>3. G[T][g[T \ {c[T]}]] = Place(legs, g[T \ {c[T]}], s[c[T]])
      <4> HIDE DEF c
      <4> QED
        BY <3>2
    <3> HIDE DEF c, G, s, Max
    <3> QED
      BY <3>1, <3>3
  <2>6. [T \in SUBSET S |-> IF T = {} THEN Nobody(legs) ELSE G[T][g[T \ {c[T]}]]]
          = [T \in SUBSET S |-> IF T = {} THEN Nobody(legs)
                                ELSE Place(legs, g[T \ {Max(T)}], s[Max(T)])]
    <3> HIDE DEF c, G, s, S, Max
    <3> QED
      BY <2>5
  <2>7. Steps(g)
    <3> HIDE DEF c, G, s, S, Max
    <3> QED
      BY <2>4, <2>6 DEF Folds
  <2> QED
    BY <2>7
<1>5. Steps(it)
    BY <1>4
<1>6. \A T \in SUBSET S : it[T] = IF T = {} THEN Nobody(legs)
                                 ELSE Place(legs, it[T \ {Max(T)}], s[Max(T)])
  <2> HIDE DEF s, S, Max, it
  <2> QED
    BY <1>5
<1> DEFINE acc == [k \in 0 .. n |-> it[1 .. k]]
<1>7. acc[0] = Nobody(legs)
  <2>1. 1 .. 0 = {} /\ {} \in SUBSET S /\ 0 \in 0 .. n
    BY <1>1
  <2> HIDE DEF it, s, S, Max
  <2> QED
    BY <1>6, <2>1
<1>8. ASSUME NEW k \in 1 .. n PROVE acc[k] = Place(legs, acc[k - 1], s[k])
  <2>1. 1 .. k \in SUBSET S /\ 1 .. k # {} /\ k \in 1 .. k
    BY <1>1
  <2>2. Max(1 .. k) = k
    <3>1. Max(1 .. k) \in 1 .. k /\ Max(1 .. k) >= k
      BY <1>2, <2>1
    <3> HIDE DEF Max
    <3> QED
      BY <3>1
  <2>3. (1 .. k) \ {k} = 1 .. k - 1 /\ k \in 0 .. n /\ k - 1 \in 0 .. n
    BY <1>1
  <2> HIDE DEF it, s, S, Max
  <2> QED
    BY <1>6, <2>1, <2>2, <2>3
<1>9. Pack(legs) = acc[n]
  <2>1. n \in 0 .. n /\ S = 1 .. n
    BY <1>1
  <2> HIDE DEF it, s, S
  <2> QED
    BY <1>3, <2>1
<1>10. Loop(legs, acc)
  <2> HIDE DEF acc
  <2> QED
    BY <1>7, <1>8, <1>9 DEF Loop
<1> QED
    BY <1>10

\* What holds of pack's loop after the legs of order(1) .. order(k): everybody is seated
\* apart, each seat is in the heap once, with the station its last leg ends at, and there
\* are no more seats than needed.
Packed(legs, acc, k) ==
    LET done == {Sorted(legs)[j] : j \in 1 .. k}
    IN  /\ acc \in Accs(legs)
        /\ \A i \in done : acc.seat[i] < acc.count
        /\ \A i, j \in done :
            i # j /\ acc.seat[i] = acc.seat[j] => ~Overlaps(legs[i], legs[j])
        /\ \A e \in acc.free :
            /\ e[2] < acc.count
            /\ \A i \in done : acc.seat[i] = e[2] => legs[i].dest <= e[1]
        /\ \A e, f \in acc.free : e[2] = f[2] => e = f
        /\ \A u \in 0 .. acc.count - 1 :
            \E i \in done : acc.seat[i] = u /\ <<legs[i].dest, u>> \in acc.free
        /\ acc.count <= MinSeats(legs)

\* A new seat is opened only if all others are taken by legs that meet this one where it
\* starts: so many are needed.
LEMMA NewSeatNeeded ==
    ASSUME NEW legs, AreLegs(legs), NEW i \in DOMAIN legs, NEW count \in Nat,
           NEW seat, NEW done, done \subseteq DOMAIN legs \ {i},
           \A u \in 0 .. count - 1 :
              \E j \in done : seat[j] = u /\ Contains(legs[j], legs[i].origin)
    PROVE  count + 1 <= MinSeats(legs)
<1> DEFINE p == legs[i].origin
           At == {j \in DOMAIN legs : Contains(legs[j], p)}
           w == [u \in 0 .. count |->
                    IF u = count THEN i
                    ELSE CHOOSE j \in done : seat[j] = u /\ Contains(legs[j], p)]
<1>1. p \in Nat /\ i \in At
    BY DEF AreLegs, Contains
<1>2. ASSUME NEW u \in 0 .. count
      PROVE  \/ u = count /\ w[u] = i
             \/ u # count /\ w[u] \in done /\ seat[w[u]] = u /\ Contains(legs[w[u]], p)
  <2>1. CASE u = count
    BY <2>1
  <2>2. CASE u # count
    <3>1. u \in 0 .. count - 1
      BY <2>2
    <3>2. \E j \in done : seat[j] = u /\ Contains(legs[j], p)
      BY <3>1
    <3>3. w[u] = CHOOSE j \in done : seat[j] = u /\ Contains(legs[j], p)
      BY <2>2
    <3> HIDE DEF w, p
    <3> QED
      BY <2>2, <3>2, <3>3
  <2> QED
    BY <2>1, <2>2
<1>3. w \in Injection(0 .. count, At)
  <2>1. DOMAIN w = 0 .. count /\ w = [u \in 0 .. count |-> w[u]]
    OBVIOUS
  <2>2. \A u \in 0 .. count : w[u] \in At
    <3> HIDE DEF w, p
    <3> QED
      BY <1>1, <1>2
  <2>3. \A u, v \in 0 .. count : w[u] = w[v] => u = v
    <3> HIDE DEF w, p
    <3> QED
      BY <1>2
  <2> HIDE DEF w, At
  <2> QED
    BY <2>1, <2>2, <2>3 DEF Injection, IsInjective
<1>4. IsFiniteSet(At)
    BY FS_Subset DEF AreLegs
<1>5. Cardinality(0 .. count) <= Cardinality(At)
  <2> HIDE DEF w, At
  <2> QED
    BY <1>3, <1>4, FS_Injection
<1>6. Cardinality(0 .. count) = count + 1
    BY FS_Interval
<1>7. Cardinality(At) \in Nat
    BY <1>4, FS_CardinalityType
<1>8. Cardinality(At) <= MinSeats(legs) /\ MinSeats(legs) \in Nat
    BY <1>1, PeakIsDepth DEF Depth
<1> HIDE DEF At
<1> QED
    BY <1>5, <1>6, <1>7, <1>8

LEMMA PlaceKeeps ==
    ASSUME NEW legs, AreLegs(legs), DOMAIN legs \subseteq Nat,
           NEW k \in 1 .. Cardinality(DOMAIN legs), NEW acc, Packed(legs, acc, k - 1)
    PROVE  Packed(legs, Place(legs, acc, Sorted(legs)[k]), k)
<1> DEFINE s == Sorted(legs)
           n == Cardinality(DOMAIN legs)
           i == s[k]
           done == {s[j] : j \in 1 .. k - 1}
           now == {s[j] : j \in 1 .. k}
           reuse == acc.free # {} /\ Top(acc.free)[1] <= legs[i].origin
           seat == IF reuse THEN Top(acc.free)[2] ELSE acc.count
           next == Place(legs, acc, i)
<1>1. /\ n \in Nat /\ s \in [1 .. n -> DOMAIN legs]
      /\ \A a, b \in 1 .. n : a # b => s[a] # s[b]
      /\ \A a, b \in 1 .. n : a < b => Before(legs, s[a], s[b])
    BY SortedLists, FS_CardinalityType DEF Lists, AreLegs
<1>2. /\ i \in DOMAIN legs /\ done \subseteq DOMAIN legs \ {i} /\ now = done \cup {i}
      /\ \A j \in done : legs[j].origin <= legs[i].origin
  <2>1. \A a \in 1 .. k - 1 : a \in 1 .. n /\ a # k /\ a < k
    BY <1>1
  <2>2. \A a \in 1 .. k : a = k \/ a \in 1 .. k - 1
    BY <1>1
  <2>3. k \in 1 .. k /\ \A a \in 1 .. k - 1 : a \in 1 .. k
    BY <1>1
  <2>4. i \in DOMAIN legs /\ \A a \in 1 .. k - 1 : s[a] \in DOMAIN legs /\ s[a] # i
    BY <1>1, <2>1
  <2>5. \A a \in 1 .. k - 1 : legs[s[a]].origin <= legs[i].origin
    <3> SUFFICES ASSUME NEW a \in 1 .. k - 1 PROVE legs[s[a]].origin <= legs[i].origin
      OBVIOUS
    <3>1. Before(legs, s[a], i)
      BY <1>1, <2>1
    <3> HIDE DEF s, i
    <3> QED
      BY <2>4, <3>1, BeforeOrders
  <2> HIDE DEF s
  <2> QED
    BY <2>2, <2>3, <2>4, <2>5
<1>3. /\ next = [seat |-> [acc.seat EXCEPT ![i] = seat],
                 free |-> (IF reuse THEN acc.free \ {Top(acc.free)} ELSE acc.free)
                             \cup {<<legs[i].dest, seat>>},
                 count |-> IF reuse THEN acc.count ELSE acc.count + 1]
    BY DEF Place
<1>4. /\ acc \in Accs(legs)
      /\ \A j \in done : acc.seat[j] < acc.count
      /\ \A j, l \in done :
            j # l /\ acc.seat[j] = acc.seat[l] => ~Overlaps(legs[j], legs[l])
      /\ \A e \in acc.free :
            /\ e[2] < acc.count
            /\ \A j \in done : acc.seat[j] = e[2] => legs[j].dest <= e[1]
      /\ \A e, f \in acc.free : e[2] = f[2] => e = f
      /\ \A u \in 0 .. acc.count - 1 :
            \E j \in done : acc.seat[j] = u /\ <<legs[j].dest, u>> \in acc.free
      /\ acc.count <= MinSeats(legs)
    BY DEF Packed
<1>5. next \in Accs(legs)
    BY <1>2, <1>4, PlaceType
<1>6. /\ acc.free \subseteq Nat \X Nat /\ acc.count \in Nat /\ acc.seat \in [DOMAIN legs -> Nat]
      /\ \A j \in DOMAIN legs : /\ legs[j].origin \in Nat /\ legs[j].dest \in Nat
                                /\ legs[j].origin < legs[j].dest
    BY <1>4 DEF Accs, AreLegs
<1> DEFINE top == Top(acc.free)
<1>7. acc.free # {} =>
        /\ top \in acc.free /\ top[1] \in Nat /\ top[2] \in Nat
        /\ \A f \in acc.free : top[1] <= f[1]
  <2> SUFFICES ASSUME acc.free # {}
               PROVE  /\ top \in acc.free /\ top[1] \in Nat /\ top[2] \in Nat
                      /\ \A f \in acc.free : top[1] <= f[1]
    OBVIOUS
  <2>1. /\ top \in acc.free
        /\ \A f \in acc.free : top[1] < f[1] \/ (top[1] = f[1] /\ top[2] <= f[2])
    BY <1>6, TopLeast
  <2>2. top[1] \in Nat /\ top[2] \in Nat /\ \A f \in acc.free : f[1] \in Nat
    BY <1>6, <2>1
  <2> QED
    BY <2>1, <2>2
<1>8. /\ \A j \in done : next.seat[j] = acc.seat[j]
      /\ next.seat[i] = seat
      /\ \A j \in now : j = i \/ j \in done
  <2> HIDE DEF done, now, i, seat, reuse
  <2> QED
    BY <1>2, <1>3, <1>6
<1>9. CASE reuse
  <2>1. /\ seat = top[2] /\ top \in acc.free /\ top[1] <= legs[i].origin
        /\ next.count = acc.count
        /\ next.free = (acc.free \ {top}) \cup {<<legs[i].dest, seat>>}
    BY <1>3, <1>7, <1>9
  <2>2. seat \in Nat /\ seat < acc.count
    BY <1>4, <1>7, <2>1
  <2>3. \A j \in done : acc.seat[j] = seat => legs[j].dest <= legs[i].origin
    <3> SUFFICES ASSUME NEW j \in done, acc.seat[j] = seat
                 PROVE  legs[j].dest <= legs[i].origin
      OBVIOUS
    <3>1. legs[j].dest <= top[1]
      BY <1>4, <2>1
    <3>2. legs[j].dest \in Nat /\ legs[i].origin \in Nat /\ top[1] \in Nat
      BY <1>2, <1>6, <1>7, <2>1
    <3> QED
      BY <2>1, <3>1, <3>2
  <2> HIDE DEF done, now, i, seat, reuse, s, next, top
  <2>4. \A j \in now : next.seat[j] < next.count
    BY <1>4, <1>8, <2>1, <2>2
  <2>5. ASSUME NEW j \in now, NEW l \in now, j # l, next.seat[j] = next.seat[l]
        PROVE  ~Overlaps(legs[j], legs[l])
    <3>1. CASE j \in done /\ l \in done
      BY <1>4, <1>8, <2>5, <3>1
    <3>2. CASE j = i
      <4>1. l \in done /\ legs[l].dest <= legs[i].origin
        BY <1>8, <2>3, <2>5, <3>2
      <4> QED
        BY <1>2, <1>6, <3>2, <4>1 DEF Overlaps
    <3>3. CASE l = i
      <4>1. j \in done /\ legs[j].dest <= legs[i].origin
        BY <1>8, <2>3, <2>5, <3>3
      <4> QED
        BY <1>2, <1>6, <3>3, <4>1 DEF Overlaps
    <3> QED
      BY <1>8, <3>1, <3>2, <3>3
  <2>6. ASSUME NEW e \in next.free
        PROVE  /\ e[2] < next.count
               /\ \A j \in now : next.seat[j] = e[2] => legs[j].dest <= e[1]
    <3>1. CASE e \in acc.free /\ e # top
      <4>1. e[2] < acc.count /\ e[2] # seat
        BY <1>4, <2>1, <3>1
      <4> QED
        BY <1>4, <1>8, <2>1, <3>1, <4>1
    <3>2. CASE e = <<legs[i].dest, seat>>
      <4>1. ASSUME NEW j \in done, acc.seat[j] = seat PROVE legs[j].dest <= legs[i].dest
        <5>1. legs[j].dest <= legs[i].origin
          BY <2>3, <4>1
        <5> QED
          BY <1>2, <1>6, <5>1
      <4>2. legs[i].dest <= legs[i].dest
        BY <1>2, <1>6
      <4> QED
        BY <1>8, <2>1, <2>2, <3>2, <4>1, <4>2
    <3> QED
      BY <2>1, <3>1, <3>2
  <2>7. ASSUME NEW e \in next.free, NEW f \in next.free, e[2] = f[2] PROVE e = f
    <3>1. \A g \in acc.free \ {top} : g \in acc.free /\ g[2] # seat
      BY <1>4, <2>1
    <3>2. <<legs[i].dest, seat>>[2] = seat
      OBVIOUS
    <3> QED
      BY <1>4, <2>1, <2>7, <3>1, <3>2
  <2>8. ASSUME NEW u \in 0 .. next.count - 1
        PROVE  \E j \in now : next.seat[j] = u /\ <<legs[j].dest, u>> \in next.free
    <3>1. CASE u = seat
      BY <1>2, <1>8, <2>1, <3>1
    <3>2. CASE u # seat
      <4>1. PICK j \in done : acc.seat[j] = u /\ <<legs[j].dest, u>> \in acc.free
        BY <1>4, <2>1
      <4>2. <<legs[j].dest, u>> # top
        BY <2>1, <3>2
      <4> QED
        BY <1>2, <1>8, <2>1, <4>1, <4>2
    <3> QED
      BY <3>1, <3>2
  <2>9. next.count <= MinSeats(legs)
    BY <1>4, <2>1
  <2> QED
    BY <1>5, <2>4, <2>5, <2>6, <2>7, <2>8, <2>9 DEF Packed, next, now, s, i
<1>10. CASE ~reuse
  <2>1. /\ seat = acc.count /\ next.count = acc.count + 1
        /\ next.free = acc.free \cup {<<legs[i].dest, seat>>}
    BY <1>3, <1>10
  <2>2. \A e \in acc.free : legs[i].origin < e[1] /\ e[1] \in Nat
    <3> SUFFICES ASSUME NEW e \in acc.free PROVE legs[i].origin < e[1] /\ e[1] \in Nat
      OBVIOUS
    <3>1. acc.free # {} /\ ~(top[1] <= legs[i].origin) /\ e[1] \in Nat
      BY <1>6, <1>10
    <3>2. top[1] \in Nat /\ top[1] <= e[1] /\ legs[i].origin \in Nat
      BY <1>2, <1>6, <1>7, <3>1
    <3> QED
      BY <3>1, <3>2
  <2> HIDE DEF done, now, i, seat, reuse, s, next, top
  <2>3. \A u \in 0 .. acc.count - 1 :
          \E j \in done : acc.seat[j] = u /\ Contains(legs[j], legs[i].origin)
    <3> SUFFICES ASSUME NEW u \in 0 .. acc.count - 1
                 PROVE  \E j \in done : acc.seat[j] = u /\ Contains(legs[j], legs[i].origin)
      OBVIOUS
    <3>1. PICK j \in done : acc.seat[j] = u /\ <<legs[j].dest, u>> \in acc.free
      BY <1>4
    <3>2. legs[i].origin < legs[j].dest
      BY <2>2, <3>1
    <3> QED
      BY <1>2, <3>1, <3>2 DEF Contains
  <2>4. next.count <= MinSeats(legs)
    BY <1>2, <1>6, <2>1, <2>3, NewSeatNeeded
  <2>5. \A j \in now : next.seat[j] < next.count
    <3> SUFFICES ASSUME NEW j \in now PROVE next.seat[j] < acc.count + 1
      BY <2>1
    <3>1. CASE j = i
      BY <1>6, <1>8, <2>1, <3>1
    <3>2. CASE j \in done
      <4>1. acc.seat[j] \in Nat /\ acc.seat[j] < acc.count
        BY <1>2, <1>4, <1>6, <3>2
      <4> QED
        BY <1>6, <1>8, <3>2, <4>1
    <3> QED
      BY <1>8, <3>1, <3>2
  <2>6. \A j \in done : next.seat[j] = acc.seat[j] /\ acc.seat[j] # seat
    <3> SUFFICES ASSUME NEW j \in done PROVE acc.seat[j] # acc.count
      BY <1>8, <2>1
    <3>1. acc.seat[j] \in Nat /\ acc.seat[j] < acc.count
      BY <1>2, <1>4, <1>6
    <3> QED
      BY <1>6, <3>1
  <2>7. ASSUME NEW j \in now, NEW l \in now, j # l, next.seat[j] = next.seat[l]
        PROVE  ~Overlaps(legs[j], legs[l])
    <3>1. j \in done /\ l \in done
      BY <1>8, <2>6, <2>7
    <3> QED
      BY <1>4, <1>8, <2>7, <3>1
  <2>8. ASSUME NEW e \in next.free
        PROVE  /\ e[2] < next.count
               /\ \A j \in now : next.seat[j] = e[2] => legs[j].dest <= e[1]
    <3>1. CASE e \in acc.free
      <4>1. e[2] \in Nat /\ e[2] < acc.count /\ e[2] # seat
        BY <1>4, <1>6, <2>1, <3>1
      <4>2. e[2] < next.count
        BY <1>6, <2>1, <4>1
      <4>3. ASSUME NEW j \in now, next.seat[j] = e[2] PROVE legs[j].dest <= e[1]
        <5>1. j \in done
          BY <1>8, <4>1, <4>3
        <5> QED
          BY <1>4, <2>6, <3>1, <4>3, <5>1
      <4> QED
        BY <4>2, <4>3
    <3>2. CASE e = <<legs[i].dest, seat>>
      <4>1. e[2] < next.count
        BY <1>6, <2>1, <3>2
      <4>2. legs[i].dest <= e[1]
        BY <1>2, <1>6, <3>2
      <4> QED
        BY <1>8, <2>6, <3>2, <4>1, <4>2
    <3> QED
      BY <2>1, <3>1, <3>2
  <2>9. ASSUME NEW e \in next.free, NEW f \in next.free, e[2] = f[2] PROVE e = f
    <3>1. \A g \in acc.free : g[2] # seat
      <4> SUFFICES ASSUME NEW g \in acc.free PROVE g[2] # acc.count
        BY <2>1
      <4>1. g[2] \in Nat /\ g[2] < acc.count
        BY <1>4, <1>6
      <4> QED
        BY <1>6, <4>1
    <3>2. <<legs[i].dest, seat>>[2] = seat
      OBVIOUS
    <3> QED
      BY <1>4, <2>1, <2>9, <3>1, <3>2
  <2>10. ASSUME NEW u \in 0 .. next.count - 1
        PROVE  \E j \in now : next.seat[j] = u /\ <<legs[j].dest, u>> \in next.free
    <3>1. CASE u = seat
      BY <1>2, <1>8, <2>1, <3>1
    <3>2. CASE u # seat
      <4>1. u \in 0 .. acc.count - 1
        BY <1>6, <2>1, <3>2
      <4>2. PICK j \in done : acc.seat[j] = u /\ <<legs[j].dest, u>> \in acc.free
        BY <1>4, <4>1
      <4> QED
        BY <1>2, <1>8, <2>1, <4>2
    <3> QED
      BY <3>1, <3>2
  <2> QED
    BY <1>5, <2>4, <2>5, <2>7, <2>8, <2>9, <2>10 DEF Packed, next, now, s, i
<1> QED
    BY <1>9, <1>10

\* pack gives every leg a seat, seats nobody where somebody else is, and takes exactly
\* min_seats seats (domain/packing.py: "optimal seat count").
THEOREM PackOptimal ==
    ASSUME NEW legs, AreLegs(legs), DOMAIN legs \subseteq Nat
    PROVE  /\ Pack(legs).count = MinSeats(legs)
           /\ \A i \in DOMAIN legs : Pack(legs).seat[i] \in 0 .. Pack(legs).count - 1
           /\ \A i, j \in DOMAIN legs :
                i # j /\ Pack(legs).seat[i] = Pack(legs).seat[j]
                    => ~Overlaps(legs[i], legs[j])
<1> DEFINE n == Cardinality(DOMAIN legs)
<1>1. PICK acc : Loop(legs, acc)
    BY PackLoops
<1>2. n \in Nat
    BY FS_CardinalityType DEF AreLegs
<1> DEFINE Bad == {k \in 0 .. n : ~Packed(legs, acc[k], k)}
<1>3. 0 \notin Bad
  <2>1. acc[0] = Nobody(legs) /\ 1 .. 0 = {} /\ MinSeats(legs) \in Nat
    BY <1>1, PeakIsDepth DEF Loop
  <2>2. {Sorted(legs)[j] : j \in 1 .. 0} = {}
    BY <2>1
  <2>3. Nobody(legs) \in Accs(legs) /\ Nobody(legs).free = {} /\ Nobody(legs).count = 0
    BY DEF Nobody, Accs
  <2>4. 0 .. 0 - 1 = {}
    OBVIOUS
  <2>5. Packed(legs, Nobody(legs), 0)
    BY <2>1, <2>2, <2>3, <2>4 DEF Packed
  <2> QED
    BY <2>1, <2>5
<1>4. Bad = {}
  <2> SUFFICES ASSUME Bad # {} PROVE FALSE
    OBVIOUS
  <2>1. Bad \subseteq Nat
    BY <1>2
  <2>2. PICK k \in Bad : \A m \in Bad : k <= m
    <3> HIDE DEF Bad
    <3> QED
      BY <2>1, LeastNumber
  <2>3. k \in 1 .. n /\ k - 1 \in 0 .. n
    BY <1>2, <1>3
  <2>4. Packed(legs, acc[k - 1], k - 1)
    BY <1>2, <2>2, <2>3
  <2>5. acc[k] = Place(legs, acc[k - 1], Sorted(legs)[k])
    BY <1>1, <2>3 DEF Loop
  <2>6. Packed(legs, acc[k], k)
    BY <2>3, <2>4, <2>5, PlaceKeeps
  <2> QED
    BY <2>2, <2>6
<1> DEFINE pack == Pack(legs)
<1>5. Packed(legs, pack, n)
  <2>1. pack = acc[n] /\ n \in 0 .. n
    BY <1>1, <1>2 DEF Loop
  <2> HIDE DEF pack
  <2> QED
    BY <1>4, <2>1
<1>6. {Sorted(legs)[j] : j \in 1 .. n} = DOMAIN legs
  <2>1. /\ Sorted(legs) \in [1 .. n -> DOMAIN legs]
        /\ \A i \in DOMAIN legs : \E k \in 1 .. n : Sorted(legs)[k] = i
    BY SortedLists DEF Lists
  <2> QED
    BY <2>1
<1>7. /\ pack.seat \in [DOMAIN legs -> Nat] /\ pack.count \in Nat
      /\ \A i \in DOMAIN legs : pack.seat[i] < pack.count
      /\ \A i, j \in DOMAIN legs :
            i # j /\ pack.seat[i] = pack.seat[j] => ~Overlaps(legs[i], legs[j])
      /\ pack.count <= MinSeats(legs)
  <2> HIDE DEF pack
  <2>1. pack \in Accs(legs)
    BY <1>5 DEF Packed
  <2> QED
    BY <1>5, <1>6, <2>1 DEF Packed, Accs
<1> HIDE DEF pack
<1>8. ASSUME NEW p \in Nat PROVE Depth(legs, p) <= pack.count
  <2> DEFINE At == {i \in DOMAIN legs : Contains(legs[i], p)}
             w == [i \in At |-> pack.seat[i]]
             Used == 0 .. pack.count - 1
  <2>1. \A i, j \in At : Overlaps(legs[i], legs[j])
    <3> SUFFICES ASSUME NEW i \in At, NEW j \in At PROVE Overlaps(legs[i], legs[j])
      OBVIOUS
    <3>1. /\ legs[i].origin \in Nat /\ legs[i].dest \in Nat
          /\ legs[j].origin \in Nat /\ legs[j].dest \in Nat
          /\ legs[i].origin <= p /\ p < legs[i].dest
          /\ legs[j].origin <= p /\ p < legs[j].dest
      BY DEF AreLegs, Contains
    <3> QED
      BY <3>1 DEF Overlaps
  <2>2. \A i \in At : w[i] = pack.seat[i] /\ w[i] \in Used
    BY <1>7
  <2>3. \A i, j \in At : w[i] = w[j] => i = j
    <3> SUFFICES ASSUME NEW i \in At, NEW j \in At, w[i] = w[j], i # j PROVE FALSE
      OBVIOUS
    <3>1. i \in DOMAIN legs /\ j \in DOMAIN legs /\ pack.seat[i] = pack.seat[j]
      OBVIOUS
    <3> HIDE DEF At, w
    <3> QED
      BY <1>7, <2>1, <3>1
  <2>4. w \in Injection(At, Used)
    <3>1. DOMAIN w = At /\ w = [i \in At |-> w[i]]
      OBVIOUS
    <3> HIDE DEF w, At, Used
    <3> QED
      BY <2>2, <2>3, <3>1 DEF Injection, IsInjective
  <2>5. IsFiniteSet(Used) /\ Cardinality(Used) = pack.count
    <3> DEFINE c == pack.count
    <3>1. c \in Nat
      BY <1>7
    <3> HIDE DEF c
    <3>2. 0 \in Int /\ c - 1 \in Int
      BY <3>1
    <3>3. /\ IsFiniteSet(0 .. c - 1)
          /\ Cardinality(0 .. c - 1) = IF 0 > c - 1 THEN 0 ELSE (c - 1) - 0 + 1
      BY <3>2, FS_Interval
    <3>4. Cardinality(0 .. c - 1) = c
      BY <3>1, <3>3
    <3> QED
      BY <3>3, <3>4 DEF c
  <2>6. Cardinality(At) <= Cardinality(Used)
    <3> HIDE DEF w, At, Used
    <3> QED
      BY <2>4, <2>5, FS_Injection
  <2> QED
    BY <2>5, <2>6 DEF Depth
<1>9. MinSeats(legs) <= pack.count
  <2>1. CASE MinSeats(legs) = 0
    BY <1>7, <2>1
  <2>2. CASE \E k \in DOMAIN legs :
                \/ MinSeats(legs) = Depth(legs, legs[k].origin)
                \/ MinSeats(legs) = Depth(legs, legs[k].dest)
    BY <1>8, <2>2 DEF AreLegs
  <2> QED
    BY <2>1, <2>2, PeakIsDepth
<1>10. pack.count = MinSeats(legs)
  <2>1. MinSeats(legs) \in Nat
    BY PeakIsDepth
  <2> QED
    BY <1>7, <1>9, <2>1
<1>11. \A i \in DOMAIN legs : pack.seat[i] \in 0 .. pack.count - 1
    BY <1>7
<1> QED
    BY <1>7, <1>10, <1>11 DEF pack
=============================================================================
