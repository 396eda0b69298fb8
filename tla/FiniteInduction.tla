-------------------------- MODULE FiniteInduction --------------------------
(***************************************************************************)
(* Induction over finite sets for the proofs that count things.  The       *)
(* principles are stated with sets instead of predicates, so that a lemma  *)
(* can be used at any instance; what is proved by them here are the laws   *)
(* of the library's sums.                                                  *)
(***************************************************************************)
EXTENDS FiniteSetsExt, FiniteSetTheorems, TLAPS

(* A non-empty set of natural numbers has a least element.                 *)
LEMMA LeastNumber ==
  ASSUME NEW T, T \subseteq Nat, T # {}
  PROVE  \E n \in T : \A m \in T : n <= m
<1> DEFINE Below == OpToRel(<, Nat)
<1>1. \A m, n \in Nat : <<m, n>> \in Below <=> m < n
  BY DEF OpToRel
<1>2. IsWellFoundedOn(Below, Nat)
  BY NatLessThanWellFounded
<1> HIDE DEF Below
<1>3. \E n \in T : \A m \in T : ~ (<<m, n>> \in Below)
  BY <1>2, WFMin, Zenon
<1>4. PICK n \in T : \A m \in T : ~ (<<m, n>> \in Below)
  BY <1>3
<1>5. \A m \in T : ~ (m < n)
  BY <1>1, <1>4
<1>6. \A m \in T : n <= m
  BY <1>5
<1> QED
  BY <1>6

(* Induction over the subsets of a finite set: what holds of the empty set *)
(* and passes from a set less one element to the set holds of all of them. *)
LEMMA SubsetInduction ==
  ASSUME NEW S, IsFiniteSet(S), NEW Good, {} \in Good,
         \A R \in SUBSET S : R # {} => \E x \in R : R \ {x} \in Good => R \in Good
  PROVE  \A R \in SUBSET S : R \in Good
<1> SUFFICES ASSUME NEW R0 \in SUBSET S, R0 \notin Good PROVE FALSE
  OBVIOUS
<1>1. \A R \in SUBSET S : IsFiniteSet(R) /\ Cardinality(R) \in Nat
  BY FS_Subset, FS_CardinalityType
<1> DEFINE Sizes == {Cardinality(R) : R \in {Q \in SUBSET S : Q \notin Good}}
<1>2. Sizes \subseteq Nat /\ Sizes # {}
  BY <1>1
<1>3. \E n \in Sizes : \A m \in Sizes : n <= m
  <2> HIDE DEF Sizes
  <2> QED
    BY <1>2, LeastNumber
<1>4. PICK R \in SUBSET S : R \notin Good /\ \A m \in Sizes : Cardinality(R) <= m
  BY <1>3
<1>5. PICK x \in R : R \ {x} \in Good => R \in Good
  BY <1>4
<1>6. R \ {x} \in SUBSET S /\ R \ {x} \notin Good
  BY <1>4, <1>5
<1>7. Cardinality(R) <= Cardinality(R \ {x})
  BY <1>4, <1>6
<1>8. Cardinality(R \ {x}) = Cardinality(R) - 1
  BY <1>1, <1>5, FS_RemoveElement
<1> QED
  BY <1>1, <1>7, <1>8

(* Sets differ in size by no more than in elements.                        *)
LEMMA SizesApart ==
  ASSUME NEW A, IsFiniteSet(A), NEW B, IsFiniteSet(B), NEW D, IsFiniteSet(D),
         A \ B \subseteq D, B \ A \subseteq D
  PROVE  /\ Cardinality(A) - Cardinality(B) <= Cardinality(D)
         /\ Cardinality(B) - Cardinality(A) <= Cardinality(D)
<1>1. ASSUME NEW P, IsFiniteSet(P), NEW Q, IsFiniteSet(Q), P \ Q \subseteq D
      PROVE  Cardinality(P) - Cardinality(Q) <= Cardinality(D)
  <2>1. P \in SUBSET (Q \cup D)
    BY <1>1
  <2>2. /\ IsFiniteSet(Q \cup D)
        /\ Cardinality(Q \cup D) = Cardinality(Q) + Cardinality(D) - Cardinality(Q \cap D)
    BY <1>1, FS_Union
  <2>3. Cardinality(P) <= Cardinality(Q \cup D)
    BY <2>1, <2>2, FS_Subset
  <2>4. IsFiniteSet(Q \cap D)
    BY FS_Subset
  <2>5. /\ Cardinality(P) \in Nat /\ Cardinality(Q) \in Nat
        /\ Cardinality(D) \in Nat /\ Cardinality(Q \cap D) \in Nat
    BY <1>1, <2>4, FS_CardinalityType
  <2> QED
    BY <2>2, <2>3, <2>5
<1> QED
  BY <1>1

-----------------------------------------------------------------------------
(* The library's sum of f[x] over a set.                                   *)
SumOf(f, S) == MapThenSumSet(LAMBDA x : f[x], S)

(* As many pairs as f[x], for every x: a sum without recursion.            *)
Pairs(f, S) == {p \in S \X Nat : 1 <= p[2] /\ p[2] <= f[p[1]]}

LEMMA PairsAdd ==
  ASSUME NEW S, NEW x \in S, NEW f, f[x] \in Nat, IsFiniteSet(Pairs(f, S \ {x}))
  PROVE  /\ IsFiniteSet(Pairs(f, S))
         /\ Cardinality(Pairs(f, S)) = f[x] + Cardinality(Pairs(f, S \ {x}))
<1> DEFINE I == 1 .. f[x]
           own == {x} \X I
           rest == Pairs(f, S \ {x})
<1>1. IsFiniteSet(I) /\ Cardinality(I) = f[x]
  BY FS_Interval
<1>2. IsFiniteSet({x}) /\ Cardinality({x}) = 1
  BY FS_Singleton
<1>3. IsFiniteSet(own) /\ Cardinality(own) = f[x]
  <2> HIDE DEF I
  <2>1. IsFiniteSet(own) /\ Cardinality(own) = Cardinality({x}) * Cardinality(I)
    BY <1>1, <1>2, FS_Product
  <2> QED
    BY <1>1, <1>2, <2>1
<1>4. Pairs(f, S) = own \cup rest
  BY DEF Pairs
<1>5. own \cap rest = {}
  BY DEF Pairs
<1>6. IsFiniteSet(rest) /\ Cardinality(rest) \in Nat
  BY FS_CardinalityType
<1> HIDE DEF own, rest
<1>7. /\ IsFiniteSet(own \cup rest)
      /\ Cardinality(own \cup rest) = Cardinality(own) + Cardinality(rest) - Cardinality(own \cap rest)
  BY <1>3, <1>6, FS_Union
<1>8. Cardinality(own \cap rest) = 0
  BY <1>5, FS_EmptySet
<1> QED
  BY <1>3, <1>4, <1>6, <1>7, <1>8 DEF rest

LEMMA PairsType ==
  ASSUME NEW S, IsFiniteSet(S), NEW f, \A x \in S : f[x] \in Nat
  PROVE  /\ \A R \in SUBSET S : /\ IsFiniteSet(Pairs(f, R))
                                /\ Cardinality(Pairs(f, R)) \in Nat
         /\ Cardinality(Pairs(f, {})) = 0
<1> DEFINE Good == {R \in SUBSET S : IsFiniteSet(Pairs(f, R))}
<1>1. Pairs(f, {}) = {}
  BY DEF Pairs
<1>2. {} \in Good
  BY <1>1, FS_EmptySet
<1>3. ASSUME NEW R \in SUBSET S, NEW x \in R, R \ {x} \in Good PROVE R \in Good
  BY <1>3, PairsAdd
<1>4. \A R \in SUBSET S : R \in Good
  <2>1. \A R \in SUBSET S : R # {} => \E x \in R : R \ {x} \in Good => R \in Good
    BY <1>3
  <2> HIDE DEF Good
  <2> QED
    BY <1>2, <2>1, SubsetInduction
<1>5. \A R \in SUBSET S : IsFiniteSet(Pairs(f, R))
  BY <1>4
<1> QED
  BY <1>1, <1>5, FS_CardinalityType, FS_EmptySet

(* What the library's recursion over S computes, if it can be computed.    *)
Recursion(f, S, iter) ==
  iter = [s \in SUBSET S |-> IF s = {} THEN 0
                             ELSE f[CHOOSE x \in s : TRUE] + iter[s \ {CHOOSE x \in s : TRUE}]]

LEMMA RecursionCounts ==
  ASSUME NEW S, IsFiniteSet(S), NEW f, \A x \in S : f[x] \in Nat,
         NEW iter, Recursion(f, S, iter)
  PROVE  \A R \in SUBSET S : iter[R] = Cardinality(Pairs(f, R))
<1> DEFINE Good == {R \in SUBSET S : iter[R] = Cardinality(Pairs(f, R))}
<1>1. {} \in Good
  BY PairsType DEF Recursion
<1>2. ASSUME NEW R \in SUBSET S, R # {}
      PROVE  \E x \in R : R \ {x} \in Good => R \in Good
  <2> DEFINE x == CHOOSE y \in R : TRUE
  <2>1. x \in R
    BY <1>2
  <2>2. iter[R] = f[x] + iter[R \ {x}]
    BY <1>2 DEF Recursion
  <2> HIDE DEF x
  <2>3. Cardinality(Pairs(f, R)) = f[x] + Cardinality(Pairs(f, R \ {x}))
    BY <2>1, PairsType, PairsAdd
  <2>4. R \ {x} \in Good => R \in Good
    BY <2>2, <2>3
  <2> QED
    BY <2>1, <2>4
<1> HIDE DEF Good
<1>3. \A R \in SUBSET S : R \in Good
  BY <1>1, <1>2, SubsetInduction
<1> QED
  BY <1>3 DEF Good

LEMMA RecursionExists ==
  ASSUME NEW S, IsFiniteSet(S), NEW f, \A x \in S : f[x] \in Nat
  PROVE  Recursion(f, S, [s \in SUBSET S |-> Cardinality(Pairs(f, s))])
<1> DEFINE iter == [s \in SUBSET S |-> Cardinality(Pairs(f, s))]
<1>1. ASSUME NEW s \in SUBSET S
      PROVE  iter[s] = IF s = {} THEN 0
                       ELSE f[CHOOSE x \in s : TRUE] + iter[s \ {CHOOSE x \in s : TRUE}]
  <2>1. CASE s = {}
    BY <2>1, PairsType
  <2>2. CASE s # {}
    <3> DEFINE x == CHOOSE y \in s : TRUE
    <3>1. x \in s
      BY <2>2
    <3> HIDE DEF x
    <3>2. Cardinality(Pairs(f, s)) = f[x] + Cardinality(Pairs(f, s \ {x}))
      BY <3>1, PairsType, PairsAdd
    <3>3. iter[s] = f[x] + iter[s \ {x}]
      BY <3>1, <3>2
    <3> QED
      BY <2>2, <3>3 DEF x
  <2> QED
    BY <2>1, <2>2
<1> QED
  BY <1>1 DEF Recursion

(* The sum is the number of pairs.                                         *)
LEMMA SumCounts ==
  ASSUME NEW S, IsFiniteSet(S), NEW f, \A x \in S : f[x] \in Nat
  PROVE  SumOf(f, S) = Cardinality(Pairs(f, S))
<1> DEFINE iter == CHOOSE i : Recursion(f, S, i)
<1>1. SumOf(f, S) = iter[S]
  BY DEF SumOf, MapThenSumSet, MapThenFoldSet, Recursion
<1>2. \E i : Recursion(f, S, i)
  BY RecursionExists
<1>3. Recursion(f, S, iter)
  BY <1>2
<1> HIDE DEF iter
<1> QED
  BY <1>1, <1>3, RecursionCounts

LEMMA SumType ==
  ASSUME NEW S, IsFiniteSet(S), NEW f, \A x \in S : f[x] \in Nat
  PROVE  /\ SumOf(f, S) \in Nat
         /\ SumOf(f, {}) = 0
<1>1. SumOf(f, S) = Cardinality(Pairs(f, S)) /\ Cardinality(Pairs(f, S)) \in Nat
  BY SumCounts, PairsType
<1>2. SumOf(f, {}) = Cardinality(Pairs(f, {}))
  BY SumCounts, FS_EmptySet
<1> QED
  BY <1>1, <1>2, PairsType

(* Whichever element is added last.                                        *)
LEMMA SumAdd ==
  ASSUME NEW S, IsFiniteSet(S), NEW f, \A x \in S : f[x] \in Nat
  PROVE  \A R \in SUBSET S : \A x \in R :
           /\ SumOf(f, R) = f[x] + SumOf(f, R \ {x})
           /\ SumOf(f, R) \in Nat /\ SumOf(f, R \ {x}) \in Nat
<1> TAKE R \in SUBSET S
<1> TAKE x \in R
<1>1. IsFiniteSet(R) /\ IsFiniteSet(R \ {x}) /\ R \ {x} \in SUBSET S
  BY FS_Subset
<1>2. /\ SumOf(f, R) = Cardinality(Pairs(f, R))
      /\ SumOf(f, R \ {x}) = Cardinality(Pairs(f, R \ {x}))
  BY <1>1, SumCounts
<1>3. Cardinality(Pairs(f, R)) = f[x] + Cardinality(Pairs(f, R \ {x}))
  BY <1>1, PairsType, PairsAdd
<1> QED
  BY <1>1, <1>2, <1>3, PairsType

(* Sums of functions that agree, or are added, over a set.                 *)
LEMMA SumPlus ==
  ASSUME NEW S, IsFiniteSet(S), NEW f, NEW g, NEW h,
         \A x \in S : f[x] \in Nat /\ g[x] \in Nat /\ h[x] = f[x] + g[x]
  PROVE  SumOf(h, S) = SumOf(f, S) + SumOf(g, S)
<1>1. ASSUME NEW q, \A x \in S : q[x] \in Nat
      PROVE  \A R \in SUBSET S : \A x \in R :
               SumOf(q, R) = q[x] + SumOf(q, R \ {x}) /\ SumOf(q, R \ {x}) \in Nat
  <2>1. \A R \in SUBSET S : \A x \in R :
          /\ SumOf(q, R) = q[x] + SumOf(q, R \ {x})
          /\ SumOf(q, R) \in Nat /\ SumOf(q, R \ {x}) \in Nat
    BY <1>1, SumAdd, Zenon
  <2> QED
    BY <2>1, Zenon
<1>2. \A x \in S : f[x] \in Nat
  OBVIOUS
<1>3. \A x \in S : g[x] \in Nat
  OBVIOUS
<1>4. \A x \in S : h[x] \in Nat
  OBVIOUS
<1>5. SumOf(f, {}) = 0 /\ SumOf(g, {}) = 0 /\ SumOf(h, {}) = 0
  BY <1>2, <1>3, <1>4, SumType
<1> DEFINE Good == {R \in SUBSET S : SumOf(h, R) = SumOf(f, R) + SumOf(g, R)}
<1>6. {} \in Good
  BY <1>5
<1>7. ASSUME NEW R \in SUBSET S, NEW x \in R, R \ {x} \in Good PROVE R \in Good
  <2>1. SumOf(f, R) = f[x] + SumOf(f, R \ {x}) /\ SumOf(f, R \ {x}) \in Nat
    BY <1>1, <1>2
  <2>2. SumOf(g, R) = g[x] + SumOf(g, R \ {x}) /\ SumOf(g, R \ {x}) \in Nat
    BY <1>1, <1>3
  <2>3. SumOf(h, R) = h[x] + SumOf(h, R \ {x}) /\ SumOf(h, R \ {x}) \in Nat
    BY <1>1, <1>4
  <2> QED
    BY <1>7, <2>1, <2>2, <2>3
<1>8. \A R \in SUBSET S : R # {} => \E x \in R : R \ {x} \in Good => R \in Good
  BY <1>7
<1> HIDE DEF Good
<1>9. \A R \in SUBSET S : R \in Good
  BY <1>6, <1>8, SubsetInduction
<1> QED
  BY <1>9 DEF Good

LEMMA SumSame ==
  ASSUME NEW S, IsFiniteSet(S), NEW f, NEW g, \A x \in S : f[x] \in Nat /\ g[x] = f[x]
  PROVE  SumOf(f, S) = SumOf(g, S)
<1>1. Pairs(f, S) = Pairs(g, S)
  BY DEF Pairs
<1>2. (\A x \in S : f[x] \in Nat) /\ (\A x \in S : g[x] \in Nat)
  OBVIOUS
<1> QED
  BY <1>1, <1>2, SumCounts

LEMMA SumZero ==
  ASSUME NEW S, IsFiniteSet(S), NEW f, \A x \in S : f[x] = 0
  PROVE  SumOf(f, S) = 0
<1>1. Pairs(f, S) = {}
  BY DEF Pairs
<1>2. \A x \in S : f[x] \in Nat
  OBVIOUS
<1> QED
  BY <1>1, <1>2, SumCounts, FS_EmptySet

(* One summand changes.                                                    *)
LEMMA SumMove ==
  ASSUME NEW S, IsFiniteSet(S), NEW f, NEW g, NEW a \in S,
         \A x \in S : f[x] \in Nat /\ g[x] \in Nat /\ (x # a => g[x] = f[x])
  PROVE  SumOf(g, S) = SumOf(f, S) - f[a] + g[a]
<1>1. IsFiniteSet(S \ {a})
  BY FS_RemoveElement
<1>2. SumOf(f, S \ {a}) = SumOf(g, S \ {a})
  BY <1>1, SumSame
<1> QED
  BY <1>2, SumAdd

(* Sums are no further apart than the sum of their differences.            *)
LEMMA SumApart ==
  ASSUME NEW S, IsFiniteSet(S), NEW f, NEW g, NEW d,
         \A x \in S : /\ f[x] \in Nat /\ g[x] \in Nat /\ d[x] \in Nat
                      /\ f[x] - g[x] <= d[x] /\ g[x] - f[x] <= d[x]
  PROVE  /\ SumOf(f, S) - SumOf(g, S) <= SumOf(d, S)
         /\ SumOf(g, S) - SumOf(f, S) <= SumOf(d, S)
<1>1. ASSUME NEW q, \A x \in S : q[x] \in Nat
      PROVE  \A R \in SUBSET S : \A x \in R :
               SumOf(q, R) = q[x] + SumOf(q, R \ {x}) /\ SumOf(q, R \ {x}) \in Nat
  <2>1. \A R \in SUBSET S : \A x \in R :
          /\ SumOf(q, R) = q[x] + SumOf(q, R \ {x})
          /\ SumOf(q, R) \in Nat /\ SumOf(q, R \ {x}) \in Nat
    BY <1>1, SumAdd, Zenon
  <2> QED
    BY <2>1, Zenon
<1>2. \A x \in S : f[x] \in Nat
  OBVIOUS
<1>3. \A x \in S : g[x] \in Nat
  OBVIOUS
<1>4. \A x \in S : d[x] \in Nat
  OBVIOUS
<1>5. SumOf(f, {}) = 0 /\ SumOf(g, {}) = 0 /\ SumOf(d, {}) = 0
  BY <1>2, <1>3, <1>4, SumType
<1> DEFINE Apart(R) == /\ SumOf(f, R) - SumOf(g, R) <= SumOf(d, R)
                       /\ SumOf(g, R) - SumOf(f, R) <= SumOf(d, R)
           Good == {R \in SUBSET S : Apart(R)}
<1>6. {} \in Good
  BY <1>5
<1>7. ASSUME NEW R \in SUBSET S, NEW x \in R, R \ {x} \in Good PROVE R \in Good
  <2>1. SumOf(f, R) = f[x] + SumOf(f, R \ {x}) /\ SumOf(f, R \ {x}) \in Nat
    BY <1>1, <1>2
  <2>2. SumOf(g, R) = g[x] + SumOf(g, R \ {x}) /\ SumOf(g, R \ {x}) \in Nat
    BY <1>1, <1>3
  <2>3. SumOf(d, R) = d[x] + SumOf(d, R \ {x}) /\ SumOf(d, R \ {x}) \in Nat
    BY <1>1, <1>4
  <2> QED
    BY <1>7, <2>1, <2>2, <2>3
<1>8. \A R \in SUBSET S : R # {} => \E x \in R : R \ {x} \in Good => R \in Good
  BY <1>7
<1> HIDE DEF Good
<1>9. \A R \in SUBSET S : R \in Good
  BY <1>6, <1>8, SubsetInduction
<1> QED
  BY <1>9 DEF Good

(* The sizes of the classes of a set add up to its own, if every element   *)
(* has one class and there are no others.                                  *)
LEMMA SumOfClasses ==
  ASSUME NEW S, IsFiniteSet(S), NEW A, IsFiniteSet(A), NEW class \in [A -> S], NEW f,
         \A x \in S : f[x] = Cardinality({k \in A : class[k] = x})
  PROVE  SumOf(f, S) = Cardinality(A)
<1> DEFINE In(R) == {k \in A : class[k] \in R}
           Of(x) == {k \in A : class[k] = x}
           Good == {R \in SUBSET S : SumOf(f, R) = Cardinality(In(R))}
<1>1. ASSUME NEW R PROVE IsFiniteSet(In(R)) /\ Cardinality(In(R)) \in Nat
  BY FS_Subset, FS_CardinalityType
<1>2. ASSUME NEW x PROVE IsFiniteSet(Of(x)) /\ Cardinality(Of(x)) \in Nat
  BY FS_Subset, FS_CardinalityType
<1>3. \A x \in S : f[x] \in Nat
  BY <1>2
<1>4. {} \in Good
  <2>1. In({}) = {}
    OBVIOUS
  <2> QED
    BY <1>3, <2>1, SumType, FS_EmptySet
<1>5. ASSUME NEW R \in SUBSET S, NEW x \in R, R \ {x} \in Good PROVE R \in Good
  <2>1. SumOf(f, R) = f[x] + SumOf(f, R \ {x})
    BY <1>3, SumAdd
  <2>2. In(R) = Of(x) \cup In(R \ {x}) /\ Of(x) \cap In(R \ {x}) = {}
    OBVIOUS
  <2>3. Cardinality(In(R)) = Cardinality(Of(x)) + Cardinality(In(R \ {x}))
    <3> DEFINE own == Of(x)
               rest == In(R \ {x})
    <3>1. /\ IsFiniteSet(own) /\ Cardinality(own) \in Nat
          /\ IsFiniteSet(rest) /\ Cardinality(rest) \in Nat
      BY <1>1, <1>2
    <3>2. In(R) = own \cup rest /\ own \cap rest = {}
      BY <2>2
    <3> HIDE DEF own, rest
    <3>3. Cardinality(own \cup rest) =
            Cardinality(own) + Cardinality(rest) - Cardinality(own \cap rest)
      BY <3>1, FS_Union
    <3>4. Cardinality(own \cap rest) = 0
      BY <3>2, FS_EmptySet
    <3>5. Cardinality(own \cup rest) = Cardinality(own) + Cardinality(rest)
      BY <3>1, <3>3, <3>4
    <3>6. Cardinality(In(R)) = Cardinality(own) + Cardinality(rest)
      BY <3>2, <3>5
    <3> QED
      BY <3>6 DEF own, rest
  <2> QED
    BY <1>5, <2>1, <2>3
<1>6. \A R \in SUBSET S : R # {} => \E x \in R : R \ {x} \in Good => R \in Good
  BY <1>5
<1>7. \A R \in SUBSET S : R \in Good
  <2> HIDE DEF Good
  <2> QED
    BY <1>4, <1>6, SubsetInduction
<1>8. In(S) = A
  OBVIOUS
<1> QED
  BY <1>7, <1>8

(* The same sum, written with one column of a table of functions.          *)
LEMMA SumOfColumn ==
  ASSUME NEW S, IsFiniteSet(S), NEW m, NEW c, \A x \in S : m[x][c] \in Nat
  PROVE  MapThenSumSet(LAMBDA x : m[x][c], S) = SumOf([x \in S |-> m[x][c]], S)
<1> DEFINE f == [x \in S |-> m[x][c]]
           Column(i) == i = [s \in SUBSET S |-> IF s = {} THEN 0
                                ELSE m[CHOOSE x \in s : TRUE][c] + i[s \ {CHOOSE x \in s : TRUE}]]
           iter == CHOOSE i : Column(i)
<1>1. MapThenSumSet(LAMBDA x : m[x][c], S) = iter[S]
  BY DEF MapThenSumSet, MapThenFoldSet
<1>2. ASSUME NEW i PROVE Column(i) <=> Recursion(f, S, i)
  <2>1. \A s \in SUBSET S : s # {} => f[CHOOSE x \in s : TRUE] = m[CHOOSE x \in s : TRUE][c]
    OBVIOUS
  <2> HIDE DEF f
  <2> QED
    BY <2>1 DEF Recursion
<1>3. \A x \in S : f[x] \in Nat
  OBVIOUS
<1> HIDE DEF f
<1>4. \E i : Column(i)
  BY <1>2, <1>3, RecursionExists
<1>5. Column(iter)
  BY <1>4
<1>6. iter[S] = Cardinality(Pairs(f, S))
  <2>1. Recursion(f, S, iter)
    BY <1>2, <1>5
  <2> HIDE DEF iter
  <2> QED
    BY <1>3, <2>1, RecursionCounts
<1> QED
  BY <1>1, <1>3, <1>6, SumCounts DEF f
=============================================================================
