----------------------------- MODULE FiniteSums -----------------------------
(***************************************************************************)
(* What the proofs about ratings and about the queue's size need to know   *)
(* of SumFunctionOnSet, the sum of a function over a finite set: its value *)
(* on the empty set, its type and bounds, and that an element taken out or *)
(* put in, whichever the fold would choose first, counts once.             *)
(*                                                                         *)
(* The fold is a recursive function, and each fact is proved by looking at *)
(* a smallest set that would not have it.                                  *)
(***************************************************************************)
EXTENDS Integers, Functions, FiniteSetTheorems, WellFoundedInduction, TLAPS

\* Among subsets of a finite set there is one that contains no other of them.
LEMMA SmallestSet ==
  ASSUME NEW S, IsFiniteSet(S), NEW B \in SUBSET SUBSET S, B # {}
  PROVE  \E T \in B : \A U \in B : U \subseteq T => U = T
<1>1. IsWellFoundedOn(StrictSubsetOrdering(S), FiniteSubsetsOf(S))
  BY FS_StrictSubsetOrderingWellFounded
<1>2. B \subseteq FiniteSubsetsOf(S)
  BY FS_FiniteSubsetsOfFinite
<1>3. PICK T \in B : \A U \in B : <<U, T>> \notin StrictSubsetOrdering(S)
  BY <1>1, <1>2, WFMin
<1> QED
  BY <1>3 DEF StrictSubsetOrdering

\* Some number of a set of natural numbers is the least one.
LEMMA LeastNumber ==
  ASSUME NEW N \in SUBSET Nat, N # {}
  PROVE  \E n \in N : \A k \in N : n <= k
<1>1. PICK n \in N : \A k \in N : <<k, n>> \notin OpToRel(<, Nat)
  BY NatLessThanWellFounded, WFMin, Zenon
<1>2. \A k \in N : ~(k < n)
  BY <1>1, Zenon DEF OpToRel
<1> QED
  BY <1>2

-----------------------------------------------------------------------------
(* The recursion of the fold                                               *)

First(T) == CHOOSE x \in T : TRUE

\* sum is the function that SumFunctionOnSet(f, S) computes with.
IsSum(sum, f, S) ==
  sum = [T \in SUBSET S |-> IF T = {} THEN 0 ELSE f[First(T)] + sum[T \ {First(T)}]]

\* Two such functions agree wherever the functions they sum do.
LEMMA SumUnique ==
  ASSUME NEW f, NEW g, NEW S, NEW T, NEW sum, NEW tum,
         IsFiniteSet(S), IsSum(sum, f, S), IsSum(tum, g, T),
         NEW R \in SUBSET S, R \in SUBSET T, \A x \in R : f[x] = g[x]
  PROVE  sum[R] = tum[R]
<1> DEFINE B == {U \in SUBSET R : sum[U] # tum[U]}
<1>1. SUFFICES ASSUME B # {} PROVE FALSE
  OBVIOUS
<1>2. IsFiniteSet(R)
  BY FS_Subset
<1>3. PICK U \in B : \A V \in B : V \subseteq U => V = U
  <2>1. B \in SUBSET SUBSET R
    OBVIOUS
  <2> HIDE DEF B
  <2> QED
    BY <1>1, <1>2, <2>1, SmallestSet
<1>4. /\ sum[U] = IF U = {} THEN 0 ELSE f[First(U)] + sum[U \ {First(U)}]
      /\ tum[U] = IF U = {} THEN 0 ELSE g[First(U)] + tum[U \ {First(U)}]
  BY DEF IsSum
<1>5. U # {}
  BY <1>4
<1>6. First(U) \in U
  BY <1>5 DEF First
<1>7. sum[U \ {First(U)}] = tum[U \ {First(U)}]
  BY <1>3, <1>6
<1> QED
  BY <1>4, <1>5, <1>6, <1>7

\* There is such a function: on a smallest set without one, the sums of its
\* proper subsets would make one.
LEMMA SumExists ==
  ASSUME NEW f, NEW S, IsFiniteSet(S)
  PROVE  \E sum : IsSum(sum, f, S)
<1> DEFINE B == {T \in SUBSET S : ~\E sum : IsSum(sum, f, T)}
<1>1. SUFFICES ASSUME B # {} PROVE FALSE
  OBVIOUS
<1>2. PICK T \in B : \A U \in B : U \subseteq T => U = T
  <2>1. B \in SUBSET SUBSET S
    OBVIOUS
  <2> HIDE DEF B
  <2> QED
    BY <1>1, <2>1, SmallestSet
<1> DEFINE sumOf(U) == CHOOSE sum : IsSum(sum, f, U)
           val(U) == sumOf(U)[U]
           new == [U \in SUBSET T |->
                     IF U = {} THEN 0 ELSE f[First(U)] + val(U \ {First(U)})]
<1>3. ASSUME NEW U \in SUBSET T, U # T PROVE IsSum(sumOf(U), f, U) /\ IsFiniteSet(U)
  <2>1. \E sum : IsSum(sum, f, U)
    BY <1>2, <1>3
  <2>2. IsFiniteSet(U)
    BY FS_Subset
  <2> QED
    BY <2>1, <2>2
<1> HIDE DEF sumOf
<1>4. ASSUME NEW U \in SUBSET T, U # T PROVE val(U) = new[U]
  <2>1. IsSum(sumOf(U), f, U) /\ IsFiniteSet(U)
    BY <1>3, <1>4
  <2>2. val(U) = IF U = {} THEN 0 ELSE f[First(U)] + sumOf(U)[U \ {First(U)}]
    BY <2>1 DEF IsSum
  <2>3. CASE U = {}
    BY <2>2, <2>3
  <2>4. CASE U # {}
    <3> DEFINE V == U \ {First(U)}
    <3>1. V \in SUBSET T /\ V # T /\ V \in SUBSET U
      BY <1>4
    <3>2. IsSum(sumOf(V), f, V) /\ IsFiniteSet(V)
      BY <1>3, <3>1
    <3>3. sumOf(U)[V] = sumOf(V)[V]
      BY <2>1, <3>1, <3>2, SumUnique
    <3> QED
      BY <2>2, <2>4, <3>3
  <2> QED
    BY <2>3, <2>4
<1>5. ASSUME NEW U \in SUBSET T, U # {} PROVE val(U \ {First(U)}) = new[U \ {First(U)}]
  <2>1. First(U) \in U
    BY <1>5 DEF First
  <2> HIDE DEF val, new
  <2> QED
    BY <1>4, <2>1
<1> HIDE DEF val
<1>6. new = [U \in SUBSET T |-> IF U = {} THEN 0 ELSE f[First(U)] + new[U \ {First(U)}]]
  <2> DEFINE other == [U \in SUBSET T |->
                         IF U = {} THEN 0 ELSE f[First(U)] + new[U \ {First(U)}]]
  <2>1. \A U \in SUBSET T : new[U] = other[U]
    <3> TAKE U \in SUBSET T
    <3>1. new[U] = IF U = {} THEN 0 ELSE f[First(U)] + val(U \ {First(U)})
      OBVIOUS
    <3>2. other[U] = IF U = {} THEN 0 ELSE f[First(U)] + new[U \ {First(U)}]
      OBVIOUS
    <3> HIDE DEF new, other
    <3> QED
      BY <1>5, <3>1, <3>2
  <2> QED
    BY <2>1
<1>7. IsSum(new, f, T)
  <2> HIDE DEF new
  <2> QED
    BY <1>6 DEF IsSum
<1> QED
  BY <1>2, <1>7

\* So the community module's operator is the recursion.
LEMMA SumIs ==
  ASSUME NEW f, NEW S, IsFiniteSet(S)
  PROVE  \E sum : IsSum(sum, f, S) /\ SumFunctionOnSet(f, S) = sum[S]
<1>1. PICK any : IsSum(any, f, S)
  BY SumExists
<1> QED
  BY <1>1 DEF SumFunctionOnSet, FoldFunctionOnSet, MapThenFoldSet, IsSum, First

-----------------------------------------------------------------------------
(* The facts                                                               *)

\* What the recursion says of the sum.
LEMMA SumStep ==
  ASSUME NEW f, NEW S, IsFiniteSet(S)
  PROVE  /\ SumFunctionOnSet(f, {}) = 0
         /\ S # {} => /\ First(S) \in S
                      /\ SumFunctionOnSet(f, S)
                           = f[First(S)] + SumFunctionOnSet(f, S \ {First(S)})
<1>1. SumFunctionOnSet(f, {}) = 0
  <2>1. PICK sum : IsSum(sum, f, {}) /\ SumFunctionOnSet(f, {}) = sum[{}]
    BY FS_EmptySet, SumIs
  <2> QED
    BY <2>1 DEF IsSum
<1>2. ASSUME S # {}
      PROVE  /\ First(S) \in S
             /\ SumFunctionOnSet(f, S) = f[First(S)] + SumFunctionOnSet(f, S \ {First(S)})
  <2> DEFINE R == S \ {First(S)}
  <2>1. First(S) \in S
    BY <1>2 DEF First
  <2>2. R \in SUBSET S /\ IsFiniteSet(R)
    BY FS_Subset
  <2> HIDE DEF R
  <2>3. PICK sum : IsSum(sum, f, S) /\ SumFunctionOnSet(f, S) = sum[S]
    BY SumIs
  <2>4. PICK tum : IsSum(tum, f, R) /\ SumFunctionOnSet(f, R) = tum[R]
    BY <2>2, SumIs
  <2>5. sum[R] = tum[R]
    BY <2>2, <2>3, <2>4, SumUnique
  <2>6. sum[S] = f[First(S)] + sum[R]
    BY <1>2, <2>3 DEF IsSum, R
  <2> QED
    BY <2>1, <2>3, <2>4, <2>5, <2>6 DEF R
<1> QED
  BY <1>1, <1>2

\* A sum looks at the values on its set only.
LEMMA SumSame ==
  ASSUME NEW f, NEW g, NEW S, IsFiniteSet(S), \A x \in S : f[x] = g[x]
  PROVE  SumFunctionOnSet(f, S) = SumFunctionOnSet(g, S)
<1>1. PICK sum : IsSum(sum, f, S) /\ SumFunctionOnSet(f, S) = sum[S]
  BY SumIs
<1>2. PICK tum : IsSum(tum, g, S) /\ SumFunctionOnSet(g, S) = tum[S]
  BY SumIs
<1>3. sum[S] = tum[S]
  BY <1>1, <1>2, SumUnique
<1> QED
  BY <1>1, <1>2, <1>3

\* A sum of integers is one; each at most b either way, it is at most b times
\* their number either way.
LEMMA SumBounds ==
  ASSUME NEW f, NEW S, IsFiniteSet(S), NEW b \in Nat, \A x \in S : f[x] \in -b..b
  PROVE  /\ SumFunctionOnSet(f, S) \in Int
         /\ -(b * Cardinality(S)) <= SumFunctionOnSet(f, S)
         /\ SumFunctionOnSet(f, S) <= b * Cardinality(S)
<1> DEFINE Good(T) == /\ SumFunctionOnSet(f, T) \in Int
                      /\ -(b * Cardinality(T)) <= SumFunctionOnSet(f, T)
                      /\ SumFunctionOnSet(f, T) <= b * Cardinality(T)
           B == {T \in SUBSET S : ~Good(T)}
<1>1. SUFFICES ASSUME B # {} PROVE FALSE
  OBVIOUS
<1> HIDE DEF Good
<1>2. PICK T \in B : \A U \in B : U \subseteq T => U = T
  <2>1. B \in SUBSET SUBSET S
    OBVIOUS
  <2> HIDE DEF B
  <2> QED
    BY <1>1, <2>1, SmallestSet
<1>3. IsFiniteSet(T)
  BY FS_Subset
<1>4. T # {}
  <2>1. Good({})
    <3>1. b * 0 = 0
      OBVIOUS
    <3>2. SumFunctionOnSet(f, {}) = 0
      BY SumStep
    <3>3. Cardinality({}) = 0
      BY FS_EmptySet
    <3> QED
      BY <3>1, <3>2, <3>3 DEF Good
  <2> QED
    BY <2>1
<1> DEFINE x == First(T)
           R == T \ {x}
<1>5. x \in T /\ SumFunctionOnSet(f, T) = f[x] + SumFunctionOnSet(f, R)
  BY <1>3, <1>4, SumStep
<1>6. Good(R)
  BY <1>2, <1>5
<1>7. Cardinality(T) = Cardinality(R) + 1 /\ Cardinality(R) \in Nat
  <2>1. IsFiniteSet(R) /\ Cardinality(R) = Cardinality(T) - 1
    BY <1>3, <1>5, FS_RemoveElement
  <2>2. Cardinality(R) \in Nat /\ Cardinality(T) \in Nat
    BY <1>3, <2>1, FS_CardinalityType
  <2> QED
    BY <2>1, <2>2
<1>8. f[x] \in -b..b
  BY <1>5
<1> HIDE DEF x, R
<1>9. /\ b * Cardinality(T) = b * Cardinality(R) + b
      /\ b * Cardinality(R) \in Int
  <2>1. ASSUME NEW n \in Nat PROVE b * (n + 1) = b * n + b /\ b * n \in Int
    BY Z3
  <2> QED
    BY <1>7, <2>1
<1>10. Good(T)
  BY <1>5, <1>6, <1>8, <1>9 DEF Good
<1> QED
  BY <1>2, <1>10

\* A sum of natural numbers is one.
LEMMA SumNat ==
  ASSUME NEW f, NEW S, IsFiniteSet(S), \A x \in S : f[x] \in Nat
  PROVE  SumFunctionOnSet(f, S) \in Nat
<1> DEFINE B == {T \in SUBSET S : SumFunctionOnSet(f, T) \notin Nat}
<1>1. SUFFICES ASSUME B # {} PROVE FALSE
  OBVIOUS
<1>2. PICK T \in B : \A U \in B : U \subseteq T => U = T
  <2>1. B \in SUBSET SUBSET S
    OBVIOUS
  <2> HIDE DEF B
  <2> QED
    BY <1>1, <2>1, SmallestSet
<1>3. IsFiniteSet(T)
  BY FS_Subset
<1>4. T # {}
  <2>1. SumFunctionOnSet(f, {}) = 0
    BY SumStep
  <2>2. {} \notin B
    BY <2>1
  <2> QED
    BY <1>2, <2>2
<1> DEFINE x == First(T)
           R == T \ {x}
<1>5. x \in T /\ SumFunctionOnSet(f, T) = f[x] + SumFunctionOnSet(f, R)
  BY <1>3, <1>4, SumStep
<1>6. SumFunctionOnSet(f, R) \in Nat
  BY <1>2, <1>5
<1>7. f[x] \in Nat
  BY <1>5
<1> HIDE DEF x, R
<1> QED
  BY <1>2, <1>5, <1>6, <1>7

\* A sum of integers is one, however large they are.
LEMMA SumInt ==
  ASSUME NEW f, NEW S, IsFiniteSet(S), \A x \in S : f[x] \in Int
  PROVE  SumFunctionOnSet(f, S) \in Int
<1> DEFINE B == {T \in SUBSET S : SumFunctionOnSet(f, T) \notin Int}
<1>1. SUFFICES ASSUME B # {} PROVE FALSE
  OBVIOUS
<1>2. PICK T \in B : \A U \in B : U \subseteq T => U = T
  <2>1. B \in SUBSET SUBSET S
    OBVIOUS
  <2> HIDE DEF B
  <2> QED
    BY <1>1, <2>1, SmallestSet
<1>3. IsFiniteSet(T)
  BY FS_Subset
<1>4. T # {}
  <2>1. SumFunctionOnSet(f, {}) = 0
    BY SumStep
  <2>2. {} \notin B
    BY <2>1
  <2> QED
    BY <1>2, <2>2
<1> DEFINE x == First(T)
           R == T \ {x}
<1>5. x \in T /\ SumFunctionOnSet(f, T) = f[x] + SumFunctionOnSet(f, R)
  BY <1>3, <1>4, SumStep
<1>6. SumFunctionOnSet(f, R) \in Int
  BY <1>2, <1>5
<1>7. f[x] \in Int
  BY <1>5
<1> HIDE DEF x, R
<1> QED
  BY <1>2, <1>5, <1>6, <1>7

\* Any element taken out takes its value with it, whichever the fold chooses.
LEMMA SumRemove ==
  ASSUME NEW f, NEW S, IsFiniteSet(S), \A x \in S : f[x] \in Int, NEW y \in S
  PROVE  SumFunctionOnSet(f, S) = f[y] + SumFunctionOnSet(f, S \ {y})
<1> DEFINE Good(T) == \A x \in T : SumFunctionOnSet(f, T) = f[x] + SumFunctionOnSet(f, T \ {x})
           B == {T \in SUBSET S : ~Good(T)}
<1>1. SUFFICES ASSUME B # {} PROVE FALSE
  OBVIOUS
<1>2. PICK T \in B : \A U \in B : U \subseteq T => U = T
  <2>1. B \in SUBSET SUBSET S
    OBVIOUS
  <2> HIDE DEF B
  <2> QED
    BY <1>1, <2>1, SmallestSet
<1>3. PICK x \in T : SumFunctionOnSet(f, T) # f[x] + SumFunctionOnSet(f, T \ {x})
  OBVIOUS
<1> HIDE DEF Good
<1> DEFINE c == First(T)
<1>4. IsFiniteSet(T) /\ IsFiniteSet(T \ {x}) /\ IsFiniteSet(T \ {c})
  BY FS_Subset
<1>5. c \in T /\ SumFunctionOnSet(f, T) = f[c] + SumFunctionOnSet(f, T \ {c})
  BY <1>3, <1>4, SumStep
<1>6. c # x
  BY <1>3, <1>5
<1>7. Good(T \ {c}) /\ Good(T \ {x})
  BY <1>2, <1>3, <1>5
<1> HIDE DEF c
<1>8. /\ SumFunctionOnSet(f, T \ {c}) = f[x] + SumFunctionOnSet(f, (T \ {c}) \ {x})
      /\ SumFunctionOnSet(f, T \ {x}) = f[c] + SumFunctionOnSet(f, (T \ {x}) \ {c})
  BY <1>3, <1>5, <1>6, <1>7 DEF Good
<1>9. (T \ {c}) \ {x} = (T \ {x}) \ {c}
  OBVIOUS
<1>10. SumFunctionOnSet(f, (T \ {x}) \ {c}) \in Int /\ f[x] \in Int /\ f[c] \in Int
  <2>1. IsFiniteSet((T \ {x}) \ {c})
    BY <1>4, FS_Subset
  <2>2. \A z \in (T \ {x}) \ {c} : f[z] \in Int
    OBVIOUS
  <2> QED
    BY <1>3, <1>5, <2>1, <2>2, SumInt
<1>11. PICK r \in Int : r = SumFunctionOnSet(f, (T \ {x}) \ {c})
  BY <1>10
<1>12. /\ SumFunctionOnSet(f, T \ {c}) = f[x] + r
       /\ SumFunctionOnSet(f, T \ {x}) = f[c] + r
  BY <1>8, <1>9, <1>11
<1>13. f[c] + (f[x] + r) = f[x] + (f[c] + r)
  BY <1>10
<1> QED
  BY <1>3, <1>5, <1>12, <1>13

\* An element put in brings its value.
LEMMA SumAdd ==
  ASSUME NEW f, NEW S, IsFiniteSet(S), NEW y, y \notin S, f[y] \in Int, \A x \in S : f[x] \in Int
  PROVE  SumFunctionOnSet(f, S \cup {y}) = SumFunctionOnSet(f, S) + f[y]
<1> DEFINE T == S \cup {y}
<1>1. IsFiniteSet(T) /\ T \ {y} = S /\ y \in T /\ \A x \in T : f[x] \in Int
  BY FS_AddElement
<1>2. SumFunctionOnSet(f, T) = f[y] + SumFunctionOnSet(f, T \ {y})
  <2> HIDE DEF T
  <2> QED
    BY <1>1, SumRemove
<1>3. PICK r \in Int : r = SumFunctionOnSet(f, S)
  BY SumInt
<1>4. f[y] + r = r + f[y]
  OBVIOUS
<1> QED
  BY <1>1, <1>2, <1>3, <1>4
=============================================================================
