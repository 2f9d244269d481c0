---------------------------- MODULE SumTheorems ------------------------------
(***************************************************************************)
(* What the sums of the models come to: SumFunctionOnSet(f, S) of the      *)
(* community modules folds f over the elements of a finite set S in an     *)
(* order of its own choice, by a recursive function on the subsets of S.   *)
(*                                                                         *)
(* That this function exists, and that the order does not matter, is shown *)
(* by looking at a smallest subset for which it would be otherwise.  The   *)
(* least and the largest of a set are found the same way.                  *)
(***************************************************************************)
EXTENDS Integers, Functions, FiniteSetsExt, FiniteSetTheorems, WellFoundedInduction, TLAPS

ChosenFrom(s) == CHOOSE x \in s : TRUE

\* it is the function by which the fold of f over S is computed.
Computes(it, f, S) ==
    it = [s \in SUBSET S |-> IF s = {} THEN 0 ELSE f[ChosenFrom(s)] + it[s \ {ChosenFrom(s)}]]

\* Among the subsets of a finite set that have some property one is smallest.
LEMMA SmallestSubset ==
    ASSUME NEW S, IsFiniteSet(S), NEW Bad \in SUBSET (SUBSET S), Bad # {}
    PROVE  \E U \in Bad : \A V \in Bad : V \subseteq U => V = U
<1>1. IsWellFoundedOn(StrictSubsetOrdering(S), SUBSET S)
  BY FS_StrictSubsetOrderingWellFounded, FS_FiniteSubsetsOfFinite
<1>2. PICK U \in Bad : \A V \in Bad : ~ (<<V, U>> \in StrictSubsetOrdering(S))
  BY <1>1, WFMin
<1> QED
  BY <1>2 DEF StrictSubsetOrdering

\* Two such functions, on two sets, agree where both are defined.
LEMMA ComputesAlike ==
    ASSUME NEW f, NEW S, NEW T, IsFiniteSet(S),
           NEW i, Computes(i, f, S), NEW j, Computes(j, f, T),
           NEW u \in SUBSET (S \cap T)
    PROVE  i[u] = j[u]
<1> DEFINE Bad == {s \in SUBSET (S \cap T) : i[s] # j[s]}
<1>1. SUFFICES ASSUME Bad # {} PROVE FALSE
  OBVIOUS
<1>2. PICK U \in Bad : \A V \in Bad : V \subseteq U => V = U
  <2>1. Bad \in SUBSET (SUBSET S)
    OBVIOUS
  <2> HIDE DEF Bad
  <2> QED
    BY <1>1, <2>1, SmallestSubset
<1>3. U \in SUBSET S /\ U \in SUBSET T /\ i[U] # j[U]
  OBVIOUS
<1>4. U # {}
  BY <1>3 DEF Computes
<1>5. ChosenFrom(U) \in U
  BY <1>4 DEF ChosenFrom
<1>6. i[U \ {ChosenFrom(U)}] = j[U \ {ChosenFrom(U)}]
  BY <1>2, <1>5
<1>7. i[U] = f[ChosenFrom(U)] + i[U \ {ChosenFrom(U)}]
  BY <1>3, <1>4 DEF Computes
<1>8. j[U] = f[ChosenFrom(U)] + j[U \ {ChosenFrom(U)}]
  BY <1>3, <1>4 DEF Computes
<1> QED
  BY <1>3, <1>6, <1>7, <1>8

LEMMA SumUnfold ==
    ASSUME NEW f, NEW S
    PROVE  SumFunctionOnSet(f, S) = (CHOOSE it : Computes(it, f, S))[S]
  BY DEF SumFunctionOnSet, FoldFunctionOnSet, MapThenFoldSet, Computes, ChosenFrom

\* Wherever there is such a function it gives the sum of every subset.
LEMMA SumComputed ==
    ASSUME NEW f, NEW S, IsFiniteSet(S), NEW i, Computes(i, f, S),
           NEW T \in SUBSET S, \E j : Computes(j, f, T)
    PROVE  SumFunctionOnSet(f, T) = i[T]
<1> DEFINE j == CHOOSE it : Computes(it, f, T)
<1>1. Computes(j, f, T)
  OBVIOUS
<1>2. SumFunctionOnSet(f, T) = j[T]
  BY SumUnfold
<1> HIDE DEF j
<1>3. T \in SUBSET (S \cap T)
  OBVIOUS
<1>4. i[T] = j[T]
  BY <1>1, <1>3, ComputesAlike
<1> QED
  BY <1>2, <1>4

\* There is one for every finite set.
LEMMA ComputesExists ==
    ASSUME NEW f, NEW S, IsFiniteSet(S)
    PROVE  \E i : Computes(i, f, S)
<1> DEFINE Bad == {U \in SUBSET S : ~ \E i : Computes(i, f, U)}
           Sum(u) == SumFunctionOnSet(f, u)
<1>1. SUFFICES ASSUME Bad # {} PROVE FALSE
  OBVIOUS
<1>2. PICK U \in Bad : \A V \in Bad : V \subseteq U => V = U
  <2>1. Bad \in SUBSET (SUBSET S)
    OBVIOUS
  <2> HIDE DEF Bad
  <2> QED
    BY <1>1, <2>1, SmallestSubset
<1>3. ASSUME NEW w \in SUBSET U, w # U
      PROVE  Sum(w) = IF w = {} THEN 0 ELSE f[ChosenFrom(w)] + Sum(w \ {ChosenFrom(w)})
  <2>1. IsFiniteSet(w)
    BY FS_Subset
  <2>2. PICK i : Computes(i, f, w)
    BY <1>2, <1>3
  <2>3. Sum(w) = i[w]
    BY <2>1, <2>2, SumComputed
  <2>4. CASE w = {}
    BY <2>2, <2>3, <2>4 DEF Computes
  <2>5. CASE w # {}
    <3> DEFINE v == w \ {ChosenFrom(w)}
    <3>1. v \in SUBSET w /\ v \in SUBSET U /\ v # U
      BY <1>3, <2>5 DEF ChosenFrom
    <3>2. \E j : Computes(j, f, v)
      BY <1>2, <3>1
    <3>3. Sum(v) = i[v]
      BY <2>1, <2>2, <3>1, <3>2, SumComputed
    <3>4. i[w] = f[ChosenFrom(w)] + i[v]
      BY <2>2, <2>5 DEF Computes
    <3> QED
      BY <2>3, <2>5, <3>3, <3>4
  <2> QED
    BY <2>4, <2>5
<1> DEFINE it == [s \in SUBSET U |-> IF s = {} THEN 0 ELSE f[ChosenFrom(s)] + Sum(s \ {ChosenFrom(s)})]
<1>4. ASSUME NEW s \in SUBSET U, s # {}
      PROVE  it[s \ {ChosenFrom(s)}] = Sum(s \ {ChosenFrom(s)})
  <2> DEFINE w == s \ {ChosenFrom(s)}
  <2>1. w \in SUBSET U /\ w # U
    BY <1>4 DEF ChosenFrom
  <2>2. it[w] = IF w = {} THEN 0 ELSE f[ChosenFrom(w)] + Sum(w \ {ChosenFrom(w)})
    BY <2>1
  <2> HIDE DEF w, Sum, it
  <2>3. it[w] = Sum(w)
    BY <1>3, <2>1, <2>2
  <2> QED
    BY <2>3 DEF w
<1>5. Computes(it, f, U)
  <2>1. [s \in SUBSET U |-> IF s = {} THEN 0 ELSE f[ChosenFrom(s)] + it[s \ {ChosenFrom(s)}]]
        = [s \in SUBSET U |-> IF s = {} THEN 0 ELSE f[ChosenFrom(s)] + Sum(s \ {ChosenFrom(s)})]
    <3> HIDE DEF it, Sum
    <3> QED
      BY <1>4
  <2> QED
    BY <2>1 DEF Computes
<1> QED
  BY <1>2, <1>5

-----------------------------------------------------------------------------
\* The sum of nothing is zero.
LEMMA SumEmpty == ASSUME NEW f PROVE SumFunctionOnSet(f, {}) = 0
<1>1. PICK i : Computes(i, f, {})
  BY FS_EmptySet, ComputesExists
<1>2. SumFunctionOnSet(f, {}) = i[{}]
  BY <1>1, FS_EmptySet, SumComputed
<1> QED
  BY <1>1, <1>2 DEF Computes

\* The element chosen first is added to the sum of the others.
LEMMA SumChosen ==
    ASSUME NEW f, NEW S, IsFiniteSet(S), S # {}
    PROVE  /\ ChosenFrom(S) \in S
           /\ SumFunctionOnSet(f, S) = f[ChosenFrom(S)] + SumFunctionOnSet(f, S \ {ChosenFrom(S)})
<1> DEFINE T == S \ {ChosenFrom(S)}
<1>1. ChosenFrom(S) \in S
  BY DEF ChosenFrom
<1>2. T \in SUBSET S /\ IsFiniteSet(T)
  BY FS_Subset
<1>3. PICK i : Computes(i, f, S)
  BY ComputesExists
<1>4. SumFunctionOnSet(f, S) = i[S]
  BY <1>3, SumComputed
<1>5. SumFunctionOnSet(f, T) = i[T]
  BY <1>2, <1>3, ComputesExists, SumComputed
<1>6. i[S] = f[ChosenFrom(S)] + i[T]
  BY <1>3 DEF Computes
<1> QED
  BY <1>1, <1>4, <1>5, <1>6

\* A sum of integers is an integer.
LEMMA SumInt ==
    ASSUME NEW f, NEW S, IsFiniteSet(S), \A x \in S : f[x] \in Int
    PROVE  SumFunctionOnSet(f, S) \in Int
<1> DEFINE Sum(u) == SumFunctionOnSet(f, u)
           Bad == {s \in SUBSET S : Sum(s) \notin Int}
<1>1. SUFFICES ASSUME Bad # {} PROVE FALSE
  OBVIOUS
<1>2. PICK U \in Bad : \A V \in Bad : V \subseteq U => V = U
  <2>1. Bad \in SUBSET (SUBSET S)
    OBVIOUS
  <2> HIDE DEF Bad
  <2> QED
    BY <1>1, <2>1, SmallestSubset
<1>3. U \in SUBSET S /\ IsFiniteSet(U) /\ Sum(U) \notin Int
  BY FS_Subset
<1>4. U # {}
  BY <1>3, SumEmpty
<1>5. ChosenFrom(U) \in U /\ Sum(U) = f[ChosenFrom(U)] + Sum(U \ {ChosenFrom(U)})
  BY <1>3, <1>4, SumChosen
<1>6. Sum(U \ {ChosenFrom(U)}) \in Int
  BY <1>2, <1>5
<1> QED
  BY <1>3, <1>5, <1>6

\* Any element may be added last.
LEMMA SumRemove ==
    ASSUME NEW f, NEW S, IsFiniteSet(S), \A x \in S : f[x] \in Int, NEW e \in S
    PROVE  SumFunctionOnSet(f, S) = f[e] + SumFunctionOnSet(f, S \ {e})
<1> DEFINE Sum(u) == SumFunctionOnSet(f, u)
           Bad == {s \in SUBSET S : \E x \in s : Sum(s) # f[x] + Sum(s \ {x})}
<1>1. SUFFICES ASSUME Bad # {} PROVE FALSE
  OBVIOUS
<1>2. PICK U \in Bad : \A V \in Bad : V \subseteq U => V = U
  <2>1. Bad \in SUBSET (SUBSET S)
    OBVIOUS
  <2> HIDE DEF Bad
  <2> QED
    BY <1>1, <2>1, SmallestSubset
<1>3. PICK x \in U : Sum(U) # f[x] + Sum(U \ {x})
  OBVIOUS
<1> DEFINE y == ChosenFrom(U)
<1>4. U \in SUBSET S /\ IsFiniteSet(U) /\ U # {}
  BY FS_Subset
<1>5. y \in U /\ Sum(U) = f[y] + Sum(U \ {y})
  BY <1>4, SumChosen
<1>6. x # y
  BY <1>3, <1>5
<1> HIDE DEF y
<1>7. Sum(U \ {y}) = f[x] + Sum((U \ {y}) \ {x})
  BY <1>2, <1>4, <1>5, <1>6
<1>8. Sum(U \ {x}) = f[y] + Sum((U \ {x}) \ {y})
  BY <1>2, <1>3, <1>4, <1>5, <1>6
<1>9. (U \ {y}) \ {x} = (U \ {x}) \ {y}
  OBVIOUS
<1>10. Sum((U \ {x}) \ {y}) \in Int
  BY <1>4, FS_Subset, SumInt
<1>11. f[x] \in Int /\ f[y] \in Int
  BY <1>4, <1>5
<1>12. Sum(U) = f[x] + Sum(U \ {x})
  <2> DEFINE r == Sum((U \ {x}) \ {y})
  <2>1. Sum(U \ {y}) = f[x] + r /\ Sum(U \ {x}) = f[y] + r /\ r \in Int
    BY <1>7, <1>8, <1>9, <1>10
  <2> HIDE DEF r, Sum, Bad
  <2> QED
    BY <1>5, <1>11, <2>1
<1> QED
  BY <1>3, <1>12

-----------------------------------------------------------------------------
\* A new element adds its value.
LEMMA SumAdd ==
    ASSUME NEW f, NEW S, IsFiniteSet(S), NEW e, e \notin S,
           \A x \in S \cup {e} : f[x] \in Int
    PROVE  SumFunctionOnSet(f, S \cup {e}) = f[e] + SumFunctionOnSet(f, S)
<1>1. IsFiniteSet(S \cup {e})
  BY FS_AddElement
<1>2. (S \cup {e}) \ {e} = S
  OBVIOUS
<1> QED
  BY <1>1, <1>2, SumRemove

\* Where one function is below another on every element, so is its sum.
LEMMA SumMonotone ==
    ASSUME NEW f, NEW g, NEW S, IsFiniteSet(S),
           \A x \in S : f[x] \in Int /\ g[x] \in Int /\ f[x] <= g[x]
    PROVE  SumFunctionOnSet(f, S) <= SumFunctionOnSet(g, S)
<1> DEFINE F(u) == SumFunctionOnSet(f, u)
           G(u) == SumFunctionOnSet(g, u)
           Bad == {s \in SUBSET S : ~ (F(s) <= G(s))}
<1>1. SUFFICES ASSUME Bad # {} PROVE FALSE
  OBVIOUS
<1>2. PICK U \in Bad : \A V \in Bad : V \subseteq U => V = U
  <2>1. Bad \in SUBSET (SUBSET S)
    OBVIOUS
  <2> HIDE DEF Bad
  <2> QED
    BY <1>1, <2>1, SmallestSubset
<1>3. U \in SUBSET S /\ IsFiniteSet(U) /\ ~ (F(U) <= G(U))
  BY FS_Subset
<1>4. U # {}
  BY <1>3, SumEmpty
<1>5. PICK e \in U : TRUE
  BY <1>4
<1> DEFINE V == U \ {e}
<1>6. V \in SUBSET S /\ IsFiniteSet(V)
  BY <1>3, FS_Subset
<1>7. F(U) = f[e] + F(V) /\ G(U) = g[e] + G(V)
  BY <1>3, SumRemove
<1>8. F(V) \in Int /\ G(V) \in Int
  BY <1>6, SumInt
<1>9. F(V) <= G(V)
  BY <1>2, <1>5
<1>10. f[e] \in Int /\ g[e] \in Int /\ f[e] <= g[e]
  BY <1>3
<1>11. F(U) <= G(U)
  <2> HIDE DEF F, G, V, Bad
  <2> QED
    BY <1>7, <1>8, <1>9, <1>10
<1> QED
  BY <1>3, <1>11

\* The sum of two functions together is that of the one and of the other.
LEMMA SumPlus ==
    ASSUME NEW f, NEW g, NEW h, NEW S, IsFiniteSet(S),
           \A x \in S : f[x] \in Int /\ g[x] \in Int /\ h[x] = f[x] + g[x]
    PROVE  SumFunctionOnSet(h, S) = SumFunctionOnSet(f, S) + SumFunctionOnSet(g, S)
<1> DEFINE F(u) == SumFunctionOnSet(f, u)
           G(u) == SumFunctionOnSet(g, u)
           H(u) == SumFunctionOnSet(h, u)
           Bad == {s \in SUBSET S : H(s) # F(s) + G(s)}
<1>1. SUFFICES ASSUME Bad # {} PROVE FALSE
  OBVIOUS
<1>2. PICK U \in Bad : \A V \in Bad : V \subseteq U => V = U
  <2>1. Bad \in SUBSET (SUBSET S)
    OBVIOUS
  <2> HIDE DEF Bad
  <2> QED
    BY <1>1, <2>1, SmallestSubset
<1>3. U \in SUBSET S /\ IsFiniteSet(U) /\ H(U) # F(U) + G(U)
  BY FS_Subset
<1>4. U # {}
  BY <1>3, SumEmpty
<1>5. PICK e \in U : TRUE
  BY <1>4
<1> DEFINE V == U \ {e}
<1>6. V \in SUBSET S /\ IsFiniteSet(V)
  BY <1>3, FS_Subset
<1>7. \A x \in U : f[x] \in Int /\ g[x] \in Int /\ h[x] \in Int /\ h[x] = f[x] + g[x]
  BY <1>3
<1>8. F(U) = f[e] + F(V) /\ G(U) = g[e] + G(V) /\ H(U) = h[e] + H(V)
  BY <1>3, <1>7, SumRemove
<1>9. F(V) \in Int /\ G(V) \in Int
  BY <1>6, <1>7, SumInt
<1>10. H(V) = F(V) + G(V)
  BY <1>2, <1>5
<1>11. H(U) = F(U) + G(U)
  <2> HIDE DEF F, G, H, V, Bad
  <2> QED
    BY <1>5, <1>7, <1>8, <1>9, <1>10
<1> QED
  BY <1>3, <1>11

\* A sum looks at the values on its set and at nothing else.
LEMMA SumSame ==
    ASSUME NEW f, NEW g, NEW S, IsFiniteSet(S),
           \A x \in S : f[x] \in Int /\ g[x] = f[x]
    PROVE  SumFunctionOnSet(f, S) = SumFunctionOnSet(g, S)
<1>1. \A x \in S : f[x] \in Int /\ g[x] \in Int /\ f[x] <= g[x] /\ g[x] <= f[x]
  OBVIOUS
<1>2. /\ SumFunctionOnSet(f, S) <= SumFunctionOnSet(g, S)
      /\ SumFunctionOnSet(g, S) <= SumFunctionOnSet(f, S)
  BY <1>1, SumMonotone
<1>3. SumFunctionOnSet(f, S) \in Int /\ SumFunctionOnSet(g, S) \in Int
  BY <1>1, SumInt
<1> QED
  BY <1>2, <1>3

\* Where two functions differ at one element, so do their sums.
LEMMA SumUpdate ==
    ASSUME NEW f, NEW g, NEW S, IsFiniteSet(S), NEW e \in S,
           \A x \in S : f[x] \in Int /\ g[x] \in Int,
           \A x \in S \ {e} : g[x] = f[x]
    PROVE  SumFunctionOnSet(g, S) = SumFunctionOnSet(f, S) - f[e] + g[e]
<1> DEFINE T == S \ {e}
<1>1. IsFiniteSet(T) /\ \A x \in T : f[x] \in Int /\ g[x] = f[x]
  BY FS_Subset
<1>2. SumFunctionOnSet(f, T) = SumFunctionOnSet(g, T) /\ SumFunctionOnSet(f, T) \in Int
  BY <1>1, SumSame, SumInt
<1>3. /\ SumFunctionOnSet(f, S) = f[e] + SumFunctionOnSet(f, T)
      /\ SumFunctionOnSet(g, S) = g[e] + SumFunctionOnSet(g, T)
  BY SumRemove
<1> HIDE DEF T
<1> QED
  BY <1>2, <1>3

\* Elements at which a function is zero do not count.
LEMMA SumZeros ==
    ASSUME NEW f, NEW g, NEW S, IsFiniteSet(S), NEW T \in SUBSET S,
           \A x \in S : f[x] \in Int /\ g[x] = IF x \in T THEN f[x] ELSE 0
    PROVE  SumFunctionOnSet(g, S) = SumFunctionOnSet(f, T)
<1> DEFINE G(u) == SumFunctionOnSet(g, u)
           F(u) == SumFunctionOnSet(f, u)
           Bad == {s \in SUBSET S : G(s) # F(s \cap T)}
<1>1. SUFFICES ASSUME Bad # {} PROVE FALSE
  <2>1. S \notin Bad => G(S) = F(S \cap T)
    OBVIOUS
  <2>2. S \cap T = T
    OBVIOUS
  <2> QED
    BY <2>1, <2>2
<1>2. PICK U \in Bad : \A V \in Bad : V \subseteq U => V = U
  <2>1. Bad \in SUBSET (SUBSET S)
    OBVIOUS
  <2> HIDE DEF Bad
  <2> QED
    BY <1>1, <2>1, SmallestSubset
<1>3. U \in SUBSET S /\ IsFiniteSet(U) /\ G(U) # F(U \cap T)
  BY FS_Subset
<1>4. U # {}
  <2>1. {} \cap T = {}
    OBVIOUS
  <2> QED
    BY <1>3, <2>1, SumEmpty
<1>5. PICK e \in U : TRUE
  BY <1>4
<1> DEFINE V == U \ {e}
<1>6. V \in SUBSET S /\ IsFiniteSet(V) /\ IsFiniteSet(U \cap T) /\ IsFiniteSet(V \cap T)
  BY <1>3, FS_Subset
<1>7. G(V) = F(V \cap T)
  BY <1>2, <1>5
<1>8. \A x \in U : f[x] \in Int /\ g[x] \in Int
  BY <1>3
<1>9. G(U) = g[e] + G(V)
  BY <1>3, <1>8, SumRemove
<1>10. CASE e \in T
  <2>1. (U \cap T) \ {e} = V \cap T /\ e \in U \cap T
    BY <1>5, <1>10
  <2>2. F(U \cap T) = f[e] + F(V \cap T)
    BY <1>6, <1>8, <2>1, SumRemove
  <2>3. g[e] = f[e]
    BY <1>3, <1>10
  <2> QED
    BY <1>3, <1>7, <1>9, <2>2, <2>3
<1>11. CASE e \notin T
  <2>1. U \cap T = V \cap T
    BY <1>11
  <2>2. g[e] = 0
    BY <1>3, <1>11
  <2>3. F(V \cap T) \in Int
    BY <1>6, <1>8, SumInt
  <2>4. G(U) = G(V)
    BY <1>7, <1>9, <2>2, <2>3
  <2>5. G(U) = F(U \cap T)
    BY <1>7, <2>1, <2>4
  <2> QED
    BY <1>3, <2>5
<1> QED
  BY <1>10, <1>11

\* A part of a sum of naturals is at most the whole.
LEMMA SumPart ==
    ASSUME NEW f, NEW S, IsFiniteSet(S), NEW T \in SUBSET S, \A x \in S : f[x] \in Nat
    PROVE  /\ SumFunctionOnSet(f, T) <= SumFunctionOnSet(f, S)
           /\ SumFunctionOnSet(f, S) \in Nat
<1> DEFINE g == [x \in S |-> IF x \in T THEN f[x] ELSE 0]
           none == [x \in S |-> 0]
<1>1. SumFunctionOnSet(g, S) = SumFunctionOnSet(f, T)
  <2>1. \A x \in S : f[x] \in Int /\ g[x] = IF x \in T THEN f[x] ELSE 0
    OBVIOUS
  <2> HIDE DEF g
  <2> QED
    BY <2>1, SumZeros
<1>2. SumFunctionOnSet(g, S) <= SumFunctionOnSet(f, S)
  <2>1. \A x \in S : f[x] \in Int /\ g[x] \in Int /\ g[x] <= f[x]
    OBVIOUS
  <2> HIDE DEF g
  <2> QED
    BY <2>1, SumMonotone
<1>3. SumFunctionOnSet(f, S) \in Int
  <2>1. \A x \in S : f[x] \in Int
    OBVIOUS
  <2> QED
    BY <2>1, SumInt
<1>4. SumFunctionOnSet(none, S) = 0
  <2>1. \A x \in S : f[x] \in Int /\ none[x] = IF x \in {} THEN f[x] ELSE 0
    OBVIOUS
  <2>2. {} \in SUBSET S
    OBVIOUS
  <2> HIDE DEF none
  <2>3. SumFunctionOnSet(none, S) = SumFunctionOnSet(f, {})
    BY <2>1, <2>2, SumZeros
  <2> QED
    BY <2>3, SumEmpty
<1>5. SumFunctionOnSet(none, S) <= SumFunctionOnSet(f, S)
  <2>1. \A x \in S : none[x] \in Int /\ f[x] \in Int /\ none[x] <= f[x]
    OBVIOUS
  <2> HIDE DEF none
  <2> QED
    BY <2>1, SumMonotone
<1> QED
  BY <1>1, <1>2, <1>3, <1>4, <1>5

-----------------------------------------------------------------------------
(* The least and the largest of a set of numbers.                          *)

\* The smallest of a set of numbers is one of them.
LEMMA MinOfNaturals ==
    ASSUME NEW S \in SUBSET Nat, S # {}
    PROVE  Min(S) \in S /\ \A x \in S : Min(S) <= x
<1>1. PICK m \in S : \A x \in S : ~ (<<x, m>> \in OpToRel(<, Nat))
  BY WFMin, NatLessThanWellFounded
<1>2. ASSUME NEW x \in S, x < m PROVE FALSE
  <2>1. <<x, m>> \in Nat \X Nat
    OBVIOUS
  <2>2. <<x, m>> \in OpToRel(<, Nat)
    BY <1>2, <2>1 DEF OpToRel
  <2> QED
    BY <1>1, <2>2
<1>3. \A x \in S : m <= x
  BY <1>2
<1> QED
  BY <1>3 DEF Min

\* A finite set of numbers has a largest one.
LEMMA MaxOfNaturals ==
    ASSUME NEW S, IsFiniteSet(S)
    PROVE  S # {} /\ S \subseteq Nat => Max(S) \in S /\ \A x \in S : x <= Max(S)
<1> DEFINE HasLargest(u) == \E m \in u : \A x \in u : x <= m
           Bad == {u \in SUBSET S : u # {} /\ u \subseteq Nat /\ ~HasLargest(u)}
<1>1. SUFFICES ASSUME Bad # {} PROVE FALSE
  BY DEF Max
<1>2. PICK U \in Bad : \A V \in Bad : V \subseteq U => V = U
  <2>1. Bad \in SUBSET (SUBSET S)
    OBVIOUS
  <2> HIDE DEF Bad
  <2> QED
    BY <1>1, <2>1, SmallestSubset
<1>3. PICK e \in U : TRUE
  OBVIOUS
<1>4. CASE U \ {e} = {}
  BY <1>2, <1>3, <1>4
<1>5. CASE U \ {e} # {}
  <2>1. U \ {e} \notin Bad
    BY <1>2, <1>3
  <2>2. PICK m \in U \ {e} : \A x \in U \ {e} : x <= m
    BY <1>5, <2>1
  <2>3. \/ e <= m /\ \A x \in U : x <= m
        \/ m <= e /\ \A x \in U : x <= e
    BY <2>2, <1>3
  <2> QED
    BY <2>2, <2>3, <1>3
<1> QED
  BY <1>4, <1>5

=============================================================================
