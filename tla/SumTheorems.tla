------------------------------ MODULE SumTheorems ------------------------------
(***************************************************************************)
(* What the sum of a function over a finite set is: nothing but its        *)
(* recursive definition (SumFunctionOnSet, Functions) is assumed.  The     *)
(* induction is over sets of naturals, without an operator parameter.      *)
(***************************************************************************)
EXTENDS Functions, FiniteSets, FiniteSetTheorems, WellFoundedInduction, TLAPS

\* The element a sum takes next.
Pick(s) == CHOOSE x \in s : TRUE

IsSum(g, f, S) ==
    g = [s \in SUBSET S |-> IF s = {} THEN 0 ELSE f[Pick(s)] + g[s \ {Pick(s)}]]

SumIter(f, S) == CHOOSE g : IsSum(g, f, S)

\* The sum of the library is the value of that recursive function.
LEMMA SumUnfold ==
    ASSUME NEW f, NEW S
    PROVE  SumFunctionOnSet(f, S) = SumIter(f, S)[S]
  BY DEF SumFunctionOnSet, FoldFunctionOnSet, MapThenFoldSet, SumIter, IsSum, Pick

\* The element the sum takes out of a set is one of its elements.
LEMMA PickIn ==
    ASSUME NEW s, s # {}
    PROVE  Pick(s) \in s
  BY DEF Pick
-----------------------------------------------------------------------------
(* Induction *)

\* A set of naturals has a least element.
LEMMA MinNat ==
    ASSUME NEW T \in SUBSET Nat, T # {}
    PROVE  \E n \in T : \A m \in T : n <= m
<1> DEFINE Less == {ss \in Nat \X Nat : ss[1] < ss[2]}
<1>1. IsWellFoundedOn(Less, Nat)
  BY NatLessThanWellFounded DEF OpToRel
<1>2. \A m, n \in Nat : <<m, n>> \in Less <=> m < n
  OBVIOUS
<1> HIDE DEF Less
<1>3. PICK n \in T : \A m \in T : ~(<<m, n>> \in Less)
  BY <1>1, WFMin
<1>4. n \in Nat /\ \A m \in T : m \in Nat /\ ~(m < n)
  BY <1>2, <1>3
<1>5. QED
  BY <1>4

\* Induction over the naturals, for membership in a set.
LEMMA NatSetInduction ==
    ASSUME NEW G, 0 \in G, \A n \in Nat : n \in G => n + 1 \in G
    PROVE  \A n \in Nat : n \in G
<1> SUFFICES ASSUME Nat \ G # {}
             PROVE  FALSE
  OBVIOUS
<1>1. PICK n \in Nat \ G : \A m \in Nat \ G : n <= m
  BY MinNat
<1>2. n # 0 /\ n - 1 \in Nat /\ ~(n <= n - 1) /\ (n - 1) + 1 = n
  BY <1>1
<1>3. n - 1 \in G
  BY <1>1, <1>2
<1>4. n \in G
  BY <1>2, <1>3
<1>5. QED
  BY <1>1, <1>4

\* The subsets of S with at most n elements.
Upto(S, n) == {s \in SUBSET S : Cardinality(s) <= n}

\* The only subset with no more than zero elements is the empty set.
LEMMA UptoZero ==
    ASSUME NEW S, IsFiniteSet(S), NEW s \in Upto(S, 0)
    PROVE  s = {}
<1>1. IsFiniteSet(s) /\ Cardinality(s) \in Nat /\ Cardinality(s) <= 0
  BY FS_Subset, FS_CardinalityType DEF Upto
<1>2. Cardinality(s) = 0
  BY <1>1
<1>3. QED
  BY <1>1, <1>2, FS_EmptySet

\* A subset of at most n + 1 elements has at most n without one of them.
LEMMA UptoRemove ==
    ASSUME NEW S, IsFiniteSet(S), NEW n \in Nat, NEW s \in Upto(S, n + 1), NEW x \in s
    PROVE  s \ {x} \in Upto(S, n)
<1>1. IsFiniteSet(s) /\ Cardinality(s) \in Nat /\ Cardinality(s) <= n + 1
  BY FS_Subset, FS_CardinalityType DEF Upto
<1>2. Cardinality(s \ {x}) = Cardinality(s) - 1
  BY <1>1, FS_RemoveElement
<1>3. Cardinality(s \ {x}) <= n
  BY <1>1, <1>2
<1>4. QED
  BY <1>3 DEF Upto

\* The subsets of at most as many elements as the set has are all its subsets.
LEMMA UptoAll ==
    ASSUME NEW S, IsFiniteSet(S)
    PROVE  Cardinality(S) \in Nat /\ Upto(S, Cardinality(S)) = SUBSET S
<1>1. Cardinality(S) \in Nat
  BY FS_CardinalityType
<1>2. \A s \in SUBSET S : Cardinality(s) <= Cardinality(S)
  BY FS_Subset
<1>3. QED
  BY <1>1, <1>2 DEF Upto

\* Induction over the subsets of a finite set, for membership in G.
LEMMA SubsetInduction ==
    ASSUME NEW S, IsFiniteSet(S), NEW G, {} \in G,
           \A s \in SUBSET S : s # {} /\ (\A x \in s : s \ {x} \in G) => s \in G
    PROVE  \A s \in SUBSET S : s \in G
<1> DEFINE H == {n \in Nat : Upto(S, n) \subseteq G}
<1>1. 0 \in H
  BY UptoZero
<1>2. ASSUME NEW n \in Nat, n \in H
      PROVE  n + 1 \in H
  <2>1. ASSUME NEW s \in Upto(S, n + 1)
        PROVE  s \in G
    <3>1. \A x \in s : s \ {x} \in G
      BY <1>2, UptoRemove
    <3>2. s \in SUBSET S
      BY DEF Upto
    <3>3. QED
      BY <3>1, <3>2
  <2>2. QED
    BY <2>1
<1>3. \A n \in Nat : n \in H
  <2> HIDE DEF H
  <2> QED
    BY <1>1, <1>2, NatSetInduction
<1>4. Cardinality(S) \in H
  BY <1>3, UptoAll
<1>5. QED
  BY <1>4, UptoAll
-----------------------------------------------------------------------------
(* The recursive function *)

\* The sums of the subsets with at most n elements.
IsSumUpto(g, f, S, n) ==
    g = [s \in Upto(S, n) |-> IF s = {} THEN 0 ELSE f[Pick(s)] + g[s \ {Pick(s)}]]

\* Adding one element more to the subsets extends the function.
LEMMA SumExtends ==
    ASSUME NEW f, NEW S, IsFiniteSet(S), NEW n \in Nat, NEW g, IsSumUpto(g, f, S, n)
    PROVE  \E h : IsSumUpto(h, f, S, n + 1)
<1> DEFINE h == [s \in Upto(S, n + 1) |-> IF s = {} THEN 0 ELSE f[Pick(s)] + g[s \ {Pick(s)}]]
<1>1. Upto(S, n) \subseteq Upto(S, n + 1)
  <2>1. \A s \in SUBSET S : Cardinality(s) \in Nat
    BY FS_Subset, FS_CardinalityType
  <2>2. QED
    BY <2>1 DEF Upto
<1>2. \A s \in Upto(S, n) : h[s] = g[s]
  BY <1>1 DEF IsSumUpto
<1>3. \A s \in Upto(S, n + 1) : s # {} => h[s \ {Pick(s)}] = g[s \ {Pick(s)}]
  <2> HIDE DEF h
  <2> QED
    BY <1>2, UptoRemove, PickIn
<1>4. h = [s \in Upto(S, n + 1) |-> IF s = {} THEN 0 ELSE f[Pick(s)] + h[s \ {Pick(s)}]]
  BY <1>3
<1>5. QED
  BY <1>4 DEF IsSumUpto

\* For a finite set there is a function that meets the recursion of the sum.
LEMMA SumExists ==
    ASSUME NEW f, NEW S, IsFiniteSet(S)
    PROVE  IsSum(SumIter(f, S), f, S)
<1> DEFINE H == {n \in Nat : \E g : IsSumUpto(g, f, S, n)}
<1>1. 0 \in H
  <2> DEFINE g == [s \in Upto(S, 0) |-> 0]
  <2>1. g = [s \in Upto(S, 0) |-> IF s = {} THEN 0 ELSE f[Pick(s)] + g[s \ {Pick(s)}]]
    BY UptoZero
  <2>2. IsSumUpto(g, f, S, 0)
    BY <2>1 DEF IsSumUpto
  <2> HIDE DEF g
  <2>3. QED
    BY <2>2
<1>2. \A n \in Nat : n \in H => n + 1 \in H
  BY SumExtends
<1>3. \A n \in Nat : n \in H
  <2> HIDE DEF H
  <2> QED
    BY <1>1, <1>2, NatSetInduction
<1>4. PICK g : IsSumUpto(g, f, S, Cardinality(S))
  BY <1>3, UptoAll
<1>5. IsSum(g, f, S)
  BY <1>4, UptoAll DEF IsSum, IsSumUpto
<1>6. QED
  BY <1>5 DEF SumIter

\* The sum depends on the values in the set only, not on the set it is computed in.
LEMMA SumAgrees ==
    ASSUME NEW f, NEW g, NEW S, NEW R, IsFiniteSet(S), IsFiniteSet(R),
           NEW T \in SUBSET (S \cap R), \A x \in T : f[x] = g[x]
    PROVE  \A t \in SUBSET T : SumIter(f, S)[t] = SumIter(g, R)[t]
<1> DEFINE G == {t \in SUBSET T : SumIter(f, S)[t] = SumIter(g, R)[t]}
<1>1. \A t \in SUBSET T :
        /\ SumIter(f, S)[t] = IF t = {} THEN 0 ELSE f[Pick(t)] + SumIter(f, S)[t \ {Pick(t)}]
        /\ SumIter(g, R)[t] = IF t = {} THEN 0 ELSE g[Pick(t)] + SumIter(g, R)[t \ {Pick(t)}]
  <2>1. IsSum(SumIter(f, S), f, S) /\ IsSum(SumIter(g, R), g, R)
    BY SumExists
  <2>2. \A t \in SUBSET T : t \in SUBSET S /\ t \in SUBSET R
    OBVIOUS
  <2>3. QED
    BY <2>1, <2>2 DEF IsSum
<1>2. {} \in G
  BY <1>1
<1>3. \A s \in SUBSET T : s # {} /\ (\A x \in s : s \ {x} \in G) => s \in G
  BY <1>1, PickIn
<1>4. IsFiniteSet(T)
  BY FS_Subset
<1>5. \A t \in SUBSET T : t \in G
  <2> HIDE DEF G
  <2> QED
    BY <1>2, <1>3, <1>4, SubsetInduction
<1>6. QED
  BY <1>5
-----------------------------------------------------------------------------
(* Sums *)

\* The sum over no elements is zero.
LEMMA SumEmpty ==
    ASSUME NEW f
    PROVE  SumFunctionOnSet(f, {}) = 0
<1>1. IsSum(SumIter(f, {}), f, {})
  BY SumExists, FS_EmptySet
<1>2. SumIter(f, {})[{}] = 0
  BY <1>1 DEF IsSum
<1>3. QED
  BY <1>2, SumUnfold

\* Two functions that agree on a set have the same sum over it.
LEMMA SumSame ==
    ASSUME NEW f, NEW g, NEW S, IsFiniteSet(S), \A x \in S : f[x] = g[x]
    PROVE  SumFunctionOnSet(f, S) = SumFunctionOnSet(g, S)
  BY SumAgrees, SumUnfold

\* The sum is the value of the element taken out first and the sum over the others.
LEMMA SumPick ==
    ASSUME NEW f, NEW S, IsFiniteSet(S), S # {}
    PROVE  SumFunctionOnSet(f, S) = f[Pick(S)] + SumFunctionOnSet(f, S \ {Pick(S)})
<1>1. SumIter(f, S)[S] = f[Pick(S)] + SumIter(f, S)[S \ {Pick(S)}]
  <2>1. IsSum(SumIter(f, S), f, S)
    BY SumExists
  <2>2. QED
    BY <2>1 DEF IsSum
<1>2. IsFiniteSet(S \ {Pick(S)})
  BY FS_Subset
<1>3. SumIter(f, S)[S \ {Pick(S)}] = SumIter(f, S \ {Pick(S)})[S \ {Pick(S)}]
  BY <1>2, SumAgrees
<1>4. QED
  BY <1>1, <1>3, SumUnfold

\* A sum of naturals is a natural.
LEMMA SumNat ==
    ASSUME NEW f, NEW S, IsFiniteSet(S), \A x \in S : f[x] \in Nat
    PROVE  SumFunctionOnSet(f, S) \in Nat
<1> DEFINE G == {s \in SUBSET S : SumFunctionOnSet(f, s) \in Nat}
<1>1. {} \in G
  BY SumEmpty
<1>2. ASSUME NEW s \in SUBSET S, s # {}, \A x \in s : s \ {x} \in G
      PROVE  s \in G
  <2>1. SumFunctionOnSet(f, s) = f[Pick(s)] + SumFunctionOnSet(f, s \ {Pick(s)})
    BY <1>2, SumPick, FS_Subset
  <2>2. f[Pick(s)] \in Nat /\ SumFunctionOnSet(f, s \ {Pick(s)}) \in Nat
    BY <1>2, PickIn
  <2>3. QED
    BY <2>1, <2>2
<1>3. \A s \in SUBSET S : s \in G
  <2> HIDE DEF G
  <2> QED
    BY <1>1, <1>2, SubsetInduction
<1>4. QED
  BY <1>3

\* Any element may be taken out first.
LEMMA SumRemove ==
    ASSUME NEW f, NEW S, IsFiniteSet(S), \A x \in S : f[x] \in Nat, NEW c \in S
    PROVE  SumFunctionOnSet(f, S) = f[c] + SumFunctionOnSet(f, S \ {c})
<1> DEFINE G == {s \in SUBSET S :
                   \A x \in s : SumFunctionOnSet(f, s) = f[x] + SumFunctionOnSet(f, s \ {x})}
<1>1. {} \in G
  OBVIOUS
<1>2. ASSUME NEW s \in SUBSET S, s # {}, \A x \in s : s \ {x} \in G
      PROVE  s \in G
  <2> DEFINE p == Pick(s)
  <2>1. p \in s /\ SumFunctionOnSet(f, s) = f[p] + SumFunctionOnSet(f, s \ {p})
    BY <1>2, SumPick, FS_Subset, PickIn
  <2> HIDE DEF p
  <2>2. ASSUME NEW x \in s, x # p
        PROVE  SumFunctionOnSet(f, s) = f[x] + SumFunctionOnSet(f, s \ {x})
    <3> DEFINE rest == (s \ {p}) \ {x}
    <3>1. SumFunctionOnSet(f, s \ {p}) = f[x] + SumFunctionOnSet(f, rest)
      BY <1>2, <2>1, <2>2
    <3>2. (s \ {x}) \ {p} = rest
      OBVIOUS
    <3>3. SumFunctionOnSet(f, s \ {x}) = f[p] + SumFunctionOnSet(f, rest)
      BY <1>2, <2>1, <2>2, <3>2
    <3>4. f[p] \in Nat /\ f[x] \in Nat
      BY <2>1
    <3>5. IsFiniteSet(rest) /\ \A y \in rest : f[y] \in Nat
      BY FS_Subset
    <3>6. SumFunctionOnSet(f, rest) \in Nat
      BY <3>5, SumNat
    <3> HIDE DEF rest
    <3>7. QED
      BY <2>1, <3>1, <3>3, <3>4, <3>6
  <2>3. QED
    BY <2>1, <2>2
<1>3. \A s \in SUBSET S : s \in G
  <2> HIDE DEF G
  <2> QED
    BY <1>1, <1>2, SubsetInduction
<1>4. QED
  BY <1>3

\* Changing one value changes the sum by as much.
LEMMA SumUpdate ==
    ASSUME NEW f, NEW g, NEW S, IsFiniteSet(S), NEW c \in S,
           \A x \in S : f[x] \in Nat /\ g[x] \in Nat,
           \A x \in S \ {c} : f[x] = g[x]
    PROVE  /\ SumFunctionOnSet(f, S) \in Nat /\ SumFunctionOnSet(g, S) \in Nat
           /\ SumFunctionOnSet(g, S) + f[c] = SumFunctionOnSet(f, S) + g[c]
<1> DEFINE rest == S \ {c}
<1>1. IsFiniteSet(rest) /\ \A x \in rest : f[x] \in Nat /\ f[x] = g[x]
  BY FS_Subset
<1>2. SumFunctionOnSet(f, rest) \in Nat /\ SumFunctionOnSet(g, rest) = SumFunctionOnSet(f, rest)
  BY <1>1, SumNat, SumSame
<1>3. SumFunctionOnSet(f, S) = f[c] + SumFunctionOnSet(f, rest)
  BY SumRemove
<1>4. SumFunctionOnSet(g, S) = g[c] + SumFunctionOnSet(g, rest)
  BY SumRemove
<1> HIDE DEF rest
<1>5. QED
  BY <1>2, <1>3, <1>4

\* A sum of zeros is zero.
LEMMA SumZero ==
    ASSUME NEW f, NEW S, IsFiniteSet(S), \A x \in S : f[x] = 0
    PROVE  SumFunctionOnSet(f, S) = 0
<1> DEFINE G == {s \in SUBSET S : SumFunctionOnSet(f, s) = 0}
<1>1. {} \in G
  BY SumEmpty
<1>2. ASSUME NEW s \in SUBSET S, s # {}, \A x \in s : s \ {x} \in G
      PROVE  s \in G
  <2>1. SumFunctionOnSet(f, s) = f[Pick(s)] + SumFunctionOnSet(f, s \ {Pick(s)})
    BY <1>2, SumPick, FS_Subset
  <2>2. f[Pick(s)] = 0 /\ SumFunctionOnSet(f, s \ {Pick(s)}) = 0
    BY <1>2, PickIn
  <2>3. QED
    BY <2>1, <2>2
<1>3. \A s \in SUBSET S : s \in G
  <2> HIDE DEF G
  <2> QED
    BY <1>1, <1>2, SubsetInduction
<1>4. QED
  BY <1>3
=============================================================================
