-------------------------------- MODULE Sums --------------------------------
(***************************************************************************)
(* Sums over finite sets.  The fold of the community modules adds the      *)
(* weights in an order it chooses; the lemmas show that the order does not *)
(* matter.  A module that adds something up instantiates this one with the *)
(* weight it adds, and the facts about its own sum are those below.        *)
(***************************************************************************)
EXTENDS Integers, FiniteSetsExt, FiniteSetTheorems, WellFoundedInduction, TLAPS

CONSTANT Weight(_)

Sum(S) == MapThenSumSet(Weight, S)

Pick(S) == CHOOSE x \in S : TRUE

\* The function the fold over U defines.
Totals(U, f) == f = [S \in SUBSET U |-> IF S = {} THEN 0 ELSE Weight(Pick(S)) + f[S \ {Pick(S)}]]

LEMMA PickIn == ASSUME NEW S, S # {} PROVE Pick(S) \in S
BY DEF Pick

\* A set of subsets of a finite set that is not empty has a minimal element.
LEMMA Minimal ==
  ASSUME NEW U, IsFiniteSet(U), NEW B, B \subseteq SUBSET U, B # {}
  PROVE  \E S \in B : \A V \in B : ~(V \subseteq S /\ V # S)
<1>1. IsWellFoundedOn(StrictSubsetOrdering(U), SUBSET U)
  BY FS_StrictSubsetOrderingWellFounded, FS_FiniteSubsetsOfFinite
<1>2. \E S \in B : \A V \in B : <<V, S>> \notin StrictSubsetOrdering(U)
  BY <1>1, WFMin
<1> QED
  BY <1>2 DEF StrictSubsetOrdering

\* Two of these functions agree where both are defined.
LEMMA TotalsOnce ==
  ASSUME NEW U, IsFiniteSet(U), NEW V \in SUBSET U, NEW f, NEW g, Totals(U, f), Totals(V, g)
  PROVE  \A S \in SUBSET V : f[S] = g[S]
<1> DEFINE B == {S \in SUBSET V : f[S] # g[S]}
<1> SUFFICES ASSUME B # {} PROVE FALSE
  OBVIOUS
<1>1. PICK S \in B : \A W \in B : ~(W \subseteq S /\ W # S)
  <2>1. B \subseteq SUBSET U
    OBVIOUS
  <2> HIDE DEF B
  <2> QED
    BY <2>1, Minimal
<1>2. S \in SUBSET U /\ f[S] = IF S = {} THEN 0 ELSE Weight(Pick(S)) + f[S \ {Pick(S)}]
  BY <1>1 DEF Totals
<1>3. S \in SUBSET V /\ g[S] = IF S = {} THEN 0 ELSE Weight(Pick(S)) + g[S \ {Pick(S)}]
  BY <1>1 DEF Totals
<1>4. S # {} => f[S \ {Pick(S)}] = g[S \ {Pick(S)}]
  BY <1>1, <1>3, PickIn
<1> QED
  BY <1>1, <1>2, <1>3, <1>4

\* There is one for every finite set.
LEMMA TotalsExist == ASSUME NEW U, IsFiniteSet(U) PROVE \E f : Totals(U, f)
<1> DEFINE B == {S \in SUBSET U : ~\E f : Totals(S, f)}
<1> SUFFICES ASSUME B # {} PROVE FALSE
  OBVIOUS
<1>1. PICK S \in B : \A W \in B : ~(W \subseteq S /\ W # S)
  <2>1. B \subseteq SUBSET U
    OBVIOUS
  <2> HIDE DEF B
  <2> QED
    BY <2>1, Minimal
<1>2. \A V \in SUBSET S : V # S => IsFiniteSet(V) /\ Totals(V, CHOOSE f : Totals(V, f))
  BY <1>1, FS_Subset
<1> DEFINE F(V) == (CHOOSE f : Totals(V, f))[V]
           h == [V \in SUBSET S |-> IF V = {} THEN 0 ELSE Weight(Pick(V)) + F(V \ {Pick(V)})]
<1>3. ASSUME NEW W \in SUBSET S, W # S PROVE F(W) = h[W]
  <2>1. PICK f : f = (CHOOSE g : Totals(W, g)) /\ Totals(W, f) /\ IsFiniteSet(W)
    BY <1>2, <1>3
  <2>2. f[W] = IF W = {} THEN 0 ELSE Weight(Pick(W)) + f[W \ {Pick(W)}]
    BY <2>1 DEF Totals
  <2>3. ASSUME W # {} PROVE f[W \ {Pick(W)}] = F(W \ {Pick(W)})
    <3>1. PICK V : V = W \ {Pick(W)}
      OBVIOUS
    <3>2. V \in SUBSET W /\ V \in SUBSET S /\ V # S
      BY <2>3, <3>1, PickIn
    <3>3. Totals(V, CHOOSE g : Totals(V, g))
      BY <1>2, <3>2
    <3> QED
      BY <2>1, <3>1, <3>2, <3>3, TotalsOnce
  <2> QED
    BY <2>1, <2>2, <2>3
<1>4. Totals(S, h)
  <2>1. ASSUME NEW V \in SUBSET S, V # {} PROVE F(V \ {Pick(V)}) = h[V \ {Pick(V)}]
    BY <1>3, <2>1, PickIn
  <2> HIDE DEF F
  <2> QED
    BY <2>1 DEF Totals
<1> HIDE DEF h
<1> QED
  BY <1>1, <1>4

LEMMA SumFold == ASSUME NEW U PROVE Sum(U) = (CHOOSE f : Totals(U, f))[U]
BY DEF Sum, MapThenSumSet, MapThenFoldSet, Totals, Pick

LEMMA SumUnfold ==
  ASSUME NEW U, IsFiniteSet(U)
  PROVE  Sum(U) = IF U = {} THEN 0 ELSE Weight(Pick(U)) + Sum(U \ {Pick(U)})
<1>1. PICK f : f = (CHOOSE g : Totals(U, g)) /\ Totals(U, f)
  BY TotalsExist
<1>2. Sum(U) = f[U] /\ f[U] = IF U = {} THEN 0 ELSE Weight(Pick(U)) + f[U \ {Pick(U)}]
  BY <1>1, SumFold DEF Totals
<1>3. ASSUME U # {} PROVE f[U \ {Pick(U)}] = Sum(U \ {Pick(U)})
  <2>1. PICK V : V = U \ {Pick(U)}
    OBVIOUS
  <2>2. V \in SUBSET U /\ IsFiniteSet(V)
    BY <2>1, FS_Subset
  <2>3. PICK g : g = (CHOOSE h : Totals(V, h)) /\ Totals(V, g)
    BY <2>2, TotalsExist
  <2>4. f[V] = g[V]
    BY <1>1, <2>2, <2>3, TotalsOnce
  <2>5. Sum(V) = g[V]
    BY <2>3, SumFold
  <2> QED
    BY <2>1, <2>4, <2>5
<1> QED
  BY <1>2, <1>3

\* Any element of a finite set can be counted first.
LEMMA SumSplit ==
  ASSUME NEW U, IsFiniteSet(U), \A x \in U : Weight(x) \in Nat
  PROVE  Sum(U) \in Nat /\ \A t \in U : Sum(U) = Weight(t) + Sum(U \ {t})
<1> DEFINE Good(S) == Sum(S) \in Nat /\ \A t \in S : Sum(S) = Weight(t) + Sum(S \ {t})
           B == {S \in SUBSET U : ~Good(S)}
<1> SUFFICES ASSUME B # {} PROVE FALSE
  OBVIOUS
<1>1. PICK S \in B : \A W \in B : ~(W \subseteq S /\ W # S)
  <2>1. B \subseteq SUBSET U
    OBVIOUS
  <2> HIDE DEF B
  <2> QED
    BY <2>1, Minimal
<1>2. S \in SUBSET U /\ ~Good(S) /\ \A W \in SUBSET S : W # S => Good(W)
  BY <1>1
<1>3. IsFiniteSet(S) /\ \A t \in S : Weight(t) \in Nat
  BY <1>2, FS_Subset
<1>4. S # {}
  <2>1. S = {} => Sum(S) = 0
    BY <1>3, SumUnfold
  <2> QED
    BY <1>2, <2>1
<1>5. PICK x \in S : Sum(S) = Weight(x) + Sum(S \ {x})
  BY <1>3, <1>4, SumUnfold, PickIn
<1>6. Good(S \ {x})
  BY <1>2
<1>7. Sum(S) \in Nat
  BY <1>3, <1>5, <1>6
<1>8. ASSUME NEW t \in S, t # x PROVE Sum(S) = Weight(t) + Sum(S \ {t})
  <2>1. PICK R : R = S \ {x, t}
    OBVIOUS
  <2>2. Good(S \ {t})
    BY <1>2
  <2>3. R = (S \ {x}) \ {t} /\ R = (S \ {t}) \ {x}
    BY <2>1
  <2>4. Sum(S \ {x}) = Weight(t) + Sum(R)
    BY <1>6, <1>8, <2>3
  <2>5. Sum(S \ {t}) = Weight(x) + Sum(R)
    BY <1>8, <2>2, <2>3
  <2>6. Good(R)
    BY <1>2, <1>8, <2>1
  <2> QED
    BY <1>3, <1>5, <2>4, <2>5, <2>6
<1> QED
  BY <1>2, <1>5, <1>7, <1>8

LEMMA SumEmpty == Sum({}) = 0
BY SumUnfold, FS_EmptySet

LEMMA SumGrows ==
  ASSUME NEW U, IsFiniteSet(U), NEW x, x \notin U, \A y \in U \cup {x} : Weight(y) \in Nat
  PROVE  Sum(U \cup {x}) = Sum(U) + Weight(x) /\ Sum(U) \in Nat
<1>1. PICK V : V = U \cup {x}
  OBVIOUS
<1>2. IsFiniteSet(V) /\ V \ {x} = U /\ x \in V
  BY <1>1, FS_AddElement
<1>3. Sum(U) \in Nat
  BY SumSplit
<1>4. Sum(V) = Weight(x) + Sum(V \ {x})
  BY <1>1, <1>2, SumSplit
<1>5. Sum(V) = Weight(x) + Sum(U)
  BY <1>2, <1>4
<1>6. Weight(x) \in Nat
  OBVIOUS
<1> QED
  BY <1>1, <1>3, <1>5, <1>6
=============================================================================
