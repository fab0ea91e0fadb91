---------------------------- MODULE LeastElement ----------------------------
(* Every non-empty set of natural numbers has a least element: what the        *)
(* definitions that choose "the next block" or "the lowest device" rest on.    *)
EXTENDS Integers, FiniteSetTheorems, WellFoundedInduction, TLAPS

\* What is least for the inclusion of the intervals 1..n is least for <=.
LEMMA LeastExists ==
  ASSUME NEW T \in SUBSET Nat, T # {}
  PROVE  \E x \in T : \A y \in T : x <= y
<1> DEFINE U == {1..n : n \in T}
<1>1. U \subseteq FiniteSubsetsOf(Nat)
  <2>1. ASSUME NEW n \in T
        PROVE  1..n \in FiniteSubsetsOf(Nat)
    <3>1. IsFiniteSet(1..n) /\ 1..n \in SUBSET Nat
      BY FS_Interval
    <3> QED BY <3>1 DEF FiniteSubsetsOf
  <2> QED BY <2>1
<1>2. U # {}
  OBVIOUS
<1>3. PICK x \in T : \A i \in U : ~(<<i, 1..x>> \in StrictSubsetOrdering(Nat))
  <2>1. \E v \in U : \A i \in U : ~(<<i, v>> \in StrictSubsetOrdering(Nat))
    <3> HIDE DEF U
    <3> QED BY <1>1, <1>2, FS_StrictSubsetOrderingWellFounded, WFMin
  <2> QED BY <2>1
<1>4. ASSUME NEW y \in T, y < x PROVE FALSE
  <2>1. 1..y \subseteq 1..x /\ x \in 1..x /\ x \notin 1..y /\ 1..x \subseteq Nat
    BY <1>4
  <2> QED BY <1>3, <2>1 DEF StrictSubsetOrdering
<1> QED BY <1>4
=============================================================================
