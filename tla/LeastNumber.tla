----------------------------- MODULE LeastNumber -----------------------------
(***************************************************************************)
(* Every set of natural numbers that is not empty has a least element: what *)
(* a proof uses in the place of an induction.                               *)
(***************************************************************************)
EXTENDS Integers, WellFoundedInduction, TLAPS

\* A number that no other number of the set is below.
LEMMA LeastElement ==
  ASSUME NEW T \in SUBSET Nat, T # {}
  PROVE  \E n \in T : \A m \in T : n <= m
<1>1. PICK n \in T : \A m \in T : ~ (<<m, n>> \in OpToRel(<, Nat))
  BY NatLessThanWellFounded, WFMin
<1>2. ASSUME NEW m \in T PROVE n <= m
  <2>1. <<m, n>> \notin OpToRel(<, Nat)
    BY <1>1
  <2>2. ~(m < n)
    BY <2>1 DEF OpToRel
  <2>3. QED
    BY <2>2
<1>3. QED
  BY <1>2

=============================================================================
