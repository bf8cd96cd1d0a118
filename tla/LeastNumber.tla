----------------------------- MODULE LeastNumber -----------------------------
(***************************************************************************)
(* The least-number principle as a first-order fact: it is how the proofs  *)
(* of this project argue by induction.                                     *)
(***************************************************************************)
EXTENDS Integers, TLAPS, WellFoundedInduction

Smaller == {p \in Nat \X Nat : p[1] < p[2]}

\* No infinite descent in the natural numbers.
LEMMA SmallerIsWellFounded == IsWellFoundedOn(Smaller, Nat)
  BY NatLessThanWellFounded DEF OpToRel, Smaller

\* A non-empty set of natural numbers has a least element.
LEMMA LeastNumberExists ==
  ASSUME NEW T \in SUBSET Nat, T # {}
  PROVE  \E m \in T : \A n \in T : m <= n
<1>1. PICK m \in T : \A n \in T : ~ (<<n, m>> \in Smaller)
  BY SmallerIsWellFounded, WFMin, Zenon
<1>2. ASSUME NEW n \in T PROVE m <= n
  <2>1. <<n, m>> \notin Smaller BY <1>1
  <2>2. <<n, m>> \in Nat \X Nat OBVIOUS
  <2>3. ~ (n < m) BY <2>1, <2>2 DEF Smaller
  <2>. QED BY <2>3
<1>. QED BY <1>2
=============================================================================
