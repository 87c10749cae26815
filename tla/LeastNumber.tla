----------------------------- MODULE LeastNumber -----------------------------
(* The least number principle and induction over the naturals, for sets of      *)
(* numbers instead of predicates, as the proofs of the other modules use them.  *)
EXTENDS Integers, WellFoundedInduction, TLAPS

\* A set of natural numbers that is not empty has a least element.
LEMMA LeastNatural ==
    ASSUME NEW T, T \subseteq Nat, T # {}
    PROVE  \E x \in T : \A y \in T : x <= y
<1> DEFINE R == OpToRel(<, Nat)
<1>1. IsWellFoundedOn(R, Nat)
  BY NatLessThanWellFounded, Zenon
<1>2. \A x, y \in Nat : y < x => <<y, x>> \in R
  BY SMT DEF OpToRel
<1> HIDE DEF R
<1>3. PICK x \in T : \A y \in T : ~(<<y, x>> \in R)
  BY <1>1, WFMin
<1>4. \A y \in T : ~(y < x)
  BY <1>2, <1>3
<1> QED BY <1>3, <1>4

\* Induction: a set that has 0 and with each number up to N the next one has all of them.
LEMMA SetInduction ==
    ASSUME NEW T, NEW N \in Nat, 0 \in T, \A n \in 0..N : n \in T => n + 1 \in T
    PROVE  \A n \in 0..N : n \in T
<1> SUFFICES ASSUME NEW m \in 0..N, m \notin T PROVE FALSE
  OBVIOUS
<1> DEFINE F == {n \in 0..N : n \notin T}
<1>1. F \subseteq Nat /\ F # {}
  OBVIOUS
<1>2. PICK x \in F : \A y \in F : x <= y
  BY <1>1, LeastNatural
<1>3. x # 0 /\ x - 1 \in 0..N /\ x - 1 \notin F
  BY <1>2
<1> QED BY <1>2, <1>3
==============================================================================
