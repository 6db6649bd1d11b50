------------------------- MODULE IntervalInduction -------------------------
(***************************************************************************)
(* Induction over an interval of the naturals, stated with a set in the    *)
(* place of a property, so that the SMT solver can use it.                 *)
(***************************************************************************)
EXTENDS Integers, WellFoundedInduction, TLAPS

\* A set of naturals has a least element.
LEMMA LeastOf ==
  ASSUME NEW T \in SUBSET Nat, T # {}
  PROVE  \E x \in T : \A y \in T : x <= y
<1> DEFINE R == {p \in Nat \X Nat : p[1] < p[2]}
<1>1. IsWellFoundedOn(R, Nat)
  BY NatLessThanWellFounded DEF OpToRel
<1>2. \A x, y \in Nat : <<y, x>> \in R <=> y < x
  OBVIOUS
<1> HIDE DEF R
<1>3. PICK x \in T : \A y \in T : ~(<<y, x>> \in R)
  BY <1>1, WFMin
<1>4. ASSUME NEW y \in T
      PROVE  x <= y
  <2>1. x \in Nat /\ y \in Nat
    OBVIOUS
  <2>2. ~(y < x)
    BY <1>2, <1>3, <1>4, <2>1
  <2> QED
    BY <2>1, <2>2
<1> QED
  BY <1>4

\* What holds of 0, and of k + 1 if it holds of k, holds up to m.
LEMMA Upwards ==
  ASSUME NEW m \in Nat, NEW G, 0 \in G, \A k \in 0 .. m - 1 : k \in G => k + 1 \in G
  PROVE  \A k \in 0 .. m : k \in G
<1> SUFFICES ASSUME NEW b \in 0 .. m, b \notin G
             PROVE  FALSE
  OBVIOUS
<1> DEFINE T == {k \in 0 .. m : k \notin G}
<1>1. T \in SUBSET Nat /\ T # {}
  OBVIOUS
<1>2. PICK x \in T : \A y \in T : x <= y
  BY <1>1, LeastOf
<1>3. x # 0 /\ x - 1 \in 0 .. m - 1 /\ x - 1 \notin T
  BY <1>2
<1>4. x - 1 \in G /\ x - 1 + 1 = x
  BY <1>3
<1> QED
  BY <1>3, <1>4
=============================================================================
