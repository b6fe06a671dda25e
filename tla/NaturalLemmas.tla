----------------------------- MODULE NaturalLemmas -----------------------------
(***************************************************************************)
(* Facts about natural numbers that the proofs of several programs need:    *)
(* the lowest free descriptor, the last position of a list, a smallest      *)
(* counterexample.                                                         *)
(***************************************************************************)
EXTENDS Integers, FiniteSets, FiniteSetsExt, FiniteSetTheorems,
        WellFoundedInduction, TLAPS

(* The order of the naturals as a relation.                                 *)
LEMMA LessOnNat ==
  \E R : /\ IsWellFoundedOn(R, Nat)
         /\ \A x, y \in Nat : y < x => <<y, x>> \in R
<1>1. \A x, y \in Nat : y < x => <<y, x>> \in OpToRel(<, Nat)
  BY Zenon DEF OpToRel
<1> QED
  BY <1>1, NatLessThanWellFounded, Zenon

(* A set of naturals has a smallest element.                                *)
LEMMA SmallestNat ==
  ASSUME NEW S, S \subseteq Nat, S # {}
  PROVE  \E x \in S : \A y \in S : x <= y
<1>1. PICK R : /\ IsWellFoundedOn(R, Nat)
               /\ \A x, y \in Nat : y < x => <<y, x>> \in R
  BY LessOnNat
<1>2. PICK x \in S : \A y \in S : ~ (<<y, x>> \in R)
  BY <1>1, WFMin
<1>3. ASSUME NEW y \in S PROVE x <= y
  <2>1. x \in Nat /\ y \in Nat
    OBVIOUS
  <2>2. ~ (y < x)
    BY <1>1, <1>2, <2>1
  <2> QED
    BY <2>1, <2>2
<1> QED
  BY <1>3

(* A set of naturals below a bound has a largest element.                   *)
LEMMA LargestNat ==
  ASSUME NEW S, S \subseteq Nat, S # {},
         NEW n \in Nat, \A s \in S : s <= n
  PROVE  \E x \in S : \A y \in S : y <= x
<1> DEFINE T == {m \in Nat : \A s \in S : s <= m}
<1>1. PICK m \in T : \A k \in T : m <= k
  <2>1. n \in T /\ T \subseteq Nat
    OBVIOUS
  <2> QED
    BY <2>1, SmallestNat
<1>2. PICK s \in S : s \in Nat
  OBVIOUS
<1>3. CASE m \in S
  BY <1>1, <1>3
<1>4. CASE m \notin S
  <2>1. \A y \in S : y \in Nat /\ y <= m /\ y # m
    BY <1>1, <1>4
  <2>2. m - 1 \in Nat /\ \A y \in S : y <= m - 1
    BY <1>1, <1>2, <2>1
  <2>3. m - 1 \in T
    BY <2>2
  <2> QED
    BY <1>1, <2>3
<1> QED
  BY <1>3, <1>4

(* Min and Max of such sets are what their names say.                       *)
LEMMA MinIsSmallest ==
  ASSUME NEW S, S \subseteq Nat, S # {}
  PROVE  Min(S) \in S /\ \A y \in S : Min(S) <= y
BY SmallestNat DEF Min

LEMMA MaxIsLargest ==
  ASSUME NEW S, S \subseteq Nat, S # {},
         NEW n \in Nat, \A s \in S : s <= n
  PROVE  Max(S) \in S /\ \A y \in S : Max(S) >= y
<1>1. PICK x \in S : \A y \in S : y <= x
  BY LargestNat
<1>2. \A y \in S : x >= y
  BY <1>1
<1> QED
  BY <1>2 DEF Max

(* Two numbers of an interval that a set leaves out, when it is small enough. *)
LEMMA TwoLeftOut ==
  ASSUME NEW a \in Nat, NEW b \in Nat, a <= b,
         NEW S, S \subseteq a .. b, Cardinality(S) + 1 <= b - a
  PROVE  \E x, y \in a .. b : x # y /\ x \notin S /\ y \notin S
<1>1. IsFiniteSet(a .. b) /\ Cardinality(a .. b) = b - a + 1
  BY FS_Interval
<1>2. IsFiniteSet(S) /\ Cardinality(S) \in Nat
  BY <1>1, FS_Subset, FS_CardinalityType
<1>3. PICK x \in a .. b : x \notin S
  <2>1. S # a .. b
    BY <1>1, <1>2
  <2> QED
    BY <2>1
<1>4. /\ IsFiniteSet(S \cup {x})
      /\ Cardinality(S \cup {x}) = Cardinality(S) + 1
  BY <1>2, <1>3, FS_AddElement
<1>5. S \cup {x} # a .. b
  <2>1. Cardinality(S \cup {x}) # Cardinality(a .. b)
    BY <1>1, <1>2, <1>4
  <2> QED
    BY <2>1, Zenon
<1>6. PICK y \in a .. b : y \notin S \cup {x}
  BY <1>3, <1>5
<1> QED
  BY <1>3, <1>6
==============================================================================
