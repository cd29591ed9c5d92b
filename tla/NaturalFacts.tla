---------------------------- MODULE NaturalFacts ----------------------------
(***************************************************************************)
(* Facts on natural numbers and finite sets the proofs share.  An          *)
(* induction is written as the search for a least counterexample.          *)
(***************************************************************************)
EXTENDS Integers, WellFoundedInduction, FiniteSetTheorems, TLAPS

\* A set of naturals that is not empty has a least element.
LEMMA LeastNatural ==
    ASSUME NEW T, T \subseteq Nat, T # {}
    PROVE  \E x \in T : \A y \in T : x <= y
<1> DEFINE R == OpToRel(<, Nat)
<1>1. IsWellFoundedOn(R, Nat)
  BY NatLessThanWellFounded
<1>2. \A x, y \in Nat : <<y, x>> \in R <=> y < x
  BY DEF OpToRel
<1> HIDE DEF R
<1>3. PICK x \in T : \A y \in T : ~(<<y, x>> \in R)
  BY <1>1, WFMin
<1>4. \A y \in T : x \in Nat /\ y \in Nat /\ ~(y < x)
  BY <1>2, <1>3
<1> QED BY <1>4

\* A set of naturals that is not empty and has a bound has a greatest element.
LEMMA GreatestNatural ==
    ASSUME NEW n \in Nat, NEW T, T \subseteq 0..n, T # {}
    PROVE  \E x \in T : \A y \in T : y <= x
<1> DEFINE U == {b \in Nat : \A y \in T : y <= b}
<1>1. n \in U /\ U \subseteq Nat
  OBVIOUS
<1> HIDE DEF U
<1>2. PICK x \in U : \A b \in U : x <= b
  BY <1>1, LeastNatural
<1>3. x \in Nat /\ \A y \in T : y <= x
  BY DEF U
<1>4. ASSUME x \notin T PROVE FALSE
  <2>1. PICK y \in T : TRUE
    OBVIOUS
  <2>2. x - 1 \in Nat /\ \A z \in T : z <= x - 1
    BY <1>3, <1>4, <2>1
  <2>3. x - 1 \in U
    BY <2>2 DEF U
  <2> QED BY <1>2, <1>3, <2>3
<1> QED BY <1>3, <1>4

\* A finite set of sets that is not empty has a smallest one.
LEMMA SmallestSubset ==
    ASSUME NEW S, IsFiniteSet(S), NEW T, T \subseteq SUBSET S, T # {}
    PROVE  \E s \in T : \A x \in s : s \ {x} \notin T
<1> DEFINE C == {Cardinality(s) : s \in T}
<1>1. \A s \in SUBSET S : IsFiniteSet(s) /\ Cardinality(s) \in Nat
  BY FS_Subset, FS_CardinalityType
<1>2. C \subseteq Nat /\ C # {}
  BY <1>1
<1>3. PICK n \in C : \A m \in C : n <= m
  <2> HIDE DEF C
  <2> QED BY <1>2, LeastNatural
<1>4. PICK s \in T : n = Cardinality(s)
  BY <1>3
<1>5. ASSUME NEW x \in s, s \ {x} \in T PROVE FALSE
  <2>1. Cardinality(s \ {x}) = Cardinality(s) - 1
    BY <1>1, <1>5, FS_RemoveElement
  <2>2. Cardinality(s) <= Cardinality(s \ {x})
    BY <1>3, <1>4, <1>5
  <2>3. Cardinality(s) \in Nat
    BY <1>1
  <2> QED BY <2>1, <2>2, <2>3
<1> QED BY <1>5
=============================================================================
