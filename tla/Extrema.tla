------------------------------ MODULE Extrema -------------------------------
(***************************************************************************)
(* Smallest and largest elements of sets of natural numbers.  The proofs   *)
(* about versions and positions use them in place of induction: what holds *)
(* of every one has no smallest exception.                                 *)
(***************************************************************************)
EXTENDS Integers, TLAPS, WellFoundedInduction

(* A set of natural numbers that is not empty has a smallest element. *)
LEMMA Smallest ==
  ASSUME NEW S \in SUBSET Nat, S # {}
  PROVE  \E v \in S : \A w \in S : v <= w
<1>1. PICK v \in S : \A w \in S : ~(<<w, v>> \in OpToRel(<, Nat))
  BY WFMin, NatLessThanWellFounded, Zenon
<1>2. \A w \in S : ~(w < v)
  BY <1>1, Zenon DEF OpToRel
<1> QED BY <1>2

(* So has one of natural numbers up to some number, a largest. *)
LEMMA Largest ==
  ASSUME NEW n \in Nat, NEW S \in SUBSET (0 .. n), S # {}
  PROVE  \E v \in S : \A w \in S : w <= v
<1> DEFINE T == {n - w : w \in S}
<1>1. T \in SUBSET Nat /\ T # {}
  <2>1. \A w \in S : n - w \in Nat
    OBVIOUS
  <2>2. PICK w \in S : TRUE
    OBVIOUS
  <2> QED BY <2>1, <2>2
<1>2. PICK m \in T : \A k \in T : m <= k
  <2> HIDE DEF T
  <2> QED BY <1>1, Smallest
<1>3. PICK v \in S : m = n - v
  BY <1>2
<1>4. \A w \in S : n - w \in T
  OBVIOUS
<1>5. \A w \in S : w <= v
  <2> SUFFICES ASSUME NEW w \in S PROVE w <= v
    OBVIOUS
  <2>1. m <= n - w
    BY <1>2, <1>4
  <2> HIDE DEF T
  <2> QED BY <1>3, <2>1
<1> QED BY <1>5
=============================================================================
