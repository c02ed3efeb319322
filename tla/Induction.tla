-------------------------------- MODULE Induction -------------------------------
(***************************************************************************)
(* Induction over the natural numbers, stated about sets.  The library     *)
(* states it about an operator, which the provers cannot instantiate; a    *)
(* set is a value like any other, so these lemmas can be cited.  They are  *)
(* what the proofs about wrap, about lines of text and about checksums     *)
(* rest on.                                                                *)
(***************************************************************************)
EXTENDS Integers, WellFoundedInduction, TLAPS

\* A set of natural numbers that is not empty has a least element.
LEMMA LeastElement ==
    ASSUME NEW T, T \subseteq Nat, T # {}
    PROVE  \E m \in T : \A k \in T : m <= k
<1> DEFINE R == OpToRel(<, Nat)
<1>1. IsWellFoundedOn(R, Nat)
    BY NatLessThanWellFounded
<1>2. \A k, m \in Nat : <<k, m>> \in R <=> k < m
    BY DEF OpToRel
<1> HIDE DEF R
<1>3. PICK m \in T : \A k \in T : ~(<<k, m>> \in R)
    BY <1>1, WFMin
<1>4. ASSUME NEW k \in T PROVE m <= k
    <2>1. k \in Nat /\ m \in Nat
        OBVIOUS
    <2>2. ~(k < m)
        BY <1>2, <1>3, <2>1
    <2> QED
        BY <2>1, <2>2
<1> QED
    BY <1>4

\* A set that has 0, and the successor of each number it has, has them all.
LEMMA InductiveSet ==
    ASSUME NEW S, 0 \in S, \A n \in Nat : n \in S => n + 1 \in S
    PROVE  \A n \in Nat : n \in S
<1> SUFFICES ASSUME NEW n \in Nat, n \notin S PROVE FALSE
    OBVIOUS
<1>1. PICK m \in Nat \ S : \A k \in Nat \ S : m <= k
    BY LeastElement
<1>2. m # 0 /\ m - 1 \in Nat
    BY <1>1
<1>3. m - 1 \in S
    BY <1>1, <1>2
<1> QED
    BY <1>1, <1>2, <1>3

\* A set of natural numbers that has 0 and is bounded has a greatest element.
LEMMA GreatestElement ==
    ASSUME NEW T, T \subseteq Nat, 0 \in T, NEW u \in Nat, \A x \in T : x <= u
    PROVE  \E m \in T : \A k \in T : m >= k
<1> DEFINE B == {v \in Nat : \A x \in T : x <= v}
<1>1. PICK m \in B : \A k \in B : m <= k
    <2>1. B \subseteq Nat /\ u \in B
        OBVIOUS
    <2> HIDE DEF B
    <2> QED
        BY <2>1, LeastElement
<1>2. CASE m \in T
    <2>1. m \in Nat /\ \A x \in T : x \in Nat /\ x <= m
        BY <1>1
    <2> QED
        BY <1>2, <2>1
<1>3. CASE m \notin T
    <2>1. m # 0 /\ m \in Nat /\ m - 1 \in Nat
        BY <1>1, <1>3
    <2>2. ASSUME NEW x \in T PROVE x <= m - 1
        <3>1. x \in Nat /\ x <= m /\ x # m
            BY <1>1, <1>3
        <3> QED
            BY <2>1, <3>1
    <2>3. m - 1 \in B
        BY <2>1, <2>2
    <2>4. m <= m - 1
        BY <1>1, <2>3
    <2> QED
        BY <2>1, <2>4
<1> QED
    BY <1>2, <1>3

================================================================================
