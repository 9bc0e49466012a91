------------------------------ MODULE Induction ------------------------------
(***************************************************************************)
(* Induction over the positions of a list, for the facts about the folds   *)
(* the model uses.  The induction theorems of the library take the formula *)
(* as a parameter; here it is a set of numbers.                            *)
(***************************************************************************)
EXTENDS Naturals, FiniteSetsExt, WellFoundedInduction, TLAPS

LEMMA SetInduction ==
  ASSUME NEW S, 0 \in S, \A n \in Nat : n \in S => n + 1 \in S
  PROVE  Nat \subseteq S
<1> DEFINE Out == Nat \ S
<1> SUFFICES ASSUME Out # {} PROVE FALSE
  OBVIOUS
<1>1. IsWellFoundedOn(OpToRel(<, Nat), Nat)
  BY NatLessThanWellFounded
<1>2. PICK x \in Out : \A y \in Out : ~(<<y, x>> \in OpToRel(<, Nat))
  <2>1. Out \subseteq Nat
    OBVIOUS
  <2> HIDE DEF Out
  <2> QED BY <1>1, <2>1, WFMin
<1>3. x \in Nat /\ x \notin S
  OBVIOUS
<1>4. PICK y \in Nat : x = y + 1
  <2>1. x # 0
    BY <1>3
  <2>2. x - 1 \in Nat /\ x = (x - 1) + 1
    BY <1>3, <2>1
  <2> QED BY <2>2
<1>5. <<y, x>> \in OpToRel(<, Nat)
  <2>1. y < x
    BY <1>3, <1>4
  <2> QED BY <1>3, <2>1 DEF OpToRel
<1>6. y \in S
  BY <1>2, <1>5
<1> QED BY <1>3, <1>4, <1>6

\* Every nonempty set of positions has a last one.
LEMMA LastPosition ==
  ASSUME NEW s, NEW n \in Nat, s \subseteq 1..n, s # {}
  PROVE  /\ Max(s) \in s /\ \A y \in s : y <= Max(s)
         /\ s \ {Max(s)} \subseteq 1..(Max(s) - 1)
<1> DEFINE HasMax(t) == \E x \in t : \A y \in t : x >= y
           Good == {m \in Nat : \A t \in SUBSET (1..m) : t # {} => HasMax(t)}
<1>1. 0 \in Good
  <2>1. 1..0 = {}
    OBVIOUS
  <2> QED BY <2>1
<1>2. ASSUME NEW m \in Nat, m \in Good PROVE m + 1 \in Good
  <2> SUFFICES ASSUME NEW t \in SUBSET (1..(m+1)), t # {} PROVE HasMax(t)
    OBVIOUS
  <2>1. CASE m + 1 \in t
    BY <2>1
  <2>2. CASE m + 1 \notin t
    <3>1. t \in SUBSET (1..m)
      BY <2>2
    <3> QED BY <1>2, <3>1
  <2> QED BY <2>1, <2>2
<1>3. n \in Good
  <2> HIDE DEF Good
  <2> QED BY <1>1, <1>2, SetInduction
<1>4. PICK x \in s : \A y \in s : x >= y
  BY <1>3
<1>5. Max(s) \in s /\ \A y \in s : Max(s) >= y
  BY <1>4 DEF Max
<1>6. \A y \in s : y \in Nat /\ y >= 1
  OBVIOUS
<1>7. s \ {Max(s)} \subseteq 1..(Max(s) - 1)
  <2> DEFINE last == Max(s)
  <2> SUFFICES s \ {last} \subseteq 1..(last - 1)
    OBVIOUS
  <2>1. last \in Nat /\ \A y \in s : y \in Nat /\ y >= 1 /\ last >= y
    BY <1>5, <1>6
  <2> HIDE DEF last
  <2> QED BY <2>1
<1>8. \A y \in s : y <= Max(s)
  BY <1>5, <1>6
<1> QED BY <1>5, <1>7, <1>8
=============================================================================
