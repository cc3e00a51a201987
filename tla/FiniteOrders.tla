---------------------------- MODULE FiniteOrders ----------------------------
(***************************************************************************)
(* Facts about finite sets in an order, for the choices that the           *)
(* specifications make: the latest entry, the first task of a schedule, a  *)
(* set laid out as a sequence.                                             *)
(***************************************************************************)
EXTENDS Integers, FiniteSets, FiniteSetTheorems, TLAPS

(* A finite set has a first element in any order that is total on it.       *)
LEMMA FiniteFirst ==
  ASSUME NEW S, IsFiniteSet(S), S # {}, NEW R,
         \A a, b \in S : <<a, b>> \in R \/ <<b, a>> \in R,
         \A a, b, c \in S : <<a, b>> \in R /\ <<b, c>> \in R => <<a, c>> \in R
  PROVE  \E a \in S : \A b \in S : <<a, b>> \in R
<1> DEFINE Led(T) == \E a \in T : \A b \in T : <<a, b>> \in R
           Bad == {T \in FiniteSubsetsOf(S) : T # {} /\ ~Led(T)}
<1> SUFFICES ASSUME Bad # {} PROVE FALSE
  BY FS_Subset DEF FiniteSubsetsOf
<1>1. PICK T \in Bad : \A U \in Bad : <<U, T>> \notin StrictSubsetOrdering(S)
  BY FS_StrictSubsetOrderingWellFounded, WFMin
<1>2. /\ T \subseteq S /\ IsFiniteSet(T) /\ T # {} /\ ~Led(T)
  BY FS_Subset DEF FiniteSubsetsOf
<1>3. PICK x \in T : TRUE
  BY <1>2
<1>4. T \ {x} # {}
  BY <1>2, <1>3
<1>5. T \ {x} \in FiniteSubsetsOf(S)
  BY <1>2, FS_RemoveElement DEF FiniteSubsetsOf
<1>6. <<T \ {x}, T>> \in StrictSubsetOrdering(S)
  BY <1>2, <1>3 DEF StrictSubsetOrdering
<1>7. Led(T \ {x})
  BY <1>1, <1>4, <1>5, <1>6
<1>8. PICK a \in T \ {x} : \A b \in T \ {x} : <<a, b>> \in R
  BY <1>7
<1>9. CASE <<a, x>> \in R
  BY <1>2, <1>8, <1>9
<1>10. CASE <<x, a>> \in R
  <2>1. \A b \in T : <<x, b>> \in R
    BY <1>2, <1>3, <1>8, <1>10
  <2>2. QED
    BY <1>2, <1>3, <2>1
<1>11. QED
  BY <1>2, <1>3, <1>8, <1>9, <1>10

LEMMA GreatestNumber ==
  ASSUME NEW S \in SUBSET Int, IsFiniteSet(S), S # {}
  PROVE  \E m \in S : \A x \in S : x <= m
<1> DEFINE R == {p \in S \X S : p[2] <= p[1]}
<1>1. \A a, b \in S : <<a, b>> \in R \/ <<b, a>> \in R
  OBVIOUS
<1>2. \A a, b, c \in S : <<a, b>> \in R /\ <<b, c>> \in R => <<a, c>> \in R
  OBVIOUS
<1> HIDE DEF R
<1>3. \E m \in S : \A x \in S : <<m, x>> \in R
  BY <1>1, <1>2, FiniteFirst
<1>4. QED
  BY <1>3 DEF R

LEMMA LeastNatural ==
  ASSUME NEW B \in SUBSET Nat, B # {}
  PROVE  \E n \in B : \A m \in B : n <= m
<1>1. PICK n \in B : \A m \in B : <<m, n>> \notin OpToRel(<, Nat)
  BY NatLessThanWellFounded, WFMin
<1>2. \A m \in B : ~(m < n)
  BY <1>1 DEF OpToRel
<1>3. QED
  BY <1>2

(* A finite set of numbers can be laid out in order.                        *)
LEMMA Enumeration ==
  ASSUME NEW S \in SUBSET Int, IsFiniteSet(S)
  PROVE  \E s \in [1..Cardinality(S) -> S] : \A i, j \in DOMAIN s : i < j => s[i] < s[j]
<1> DEFINE Laid(T) == \E s \in [1..Cardinality(T) -> T] :
                        \A i, j \in DOMAIN s : i < j => s[i] < s[j]
           Bad == {T \in FiniteSubsetsOf(S) : ~Laid(T)}
<1> SUFFICES ASSUME Bad # {} PROVE FALSE
  BY FS_Subset DEF FiniteSubsetsOf
<1>1. PICK T \in Bad : \A U \in Bad : <<U, T>> \notin StrictSubsetOrdering(S)
  BY FS_StrictSubsetOrderingWellFounded, WFMin
<1>2. T \subseteq S /\ IsFiniteSet(T) /\ ~Laid(T)
  BY DEF FiniteSubsetsOf
<1>3. T # {}
  <2> SUFFICES ASSUME T = {} PROVE Laid(T)
    BY <1>2
  <2>1. Cardinality(T) = 0 /\ [i \in 1..0 |-> 0] \in [1..0 -> T]
    BY FS_EmptySet
  <2>2. QED
    BY <2>1
<1>4. PICK m \in T : \A x \in T : x <= m
  BY <1>2, <1>3, GreatestNumber
<1> DEFINE n == Cardinality(T)
<1>5. /\ T \ {m} \in FiniteSubsetsOf(S)
      /\ n \in Nat /\ n > 0 /\ Cardinality(T \ {m}) = n - 1
  BY <1>2, <1>4, FS_RemoveElement, FS_EmptySet, FS_CardinalityType DEF FiniteSubsetsOf
<1>6. <<T \ {m}, T>> \in StrictSubsetOrdering(S)
  BY <1>2, <1>4 DEF StrictSubsetOrdering
<1>7. PICK s \in [1..(n - 1) -> T \ {m}] : \A i, j \in DOMAIN s : i < j => s[i] < s[j]
  BY <1>1, <1>5, <1>6
<1> DEFINE t == [i \in 1..n |-> IF i = n THEN m ELSE s[i]]
<1>8. t \in [1..n -> T]
  BY <1>5, <1>7
<1>9. \A i, j \in 1..n : i < j => t[i] < t[j]
  <2> SUFFICES ASSUME NEW i \in 1..n, NEW j \in 1..n, i < j PROVE t[i] < t[j]
    OBVIOUS
  <2>1. i \in 1..(n - 1) /\ t[i] = s[i] /\ s[i] \in T \ {m}
    BY <1>5, <1>7
  <2>2. CASE j = n
    <3>1. t[j] = m
      BY <2>2
    <3>2. t[i] <= m /\ t[i] # m /\ t[i] \in Int /\ m \in Int
      BY <1>2, <1>4, <2>1
    <3>3. QED
      BY <3>1, <3>2
  <2>3. CASE j # n
    BY <1>5, <1>7, <2>1, <2>3
  <2>4. QED
    BY <2>2, <2>3
<1>10. QED
  BY <1>2, <1>8, <1>9
=============================================================================
