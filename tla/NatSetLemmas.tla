----------------------------- MODULE NatSetLemmas -----------------------------
(***************************************************************************)
(* The least and the greatest element of a set of natural numbers, and its *)
(* order.                                                                  *)
(***************************************************************************)
EXTENDS Ordering, FiniteSetsExt, FiniteSetTheorems, WellFoundedInduction, TLAPS

\* A set of natural numbers that is not empty has a least element.
LEMMA MinOfNats ==
  ASSUME NEW S \in SUBSET Nat, S # {}
  PROVE  Min(S) \in S /\ \A y \in S : Min(S) <= y
<1> DEFINE Below == OpToRel(<, Nat)
<1>1. \E x \in S : \A y \in S : ~(<<y, x>> \in Below)
  BY NatLessThanWellFounded, WFMin, Zenon
<1>2. \A x, y \in Nat : y < x => <<y, x>> \in Below
  BY DEF OpToRel
<1>3. \E x \in S : \A y \in S : x <= y
  <2> HIDE DEF Below
  <2>1. PICK x \in S : \A y \in S : ~(<<y, x>> \in Below)
    BY <1>1
  <2>2. \A y \in S : ~(y < x)
    BY <1>2, <2>1, Zenon
  <2> QED BY <2>2
<1> QED
  BY <1>3 DEF Min

\* So has a bounded one a greatest element.
LEMMA MaxOfNats ==
  ASSUME NEW S \in SUBSET Nat, S # {}, NEW n \in Nat, \A y \in S : y <= n
  PROVE  Max(S) \in S /\ \A y \in S : Max(S) >= y
<1> DEFINE T == {n - y : y \in S}
<1>1. T \in SUBSET Nat /\ T # {}
  <2>1. PICK y \in S : TRUE
    OBVIOUS
  <2>2. n - y \in T
    OBVIOUS
  <2>3. \A z \in T : z \in Nat
    OBVIOUS
  <2> QED BY <2>2, <2>3
<1>2. Min(T) \in T /\ \A z \in T : Min(T) <= z
  BY <1>1, MinOfNats
<1>3. PICK x \in S : Min(T) = n - x
  BY <1>2
<1>4. \A y \in S : x >= y
  <2> SUFFICES ASSUME NEW y \in S PROVE x >= y
    OBVIOUS
  <2>1. n - x <= n - y
    BY <1>2, <1>3
  <2> QED BY <2>1
<1> QED
  BY <1>4 DEF Max

----------------------------------------------------------------------------
(* Numbers in their order.                                                 *)

Increases(s) == \A i, j \in DOMAIN s : i < j => s[i] < s[j]

\* A finite set of numbers has an order: its least element, then that of the others.
LEMMA AnOrderExists ==
    \A n \in Nat : \A S \in SUBSET Nat : IsFiniteSet(S) /\ Cardinality(S) = n =>
        \E s \in [1..n -> S] : Increases(s)
<1> DEFINE Has(S, n) == \E s \in [1..n -> S] : Increases(s)
           Bad == {n \in Nat : \E S \in SUBSET Nat :
                       IsFiniteSet(S) /\ Cardinality(S) = n /\ ~ Has(S, n)}
<1>1. SUFFICES ASSUME Bad # {} PROVE FALSE
  OBVIOUS
<1>2. PICK n \in Bad : \A m \in Bad : n <= m
  <2>1. PICK B : B = Bad
    OBVIOUS
  <2>2. B \in SUBSET Nat /\ B # {}
    BY <1>1, <2>1
  <2>3. Min(B) \in B /\ \A m \in B : Min(B) <= m
    BY <2>2, MinOfNats
  <2> QED BY <2>1, <2>3
<1>3. PICK S \in SUBSET Nat : IsFiniteSet(S) /\ Cardinality(S) = n /\ ~ Has(S, n)
  BY <1>2
<1>4. n \in Nat
  BY <1>2
<1>5. S # {}
  <2>1. ASSUME S = {} PROVE FALSE
    <3>1. n = 0
      BY <1>3, <2>1, FS_EmptySet
    <3>2. PICK s : s = [k \in 1..0 |-> 0]
      OBVIOUS
    <3>3. s \in [1..n -> S] /\ Increases(s)
      BY <3>1, <3>2 DEF Increases
    <3> QED BY <1>3, <3>3
  <2> QED BY <2>1
<1>6. PICK least \in S : \A y \in S : least <= y
  <2>1. Min(S) \in S /\ \A y \in S : Min(S) <= y
    BY <1>5, MinOfNats
  <2> QED BY <2>1
<1>7. PICK m \in Int : m = n - 1
  BY <1>4
<1>8. PICK R : R = S \ {least}
  OBVIOUS
<1>9. IsFiniteSet(R) /\ Cardinality(R) = m /\ R \in SUBSET Nat
  BY <1>3, <1>6, <1>7, <1>8, FS_RemoveElement
<1>10. m \in Nat /\ m < n
  BY <1>4, <1>7, <1>9, FS_CardinalityType
<1>11. m \notin Bad
  BY <1>2, <1>4, <1>10
<1>12. PICK t \in [1..m -> R] : Increases(t)
  BY <1>9, <1>10, <1>11
<1>13. PICK s : s = [k \in 1..n |-> IF k = 1 THEN least ELSE t[k - 1]]
  OBVIOUS
<1>14. \A k \in 1..n : k = 1 \/ k - 1 \in 1..m
  BY <1>4, <1>7
<1>15. \A k \in 1..m : t[k] \in S /\ least < t[k]
  <2>1. \A k \in 1..m : t[k] \in S /\ t[k] # least
    BY <1>8, <1>12
  <2>2. least \in Nat /\ \A y \in S : y \in Nat
    BY <1>3
  <2> SUFFICES ASSUME NEW k \in 1..m PROVE t[k] \in S /\ least < t[k]
    OBVIOUS
  <2>3. least <= t[k] /\ t[k] \in Nat /\ t[k] # least /\ t[k] \in S
    BY <1>6, <2>1, <2>2
  <2> QED BY <2>2, <2>3
<1>16. s \in [1..n -> S]
  BY <1>6, <1>13, <1>14, <1>15
<1>17. Increases(s)
  <2> SUFFICES ASSUME NEW i \in 1..n, NEW j \in 1..n, i < j PROVE s[i] < s[j]
    BY <1>13 DEF Increases
  <2>1. j - 1 \in 1..m /\ s[j] = t[j - 1]
    BY <1>7, <1>13
  <2>2. CASE i = 1
    BY <1>13, <1>15, <2>1, <2>2
  <2>3. CASE i # 1
    <3>1. i - 1 \in 1..m /\ s[i] = t[i - 1] /\ i - 1 < j - 1
      BY <1>7, <1>13, <2>3
    <3>2. DOMAIN t = 1..m
      BY <1>12
    <3> QED BY <1>12, <2>1, <3>1, <3>2 DEF Increases
  <2> QED BY <2>2, <2>3
<1> QED
  BY <1>3, <1>16, <1>17

\* Ordered() gives each element of a finite set once, from the least on.
LEMMA OrderedSorts ==
    ASSUME NEW S \in SUBSET Nat, IsFiniteSet(S), NEW s, s = Ordered(S)
    PROVE  /\ Cardinality(S) \in Nat
           /\ s \in [1..Cardinality(S) -> S] /\ Increases(s)
           /\ \A x \in S : \E i \in 1..Cardinality(S) : s[i] = x
<1>1. PICK n \in Nat : n = Cardinality(S)
  BY FS_CardinalityType
<1>2. s \in [1..n -> S] /\ Increases(s)
  <2>1. \E t \in [1..n -> S] : Increases(t)
    BY <1>1, AnOrderExists
  <2>2. s = CHOOSE t \in [1..n -> S] : Increases(t)
    BY <1>1 DEF Ordered, Increases
  <2> QED BY <2>1, <2>2
<1>3. s \in Injection(1..n, S)
  <2> SUFFICES ASSUME NEW i \in 1..n, NEW j \in 1..n, i # j PROVE s[i] # s[j]
    BY <1>2 DEF Injection, IsInjective
  <2>1. s[i] \in S /\ s[j] \in S /\ DOMAIN s = 1..n
    BY <1>2
  <2>2. i < j \/ j < i
    OBVIOUS
  <2>3. s[i] < s[j] \/ s[j] < s[i]
    BY <1>2, <2>1, <2>2 DEF Increases
  <2>4. s[i] \in Nat /\ s[j] \in Nat
    BY <2>1
  <2> QED BY <2>3, <2>4
<1>4. Cardinality(1..n) = n
  BY FS_Interval
<1>5. s \in Surjection(1..n, S)
  BY <1>1, <1>3, <1>4, FS_Injection
<1> QED
  BY <1>1, <1>2, <1>5 DEF Surjection

\* The place of an element is the number of those that are not greater.
LEMMA PlaceInOrder ==
    ASSUME NEW S \in SUBSET Nat, NEW n \in Nat, NEW s \in [1..n -> S], Increases(s),
           \A x \in S : \E j \in 1..n : s[j] = x,
           NEW i \in 1..n, NEW T, T = {x \in S : x <= s[i]}
    PROVE  Cardinality(T) = i
<1>1. T = {x \in S : x <= s[i]}
  OBVIOUS
<1>2. \A j \in 1..n : s[j] \in Nat
  OBVIOUS
<1>3. \A j, k \in 1..n : (j < k => s[j] < s[k]) /\ (j # k => s[j] # s[k])
  <2>1. \A j, k \in 1..n : j < k => s[j] < s[k]
    BY DEF Increases
  <2> SUFFICES ASSUME NEW j \in 1..n, NEW k \in 1..n, j # k PROVE s[j] # s[k]
    BY <2>1
  <2>2. CASE j < k
    BY <1>2, <2>1, <2>2
  <2>3. CASE k < j
    BY <1>2, <2>1, <2>3
  <2> QED BY <2>2, <2>3
<1>4. PICK f : f = [k \in 1..i |-> s[k]]
  OBVIOUS
<1>5. \A k \in 1..i : k \in 1..n /\ f[k] = s[k] /\ f[k] \in T
  <2> SUFFICES ASSUME NEW k \in 1..i PROVE k \in 1..n /\ s[k] \in T
    BY <1>4
  <2>1. k \in 1..n
    OBVIOUS
  <2>2. s[k] <= s[i]
    BY <1>2, <1>3, <2>1
  <2> QED BY <1>1, <2>1, <2>2
<1>6. ASSUME NEW x \in T PROVE \E k \in 1..i : f[k] = x
  <2>1. PICK k \in 1..n : s[k] = x
    BY <1>1
  <2>2. s[k] <= s[i]
    BY <1>1, <2>1
  <2>3. ~ (i < k)
    BY <1>2, <1>3, <2>2
  <2> QED BY <1>4, <2>1, <2>3
<1>7. f \in Bijection(1..i, T)
  <2>1. f \in [1..i -> T]
    BY <1>4, <1>5
  <2>2. f \in Injection(1..i, T)
    BY <1>3, <1>5, <2>1 DEF Injection, IsInjective
  <2>3. f \in Surjection(1..i, T)
    BY <1>6, <2>1 DEF Surjection
  <2> QED BY <2>2, <2>3 DEF Bijection
<1>8. IsFiniteSet(1..i) /\ Cardinality(1..i) = i
  BY FS_Interval
<1>9. Cardinality(T) = Cardinality(1..i)
  BY <1>7, <1>8, FS_Bijection DEF ExistsBijection
<1> QED
  BY <1>8, <1>9
=============================================================================
