---------------------------- MODULE SetInduction ----------------------------
(***************************************************************************)
(* Induction over numbers without an operator as a parameter: a set of     *)
(* numbers takes the operator's place.  With it the proofs of this project *)
(* reach what recursive functions compute for every argument, and that a   *)
(* finite set of numbers can be sorted.                                    *)
(***************************************************************************)
EXTENDS Naturals, Sequences, FiniteSetTheorems, WellFoundedInduction, TLAPS

(* A set of numbers has a smallest member: what lies below the members of a
   finite set is well founded by inclusion. *)
LEMMA SmallestMember ==
  ASSUME NEW T, T \subseteq Nat, T # {}
  PROVE  \E x \in T : \A y \in T : x <= y
<1>1. PICK a \in T : TRUE
  OBVIOUS
<1> DEFINE S == 0 .. a
           Below == {V \in SUBSET S : \E x \in T : x <= a /\ V = 0 .. x - 1}
<1>2. IsFiniteSet(S)
  BY <1>1, FS_Interval
<1>3. IsWellFoundedOn(StrictSubsetOrdering(S), SUBSET S)
  BY <1>2, FS_StrictSubsetOrderingWellFounded, FS_FiniteSubsetsOfFinite
<1>4. 0 .. a - 1 \in Below
  BY <1>1
<1> HIDE DEF S, Below
<1>5. Below \subseteq SUBSET S /\ Below # {}
  BY <1>4 DEF Below
<1>6. PICK V \in Below : \A W \in Below : ~(<<W, V>> \in StrictSubsetOrdering(S))
  BY <1>3, <1>5, WFMin
<1> USE DEF S, Below
<1>7. PICK x \in T : x <= a /\ V = 0 .. x - 1
  BY <1>6
<1>8. ASSUME NEW y \in T, y < x PROVE FALSE
  <2>1. 0 .. y - 1 \in Below
    BY <1>1, <1>7, <1>8
  <2>2. 0 .. y - 1 \subseteq V /\ y \in V /\ y \notin 0 .. y - 1
    BY <1>7, <1>8
  <2>3. <<0 .. y - 1, V>> \in StrictSubsetOrdering(S)
    BY <1>6, <2>1, <2>2 DEF StrictSubsetOrdering
  <2> QED
    BY <1>6, <2>1, <2>3
<1> QED
  BY <1>7, <1>8

(* A set that holds 0, and with a number the next one, holds all numbers. *)
LEMMA Induction ==
  ASSUME NEW S, 0 \in S, \A n \in Nat : n \in S => n + 1 \in S
  PROVE  \A n \in Nat : n \in S
<1> SUFFICES ASSUME NEW n \in Nat, n \notin S PROVE FALSE
  OBVIOUS
<1> DEFINE T == {k \in Nat : k \notin S}
<1>1. PICK x \in T : \A y \in T : x <= y
  <2>1. T \subseteq Nat /\ n \in T
    OBVIOUS
  <2> QED
    BY <2>1, SmallestMember
<1>2. x # 0 /\ x - 1 \in Nat /\ x = (x - 1) + 1
  OBVIOUS
<1> QED
  BY <1>1, <1>2

(* The same from all smaller numbers to the next. *)
LEMMA StrongInduction ==
  ASSUME NEW S, \A n \in Nat : (\A k \in 0 .. n - 1 : k \in S) => n \in S
  PROVE  \A n \in Nat : n \in S
<1> SUFFICES ASSUME NEW n \in Nat, n \notin S PROVE FALSE
  OBVIOUS
<1> DEFINE T == {k \in Nat : k \notin S}
<1>1. PICK x \in T : \A y \in T : x <= y
  <2>1. T \subseteq Nat /\ n \in T
    OBVIOUS
  <2> QED
    BY <2>1, SmallestMember
<1>2. \A k \in 0 .. x - 1 : k \in S
  BY <1>1
<1> QED
  BY <1>1, <1>2

(* A set of numbers with a bound has a greatest member. *)
LEMMA GreatestMember ==
  ASSUME NEW T, T \subseteq Nat, T # {}, NEW b \in Nat, \A x \in T : x <= b
  PROVE  \E x \in T : \A y \in T : y <= x
<1> DEFINE U == {k \in Nat : \A y \in T : y <= k}
<1>1. PICK m \in U : \A y \in U : m <= y
  <2>1. U \subseteq Nat /\ b \in U
    OBVIOUS
  <2> QED
    BY <2>1, SmallestMember
<1>2. m \in T
  <2>1. CASE m = 0
    <3>1. PICK y \in T : TRUE
      OBVIOUS
    <3>2. y <= 0 /\ y \in Nat
      BY <2>1
    <3> QED
      BY <2>1, <3>2
  <2>2. CASE m # 0
    <3>1. m - 1 \in Nat /\ m - 1 \notin U
      BY <1>1, <2>2
    <3> QED
      BY <1>1, <3>1
  <2> QED
    BY <2>1, <2>2
<1> QED
  BY <1>1, <1>2

(* A value computed in n rounds from a, each a function of the round's number
   and of what the round before it computed. *)
LEMMA Iterates ==
  ASSUME NEW X, NEW a \in X, NEW N \in Nat, NEW G \in [(1 .. N) \X X -> X]
  PROVE  \E f \in [0 .. N -> X] : f[0] = a /\ \A n \in 1 .. N : f[n] = G[<<n, f[n - 1]>>]
<1> DEFINE Up(m) == \E f \in [0 .. m -> X] :
                      f[0] = a /\ \A n \in 1 .. m : f[n] = G[<<n, f[n - 1]>>]
           S == {m \in Nat : m <= N => Up(m)}
<1>1. 0 \in S
  <2> DEFINE g == [n \in 0 .. 0 |-> a]
  <2>1. g \in [0 .. 0 -> X] /\ g[0] = a /\ \A n \in 1 .. 0 : FALSE
    OBVIOUS
  <2>2. Up(0)
    <3> HIDE DEF g
    <3> QED
      BY <2>1
  <2> QED
    BY <2>2
<1>2. ASSUME NEW m \in Nat, m \in S PROVE m + 1 \in S
  <2> SUFFICES ASSUME m + 1 <= N PROVE Up(m + 1)
    OBVIOUS
  <2>1. PICK f \in [0 .. m -> X] : f[0] = a /\ \A n \in 1 .. m : f[n] = G[<<n, f[n - 1]>>]
    BY <1>2
  <2>2. G[<<m + 1, f[m]>>] \in X
    OBVIOUS
  <2> DEFINE g == [n \in 0 .. m + 1 |-> IF n <= m THEN f[n] ELSE G[<<m + 1, f[m]>>]]
  <2>3. g \in [0 .. m + 1 -> X]
    BY <2>2
  <2>4. g[0] = a /\ \A n \in 1 .. m + 1 : g[n] = G[<<n, g[n - 1]>>]
    <3>1. \A n \in 0 .. m : g[n] = f[n]
      OBVIOUS
    <3>2. g[m + 1] = G[<<m + 1, g[m]>>]
      OBVIOUS
    <3>3. ASSUME NEW n \in 1 .. m PROVE g[n] = G[<<n, g[n - 1]>>]
      <4>1. n - 1 \in 0 .. m /\ n \in 0 .. m
        OBVIOUS
      <4> QED
        BY <2>1, <3>1, <4>1
    <3>4. \A n \in 1 .. m + 1 : n \in 1 .. m \/ (n = m + 1 /\ n - 1 = m)
      <4> HIDE DEF g
      <4> QED
        OBVIOUS
    <3>5. g[0] = a
      BY <2>1, <3>1
    <3> HIDE DEF g
    <3> QED
      BY <3>2, <3>3, <3>4, <3>5
  <2> QED
    BY <2>3, <2>4
<1>3. \A m \in Nat : m \in S
  <2> HIDE DEF S
  <2> QED
    BY <1>1, <1>2, Induction
<1> QED
  BY <1>3


(* The members of a finite set of numbers in ascending order. *)
LEMMA SortedList ==
  ASSUME NEW T, T \subseteq Nat, IsFiniteSet(T)
  PROVE  \E s \in [1 .. Cardinality(T) -> T] :
           /\ \A j, k \in 1 .. Cardinality(T) : j < k => s[j] < s[k]
           /\ \A x \in T : \E k \in 1 .. Cardinality(T) : s[k] = x
<1> DEFINE Lists(V, n) == {s \in [1 .. n -> V] :
                             /\ \A j, k \in 1 .. n : j < k => s[j] < s[k]
                             /\ \A x \in V : \E k \in 1 .. n : s[k] = x}
           Sets(n) == {V \in SUBSET Nat : IsFiniteSet(V) /\ Cardinality(V) = n}
           S == {n \in Nat : \A V \in Sets(n) : Lists(V, n) # {}}
<1>1. 0 \in S
  <2> SUFFICES ASSUME NEW V \in Sets(0) PROVE Lists(V, 0) # {}
    OBVIOUS
  <2>1. V = {}
    BY FS_EmptySet
  <2> DEFINE s == [k \in 1 .. 0 |-> 0]
  <2>2. s \in [1 .. 0 -> V] /\ \A j \in 1 .. 0 : FALSE
    OBVIOUS
  <2>3. s \in Lists(V, 0)
    BY <2>1, <2>2
  <2> QED
    BY <2>3
<1>2. ASSUME NEW n \in Nat, n \in S PROVE n + 1 \in S
  <2> SUFFICES ASSUME NEW V \in Sets(n + 1) PROVE Lists(V, n + 1) # {}
    OBVIOUS
  <2>1. V \subseteq Nat /\ IsFiniteSet(V) /\ Cardinality(V) = n + 1 /\ V # {}
    BY FS_EmptySet
  <2>2. PICK x \in V : \A y \in V : x <= y
    BY <2>1, SmallestMember
  <2> DEFINE W == V \ {x}
  <2>3. W \in Sets(n)
    <3>1. IsFiniteSet(W) /\ Cardinality(W) = Cardinality(V) - 1
      BY <2>1, <2>2, FS_RemoveElement
    <3>2. Cardinality(W) = n
      BY <2>1, <3>1
    <3> QED
      BY <2>1, <3>1, <3>2
  <2>4. PICK s \in [1 .. n -> W] :
          /\ \A j, k \in 1 .. n : j < k => s[j] < s[k]
          /\ \A y \in W : \E k \in 1 .. n : s[k] = y
    <3>1. Lists(W, n) # {}
      BY <1>2, <2>3
    <3> QED
      BY <3>1
  <2> DEFINE t == [k \in 1 .. n + 1 |-> IF k = 1 THEN x ELSE s[k - 1]]
  <2>5. /\ 1 \in 1 .. n + 1 /\ t[1] = x
        /\ \A k \in 1 .. n + 1 : k # 1 => k - 1 \in 1 .. n /\ t[k] = s[k - 1]
        /\ \A k \in 1 .. n : k + 1 \in 1 .. n + 1 /\ t[k + 1] = s[k]
    OBVIOUS
  <2>6. t \in [1 .. n + 1 -> V]
    <3>1. \A k \in 1 .. n + 1 : t[k] \in V
      BY <2>2, <2>4, <2>5
    <3> QED
      BY <3>1
  <2> HIDE DEF t
  <2>7. \A y \in W : x < y
    BY <2>1, <2>2
  <2>8. ASSUME NEW j \in 1 .. n + 1, NEW k \in 1 .. n + 1, j < k PROVE t[j] < t[k]
    <3>1. k - 1 \in 1 .. n /\ t[k] = s[k - 1] /\ s[k - 1] \in W
      BY <2>4, <2>5, <2>8
    <3>2. CASE j = 1
      BY <2>5, <2>7, <3>1, <3>2
    <3>3. CASE j # 1
      <4>1. j - 1 \in 1 .. n /\ t[j] = s[j - 1] /\ j - 1 < k - 1
        BY <2>5, <2>8, <3>3
      <4> QED
        BY <2>4, <3>1, <4>1
    <3> QED
      BY <3>2, <3>3
  <2>9. ASSUME NEW y \in V PROVE \E k \in 1 .. n + 1 : t[k] = y
    <3>1. CASE y = x
      BY <2>5, <3>1
    <3>2. CASE y # x
      <4>1. PICK k \in 1 .. n : s[k] = y
        BY <2>4, <3>2
      <4> QED
        BY <2>5, <4>1
    <3> QED
      BY <3>1, <3>2
  <2>10. t \in Lists(V, n + 1)
    BY <2>6, <2>8, <2>9
  <2> QED
    BY <2>10
<1>3. \A n \in Nat : n \in S
  <2> HIDE DEF S
  <2> QED
    BY <1>1, <1>2, Induction
<1>4. Cardinality(T) \in S /\ T \in Sets(Cardinality(T))
  BY <1>3, FS_CardinalityType
<1> QED
  BY <1>4
=============================================================================
