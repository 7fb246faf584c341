------------------------- MODULE RecursionTheorems --------------------------
(***************************************************************************)
(* What proofs about loops need: induction over the naturals, for a set of *)
(* numbers and so without an operator as a parameter, the least number of  *)
(* a set, and the existence of a function that is defined by recursion on  *)
(* a measure.  For the prover f[x \in D] == e is CHOOSE f : f = [x \in D   *)
(* |-> e], which says nothing until such a function is known to exist.     *)
(***************************************************************************)
EXTENDS Integers, WellFoundedInduction, TLAPS

(* Every nonempty set of naturals has a least member. *)
LEMMA LeastNatural ==
    ASSUME NEW T, T \subseteq Nat, T # {}
    PROVE  \E x \in T : \A y \in T : x <= y
<1> DEFINE R == OpToRel(<, Nat)
<1>1. IsWellFoundedOn(R, Nat)
  BY NatLessThanWellFounded
<1>2. \E x \in T : \A y \in T : ~ (<<y, x>> \in R)
  <2> HIDE DEF R
  <2> QED
    BY <1>1, WFMin
<1>3. PICK x \in T : \A y \in T : ~ (<<y, x>> \in R)
  BY <1>2
<1>4. \A y \in T : ~ (y < x)
  BY <1>3 DEF OpToRel
<1> QED
  BY <1>4

(* Induction over the naturals. *)
LEMMA SetInduction ==
    ASSUME NEW S, 0 \in S, \A n \in Nat : n \in S => n + 1 \in S
    PROVE  \A n \in Nat : n \in S
<1> DEFINE T == Nat \ S
<1>1. ASSUME T # {} PROVE FALSE
  <2>1. PICK x \in T : \A y \in T : x <= y
    BY <1>1, LeastNatural
  <2>2. x \in Nat /\ x \notin S /\ x # 0
    BY <2>1
  <2>3. x - 1 \in Nat /\ x = (x - 1) + 1
    BY <2>2
  <2>4. x - 1 \notin S
    BY <2>2, <2>3
  <2>5. x - 1 \in T /\ ~(x <= x - 1)
    BY <2>2, <2>3, <2>4
  <2> QED
    BY <2>1, <2>5
<1> QED
  BY <1>1

(* f has the value base[x] at x, or the value that step makes of x and the *)
(* value at next[x].                                                       *)
Recurses(f, D, Stop, base, next, step) ==
    \A x \in D : f[x] = IF x \in Stop THEN base[x] ELSE step[<<x, f[next[x]]>>]

(* A function whose value at x is base[x], or is made by step from its     *)
(* value at next[x], where the measure is smaller, exists.                 *)
LEMMA RecursiveFunctionExists ==
    ASSUME NEW D, NEW V, NEW N \in Nat, NEW m \in [D -> 0 .. N], NEW Stop,
           NEW base \in [D -> V], NEW next \in [D -> D], NEW step \in [D \X V -> V],
           \A x \in D \ Stop : m[next[x]] < m[x]
    PROVE  \E f \in [D -> V] : Recurses(f, D, Stop, base, next, step)
<1> DEFINE Below(n) == {x \in D : m[x] < n}
           Solves(f, n) == \A x \in Below(n) :
                              f[x] = IF x \in Stop THEN base[x] ELSE step[<<x, f[next[x]]>>]
           S == {n \in Nat : \E f \in [Below(n) -> V] : Solves(f, n)}
<1>0. \A x \in D : m[x] \in Nat /\ m[x] <= N /\ next[x] \in D
  OBVIOUS
<1>1. 0 \in S
  <2>1. Below(0) = {}
    BY <1>0
  <2> DEFINE f == [x \in Below(0) |-> base[x]]
  <2>2. f \in [Below(0) -> V]
    BY <2>1
  <2>3. Solves(f, 0)
    BY <2>1
  <2> QED
    BY <2>2, <2>3
<1>2. ASSUME NEW n \in Nat, n \in S PROVE n + 1 \in S
  <2>1. PICK f \in [Below(n) -> V] : Solves(f, n)
    BY <1>2
  <2>2. \A x \in Below(n + 1) \ Stop : next[x] \in Below(n)
    BY <1>0
  <2>3. \A x \in Below(n) : x \in Below(n + 1)
    BY <1>0
  <2> DEFINE g == [x \in Below(n + 1) |->
                      IF x \in Stop THEN base[x] ELSE step[<<x, f[next[x]]>>]]
  <2>4. g \in [Below(n + 1) -> V]
    <3>1. ASSUME NEW x \in Below(n + 1) \ Stop PROVE step[<<x, f[next[x]]>>] \in V
      <4>1. f[next[x]] \in V
        BY <2>1, <2>2
      <4>2. <<x, f[next[x]]>> \in D \X V
        BY <4>1
      <4> QED
        BY <4>2
    <3> QED
      BY <3>1
  <2>5. \A x \in Below(n) : g[x] = f[x]
    BY <2>1, <2>3
  <2>6. Solves(g, n + 1)
    <3> SUFFICES ASSUME NEW x \in Below(n + 1)
                 PROVE  g[x] = IF x \in Stop THEN base[x] ELSE step[<<x, g[next[x]]>>]
      OBVIOUS
    <3>1. CASE x \in Stop
      BY <3>1
    <3>2. CASE x \notin Stop
      <4>1. g[next[x]] = f[next[x]]
        BY <2>2, <2>5, <3>2
      <4>2. g[x] = step[<<x, f[next[x]]>>]
        BY <3>2
      <4> QED
        BY <3>2, <4>1, <4>2
    <3> QED
      BY <3>1, <3>2
  <2>7. n + 1 \in Nat
    OBVIOUS
  <2> HIDE DEF Below, Solves, g
  <2> QED
    BY <2>4, <2>6, <2>7
<1>3. N + 1 \in S
  <2> HIDE DEF S
  <2>1. \A n \in Nat : n \in S
    BY <1>1, <1>2, SetInduction
  <2> QED
    BY <2>1
<1>4. Below(N + 1) = D
  BY <1>0
<1>5. PICK f \in [Below(N + 1) -> V] : Solves(f, N + 1)
  BY <1>3
<1>6. f \in [D -> V] /\ \A x \in D : x \in Below(N + 1)
  BY <1>4
<1>7. Recurses(f, D, Stop, base, next, step)
  BY <1>5, <1>6 DEF Recurses
<1> QED
  BY <1>6, <1>7

(* The same for a loop that only moves on, ...                             *)
MovesOn(f, D, Stop, base, next) ==
    \A x \in D : f[x] = IF x \in Stop THEN base[x] ELSE f[next[x]]

(* ... and for one over 1 .. N that carries a value. *)
Carries(f, N, a, step) ==
    \A i \in 0 .. N : f[i] = IF i = 0 THEN a ELSE step[<<i, f[i - 1]>>]

(* A loop that moves on to smaller measures has a value everywhere.        *)
LEMMA LoopExists ==
    ASSUME NEW D, NEW N \in Nat, NEW m \in [D -> 0 .. N], NEW Stop,
           NEW V, NEW base \in [D -> V], NEW next \in [D -> D],
           \A x \in D \ Stop : m[next[x]] < m[x]
    PROVE  \E f \in [D -> V] : MovesOn(f, D, Stop, base, next)
<1> DEFINE step == [p \in D \X V |-> p[2]]
<1>1. step \in [D \X V -> V]
  OBVIOUS
<1>2. PICK f \in [D -> V] : Recurses(f, D, Stop, base, next, step)
  <2> HIDE DEF step
  <2> QED
    BY <1>1, RecursiveFunctionExists
<1>3. \A x \in D : step[<<x, f[next[x]]>>] = f[next[x]]
  <2> SUFFICES ASSUME NEW x \in D PROVE step[<<x, f[next[x]]>>] = f[next[x]]
    OBVIOUS
  <2> DEFINE v == f[next[x]]
  <2>1. v \in V
    OBVIOUS
  <2> HIDE DEF v
  <2>2. step[<<x, v>>] = v
    BY <2>1
  <2> QED
    BY <2>2 DEF v
<1> HIDE DEF step
<1> QED
  BY <1>2, <1>3 DEF Recurses, MovesOn

(* A loop over 1 .. N has a value after every round. *)
LEMMA FoldExists ==
    ASSUME NEW N \in Nat, NEW V, NEW a \in V, NEW step \in [(0 .. N) \X V -> V]
    PROVE  \E f \in [0 .. N -> V] : Carries(f, N, a, step)
<1> DEFINE D == 0 .. N
           m == [i \in D |-> i]
           base == [i \in D |-> a]
           next == [i \in D |-> IF i = 0 THEN 0 ELSE i - 1]
<1>1. m \in [D -> 0 .. N] /\ base \in [D -> V] /\ next \in [D -> D]
  OBVIOUS
<1>2. \A i \in D \ {0} : m[next[i]] < m[i]
  OBVIOUS
<1>3. PICK f \in [D -> V] : Recurses(f, D, {0}, base, next, step)
  <2> HIDE DEF m, base, next, D
  <2>0. step \in [D \X V -> V]
    BY DEF D
  <2> QED
    BY <1>1, <1>2, <2>0, RecursiveFunctionExists
<1>4. \A i \in D : base[i] = a /\ (i # 0 => next[i] = i - 1)
  OBVIOUS
<1>5. \A i \in D : f[i] = IF i = 0 THEN a ELSE step[<<i, f[i - 1]>>]
  <2> HIDE DEF base, next
  <2> SUFFICES ASSUME NEW i \in D PROVE f[i] = IF i = 0 THEN a ELSE step[<<i, f[i - 1]>>]
    OBVIOUS
  <2> QED
    BY <1>3, <1>4 DEF Recurses
<1> QED
  BY <1>5 DEF Carries

(* Induction over 0 .. N. *)
LEMMA CountInduction ==
    ASSUME NEW N \in Nat, NEW S, 0 \in S, \A i \in 1 .. N : i - 1 \in S => i \in S
    PROVE  \A i \in 0 .. N : i \in S
<1> DEFINE T == {n \in Nat : n <= N => n \in S}
<1>1. 0 \in T
  OBVIOUS
<1>2. ASSUME NEW n \in Nat, n \in T PROVE n + 1 \in T
  <2>1. CASE n + 1 <= N
    <3> DEFINE i == n + 1
    <3>1. n \in S /\ i \in 1 .. N /\ i - 1 = n
      BY <1>2, <2>1
    <3> HIDE DEF i
    <3>2. i - 1 \in S
      BY <3>1
    <3>3. i \in S
      BY <3>1, <3>2
    <3> QED
      BY <3>3 DEF i
  <2> QED
    BY <2>1
<1>3. \A n \in Nat : n \in T
  <2> HIDE DEF T
  <2> QED
    BY <1>1, <1>2, SetInduction
<1> QED
  BY <1>3

(* Induction over a set on which a measure is defined. *)
LEMMA MeasureInduction ==
    ASSUME NEW D, NEW N \in Nat, NEW m \in [D -> 0 .. N], NEW S,
           \A x \in D : (\A y \in D : m[y] < m[x] => y \in S) => x \in S
    PROVE  \A x \in D : x \in S
<1> DEFINE T == {n \in Nat : \A x \in D : m[x] < n => x \in S}
<1>1. 0 \in T
  OBVIOUS
<1>2. ASSUME NEW n \in Nat, n \in T PROVE n + 1 \in T
  <2>1. ASSUME NEW x \in D, m[x] < n + 1 PROVE x \in S
    <3>1. \A y \in D : m[y] < m[x] => m[y] < n
      BY <2>1
    <3> QED
      BY <1>2, <2>1, <3>1
  <2> QED
    BY <2>1
<1>3. N + 1 \in T
  <2> HIDE DEF T
  <2>1. \A n \in Nat : n \in T
    BY <1>1, <1>2, SetInduction
  <2> QED
    BY <2>1
<1> QED
  BY <1>3
=============================================================================
