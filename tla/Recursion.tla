------------------------------ MODULE Recursion ------------------------------
(***************************************************************************)
(* Lemmas for what is computed one step after the other: induction over    *)
(* the natural numbers, for a property given by the set of those that have *)
(* it, and the existence of what is defined recursively.                   *)
(*                                                                         *)
(* A recursion is a sequence of n values, each computed from its number    *)
(* and the value before it.  The step is given by the set of the triples   *)
(* <<number, value before, value>>.                                        *)
(***************************************************************************)
EXTENDS Naturals, WellFoundedInduction, TLAPS

Below == {pair \in Nat \X Nat : pair[1] < pair[2]}

\* the value before the k-th of a recursion that begins with base
Previous(f, base, k) == IF k = 1 THEN base ELSE f[k - 1]

LEMMA BelowWellFounded == IsWellFoundedOn(Below, Nat)
<1>1. OpToRel(<, Nat) = Below
  BY Zenon DEF OpToRel, Below
<1> QED
  BY <1>1, NatLessThanWellFounded, Zenon

\* A set with 0 and with the successor of each number in it holds all numbers.
LEMMA Induction ==
  ASSUME NEW S, 0 \in S, \A n \in Nat : n \in S => n + 1 \in S
  PROVE  \A n \in Nat : n \in S
<1> DEFINE missing == Nat \ S
<1>1. SUFFICES ASSUME missing # {} PROVE FALSE
  OBVIOUS
<1>2. PICK x \in missing : \A y \in missing : <<y, x>> \notin Below
  <2>1. missing \subseteq Nat
    OBVIOUS
  <2> HIDE DEF missing
  <2> QED
    BY <1>1, <2>1, WFMin, BelowWellFounded, Zenon
<1>3. x \in Nat /\ x - 1 \in Nat /\ x - 1 < x
  OBVIOUS
<1>4. x - 1 \in S
  BY <1>2, <1>3 DEF Below
<1>5. (x - 1) + 1 \in S
  BY <1>3, <1>4
<1> QED
  BY <1>3, <1>5

\* The same for the numbers up to a bound.
LEMMA BoundedInduction ==
  ASSUME NEW n \in Nat, NEW S, 0 \in S, \A k \in 0..n : k \in S /\ k < n => k + 1 \in S
  PROVE  \A k \in 0..n : k \in S
<1> DEFINE T == {k \in Nat : k \in S \/ n < k}
<1>1. 0 \in T
  OBVIOUS
<1>2. \A k \in Nat : k \in T => k + 1 \in T
  OBVIOUS
<1>3. \A k \in Nat : k \in T
  <2> HIDE DEF T
  <2> QED
    BY <1>1, <1>2, Induction
<1> QED
  BY <1>3

\* A recursion has a sequence of values.
LEMMA RecursionExists ==
  ASSUME NEW X, NEW base \in X, NEW n \in Nat, NEW Steps,
         \A k \in 1..n : \A x \in X : \E y \in X : <<k, x, y>> \in Steps
  PROVE  \E f \in [1..n -> X] : \A k \in 1..n : <<k, Previous(f, base, k), f[k]>> \in Steps
<1> DEFINE Until(m, f) ==
      f \in [1..m -> X] /\ \A k \in 1..m : <<k, Previous(f, base, k), f[k]>> \in Steps
<1> DEFINE S == {m \in Nat : m <= n => \E f : Until(m, f)}
<1>1. 0 \in S
  <2> DEFINE f == [k \in 1..0 |-> base]
  <2>1. Until(0, f)
    OBVIOUS
  <2> QED
    BY <2>1
<1>2. ASSUME NEW m \in Nat, m \in S PROVE m + 1 \in S
  <2> SUFFICES ASSUME m + 1 <= n PROVE \E f : Until(m + 1, f)
    OBVIOUS
  <2>1. PICK f : Until(m, f)
    BY <1>2
  <2>2. Previous(f, base, m + 1) \in X
    <3>1. CASE m = 0
      BY <3>1 DEF Previous
    <3>2. CASE m # 0
      BY <2>1, <3>2 DEF Previous
    <3> QED
      BY <3>1, <3>2
  <2>3. PICK y \in X : <<m + 1, Previous(f, base, m + 1), y>> \in Steps
    BY <2>2
  <2> DEFINE g == [k \in 1..(m + 1) |-> IF k = m + 1 THEN y ELSE f[k]]
  <2>4. g \in [1..(m + 1) -> X]
    BY <2>1
  <2>5. ASSUME NEW k \in 1..(m + 1) PROVE Previous(g, base, k) = Previous(f, base, k)
    <3>1. CASE k = 1
      BY <3>1 DEF Previous
    <3>2. CASE k # 1
      <4>1. k - 1 \in 1..(m + 1) /\ k - 1 # m + 1
        BY <3>2
      <4>2. g[k - 1] = f[k - 1]
        BY <4>1
      <4> QED
        BY <3>2, <4>2 DEF Previous
    <3> QED
      BY <3>1, <3>2
  <2>6. ASSUME NEW k \in 1..(m + 1) PROVE <<k, Previous(g, base, k), g[k]>> \in Steps
    <3>1. CASE k = m + 1
      BY <2>3, <2>5, <3>1
    <3>2. CASE k # m + 1
      <4>1. k \in 1..m
        BY <3>2
      <4> QED
        BY <2>1, <2>5, <4>1
    <3> QED
      BY <3>1, <3>2
  <2>7. Until(m + 1, g)
    <3> HIDE DEF g
    <3> QED
      BY <2>4, <2>6
  <2> QED
    BY <2>7
<1>3. n \in S
  <2> HIDE DEF S
  <2> QED
    BY <1>1, <1>2, Induction
<1> QED
  BY <1>3

\* Each value of a recursion is of the type that its step keeps.
LEMMA RecursionType ==
  ASSUME NEW X, NEW base \in X, NEW n \in Nat, NEW f,
         \A k \in 1..n : Previous(f, base, k) \in X => f[k] \in X
  PROVE  \A k \in 1..n : f[k] \in X /\ Previous(f, base, k) \in X
<1> DEFINE S == {k \in 0..n : k # 0 => f[k] \in X}
<1>1. ASSUME NEW k \in 1..n, k - 1 \in S PROVE Previous(f, base, k) \in X
  BY <1>1 DEF Previous
<1>2. 0 \in S
  OBVIOUS
<1>3. ASSUME NEW k \in 0..n, k \in S, k < n PROVE k + 1 \in S
  <2>1. k + 1 \in 1..n /\ (k + 1) - 1 = k
    BY <1>3
  <2> QED
    BY <1>1, <1>3, <2>1
<1>4. \A k \in 0..n : k \in S
  <2> HIDE DEF S
  <2> QED
    BY <1>2, <1>3, BoundedInduction
<1> QED
  BY <1>1, <1>4

=============================================================================
