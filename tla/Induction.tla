----------------------------- MODULE Induction -----------------------------
(***************************************************************************)
(* Induction over the natural numbers for sets: what the proofs of this    *)
(* project need to reason about functions that are defined by recursion.   *)
(***************************************************************************)
EXTENDS Integers, WellFoundedInduction, TLAPS

Below == {p \in Nat \X Nat : p[1] < p[2]}

LEMMA BelowWellFounded == IsWellFoundedOn(Below, Nat)
<1>1. OpToRel(<, Nat) = Below
  BY Zenon DEF OpToRel, Below
<1> QED BY <1>1, NatLessThanWellFounded, Zenon

(* A set that has 0 and with every number the next one has them all.       *)
THEOREM SetInduction ==
    ASSUME NEW S, 0 \in S, \A n \in Nat : n \in S => n + 1 \in S
    PROVE  Nat \subseteq S
<1> DEFINE T == Nat \ S
<1> SUFFICES ASSUME T # {} PROVE FALSE
  OBVIOUS
<1>1. PICK x \in T : \A y \in T : ~ (<<y, x>> \in Below)
  <2>1. T \subseteq Nat
    OBVIOUS
  <2> HIDE DEF T
  <2> QED BY <2>1, BelowWellFounded, WFMin, Zenon
<1>2. x \in Nat /\ x # 0
  OBVIOUS
<1>3. x - 1 \in Nat /\ x - 1 < x
  BY <1>2
<1>4. <<x - 1, x>> \in Below
  BY <1>2, <1>3 DEF Below
<1>5. x - 1 \notin T
  BY <1>1, <1>4
<1> QED BY <1>2, <1>3, <1>5

(* A set of numbers that is not empty has a least one.                     *)
LEMMA LeastExists ==
    ASSUME NEW S, S \subseteq Nat, S # {}
    PROVE  \E x \in S : \A y \in S : x <= y
<1>1. PICK x \in S : \A y \in S : ~(<<y, x>> \in Below)
  BY BelowWellFounded, WFMin, Zenon
<1>2. \A y \in S : x <= y
  <2> SUFFICES ASSUME NEW y \in S, y < x PROVE FALSE
    OBVIOUS
  <2>1. <<y, x>> \in Below
    BY DEF Below
  <2> QED BY <1>1, <2>1
<1> QED BY <1>2

(* f is defined by recursion on 0 .. last.                                 *)
Recursion(f, last, V, base, step) ==
    f \in [0 .. last -> V] /\ f[0] = base /\ \A i \in 1 .. last : f[i] = step[i][f[i - 1]]

(* Such a function exists.                                                 *)
LEMMA RecursionExists ==
    ASSUME NEW last \in Nat, NEW V, NEW base \in V, NEW step \in [1 .. last -> [V -> V]]
    PROVE  \E f : Recursion(f, last, V, base, step)
<1> DEFINE Good(n, f) == f \in [0 .. n -> V] /\ f[0] = base /\ \A i \in 1 .. n : f[i] = step[i][f[i - 1]]
           S == {n \in Nat : n <= last => \E f : Good(n, f)}
<1>1. 0 \in S
  <2>1. Good(0, [i \in 0 .. 0 |-> base])
    OBVIOUS
  <2> HIDE DEF Good
  <2> QED BY <2>1
<1>2. ASSUME NEW n \in Nat, n \in S PROVE n + 1 \in S
  <2> SUFFICES ASSUME n + 1 <= last PROVE \E f : Good(n + 1, f)
    BY <1>2
  <2>1. PICK f : Good(n, f)
    BY <1>2
  <2> DEFINE g == [i \in 0 .. n + 1 |-> IF i = n + 1 THEN step[n + 1][f[n]] ELSE f[i]]
  <2>2. step[n + 1][f[n]] \in V
    BY <2>1
  <2>3. g \in [0 .. n + 1 -> V] /\ g[0] = base
    BY <2>1, <2>2
  <2>4. \A i \in 1 .. n : g[i] = f[i] /\ g[i - 1] = f[i - 1]
    BY <1>2
  <2>5. g[n + 1] = step[n + 1][g[n]]
    BY <1>2
  <2>6. \A i \in 1 .. n + 1 : g[i] = step[i][g[i - 1]]
    <3> SUFFICES ASSUME NEW i \in 1 .. n + 1 PROVE g[i] = step[i][g[i - 1]]
      OBVIOUS
    <3>1. CASE i = n + 1
      <4>1. i - 1 = n
        BY <1>2, <3>1
      <4> QED BY <2>5, <3>1, <4>1
    <3>2. CASE i # n + 1
      <4>1. i \in 1 .. n
        BY <1>2, <3>2
      <4>2. f[i] = step[i][f[i - 1]]
        BY <2>1, <4>1
      <4> QED BY <2>4, <4>1, <4>2
    <3> QED BY <3>1, <3>2
  <2> HIDE DEF g
  <2> QED BY <2>3, <2>6
<1>3. last \in S
  <2> HIDE DEF S
  <2> QED BY <1>1, <1>2, SetInduction
<1> QED BY <1>3 DEF Recursion

(* So does one that takes the same step every time.                        *)
LEMMA IterationExists ==
    ASSUME NEW last \in Nat, NEW V, NEW base \in V, NEW step \in [V -> V]
    PROVE  \E f \in [0 .. last -> V] : f = [n \in 0 .. last |-> IF n = 0 THEN base ELSE step[f[n - 1]]]
<1> DEFINE steps == [i \in 1 .. last |-> step]
<1>1. steps \in [1 .. last -> [V -> V]] /\ \A i \in 1 .. last : steps[i] = step
  OBVIOUS
<1> HIDE DEF steps
<1>2. PICK f : f \in [0 .. last -> V] /\ f[0] = base /\ \A i \in 1 .. last : f[i] = steps[i][f[i - 1]]
  <2>1. \E f : Recursion(f, last, V, base, steps)
    BY <1>1, RecursionExists
  <2> QED BY <2>1 DEF Recursion
<1>3. \A i \in 0 .. last : f[i] = IF i = 0 THEN base ELSE step[f[i - 1]]
  <2>1. ASSUME NEW i \in 0 .. last, i # 0 PROVE f[i] = step[f[i - 1]]
    <3>1. i \in 1 .. last
      BY <2>1
    <3> QED BY <1>1, <1>2, <3>1
  <2> QED BY <1>2, <2>1
<1>4. f = [i \in 0 .. last |-> f[i]]
  BY <1>2
<1>5. f = [i \in 0 .. last |-> IF i = 0 THEN base ELSE step[f[i - 1]]]
  BY <1>3, <1>4
<1> QED BY <1>2, <1>5

(* Sums along a sequence of numbers exist, and are what they should be.    *)
LEMMA PartialSumsExist ==
    ASSUME NEW last \in Nat, NEW x \in [1 .. last -> Nat]
    PROVE  \E f : f = [i \in 0 .. last |-> IF i = 0 THEN 0 ELSE f[i - 1] + x[i]]
<1> DEFINE step == [i \in 1 .. last |-> [v \in Nat |-> v + x[i]]]
<1>1. step \in [1 .. last -> [Nat -> Nat]]
  OBVIOUS
<1>2. \A i \in 1 .. last : \A v \in Nat : step[i][v] = v + x[i]
  OBVIOUS
<1> HIDE DEF step
<1>3. PICK f : f \in [0 .. last -> Nat] /\ f[0] = 0 /\ \A i \in 1 .. last : f[i] = step[i][f[i - 1]]
  <2>1. \E f : Recursion(f, last, Nat, 0, step)
    BY <1>1, RecursionExists
  <2> QED BY <2>1 DEF Recursion
<1>4. \A i \in 0 .. last : f[i] = IF i = 0 THEN 0 ELSE f[i - 1] + x[i]
  <2>1. ASSUME NEW i \in 0 .. last, i # 0 PROVE f[i] = f[i - 1] + x[i]
    <3>1. i \in 1 .. last /\ i - 1 \in 0 .. last
      BY <2>1
    <3>2. f[i - 1] \in Nat
      BY <1>3, <3>1
    <3> QED BY <1>2, <1>3, <3>1, <3>2
  <2> QED BY <1>3, <2>1
<1>5. f = [i \in 0 .. last |-> f[i]]
  BY <1>3
<1>6. f = [i \in 0 .. last |-> IF i = 0 THEN 0 ELSE f[i - 1] + x[i]]
  BY <1>4, <1>5
<1> QED BY <1>6
=============================================================================
