--------------------------- MODULE DataInduction ---------------------------
(***************************************************************************)
(* Induction over the numbers and recursion on them, as facts about sets   *)
(* and functions: no theorem here takes an operator as a parameter, so     *)
(* that each can be cited for a set or a function given by its elements.   *)
(***************************************************************************)
EXTENDS Integers, Sequences, FiniteSetTheorems, TLAPS

\* A set of numbers that has 0, and the next of each, has them all.  Else the numbers up to
\* a k outside that are outside would be mapped one to one into fewer.
LEMMA SetInduction ==
    ASSUME NEW S, 0 \in S, \A n \in Nat : n \in S => n + 1 \in S
    PROVE  \A n \in Nat : n \in S
<1>1. SUFFICES ASSUME NEW k \in Nat, k \notin S PROVE FALSE
  OBVIOUS
<1> DEFINE B == (0 .. k) \ S
           C == B \ {k}
           down == [n \in B |-> n - 1]
<1>2. IsFiniteSet(B) /\ k \in B
  <2>1. IsFiniteSet(0 .. k) /\ B \in SUBSET (0 .. k)
    BY FS_Interval
  <2>2. QED
    BY <1>1, <2>1, FS_Subset
<1>3. IsFiniteSet(C) /\ Cardinality(C) = Cardinality(B) - 1
  BY <1>2, FS_RemoveElement
<1>4. down \in [B -> C]
  BY <1>1
<1>5. Cardinality(C) < Cardinality(B)
  BY <1>2, <1>3, FS_CardinalityType
<1>6. PICK i \in B, j \in B : i # j /\ down[i] = down[j]
  <2> HIDE DEF B, C, down
  <2>1. QED
    BY <1>2, <1>3, <1>4, <1>5, FS_PigeonHole
<1>7. QED
  BY <1>6

\* A step for each of n elements.
StepFunction(V, n, step) == n \in Nat /\ step \in [V \X (1 .. n) -> V]

\* What the steps make of a base, one after the other.
RunOf(V, base, n, step, f) ==
    f \in [0 .. n -> V] /\ f[0] = base /\ \A i \in 1 .. n : f[i] = step[<<f[i - 1], i>>]

\* A function defined by recursion on the numbers up to n is one.
LEMMA RecursionExists ==
    ASSUME NEW V, NEW base \in V, NEW n, NEW step, StepFunction(V, n, step)
    PROVE  \E f : RunOf(V, base, n, step, f)
<1> USE DEF StepFunction
<1> DEFINE Upto(m, f) == f[0] = base /\ \A i \in 1 .. m : f[i] = step[<<f[i - 1], i>>]
           S == {m \in Nat : m <= n => \E f \in [0 .. m -> V] : Upto(m, f)}
<1>1. 0 \in S
  <2> DEFINE f == [i \in 0 .. 0 |-> base]
  <2>1. f \in [0 .. 0 -> V] /\ Upto(0, f)
    OBVIOUS
  <2> HIDE DEF Upto, f
  <2>2. QED
    BY <2>1
<1>2. ASSUME NEW m \in Nat, m \in S PROVE m + 1 \in S
  <2>1. CASE m + 1 <= n
    <3>1. PICK f \in [0 .. m -> V] : Upto(m, f)
      BY <1>2, <2>1
    <3> DEFINE g == [i \in 0 .. m + 1 |-> IF i = m + 1 THEN step[<<f[m], m + 1>>] ELSE f[i]]
    <3>2. step[<<f[m], m + 1>>] \in V
      <4>1. f[m] \in V /\ m + 1 \in 1 .. n
        BY <2>1
      <4>2. QED
        BY <4>1
    <3>3. g \in [0 .. m + 1 -> V]
      BY <3>2
    <3>4. ASSUME NEW i \in 1 .. m + 1 PROVE g[i] = step[<<g[i - 1], i>>]
      <4>1. i - 1 \in 0 .. m /\ g[i - 1] = f[i - 1]
        OBVIOUS
      <4>2. CASE i = m + 1
        <5>1. g[i] = step[<<f[m], m + 1>>] /\ g[i - 1] = f[m]
          BY <4>1, <4>2
        <5>2. QED
          BY <4>2, <5>1
      <4>3. CASE i # m + 1
        <5>1. i \in 1 .. m /\ g[i] = f[i]
          BY <4>3
        <5>2. QED
          BY <3>1, <4>1, <5>1
      <4>4. QED
        BY <4>2, <4>3
    <3>5. Upto(m + 1, g)
      <4>1. g[0] = base
        BY <3>1
      <4> HIDE DEF g
      <4>2. QED
        BY <3>4, <4>1
    <3> HIDE DEF Upto, g
    <3>6. QED
      BY <3>3, <3>5
  <2>2. QED
    BY <2>1
<1>3. n \in S
  <2> HIDE DEF S
  <2>1. QED
    BY <1>1, <1>2, SetInduction
<1>4. QED
  BY <1>3 DEF RunOf
====
