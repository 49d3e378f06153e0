------------------------------- MODULE Recursion -------------------------------
(***************************************************************************)
(* Recursion and induction over the numbers up to N, for the loops that    *)
(* are written as recursive functions: every number is reached by steps of *)
(* one, and a function that is defined by its steps exists.                *)
(***************************************************************************)
EXTENDS Integers, WellFoundedInduction, TLAPS

\* What holds of 0 and goes on from each number to the next holds of all.
LEMMA Reach ==
  ASSUME NEW N \in Nat, NEW T, T \subseteq 0 .. N, 0 \in T, \A k \in 1 .. N : k - 1 \in T => k \in T
  PROVE  T = 0 .. N
<1> DEFINE Less == {ss \in Nat \X Nat : ss[1] < ss[2]}
           Rest == (0 .. N) \ T
<1>1. OpToRel(<, Nat) = Less
  BY Zenon DEF OpToRel
<1>2. IsWellFoundedOn(Less, Nat)
  BY <1>1, NatLessThanWellFounded
<1>3. Rest \subseteq Nat
  OBVIOUS
<1> HIDE DEF Less
<1>4. SUFFICES ASSUME Rest # {} PROVE FALSE
  BY <1>4
<1> HIDE DEF Rest
<1>5. PICK n \in Rest : \A o \in Rest : <<o, n>> \notin Less
  BY <1>2, <1>3, <1>4, WFMin
<1>6. \A o \in Rest : ~(o < n)
  BY <1>3, <1>5 DEF Less
<1> QED
  BY <1>3, <1>5, <1>6 DEF Rest

\* f is begun at x0 and taken on by a step for each number up to n.
Goes(f, n, x0, step) == f[0] = x0 /\ \A k \in 1 .. n : f[k] = step[<<k, f[k - 1]>>]

\* What is begun at x0 and taken on by a step for each number is a function.
LEMMA StepsExist ==
  ASSUME NEW N \in Nat, NEW X, NEW x0 \in X, NEW step, \A k \in 1 .. N, x \in X : step[<<k, x>>] \in X
  PROVE  \E f \in [0 .. N -> X] : Goes(f, N, x0, step)
<1> USE DEF Goes
<1> DEFINE T == {n \in 0 .. N : \E f \in [0 .. n -> X] : Goes(f, n, x0, step)}
<1>1. 0 \in T
  <2> DEFINE f == [k \in 0 .. 0 |-> x0]
  <2>1. f \in [0 .. 0 -> X]
    OBVIOUS
  <2>2. 0 \in 0 .. 0 /\ 1 .. 0 = {} /\ 0 \in 0 .. N
    OBVIOUS
  <2>3. f[0] = x0
    BY <2>2
  <2> HIDE DEF f
  <2>4. Goes(f, 0, x0, step)
    BY <2>2, <2>3
  <2> QED
    BY <2>1, <2>2, <2>4
<1>2. \A k \in 1 .. N : k - 1 \in T => k \in T
  <2> SUFFICES ASSUME NEW k \in 1 .. N, k - 1 \in T PROVE k \in T
    OBVIOUS
  <2>1. PICK f \in [0 .. k - 1 -> X] : Goes(f, k - 1, x0, step)
    OBVIOUS
  <2> DEFINE g == [i \in 0 .. k |-> IF i = k THEN step[<<k, f[k - 1]>>] ELSE f[i]]
  <2>2. f[k - 1] \in X /\ k - 1 \in Nat
    OBVIOUS
  <2>3. step[<<k, f[k - 1]>>] \in X
    BY <2>2
  <2>4. g \in [0 .. k -> X]
    BY <2>3
  <2>5. g[k] = step[<<k, f[k - 1]>>] /\ \A j \in 0 .. k : j # k => g[j] = f[j]
    OBVIOUS
  <2> HIDE DEF g
  <2>8. g[0] = x0
    BY <2>1, <2>5
  <2>6. \A i \in 1 .. k : g[i] = step[<<i, g[i - 1]>>]
    <3> SUFFICES ASSUME NEW i \in 1 .. k PROVE g[i] = step[<<i, g[i - 1]>>]
      OBVIOUS
    <3>0. i - 1 \in 0 .. k /\ i - 1 # k
      OBVIOUS
    <3>1. g[i - 1] = f[i - 1]
      BY <2>5, <3>0
    <3>2. CASE i = k
      BY <2>5, <3>1, <3>2
    <3>3. CASE i # k
      <4>1. i \in 1 .. k - 1 /\ g[i] = f[i]
        BY <2>5, <3>3
      <4> QED
        BY <2>1, <3>1, <4>1
    <3> QED
      BY <3>2, <3>3
  <2>7. k \in 0 .. N
    OBVIOUS
  <2> QED
    BY <2>4, <2>6, <2>7, <2>8
<1>3. T \subseteq 0 .. N
  OBVIOUS
<1> HIDE DEF T
<1>4. T = 0 .. N
  BY <1>1, <1>2, <1>3, Reach
<1>5. N \in T
  BY <1>4
<1> QED
  BY <1>5 DEF T
================================================================================
