--------------------------------- MODULE Loops ---------------------------------
(* What is proved of numbers and loops in general, for the proofs about the components. *)
EXTENDS Naturals, NaturalsInduction, WellFoundedInduction, TLAPS

\* Every set of naturals that is not empty has a least element.
LEMMA Least ==
  ASSUME NEW T \in SUBSET Nat, T # {}
  PROVE  \E x \in T : \A y \in T : x <= y
<1> DEFINE R == OpToRel(<, Nat)
<1>1. IsWellFoundedOn(R, Nat)
  BY NatLessThanWellFounded
<1>2. \A x, y \in Nat : y < x => <<y, x>> \in R
  BY DEF OpToRel
<1> HIDE DEF R
<1>3. PICK x \in T : \A y \in T : ~ (<<y, x>> \in R)
  BY <1>1, WFMin
<1>4. ASSUME NEW y \in T PROVE x <= y
  <2>1. ~(y < x)
    BY <1>2, <1>3
  <2>2. QED
    BY <2>1
<1>5. QED
  BY <1>4

\* What holds of a and is handed on by each number from there to the next holds up to b.
LEMMA UpTo ==
  ASSUME NEW a \in Nat, NEW b \in Nat, NEW S, a \in S, \A i \in (a + 1)..b : i - 1 \in S => i \in S
  PROVE  a..b \subseteq S
<1> DEFINE T == (a..b) \ S
<1>1. T \in SUBSET Nat
  OBVIOUS
<1>2. ASSUME T # {} PROVE FALSE
  <2>1. PICK x \in T : \A y \in T : x <= y
    <3> HIDE DEF T
    <3>1. QED
      BY <1>1, <1>2, Least
  <2>2. x \in (a + 1)..b /\ x - 1 \in a..b /\ ~(x <= x - 1)
    BY <2>1
  <2>3. QED
    BY <2>1, <2>2
<1>3. QED
  BY <1>2

\* What each of n steps makes of a value in A, and the values after each of them.
Bodies(n, A) == [1..n -> [A -> A]]
IsRun(f, n, A, start, step) ==
  f \in [0..n -> A] /\ f[0] = start /\ \A i \in 1..n : f[i] = step[i][f[i - 1]]

\* A loop of n steps has a value after each of them.
LEMMA LoopRuns ==
  ASSUME NEW n \in Nat, NEW A, NEW start \in A, NEW step \in Bodies(n, A)
  PROVE  \E f : IsRun(f, n, A, start, step)
<1>0. step \in [1..n -> [A -> A]]
  BY DEF Bodies
<1> DEFINE Runs(m) ==
             \E f \in [0..n -> A] : f[0] = start /\ \A i \in 1..m : f[i] = step[i][f[i - 1]]
           S == {m \in 0..n : Runs(m)}
<1>1. 0 \in S
  <2> DEFINE f == [i \in 0..n |-> start]
  <2>1. f \in [0..n -> A] /\ f[0] = start /\ \A i \in 1..0 : f[i] = step[i][f[i - 1]]
    OBVIOUS
  <2> HIDE DEF f
  <2>2. Runs(0)
    BY <2>1
  <2>3. QED
    BY <2>2
<1>2. ASSUME NEW m \in 1..n, m - 1 \in S PROVE m \in S
  <2>1. PICK f \in [0..n -> A] : f[0] = start /\ \A i \in 1..(m - 1) : f[i] = step[i][f[i - 1]]
    BY <1>2
  <2> DEFINE h == [f EXCEPT ![m] = step[m][f[m - 1]]]
  <2>2. m \in 0..n /\ m - 1 \in 0..n
    OBVIOUS
  <2>3. step[m][f[m - 1]] \in A
    BY <1>0, <2>2
  <2>4. h \in [0..n -> A] /\ h[m] = step[m][f[m - 1]] /\ \A i \in 0..n : i # m => h[i] = f[i]
    BY <2>2, <2>3
  <2> HIDE DEF h
  <2>5. h[0] = start
    BY <2>1, <2>4
  <2>6. ASSUME NEW i \in 1..m PROVE h[i] = step[i][h[i - 1]]
    <3>1. i - 1 \in 0..n /\ i - 1 # m /\ h[i - 1] = f[i - 1]
      BY <2>4
    <3>2. CASE i = m
      BY <2>4, <3>1, <3>2
    <3>3. CASE i # m
      <4>1. i \in 1..(m - 1) /\ i \in 0..n
        BY <3>3
      <4>2. f[i] = step[i][f[i - 1]] /\ h[i] = f[i]
        BY <2>1, <2>4, <3>3, <4>1
      <4>3. QED
        BY <3>1, <4>2
    <3>4. QED
      BY <3>2, <3>3
  <2>7. Runs(m)
    BY <2>4, <2>5, <2>6
  <2> HIDE DEF Runs
  <2>8. QED
    BY <2>2, <2>7
<1>3. 0..n \subseteq S
  <2> HIDE DEF S
  <2>1. ASSUME NEW i \in (0 + 1)..n, i - 1 \in S PROVE i \in S
    <3>1. i \in 1..n
      OBVIOUS
    <3>2. QED
      BY <1>2, <2>1, <3>1
  <2>2. QED
    BY <1>1, <2>1, UpTo
<1>4. n \in S
  BY <1>3
<1>5. QED
  BY <1>4 DEF IsRun

================================================================================
