------------------------------ MODULE Induction ------------------------------
(***************************************************************************)
(* Induction over the natural numbers as a fact about sets: whatever holds *)
(* of a number fails first at a least one.  The proofs about recursive     *)
(* functions and about sequences use it to refute a least counterexample.  *)
(***************************************************************************)
EXTENDS NaturalsInduction, WellFoundedInduction, TLAPS

\* A set of natural numbers has a least element.
THEOREM LeastNumber ==
    ASSUME NEW T \in SUBSET Nat, T # {}
    PROVE  \E n \in T : \A m \in T : n <= m
<1> DEFINE less == OpToRel(<, Nat)
<1>1. \A m, n \in Nat : m < n => <<m, n>> \in less
  BY DEF OpToRel
<1>2. IsWellFoundedOn(less, Nat)
  BY NatLessThanWellFounded
<1> HIDE DEF less
<1>3. PICK n \in T : \A m \in T : ~(<<m, n>> \in less)
  BY <1>2, WFMin
<1>4. ASSUME NEW m \in T PROVE n <= m
  <2>1. m \in Nat /\ n \in Nat
    OBVIOUS
  <2>2. ~(m < n)
    BY <1>1, <1>3, <2>1
  <2> QED
    BY <2>1, <2>2
<1> QED
  BY <1>4

\* What holds at the start of a chain, and passes from each place to the next,
\* holds all along it.
THEOREM AllAlong ==
    ASSUME NEW X, NEW m \in Nat, NEW f,
           f[0] \in X, \A k \in 1 .. m : f[k - 1] \in X => f[k] \in X
    PROVE  \A k \in 0 .. m : f[k] \in X
<1> DEFINE Bad == {k \in 0 .. m : f[k] \notin X}
<1>1. SUFFICES ASSUME Bad # {} PROVE FALSE
  OBVIOUS
<1>2. PICK k \in Bad : \A l \in Bad : k <= l
  <2>1. Bad \in SUBSET Nat
    OBVIOUS
  <2> HIDE DEF Bad
  <2> QED
    BY <1>1, <2>1, LeastNumber
<1>3. k \in 1 .. m /\ k - 1 \in 0 .. m /\ k - 1 \notin Bad
  <2>1. k \in 1 .. m
    OBVIOUS
  <2>2. k - 1 \in 0 .. m
    BY <2>1
  <2> HIDE DEF Bad
  <2>3. k - 1 \notin Bad
    BY <1>2, <2>1
  <2> QED
    BY <2>1, <2>2, <2>3
<1> QED
  BY <1>3

\* What holds of a number as soon as it holds of all smaller ones holds of all.
THEOREM FromSmaller ==
    ASSUME NEW m \in Nat, NEW Good,
           \A k \in 0 .. m : (\A j \in 0 .. k - 1 : j \in Good) => k \in Good
    PROVE  \A k \in 0 .. m : k \in Good
<1> DEFINE Bad == {k \in 0 .. m : k \notin Good}
<1>1. SUFFICES ASSUME Bad # {} PROVE FALSE
  OBVIOUS
<1>2. PICK k \in Bad : \A l \in Bad : k <= l
  <2>1. Bad \in SUBSET Nat
    OBVIOUS
  <2> HIDE DEF Bad
  <2> QED
    BY <1>1, <2>1, LeastNumber
<1>3. \A j \in 0 .. k - 1 : j \in Good
  <2> TAKE j \in 0 .. k - 1
  <2>1. j \in 0 .. m /\ ~(k <= j)
    OBVIOUS
  <2> QED
    BY <1>2, <2>1
<1> QED
  BY <1>3

\* the results of taking a step m times, from a on
Results(X, m, a, step) ==
    {g \in [0 .. m -> X] : g[0] = a /\ \A k \in 1 .. m : g[k] = step[k][g[k - 1]]}

\* A step can be taken again and again: there is a function of its first m results.
THEOREM Iterates ==
    ASSUME NEW X, NEW m \in Nat, NEW a \in X, NEW step \in [1 .. m -> [X -> X]]
    PROVE  Results(X, m, a, step) # {}
<1> DEFINE Def(g, n) == g[0] = a /\ \A k \in 1 .. n : g[k] = step[k][g[k - 1]]
           Some(n) == \E g \in [0 .. n -> X] : Def(g, n)
           Good == {n \in 0 .. m : Some(n)}
           count == [n \in 0 .. m |-> n]
<1>1. count[0] \in Good
  <2>1. [k \in 0 .. 0 |-> a] \in [0 .. 0 -> X] /\ Def([k \in 0 .. 0 |-> a], 0)
    OBVIOUS
  <2>2. Some(0)
    BY <2>1
  <2> QED
    BY <2>2
<1>2. ASSUME NEW n \in 1 .. m, count[n - 1] \in Good PROVE count[n] \in Good
  <2>1. Some(n - 1)
    BY <1>2
  <2>2. PICK g \in [0 .. n - 1 -> X] : Def(g, n - 1)
    BY <2>1
  <2> DEFINE h == [k \in 0 .. n |-> IF k = n THEN step[n][g[n - 1]] ELSE g[k]]
  <2>3. step[n][g[n - 1]] \in X
    BY <2>2
  <2>4. h \in [0 .. n -> X]
    BY <2>3
  <2>5. Def(h, n)
    BY <2>2
  <2>6. Some(n)
    BY <2>4, <2>5
  <2> HIDE DEF Some
  <2> QED
    BY <2>6
<1>3. \A n \in 0 .. m : count[n] \in Good
  <2> HIDE DEF count, Good
  <2> QED
    BY <1>1, <1>2, AllAlong
<1>4. m \in Good
  <2>1. count[m] = m /\ m \in 0 .. m
    OBVIOUS
  <2> HIDE DEF count, Good
  <2> QED
    BY <1>3, <2>1
<1> QED
  BY <1>4 DEF Results
=============================================================================
