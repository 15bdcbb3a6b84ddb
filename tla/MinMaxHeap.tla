----------------------------- MODULE MinMaxHeap -----------------------------
(***************************************************************************)
(* The task buffer of the scheduler, internal/utils/scheduler/mmheap.go:   *)
(* an array in which the levels of a complete binary tree alternate        *)
(* between minima and maxima.  The array is modelled position by position, *)
(* with the indices of the Go code (from 0), and every loop of the code is *)
(* a recursive function of the number of its passes.  A task is            *)
(* represented by its priority, the only field the heap ever reads.        *)
(*                                                                         *)
(* All callers hold the mutex of the pool (workerPool.go:69, 99), so an    *)
(* operation is one step.                                                  *)
(***************************************************************************)
EXTENDS Integers, Sequences, FiniteSets, SequencesExt

CONSTANTS
    Priorities,
    NoPriority,
    Supply        \* bound: how many tasks of each priority exist

ASSUME HeapAssumption ==
    /\ Priorities \subseteq Int
    /\ NoPriority \notin Priorities
    /\ Supply \in [Priorities -> Nat]

VARIABLES
    data,         \* the array, as a sequence (element i of the code is data[i+1])
    len,          \* the separate counter of the code
    ret           \* the last value returned by DeleteMin or DeleteMax

vars == <<data, len, ret>>

-----------------------------------------------------------------------------
(* Arrays *)

At(d, i) == d[i + 1]

swap(d, i, j) == [d EXCEPT ![i + 1] = At(d, j), ![j + 1] = At(d, i)]

parent(i)      == (i - 1) \div 2
grandparent(i) == (i - 3) \div 4

level[i \in Nat] == IF i = 0 THEN 0 ELSE 1 + level[parent(i)]

isMinLevel(i) == level[i] % 2 = 0

isGrandchild(i, j) == j >= 4 * i + 3

\* The code has each loop twice, for minima and for maxima, with the comparisons
\* reversed; low tells which one is meant.
Before(low, x, y) == IF low THEN x < y ELSE x > y

-----------------------------------------------------------------------------
(* Upwards: along the grandparents of one parity.  A pass of the loop that *)
(* breaks changes nothing, nor do the later ones; an index that moves      *)
(* falls, so i passes are enough.                                          *)

bubbleUpStep(low, s) ==
    LET gp == grandparent(s.i)
    IN  IF s.i >= 3 /\ Before(low, At(s.d, s.i), At(s.d, gp))
        THEN [d |-> swap(s.d, s.i, gp), i |-> gp]
        ELSE s

\* bubbleUpMin, bubbleUpMax
bubbleUpLoop(low, d, i) ==
    LET s[k \in 0 .. i] == IF k = 0 THEN [d |-> d, i |-> i] ELSE bubbleUpStep(low, s[k - 1])
    IN  s[i].d

bubbleUp(d, i) ==
    LET p == parent(i)
        low == isMinLevel(i)
    IN  IF i = 0 THEN d
        ELSE IF Before(~low, At(d, i), At(d, p))
             THEN bubbleUpLoop(~low, swap(d, i, p), p)
             ELSE bubbleUpLoop(low, d, i)

-----------------------------------------------------------------------------
(* Downwards: the scan over children and then grandchildren keeps the      *)
(* first index with an extreme priority, and -1 when there is none.        *)

Descendants(i) == <<2*i + 1, 2*i + 2, 4*i + 3, 4*i + 4, 4*i + 5, 4*i + 6>>

\* of the best index so far and the next one
Better(low, d, n, best, idx) ==
    IF idx < n /\ (best = -1 \/ Before(low, At(d, idx), At(d, best))) THEN idx ELSE best

extremeDescendant(low, d, n, i) ==
    LET best[k \in 0 .. 6] ==
            IF k = 0 THEN -1 ELSE Better(low, d, n, best[k - 1], Descendants(i)[k])
    IN  best[6]

\* mutant: the grandchild that was displaced is not compared with its parent
trickleDownStepNoParent(low, n, s) ==
    LET m == extremeDescendant(low, s.d, n, s.i)
    IN  IF m = -1 \/ ~Before(low, At(s.d, m), At(s.d, s.i)) THEN s
        ELSE [d |-> swap(s.d, s.i, m), i |-> IF isGrandchild(s.i, m) THEN m ELSE n]

\* One pass of the loop.  An index n, without descendants, stands for the return after
\* a swap with a child; a pass that returns otherwise changes nothing.
trickleDownStep(low, n, s) ==
    LET m == extremeDescendant(low, s.d, n, s.i)
        p == parent(m)
        t == swap(s.d, s.i, m)
    IN  IF m = -1 \/ ~Before(low, At(s.d, m), At(s.d, s.i)) THEN s
        ELSE IF isGrandchild(s.i, m)
             THEN [d |-> IF Before(low, At(t, p), At(t, m)) THEN swap(t, m, p) ELSE t, i |-> m]
             ELSE [d |-> t, i |-> n]

\* trickleDownMin, trickleDownMax: an index that moves grows, so n passes are enough
trickleDown(d, n, i) ==
    LET low == isMinLevel(i)
        s[k \in 0 .. n] ==
            IF k = 0 THEN [d |-> d, i |-> i] ELSE trickleDownStep(low, n, s[k - 1])
    IN  s[n].d

-----------------------------------------------------------------------------
(* The two ends.  GetMax and DeleteMax each compute the place of the       *)
(* maximum on their own, the first from the length of the array and the    *)
(* second from the counter.                                                *)

\* the index of the item GetMax returns; -1 when it reports there is none
GetMax(d) ==
    CASE Len(d) = 0 -> -1
      [] Len(d) = 1 -> 0
      [] Len(d) = 2 -> 1
      [] Len(d) > 2 -> IF At(d, 1) > At(d, 2) THEN 1 ELSE 2

\* mutant: a tie between the two children of the root is broken to the left
MaxIndexTieLeft(d, n) ==
    CASE n = 1 -> 0
      [] n = 2 -> 1
      [] n > 2 -> IF At(d, 1) >= At(d, 2) THEN 1 ELSE 2

\* the index of the item DeleteMax removes from an array of n > 0 items
MaxIndex(d, n) ==
    CASE n = 1 -> 0
      [] n = 2 -> 1
      [] n > 2 -> IF At(d, 1) > At(d, 2) THEN 1 ELSE 2

\* mutant: the hole is always refilled from the root downwards
RemoveIndexSiftsRoot(d, n, idx) ==
    LET moved == SubSeq([d EXCEPT ![idx + 1] = At(d, n - 1)], 1, n - 1)
    IN  IF idx < n - 1 THEN trickleDown(moved, n - 1, 0) ELSE moved

\* data[idx] = data[last]; data = data[:last]; trickleDown(idx) if still inside
RemoveIndex(d, n, idx) ==
    LET moved == SubSeq([d EXCEPT ![idx + 1] = At(d, n - 1)], 1, n - 1)
    IN  IF idx < n - 1 THEN trickleDown(moved, n - 1, idx) ELSE moved

-----------------------------------------------------------------------------
Init ==
    /\ data = <<>>
    /\ len = 0
    /\ ret = NoPriority

Insert(p) ==
    /\ Cardinality({i \in DOMAIN data : data[i] = p}) < Supply[p]
    /\ data' = bubbleUp(Append(data, p), Len(data))
    /\ len' = len + 1
    /\ ret' = NoPriority

\* mutant: the counter is not decremented
DeleteMinKeepsLen ==
    IF len = 0
    THEN ret' = NoPriority /\ UNCHANGED <<data, len>>
    ELSE /\ ret' = At(data, 0)
         /\ data' = RemoveIndex(data, Len(data), 0)
         /\ UNCHANGED len

DeleteMin ==
    IF len = 0
    THEN ret' = NoPriority /\ UNCHANGED <<data, len>>
    ELSE /\ ret' = At(data, 0)
         /\ data' = RemoveIndex(data, Len(data), 0)
         /\ len' = len - 1

DeleteMax ==
    IF len = 0
    THEN ret' = NoPriority /\ UNCHANGED <<data, len>>
    ELSE /\ ret' = At(data, MaxIndex(data, len))
         /\ data' = RemoveIndex(data, len, MaxIndex(data, len))
         /\ len' = len - 1

Next ==
    \/ \E p \in Priorities : Insert(p)
    \/ DeleteMin
    \/ DeleteMax

Spec == Init /\ [][Next]_vars

-----------------------------------------------------------------------------
(* Properties *)

\* Typing, and agreement of the counter with the array: the sifting loops
\* bound their indices by the counter (mmheap.go:223) while Insert, GetMin
\* and GetMax use the length of the array.
TypeOK ==
    /\ data \in Seq(Priorities)
    /\ len = Len(data)
    /\ ret \in Priorities \cup {NoPriority}

Ancestors[i \in Nat] ==
    IF i = 0 THEN {} ELSE Ancestors[parent(i)] \cup {parent(i)}

\* The min-max order that bubbleUp and trickleDown restore (mmheap.go:105-212):
\* nothing below an element of an even level is smaller, nothing below an
\* element of an odd level is larger.
HeapOrder ==
    \A i \in 1 .. Len(data) - 1 : \A a \in Ancestors[i] :
        IF isMinLevel(a) THEN At(data, a) <= At(data, i)
                         ELSE At(data, a) >= At(data, i)

\* What a worker is shown is what is removed: workerPool.go:100-104 runs the
\* task GetMax returned after DeleteMax has dropped one, so if the two picked
\* different items, even of one priority, a task would run twice and another
\* would vanish.
PeekIsRemoved ==
    data # <<>> => GetMax(data) = MaxIndex(data, len)

Abstract == INSTANCE PriorityBuffer WITH held <- ToBag(data)

\* The array implements the double-ended priority queue: nothing is lost or
\* duplicated by the swaps and both ends return the true extremes.
ImplementsBuffer == Abstract!Spec

=============================================================================
