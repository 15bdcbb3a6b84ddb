-------------------------- MODULE MinMaxHeapProofs --------------------------
(***************************************************************************)
(* Theorems about MinMaxHeap, for any priorities and any number of tasks.  *)
(***************************************************************************)
EXTENDS MinMaxHeap, Induction, FiniteSetTheorems, SequenceTheorems, TLAPS

-----------------------------------------------------------------------------
(* The tree over the indices                                               *)

\* The parent of an index is a smaller one.
LEMMA ParentLess ==
    ASSUME NEW i \in Nat \ {0}
    PROVE  parent(i) \in Nat /\ parent(i) < i
BY DEF parent

\* The grandparent is the parent of the parent, which is not the root.
LEMMA GrandparentLess ==
    ASSUME NEW i \in Nat, i >= 3
    PROVE  /\ grandparent(i) \in Nat /\ grandparent(i) < i
           /\ grandparent(i) = parent(parent(i))
           /\ parent(i) \in Nat \ {0}
BY DEF parent, grandparent

\* Children and grandchildren, by the index of the upper end.
LEMMA DescendantsOf ==
    ASSUME NEW i \in Nat, NEW j \in Nat
    PROVE  /\ j # 0 => (parent(j) = i <=> j \in {2*i + 1, 2*i + 2})
           /\ j >= 3 => (grandparent(j) = i <=> j \in {4*i + 3, 4*i + 4, 4*i + 5, 4*i + 6})
           /\ j \in {4*i + 3, 4*i + 4, 4*i + 5, 4*i + 6} => j >= 3
BY DEF parent, grandparent

\* the functions on 0 .. m that follow a recursion along parents
Upto(X, a, step, m) ==
    {g \in [0 .. m -> X] :
        \A i \in 0 .. m : g[i] = IF i = 0 THEN a ELSE step[i][g[parent(i)]]}

\* There is one up to any index.
LEMMA UptoExists ==
    ASSUME NEW X, NEW a \in X, NEW step \in [Nat -> [X -> X]], NEW m \in Nat
    PROVE  Upto(X, a, step, m) # {}
<1> DEFINE Some == {n \in Nat : Upto(X, a, step, n) # {}}
           count == [n \in 0 .. m |-> n]
<1>1. count[0] \in Some
  <2>1. [i \in 0 .. 0 |-> a] \in Upto(X, a, step, 0)
    BY DEF Upto
  <2> QED
    BY <2>1
<1>2. ASSUME NEW n \in 1 .. m, count[n - 1] \in Some PROVE count[n] \in Some
  <2>1. PICK g : g \in Upto(X, a, step, n - 1)
    BY <1>2
  <2>2. g \in [0 .. n - 1 -> X]
    BY <2>1 DEF Upto
  <2>3. \A i \in 0 .. n - 1 : g[i] = IF i = 0 THEN a ELSE step[i][g[parent(i)]]
    BY <2>1 DEF Upto
  <2>4. parent(n) \in 0 .. n - 1 /\ \A i \in 1 .. n - 1 : parent(i) \in 0 .. n - 1
    BY ParentLess
  <2> DEFINE h == [i \in 0 .. n |-> IF i = n THEN step[n][g[parent(n)]] ELSE g[i]]
  <2>5. h \in [0 .. n -> X]
    BY <2>2, <2>4
  <2>6. \A i \in 0 .. n : h[i] = IF i = 0 THEN a ELSE step[i][h[parent(i)]]
    BY <2>3, <2>4
  <2>7. h \in Upto(X, a, step, n)
    BY <2>5, <2>6 DEF Upto
  <2> QED
    BY <2>7
<1>3. \A n \in 0 .. m : count[n] \in Some
  <2> HIDE DEF Some, count
  <2> QED
    BY <1>1, <1>2, AllAlong
<1> QED
  BY <1>3

\* Two of them agree where both are defined.
LEMMA UptoAgree ==
    ASSUME NEW X, NEW a \in X, NEW step \in [Nat -> [X -> X]],
           NEW m \in Nat, NEW n \in Nat, m <= n,
           NEW g \in Upto(X, a, step, m), NEW h \in Upto(X, a, step, n)
    PROVE  \A i \in 0 .. m : g[i] = h[i]
<1> DEFINE Good == {i \in 0 .. m : g[i] = h[i]}
<1>1. ASSUME NEW k \in 0 .. m, \A j \in 0 .. k - 1 : j \in Good PROVE k \in Good
  <2>1. k # 0 => parent(k) \in 0 .. k - 1
    BY ParentLess
  <2>2. k # 0 => g[parent(k)] = h[parent(k)]
    BY <1>1, <2>1
  <2>3. g[k] = (IF k = 0 THEN a ELSE step[k][g[parent(k)]])
    BY DEF Upto
  <2>4. h[k] = (IF k = 0 THEN a ELSE step[k][h[parent(k)]])
    BY DEF Upto
  <2> QED
    BY <2>2, <2>3, <2>4
<1>2. \A k \in 0 .. m : k \in Good
  <2> HIDE DEF Good
  <2> QED
    BY <1>1, FromSmaller
<1> QED
  BY <1>2

\* the functions of all indices that follow it
Everywhere(X, a, step) ==
    {f \in [Nat -> X] : \A i \in Nat : f[i] = IF i = 0 THEN a ELSE step[i][f[parent(i)]]}

\* So a recursion along parents defines a function of all indices.
LEMMA ParentRecursion ==
    ASSUME NEW X, NEW a \in X, NEW step \in [Nat -> [X -> X]]
    PROVE  Everywhere(X, a, step) # {}
<1> DEFINE best(m) == CHOOSE g : g \in Upto(X, a, step, m)
           f == [i \in Nat |-> best(i)[i]]
<1>1. \A m \in Nat : best(m) \in Upto(X, a, step, m)
  BY UptoExists
<1> HIDE DEF best
<1>2. \A m \in Nat : best(m) \in [0 .. m -> X]
  BY <1>1 DEF Upto
<1>3. f \in [Nat -> X]
  BY <1>2
<1>4. ASSUME NEW i \in Nat
      PROVE  f[i] = IF i = 0 THEN a ELSE step[i][f[parent(i)]]
  <2>1. best(i)[i] = (IF i = 0 THEN a ELSE step[i][best(i)[parent(i)]])
    BY <1>1 DEF Upto
  <2>2. CASE i = 0
    BY <2>1, <2>2
  <2>3. CASE i # 0
    <3>1. parent(i) \in Nat /\ parent(i) <= i
      BY <2>3, ParentLess
    <3>2. best(parent(i))[parent(i)] = best(i)[parent(i)]
      BY <1>1, <3>1, UptoAgree
    <3> QED
      BY <2>1, <2>3, <3>1, <3>2
  <2> QED
    BY <2>2, <2>3
<1>5. f \in Everywhere(X, a, step)
  BY <1>3, <1>4 DEF Everywhere
<1> QED
  BY <1>5

\* level is defined, and grows by one from parent to child.
LEMMA LevelDefined ==
    /\ level \in [Nat -> Nat]
    /\ level[0] = 0
    /\ \A i \in Nat \ {0} : level[i] = 1 + level[parent(i)]
<1> DEFINE step == [i \in Nat |-> [x \in Nat |-> 1 + x]]
           Is(f) == f = [i \in Nat |-> IF i = 0 THEN 0 ELSE 1 + f[parent(i)]]
<1>1. step \in [Nat -> [Nat -> Nat]]
  OBVIOUS
<1>2. PICK f : f \in Everywhere(Nat, 0, step)
  <2> HIDE DEF step
  <2>1. 0 \in Nat
    OBVIOUS
  <2>2. Everywhere(Nat, 0, step) # {}
    BY <1>1, <2>1, ParentRecursion, Zenon
  <2> QED
    BY <2>2, Zenon
<1>3. \A i \in Nat \ {0} : parent(i) \in Nat
  BY ParentLess
<1>4. \A i \in Nat : f[i] = IF i = 0 THEN 0 ELSE 1 + f[parent(i)]
  BY <1>2, <1>3 DEF Everywhere
<1>5. Is(f)
  BY <1>2, <1>4 DEF Everywhere
<1>6. Is(level)
  BY <1>5 DEF level
<1>7. \A i \in Nat : level[i] = IF i = 0 THEN 0 ELSE 1 + level[parent(i)]
  BY <1>6
<1>8. \A k \in Nat : level[k] \in Nat
  <2> SUFFICES ASSUME NEW m \in Nat PROVE level[m] \in Nat
    OBVIOUS
  <2> DEFINE Good == {k \in 0 .. m : level[k] \in Nat}
  <2>1. ASSUME NEW k \in 0 .. m, \A j \in 0 .. k - 1 : j \in Good PROVE k \in Good
    <3>1. k # 0 => parent(k) \in 0 .. k - 1
      BY ParentLess
    <3> QED
      BY <1>7, <2>1, <3>1
  <2>2. \A k \in 0 .. m : k \in Good
    <3> HIDE DEF Good
    <3> QED
      BY <2>1, FromSmaller
  <2> QED
    BY <2>2
<1> QED
  BY <1>6, <1>7, <1>8

\* A level is one of minima or not.
LEMMA LevelBoolean ==
    ASSUME NEW i
    PROVE  isMinLevel(i) \in BOOLEAN /\ (~isMinLevel(i)) \in BOOLEAN
BY DEF isMinLevel

\* The levels alternate.
LEMMA LevelsAlternate ==
    /\ isMinLevel(0)
    /\ \A i \in Nat \ {0} : isMinLevel(i) <=> ~isMinLevel(parent(i))
    /\ \A i \in Nat : i >= 3 => (isMinLevel(i) <=> isMinLevel(grandparent(i)))
<1>1. isMinLevel(0)
  BY LevelDefined DEF isMinLevel
<1>2. ASSUME NEW i \in Nat \ {0} PROVE isMinLevel(i) <=> ~isMinLevel(parent(i))
  <2>1. level[i] = 1 + level[parent(i)] /\ level[parent(i)] \in Nat
    BY LevelDefined, ParentLess
  <2> QED
    BY <2>1 DEF isMinLevel
<1>3. ASSUME NEW i \in Nat, i >= 3 PROVE isMinLevel(i) <=> isMinLevel(grandparent(i))
  <2>1. i \in Nat \ {0}
    BY <1>3
  <2> QED
    BY <1>2, <1>3, <2>1, GrandparentLess
<1> QED
  BY <1>1, <1>2, <1>3

\* Ancestors is defined: the parent and its ancestors.
LEMMA AncestorsDefined ==
    /\ Ancestors[0] = {}
    /\ \A i \in Nat \ {0} : Ancestors[i] = Ancestors[parent(i)] \cup {parent(i)}
<1> DEFINE step == [i \in Nat |-> [S \in SUBSET Nat |-> IF i = 0 THEN S ELSE S \cup {parent(i)}]]
           Is(f) == f = [i \in Nat |-> IF i = 0 THEN {} ELSE f[parent(i)] \cup {parent(i)}]
<1>1. step \in [Nat -> [SUBSET Nat -> SUBSET Nat]]
  BY ParentLess
<1>2. PICK f : f \in Everywhere(SUBSET Nat, {}, step)
  <2>1. {} \in SUBSET Nat
    OBVIOUS
  <2> HIDE DEF step
  <2>2. Everywhere(SUBSET Nat, {}, step) # {}
    BY <1>1, <2>1, ParentRecursion, Zenon
  <2> QED
    BY <2>2, Zenon
<1>3. \A i \in Nat \ {0} : parent(i) \in Nat
  BY ParentLess
<1>4. \A i \in Nat : f[i] = IF i = 0 THEN {} ELSE f[parent(i)] \cup {parent(i)}
  <2>1. f \in [Nat -> SUBSET Nat]
    BY <1>2 DEF Everywhere
  <2> QED
    BY <1>2, <1>3, <2>1 DEF Everywhere
<1>5. Is(f)
  BY <1>2, <1>4 DEF Everywhere
<1>6. Is(Ancestors)
  BY <1>5 DEF Ancestors
<1>7. \A i \in Nat : Ancestors[i] = IF i = 0 THEN {} ELSE Ancestors[parent(i)] \cup {parent(i)}
  BY <1>6
<1> QED
  BY <1>7

-----------------------------------------------------------------------------
(* Arrays and their order                                                  *)

\* the places of an array
Places(d) == 0 .. Len(d) - 1

\* What is at the places of an array of S is in S.
LEMMA AtIn ==
    ASSUME NEW S, NEW d \in Seq(S), NEW i \in Places(d)
    PROVE  At(d, i) \in S
<1>1. i + 1 \in 1 .. Len(d)
  BY DEF Places
<1> QED
  BY <1>1 DEF At

\* What swap does.
LEMMA SwapAt ==
    ASSUME NEW S, NEW d \in Seq(S), NEW i \in Places(d), NEW j \in Places(d)
    PROVE  /\ swap(d, i, j) \in Seq(S)
           /\ Len(swap(d, i, j)) = Len(d)
           /\ \A k \in Places(d) :
                 At(swap(d, i, j), k) =
                    IF k = j THEN At(d, i) ELSE IF k = i THEN At(d, j) ELSE At(d, k)
<1>1. At(d, i) \in S /\ At(d, j) \in S
  BY AtIn
<1>2. i + 1 \in 1 .. Len(d) /\ j + 1 \in 1 .. Len(d)
  BY DEF Places
<1>3. swap(d, i, j) \in Seq(S) /\ Len(swap(d, i, j)) = Len(d)
  BY <1>1, <1>2 DEF swap
<1>4. ASSUME NEW k \in Places(d)
      PROVE  At(swap(d, i, j), k) =
                IF k = j THEN At(d, i) ELSE IF k = i THEN At(d, j) ELSE At(d, k)
  <2>1. k + 1 \in 1 .. Len(d)
    BY DEF Places
  <2> QED
    BY <1>2, <2>1 DEF swap, At, Places
<1> QED
  BY <1>3, <1>4

\* the order between a place and one below it
Edge(d, a, j) == IF isMinLevel(a) THEN At(d, a) <= At(d, j) ELSE At(d, a) >= At(d, j)

\* j is a child or a grandchild of i
Below(i, j) == parent(j) = i \/ (j >= 3 /\ grandparent(j) = i)

\* the order between every place and its children and grandchildren
LocalOrder(d) ==
    \A j \in Places(d) \ {0} :
        /\ Edge(d, parent(j), j)
        /\ j >= 3 => Edge(d, grandparent(j), j)

\* Order between near places is order between all.
LEMMA LocalIsGlobal ==
    ASSUME NEW d \in Seq(Int), LocalOrder(d)
    PROVE  \A i \in Places(d) : \A a \in Ancestors[i] : Edge(d, a, i)
<1> DEFINE Good == {i \in Places(d) : \A a \in Ancestors[i] : a \in Places(d) /\ Edge(d, a, i)}
<1>1. ASSUME NEW i \in Places(d), \A j \in 0 .. i - 1 : j \in Good PROVE i \in Good
  <2>1. i \in Nat /\ Len(d) \in Nat
    BY DEF Places
  <2>2. CASE i = 0
    BY <2>2, AncestorsDefined
  <2>3. CASE i # 0
    <3>1. i \in Nat \ {0} /\ parent(i) \in 0 .. i - 1 /\ parent(i) \in Places(d)
      BY <2>1, <2>3, ParentLess DEF Places
    <3>2. Ancestors[i] = Ancestors[parent(i)] \cup {parent(i)}
      BY <3>1, AncestorsDefined
    <3>3. Edge(d, parent(i), i)
      BY <3>1 DEF LocalOrder
    <3>4. parent(i) \in Good
      BY <1>1, <3>1
    <3>5. CASE parent(i) = 0
      BY <3>1, <3>2, <3>3, <3>5, AncestorsDefined
    <3>6. CASE parent(i) # 0
      <4>1. i >= 3
        BY <3>1, <3>6 DEF parent
      <4>2. /\ grandparent(i) \in 0 .. i - 1 /\ grandparent(i) \in Places(d)
            /\ grandparent(i) = parent(parent(i)) /\ parent(i) \in Nat \ {0}
        <5>1. /\ grandparent(i) \in Nat /\ grandparent(i) < i
              /\ grandparent(i) = parent(parent(i)) /\ parent(i) \in Nat \ {0}
          BY <2>1, <4>1, GrandparentLess
        <5> QED
          BY <2>1, <5>1 DEF Places
      <4>3. Ancestors[parent(i)] = Ancestors[grandparent(i)] \cup {grandparent(i)}
        BY <4>2, AncestorsDefined
      <4>4. Edge(d, grandparent(i), i)
        BY <3>1, <4>1 DEF LocalOrder
      <4>5. grandparent(i) \in Good
        BY <1>1, <4>2
      <4>6. isMinLevel(grandparent(i)) <=> ~isMinLevel(parent(i))
        BY <4>2, LevelsAlternate
      <4>7. ASSUME NEW a \in Ancestors[grandparent(i)]
            PROVE  a \in Places(d) /\ Edge(d, a, i)
        <5>1. a \in Places(d) /\ Edge(d, a, grandparent(i)) /\ Edge(d, a, parent(i))
          BY <3>4, <4>3, <4>5
        <5>2. /\ At(d, a) \in Int /\ At(d, i) \in Int
              /\ At(d, parent(i)) \in Int /\ At(d, grandparent(i)) \in Int
          BY <3>1, <4>2, <5>1, AtIn
        <5> QED
          BY <3>3, <4>4, <4>6, <5>1, <5>2 DEF Edge
      <4> QED
        BY <3>1, <3>2, <3>3, <4>2, <4>3, <4>4, <4>7
    <3> QED
      BY <3>5, <3>6
  <2> QED
    BY <2>2, <2>3
<1>2. ASSUME NEW m \in Nat, m = Len(d) - 1 PROVE \A i \in 0 .. m : i \in Good
  <2>1. ASSUME NEW i \in 0 .. m, \A j \in 0 .. i - 1 : j \in Good PROVE i \in Good
    BY <1>1, <1>2, <2>1 DEF Places
  <2> HIDE DEF Good
  <2> QED
    BY <2>1, FromSmaller
<1>3. \A i \in Places(d) : i \in Good
  <2> HIDE DEF Good
  <2>1. Len(d) \in Nat
    OBVIOUS
  <2>2. CASE Len(d) = 0
    BY <2>2 DEF Places
  <2>3. CASE Len(d) # 0
    <3>1. Len(d) - 1 \in Nat
      BY <2>1, <2>3
    <3> QED
      BY <1>2, <3>1 DEF Places
  <2> QED
    BY <2>2, <2>3
<1> QED
  BY <1>3

-----------------------------------------------------------------------------
(* Upwards                                                                 *)

\* All is in order, but for i and its grandparent; and what is below i is in order
\* with that grandparent.
Rising(low, d, i) ==
    /\ d \in Seq(Int)
    /\ i \in Places(d)
    /\ isMinLevel(i) <=> low
    /\ \A j \in Places(d) \ {0} :
          /\ Edge(d, parent(j), j)
          /\ j >= 3 /\ j # i => Edge(d, grandparent(j), j)
          /\ i >= 3 /\ Below(i, j) => Edge(d, grandparent(i), j)

\* A pass that swaps keeps that, for the grandparent.
LEMMA RiseStep ==
    ASSUME NEW low \in BOOLEAN, NEW d, NEW i, Rising(low, d, i),
           i >= 3, Before(low, At(d, i), At(d, grandparent(i)))
    PROVE  Rising(low, swap(d, i, grandparent(i)), grandparent(i))
<1> DEFINE g == grandparent(i)
           p == parent(i)
           u == swap(d, i, g)
<1>1. d \in Seq(Int) /\ i \in Places(d) /\ i \in Nat /\ Len(d) \in Nat
  BY DEF Rising, Places
<1>2. /\ g \in Nat /\ g < i /\ g = parent(p) /\ p \in Nat \ {0} /\ p < i /\ g < p
      /\ g \in Places(d) /\ p \in Places(d) \ {0} /\ i \in Places(d) \ {0}
  <2>1. g \in Nat /\ g < i /\ g = parent(p) /\ p \in Nat \ {0}
    BY <1>1, GrandparentLess
  <2>2. p < i /\ g < p
    BY <1>1, <2>1, ParentLess
  <2> QED
    BY <1>1, <2>1, <2>2 DEF Places
<1>3. (isMinLevel(i) <=> low) /\ (isMinLevel(g) <=> low) /\ (isMinLevel(p) <=> ~low)
  <2>1. isMinLevel(i) <=> low
    BY DEF Rising
  <2> QED
    BY <1>1, <1>2, <2>1, LevelsAlternate
<1>4. /\ u \in Seq(Int) /\ Len(u) = Len(d) /\ Places(u) = Places(d)
      /\ \A k \in Places(d) :
            At(u, k) = IF k = g THEN At(d, i) ELSE IF k = i THEN At(d, g) ELSE At(d, k)
  <2>1. /\ u \in Seq(Int) /\ Len(u) = Len(d)
        /\ \A k \in Places(d) :
              At(u, k) = IF k = g THEN At(d, i) ELSE IF k = i THEN At(d, g) ELSE At(d, k)
    <3> HIDE DEF g
    <3> QED
      BY <1>1, <1>2, SwapAt
  <2> QED
    BY <2>1 DEF Places
<1>5. \A k \in Places(d) : At(d, k) \in Int /\ k \in Nat
  BY <1>1, AtIn DEF Places
<1>6. \A j \in Places(d) \ {0} :
          /\ Edge(d, parent(j), j)
          /\ j >= 3 /\ j # i => Edge(d, g, j) \/ grandparent(j) # g
          /\ j >= 3 /\ j # i => Edge(d, grandparent(j), j)
          /\ Below(i, j) => Edge(d, g, j)
  BY DEF Rising
<1>7. \A j \in Places(d) \ {0} :
          /\ parent(j) \in Places(d) /\ parent(j) < j
          /\ j >= 3 => grandparent(j) \in Places(d) /\ grandparent(j) < j
  <2> TAKE j \in Places(d) \ {0}
  <2>1. j \in Nat \ {0} /\ j < Len(d)
    BY <1>1 DEF Places
  <2>2. parent(j) \in Nat /\ parent(j) < j
    BY <2>1, ParentLess
  <2>3. j >= 3 => grandparent(j) \in Nat /\ grandparent(j) < j
    BY <2>1, GrandparentLess
  <2> QED
    BY <1>1, <2>1, <2>2, <2>3 DEF Places
<1>8. ~(IF low THEN At(d, g) <= At(d, i) ELSE At(d, g) >= At(d, i))
  BY <1>1, <1>2, <1>5 DEF Before
<1>9. Edge(d, g, p) /\ Edge(d, p, i)
  BY <1>2, <1>6
<1> HIDE DEF g, p, u
<1>10. ASSUME NEW j \in Places(d) \ {0} PROVE Edge(u, parent(j), j)
  <2>1. CASE j = i
    BY <1>1, <1>2, <1>3, <1>4, <1>5, <1>9, <2>1 DEF Edge, p
  <2>2. CASE j = g
    <3>1. /\ parent(g) \in Places(d) /\ parent(g) < g /\ Edge(d, parent(g), g)
          /\ (isMinLevel(parent(g)) <=> ~low)
      BY <1>2, <1>3, <1>6, <1>7, <2>2, LevelsAlternate
    <3>2. At(u, parent(g)) = At(d, parent(g)) /\ At(u, g) = At(d, i)
      <4>1. parent(g) # g /\ parent(g) # i
        BY <1>1, <1>2, <1>5, <3>1
      <4> QED
        BY <1>2, <1>4, <3>1, <4>1
    <3>3. /\ At(d, parent(g)) \in Int /\ At(d, g) \in Int /\ At(d, i) \in Int
          /\ (IF low THEN At(d, parent(g)) >= At(d, g) ELSE At(d, parent(g)) <= At(d, g))
      BY <1>1, <1>2, <1>5, <3>1 DEF Edge
    <3>4. IF low THEN At(u, parent(g)) >= At(u, g) ELSE At(u, parent(g)) <= At(u, g)
      <4> HIDE DEF Before
      <4> QED
        BY <1>8, <3>2, <3>3
    <3> QED
      BY <2>2, <3>1, <3>4 DEF Edge
  <2>3. CASE parent(j) = i
    <3>1. Edge(d, g, j) /\ j # i /\ j # g
      BY <1>1, <1>2, <1>6, <1>7, <2>3 DEF Below
    <3> QED
      BY <1>1, <1>2, <1>3, <1>4, <1>5, <2>3, <3>1 DEF Edge
  <2>4. CASE parent(j) = g /\ j # i
    <3>1. Edge(d, g, j) /\ j # g
      BY <1>2, <1>6, <1>7, <2>4
    <3> QED
      BY <1>1, <1>2, <1>3, <1>4, <1>5, <1>8, <2>4, <3>1 DEF Edge
  <2>5. CASE j # i /\ j # g /\ parent(j) # i /\ parent(j) # g
    BY <1>4, <1>6, <1>7, <2>5 DEF Edge
  <2> QED
    BY <2>1, <2>2, <2>3, <2>4, <2>5
<1>11. ASSUME NEW j \in Places(d) \ {0}, j >= 3, j # g PROVE Edge(u, grandparent(j), j)
  <2>1. CASE j = i
    BY <1>1, <1>2, <1>3, <1>4, <1>5, <1>8, <2>1 DEF Edge, g
  <2>2. CASE grandparent(j) = i
    <3>1. Edge(d, g, j) /\ j # i
      BY <1>1, <1>2, <1>6, <1>7, <1>11, <2>2 DEF Below
    <3> QED
      BY <1>1, <1>2, <1>3, <1>4, <1>5, <1>11, <2>2, <3>1 DEF Edge
  <2>3. CASE grandparent(j) = g /\ j # i
    <3>1. Edge(d, g, j)
      BY <1>6, <1>11, <2>3
    <3> QED
      BY <1>1, <1>2, <1>3, <1>4, <1>5, <1>8, <1>11, <2>3, <3>1 DEF Edge
  <2>4. CASE j # i /\ grandparent(j) # i /\ grandparent(j) # g
    BY <1>4, <1>6, <1>7, <1>11, <2>4 DEF Edge
  <2> QED
    BY <2>1, <2>2, <2>3, <2>4
<1>12. ASSUME NEW j \in Places(d) \ {0}, g >= 3, Below(g, j) PROVE Edge(u, grandparent(g), j)
  <2>1. /\ grandparent(g) \in Places(d) /\ grandparent(g) < g
        /\ Edge(d, grandparent(g), g) /\ (isMinLevel(grandparent(g)) <=> low)
    BY <1>2, <1>3, <1>6, <1>7, <1>12, LevelsAlternate
  <2>2. j # g /\ grandparent(g) # i
    BY <1>1, <1>2, <1>5, <1>7, <1>12, <2>1 DEF Below
  <2> DEFINE gg == grandparent(g)
  <2>3. At(u, gg) = At(d, gg) /\ At(d, gg) \in Int /\ At(d, g) \in Int /\ At(d, j) \in Int
    <3>1. gg \in Places(d) /\ gg # g /\ gg # i
      BY <1>2, <1>5, <2>1, <2>2
    <3> HIDE DEF gg
    <3> QED
      BY <1>2, <1>4, <1>5, <3>1
  <2>4. IF low THEN At(d, gg) <= At(d, g) ELSE At(d, gg) >= At(d, g)
    BY <2>1 DEF Edge
  <2> HIDE DEF gg
  <2>5. IF low THEN At(d, gg) <= At(u, j) ELSE At(d, gg) >= At(u, j)
    <3>1. CASE j = i
      BY <1>2, <1>4, <2>2, <2>4, <3>1
    <3>2. CASE j # i
      <4>1. Edge(d, g, j)
        BY <1>6, <1>12, <3>2 DEF Below
      <4>2. At(u, j) = At(d, j)
        BY <1>4, <2>2, <3>2
      <4> QED
        BY <1>3, <2>3, <2>4, <4>1, <4>2 DEF Edge
    <3> QED
      BY <3>1, <3>2
  <2> QED
    BY <2>1, <2>3, <2>5 DEF Edge, gg
<1>13. Rising(low, u, g)
  BY <1>2, <1>3, <1>4, <1>10, <1>11, <1>12 DEF Rising
<1> QED
  BY <1>13 DEF u, g

\* When no pass swaps any more, all is in order; and in order, no pass swaps.
LEMMA RiseEnds ==
    ASSUME NEW low \in BOOLEAN, NEW d, NEW i, Rising(low, d, i)
    PROVE  LocalOrder(d) <=>
              ~(i >= 3 /\ Before(low, At(d, i), At(d, grandparent(i))))
<1>1. d \in Seq(Int) /\ i \in Places(d) /\ i \in Nat /\ Len(d) \in Nat
  BY DEF Rising, Places
<1>2. CASE ~(i >= 3)
  BY <1>1, <1>2 DEF Rising, LocalOrder
<1>3. CASE i >= 3
  <2>1. grandparent(i) \in Places(d) /\ (isMinLevel(grandparent(i)) <=> low)
    <3>1. grandparent(i) \in Nat /\ grandparent(i) < i
      BY <1>1, <1>3, GrandparentLess
    <3>2. grandparent(i) \in Places(d)
      BY <1>1, <3>1 DEF Places
    <3> QED
      BY <1>1, <1>3, <3>2, LevelsAlternate DEF Rising
  <2>2. At(d, i) \in Int /\ At(d, grandparent(i)) \in Int
    BY <1>1, <2>1, AtIn
  <2>3. Before(low, At(d, i), At(d, grandparent(i))) <=> ~Edge(d, grandparent(i), i)
    BY <2>1, <2>2 DEF Before, Edge
  <2>4. i \in Places(d) \ {0}
    BY <1>1, <1>3
  <2>5. LocalOrder(d) <=> Edge(d, grandparent(i), i)
    BY <1>1, <1>3, <2>4 DEF Rising, LocalOrder
  <2> QED
    BY <1>3, <2>3, <2>5
<1> QED
  BY <1>2, <1>3

-----------------------------------------------------------------------------
(* What the loops keep: they rearrange                                     *)

\* how often p is in an array
Count(d, p) == Cardinality({k \in DOMAIN d : d[k] = p})

\* the arrays of S with what d has, each as often
Rearranged(S, d) ==
    {e \in Seq(S) : Len(e) = Len(d) /\ \A p \in S : Count(e, p) = Count(d, p)}

\* The places of an element are finitely many.
LEMMA CountFinite ==
    ASSUME NEW S, NEW d \in Seq(S), NEW p
    PROVE  IsFiniteSet({k \in DOMAIN d : d[k] = p}) /\ Count(d, p) \in Nat
<1>1. DOMAIN d = 1 .. Len(d) /\ Len(d) \in Nat
  OBVIOUS
<1>2. IsFiniteSet(1 .. Len(d))
  BY <1>1, FS_Interval
<1>3. {k \in DOMAIN d : d[k] = p} \subseteq 1 .. Len(d)
  BY <1>1
<1>4. IsFiniteSet({k \in DOMAIN d : d[k] = p})
  BY <1>2, <1>3, FS_Subset
<1> QED
  BY <1>4, FS_CardinalityType DEF Count

\* A swap rearranges.
LEMMA SwapRearranges ==
    ASSUME NEW S, NEW d0, NEW d \in Rearranged(S, d0), NEW i \in Places(d), NEW j \in Places(d)
    PROVE  swap(d, i, j) \in Rearranged(S, d0)
<1> DEFINE u == swap(d, i, j)
           from(p) == {k \in DOMAIN d : d[k] = p}
           to(p) == {k \in DOMAIN d : u[k] = p}
           other == [k \in DOMAIN d |->
                        IF k = i + 1 THEN j + 1 ELSE IF k = j + 1 THEN i + 1 ELSE k]
<1>1. d \in Seq(S) /\ DOMAIN d = 1 .. Len(d) /\ Len(d) \in Nat
  BY DEF Rearranged
<1>2. i + 1 \in DOMAIN d /\ j + 1 \in DOMAIN d
  BY <1>1 DEF Places
<1>3. u \in Seq(S) /\ Len(u) = Len(d) /\ DOMAIN u = DOMAIN d
  BY <1>1, SwapAt
<1>4. \A k \in DOMAIN d : u[k] = d[other[k]]
  BY <1>2 DEF swap, At
<1>5. \A k \in DOMAIN d : other[k] \in DOMAIN d /\ other[other[k]] = k
  BY <1>1, <1>2
<1> HIDE DEF u, other
<1>6. ASSUME NEW p \in S PROVE Count(u, p) = Count(d, p)
  <2> DEFINE f == [k \in from(p) |-> other[k]]
  <2>1. f \in [from(p) -> to(p)]
    BY <1>4, <1>5
  <2>2. \A k \in from(p), l \in from(p) : f[k] = f[l] => k = l
    BY <1>5
  <2>3. \A k \in to(p) : other[k] \in from(p) /\ f[other[k]] = k
    BY <1>4, <1>5
  <2> HIDE DEF f, from, to
  <2>4. f \in Bijection(from(p), to(p))
    BY <2>1, <2>2, <2>3 DEF Bijection, Injection, Surjection, IsInjective
  <2>5. ExistsBijection(from(p), to(p))
    BY <2>4 DEF ExistsBijection
  <2>6. IsFiniteSet(from(p))
    BY <1>1, CountFinite DEF from
  <2>7. Cardinality(to(p)) = Cardinality(from(p))
    BY <2>5, <2>6, FS_Bijection
  <2> QED
    BY <1>3, <2>7 DEF Count, from, to
<1>7. u \in Rearranged(S, d0)
  BY <1>3, <1>6 DEF Rearranged
<1> QED
  BY <1>7 DEF u

\* the states of a loop over an array that is rearranged, with an index up to n
States(S, d, n) == [d : Rearranged(S, d), i : 0 .. n]

\* An array is a rearrangement of itself.
LEMMA RearrangedSelf ==
    ASSUME NEW S, NEW d \in Seq(S)
    PROVE  d \in Rearranged(S, d)
BY DEF Rearranged

\* A pass upwards rearranges.
LEMMA RiseState ==
    ASSUME NEW S, NEW d \in Seq(S), NEW n \in Nat, n < Len(d), NEW low,
           NEW s \in States(S, d, n)
    PROVE  bubbleUpStep(low, s) \in States(S, d, n)
<1>1. s.d \in Rearranged(S, d) /\ s.i \in 0 .. n /\ Len(s.d) = Len(d) /\ Len(d) \in Nat
  BY DEF States, Rearranged
<1>2. CASE s.i >= 3 /\ Before(low, At(s.d, s.i), At(s.d, grandparent(s.i)))
  <2>1. grandparent(s.i) \in Nat /\ grandparent(s.i) < s.i
    BY <1>1, <1>2, GrandparentLess
  <2>2. grandparent(s.i) \in 0 .. n /\ s.i \in Places(s.d) /\ grandparent(s.i) \in Places(s.d)
    BY <1>1, <2>1 DEF Places
  <2>3. swap(s.d, s.i, grandparent(s.i)) \in Rearranged(S, d)
    BY <1>1, <2>2, SwapRearranges
  <2>4. bubbleUpStep(low, s) = [d |-> swap(s.d, s.i, grandparent(s.i)), i |-> grandparent(s.i)]
    BY <1>2 DEF bubbleUpStep
  <2> QED
    BY <2>2, <2>3, <2>4 DEF States
<1>3. CASE ~(s.i >= 3 /\ Before(low, At(s.d, s.i), At(s.d, grandparent(s.i))))
  BY <1>3 DEF bubbleUpStep
<1> QED
  BY <1>2, <1>3

\* s is the states after 0 to i passes
IsRise(low, d, i, s) ==
    s = [k \in 0 .. i |-> IF k = 0 THEN [d |-> d, i |-> i] ELSE bubbleUpStep(low, s[k - 1])]

\* the states after passes that begin with d and i
Rise(low, d, i) == CHOOSE s : IsRise(low, d, i, s)

\* what is to be known of them: their type, how each follows, and that the loop
\* ends with the last
RiseRan(S, low, d, i) ==
    /\ Rise(low, d, i) \in [0 .. i -> States(S, d, i)]
    /\ Rise(low, d, i)[0] = [d |-> d, i |-> i]
    /\ \A k \in 1 .. i : Rise(low, d, i)[k] = bubbleUpStep(low, Rise(low, d, i)[k - 1])
    /\ bubbleUpLoop(low, d, i) = Rise(low, d, i)[i].d

\* There are such states.
LEMMA RiseRuns ==
    ASSUME NEW S, NEW d \in Seq(S), NEW i \in Places(d), NEW low
    PROVE  RiseRan(S, low, d, i)
<1> DEFINE X == States(S, d, i)
           a == [d |-> d, i |-> i]
           next == [s \in X |-> bubbleUpStep(low, s)]
           step == [k \in 1 .. i |-> next]
<1>1. i \in Nat /\ i < Len(d)
  BY DEF Places
<1>2. a \in X
  BY <1>1, RearrangedSelf DEF States
<1>3. next \in [X -> X]
  BY <1>1, RiseState
<1>4. step \in [1 .. i -> [X -> X]]
  BY <1>3
<1>5. PICK g : g \in Results(X, i, a, step)
  <2> HIDE DEF X, a, step
  <2> QED
    BY <1>1, <1>2, <1>4, Iterates
<1>6. /\ g \in [0 .. i -> X] /\ g[0] = a
      /\ \A k \in 1 .. i : g[k] = bubbleUpStep(low, g[k - 1])
  <2>1. g \in [0 .. i -> X] /\ g[0] = a /\ \A k \in 1 .. i : g[k] = step[k][g[k - 1]]
    BY <1>5 DEF Results
  <2>2. \A k \in 1 .. i : g[k - 1] \in X
    BY <1>1, <2>1
  <2> HIDE DEF X, a
  <2> QED
    BY <2>1, <2>2
<1> HIDE DEF X
<1>7. IsRise(low, d, i, g)
  BY <1>1, <1>6 DEF IsRise
<1>8. IsRise(low, d, i, Rise(low, d, i))
  BY <1>7 DEF Rise
<1> DEFINE r == Rise(low, d, i)
<1>9. r[0] = a /\ \A k \in 1 .. i : r[k] = bubbleUpStep(low, r[k - 1])
  BY <1>1, <1>8 DEF IsRise
<1>10. \A k \in 0 .. i : r[k] \in X
  <2>1. ASSUME NEW k \in 1 .. i, r[k - 1] \in X PROVE r[k] \in X
    BY <1>1, <1>9, <2>1, RiseState DEF X
  <2> HIDE DEF r
  <2>2. r[0] \in X
    BY <1>2, <1>9
  <2> QED
    BY <1>1, <2>1, <2>2, AllAlong
<1>11. r \in [0 .. i -> X]
  BY <1>8, <1>10 DEF IsRise
<1>12. bubbleUpLoop(low, d, i) = r[i].d
  BY DEF bubbleUpLoop, Rise, IsRise
<1> QED
  BY <1>9, <1>11, <1>12 DEF X, RiseRan

\* The loop rearranges.
LEMMA RiseRearranges ==
    ASSUME NEW S, NEW d \in Seq(S), NEW i \in Places(d), NEW low
    PROVE  bubbleUpLoop(low, d, i) \in Rearranged(S, d)
<1> DEFINE r == Rise(low, d, i)
<1>1. r \in [0 .. i -> States(S, d, i)] /\ bubbleUpLoop(low, d, i) = r[i].d
  <2>1. RiseRan(S, low, d, i)
    BY RiseRuns
  <2> QED
    BY <2>1 DEF RiseRan
<1>2. r[i] \in States(S, d, i)
  <2>1. i \in Nat
    BY DEF Places
  <2> QED
    BY <1>1, <2>1
<1>3. r[i].d \in Rearranged(S, d)
  BY <1>2 DEF States
<1> QED
  BY <1>1, <1>3

\* What rises ends in order.
LEMMA RiseOrders ==
    ASSUME NEW low \in BOOLEAN, NEW d, NEW i, Rising(low, d, i)
    PROVE  LocalOrder(bubbleUpLoop(low, d, i))
<1> DEFINE r == Rise(low, d, i)
           Good == {k \in 0 .. i : /\ Rising(low, r[k].d, r[k].i)
                                   /\ LocalOrder(r[k].d) \/ r[k].i + k <= i}
           count == [k \in 0 .. i |-> k]
<1>1. d \in Seq(Int) /\ i \in Places(d) /\ i \in Nat
  BY DEF Rising, Places
<1>2. /\ r \in [0 .. i -> States(Int, d, i)] /\ r[0] = [d |-> d, i |-> i]
      /\ \A k \in 1 .. i : r[k] = bubbleUpStep(low, r[k - 1])
      /\ bubbleUpLoop(low, d, i) = r[i].d
  <2>1. RiseRan(Int, low, d, i)
    BY <1>1, RiseRuns
  <2> QED
    BY <2>1 DEF RiseRan
<1> HIDE DEF r
<1>3. count[0] \in Good
  BY <1>1, <1>2
<1>4. ASSUME NEW k \in 1 .. i, count[k - 1] \in Good PROVE count[k] \in Good
  <2> DEFINE s == r[k - 1]
             g == grandparent(s.i)
  <2>1. k - 1 \in 0 .. i /\ Rising(low, s.d, s.i) /\ (LocalOrder(s.d) \/ s.i + (k - 1) <= i)
    <3>1. k - 1 \in 0 .. i /\ count[k - 1] = k - 1
      BY <1>1
    <3>2. k - 1 \in Good
      BY <1>4, <3>1
    <3> HIDE DEF count
    <3> QED
      BY <3>1, <3>2
  <2>2. r[k] = bubbleUpStep(low, s)
    BY <1>2
  <2>3. s.i \in Nat
    BY <2>1 DEF Rising, Places
  <2> HIDE DEF s
  <2>4. CASE s.i >= 3 /\ Before(low, At(s.d, s.i), At(s.d, g))
    <3>1. r[k] = [d |-> swap(s.d, s.i, g), i |-> g]
      BY <2>2, <2>4 DEF bubbleUpStep
    <3>2. Rising(low, r[k].d, r[k].i)
      BY <2>1, <2>4, <3>1, RiseStep
    <3>3. ~LocalOrder(s.d) /\ g \in Nat /\ g < s.i
      BY <2>1, <2>3, <2>4, RiseEnds, GrandparentLess
    <3>4. r[k].i + k <= i
      BY <1>1, <2>1, <2>3, <3>1, <3>3
    <3> QED
      BY <3>2, <3>4
  <2>5. CASE ~(s.i >= 3 /\ Before(low, At(s.d, s.i), At(s.d, g)))
    <3>1. r[k] = s
      BY <2>2, <2>5 DEF bubbleUpStep
    <3>2. LocalOrder(s.d)
      BY <2>1, <2>5, RiseEnds
    <3> QED
      BY <2>1, <3>1, <3>2
  <2> QED
    BY <2>4, <2>5
<1>5. \A k \in 0 .. i : count[k] \in Good
  <2> HIDE DEF Good, count
  <2> QED
    BY <1>1, <1>3, <1>4, AllAlong
<1>6. Rising(low, r[i].d, r[i].i) /\ (LocalOrder(r[i].d) \/ r[i].i + i <= i)
  BY <1>1, <1>5
<1>7. CASE r[i].i + i <= i
  <2>1. r[i].i \in Nat
    BY <1>6 DEF Rising, Places
  <2>2. ~(r[i].i >= 3)
    BY <1>1, <1>7, <2>1
  <2> QED
    BY <1>2, <1>6, <2>2, RiseEnds
<1> QED
  BY <1>2, <1>6, <1>7

\* An element that is put at the end rises to a place where all is in order.
LEMMA AppendRises ==
    ASSUME NEW d \in Seq(Int), LocalOrder(d), NEW e \in Seq(Int), NEW i \in Nat \ {0},
           Len(d) = i, Len(e) = i + 1, \A k \in Places(d) : At(e, k) = At(d, k),
           NEW low \in BOOLEAN, low <=> isMinLevel(i)
    PROVE  IF Before(~low, At(e, i), At(e, parent(i)))
           THEN Rising(~low, swap(e, i, parent(i)), parent(i))
           ELSE Rising(low, e, i)
<1> DEFINE q == parent(i)
           u == swap(e, i, q)
<1>1. i \in Nat \ {0} /\ Len(d) \in Nat
  OBVIOUS
<1>2. \A k \in Places(d) : At(e, k) = At(d, k) /\ At(d, k) \in Int /\ k \in Nat /\ k < i
  <2>1. \A k \in Places(d) : k \in Nat /\ k < i
    BY <1>1 DEF Places
  <2> QED
    BY <2>1, AtIn
<1>3. /\ Places(e) = 0 .. i /\ Places(d) = 0 .. i - 1 /\ i \in Places(e)
      /\ \A k \in Places(e) : k \in Places(d) \/ k = i
      /\ \A k \in Places(d) : k \in Places(e) /\ k # i
  BY <1>1, <1>2 DEF Places
<1>4. q \in Places(d) /\ q \in Places(e) /\ q < i /\ q \in Nat
  <2>1. q \in Nat /\ q < i
    BY <1>1, ParentLess
  <2> QED
    BY <1>1, <1>3, <2>1
<1>5. isMinLevel(q) <=> ~low
  BY <1>1, LevelsAlternate
<1>6. \A j \in Places(e) \ {0} :
          /\ parent(j) \in Places(d) /\ parent(j) \in Nat /\ parent(j) < j /\ parent(j) < i
          /\ j >= 3 => /\ grandparent(j) \in Places(d) /\ grandparent(j) \in Nat
                       /\ grandparent(j) < j /\ grandparent(j) < i
  <2> TAKE j \in Places(e) \ {0}
  <2>1. j \in Nat \ {0} /\ j <= i
    BY <1>3
  <2>2. parent(j) \in Nat /\ parent(j) < j
    BY <2>1, ParentLess
  <2>3. j >= 3 => grandparent(j) \in Nat /\ grandparent(j) < j
    BY <2>1, GrandparentLess
  <2> QED
    BY <1>1, <1>3, <2>1, <2>2, <2>3
<1>7. \A j \in Places(d) \ {0} :
          /\ Edge(d, parent(j), j) /\ Edge(e, parent(j), j)
          /\ j >= 3 => Edge(d, grandparent(j), j) /\ Edge(e, grandparent(j), j)
  <2> TAKE j \in Places(d) \ {0}
  <2>1. j \in Places(e) \ {0}
    BY <1>1, <1>3
  <2>2. Edge(d, parent(j), j) /\ (j >= 3 => Edge(d, grandparent(j), j))
    BY DEF LocalOrder
  <2> QED
    BY <1>2, <1>6, <2>1, <2>2 DEF Edge
<1>8. \A k \in Places(e) : At(e, k) \in Int /\ k \in Nat
  BY <1>2, <1>3, <1>1, AtIn
<1>9. \A j \in Places(e) \ {0} : ~Below(i, j)
  <2> TAKE j \in Places(e) \ {0}
  <2>1. parent(j) < i /\ (j >= 3 => grandparent(j) < i) /\ parent(j) \in Nat
    BY <1>2, <1>6
  <2> QED
    BY <1>2, <1>6 DEF Below
<1>10. CASE ~Before(~low, At(e, i), At(e, q))
  <2>1. Edge(e, q, i)
    BY <1>3, <1>4, <1>5, <1>8, <1>10 DEF Before, Edge
  <2>2. \A j \in Places(e) \ {0} : Edge(e, parent(j), j) /\ (j >= 3 /\ j # i => Edge(e, grandparent(j), j))
    BY <1>3, <1>7, <2>1
  <2>3. Rising(low, e, i)
    BY <1>2, <1>3, <1>9, <2>2 DEF Rising
  <2> QED
    BY <1>10, <2>3
<1>11. CASE Before(~low, At(e, i), At(e, q))
  <2>1. /\ u \in Seq(Int) /\ Len(u) = Len(e) /\ Places(u) = Places(e)
        /\ \A k \in Places(e) :
              At(u, k) = IF k = q THEN At(e, i) ELSE IF k = i THEN At(e, q) ELSE At(e, k)
    <3>1. /\ u \in Seq(Int) /\ Len(u) = Len(e)
          /\ \A k \in Places(e) :
                At(u, k) = IF k = q THEN At(e, i) ELSE IF k = i THEN At(e, q) ELSE At(e, k)
      <4>1. e \in Seq(Int) /\ i \in Places(e) /\ q \in Places(e)
        BY <1>2, <1>3, <1>4
      <4> HIDE DEF q
      <4> QED
        BY <4>1, SwapAt
    <3> QED
      BY <3>1 DEF Places
  <2>2. ~(IF low THEN At(e, q) >= At(e, i) ELSE At(e, q) <= At(e, i))
    BY <1>3, <1>4, <1>8, <1>11 DEF Before
  <2>3. At(u, i) = At(e, q) /\ At(u, q) = At(e, i) /\ q # i
    <3>1. q # i
      BY <1>1, <1>4
    <3> HIDE DEF u, q
    <3> QED
      BY <1>3, <1>4, <2>1, <3>1
  <2>4. \A j \in Places(e) \ {0} : j >= 3 => grandparent(j) # q
    <3> TAKE j \in Places(e) \ {0}
    <3>1. j \in Nat /\ j <= i
      BY <1>3
    <3>2. i \in {2 * q + 1, 2 * q + 2}
      BY <1>1 DEF parent
    <3>3. ASSUME j >= 3, grandparent(j) = q PROVE j >= 4 * q + 3
      <4>1. q \in Nat
        BY <1>4
      <4> HIDE DEF q
      <4>2. j \in {4*q + 3, 4*q + 4, 4*q + 5, 4*q + 6}
        BY <3>1, <3>3, <4>1, DescendantsOf
      <4> QED
        BY <3>1, <4>1, <4>2
    <3> HIDE DEF q
    <3> QED
      BY <1>1, <1>4, <3>1, <3>2, <3>3
  <2> HIDE DEF u, q
  <2>5. \A j \in Places(e) \ {0} : parent(j) = q /\ j # i =>
            (IF low THEN At(e, q) >= At(u, j) ELSE At(e, q) <= At(u, j))
    <3> TAKE j \in Places(e) \ {0}
    <3> HAVE parent(j) = q /\ j # i
    <3>1. Edge(e, q, j) /\ j # q
      BY <1>3, <1>6, <1>7
    <3> QED
      BY <1>5, <1>8, <2>1, <3>1 DEF Edge
  <2>6. q # 0 => /\ parent(q) \in Places(e) /\ parent(q) # q /\ parent(q) # i
                 /\ (isMinLevel(parent(q)) <=> low)
                 /\ At(u, parent(q)) = At(e, parent(q))
                 /\ At(e, parent(q)) \in Int
                 /\ (IF low THEN At(e, parent(q)) <= At(e, q) ELSE At(e, parent(q)) >= At(e, q))
    <3> HAVE q # 0
    <3>1. parent(q) \in Places(d) /\ parent(q) < q /\ Edge(e, parent(q), q) /\ q \in Nat \ {0}
      BY <1>4, <1>6, <1>7
    <3>2. parent(q) \in Places(e) /\ parent(q) # q /\ parent(q) # i
      <4>1. parent(q) \in Nat
        BY <3>1, ParentLess
      <4>2. parent(q) < i /\ i \in Nat
        BY <1>4, <3>1, <4>1
      <4> QED
        BY <1>3, <3>1, <4>1, <4>2
    <3>3. isMinLevel(parent(q)) <=> low
      BY <1>5, <3>1, LevelsAlternate
    <3> QED
      BY <1>4, <1>8, <2>1, <3>1, <3>2, <3>3 DEF Edge
  <2>7. ASSUME NEW j \in Places(e) \ {0} PROVE Edge(u, parent(j), j)
    <3>1. CASE j = i
      <4>1. parent(j) = q
        BY <3>1 DEF q
      <4>2. At(e, i) \in Int /\ At(e, q) \in Int
        BY <1>3, <1>4, <1>8
      <4> QED
        BY <1>5, <2>2, <2>3, <3>1, <4>1, <4>2 DEF Edge
    <3>2. CASE j = q
      <4>1. q # 0 /\ At(e, i) \in Int /\ At(e, q) \in Int
        BY <1>3, <1>4, <1>8, <3>2
      <4> QED
        BY <2>2, <2>3, <2>6, <3>2, <4>1 DEF Edge
    <3>3. CASE parent(j) = q /\ j # i
      <4>1. At(u, j) \in Int /\ At(e, q) \in Int /\ At(e, i) \in Int
        BY <1>3, <1>4, <1>8, <2>1
      <4> QED
        BY <1>5, <2>2, <2>3, <2>5, <3>3, <4>1 DEF Edge
    <3>4. CASE j # i /\ j # q /\ parent(j) # q
      <4>1. parent(j) \in Places(e) /\ parent(j) # i /\ j \in Places(d) \ {0}
        BY <1>1, <1>3, <1>6, <3>4
      <4> QED
        BY <1>7, <2>1, <3>4, <4>1 DEF Edge
    <3> QED
      BY <3>1, <3>2, <3>3, <3>4
  <2>8. ASSUME NEW j \in Places(e) \ {0}, j >= 3, j # q PROVE Edge(u, grandparent(j), j)
    <3>1. CASE j = i
      <4>1. grandparent(j) = parent(q) /\ q # 0
        BY <1>1, <2>8, <3>1, GrandparentLess DEF q
      <4> QED
        BY <2>3, <2>6, <3>1, <4>1 DEF Edge
    <3>2. CASE j # i
      <4>1. /\ grandparent(j) \in Places(e) /\ grandparent(j) # i /\ grandparent(j) # q
            /\ j \in Places(d) \ {0}
        BY <1>1, <1>3, <1>6, <2>4, <2>8, <3>2
      <4> QED
        BY <1>7, <2>1, <2>8, <3>2, <4>1 DEF Edge
    <3> QED
      BY <3>1, <3>2
  <2>9. ASSUME NEW j \in Places(e) \ {0}, q >= 3, Below(q, j) PROVE Edge(u, grandparent(q), j)
    <3>1. parent(j) = q
      BY <2>4, <2>9 DEF Below
    <3>2. /\ grandparent(q) \in Places(d) /\ grandparent(q) < q /\ Edge(e, grandparent(q), q)
          /\ (isMinLevel(grandparent(q)) <=> ~low)
      BY <1>4, <1>5, <1>6, <1>7, <2>9, LevelsAlternate
    <3>3. /\ grandparent(q) \in Places(e) /\ At(u, grandparent(q)) = At(e, grandparent(q))
          /\ At(u, j) \in Int /\ At(e, q) \in Int /\ At(e, grandparent(q)) \in Int
      <4>1. grandparent(q) \in Places(e) /\ grandparent(q) # q /\ grandparent(q) # i
        <5>1. grandparent(q) \in Places(e) /\ grandparent(q) \in Nat
          BY <1>1, <1>3, <3>2
        <5> QED
          BY <1>1, <1>4, <3>2, <5>1
      <4> QED
        BY <1>3, <1>4, <1>8, <2>1, <4>1
    <3>4. IF low THEN At(e, q) >= At(u, j) ELSE At(e, q) <= At(u, j)
      BY <2>3, <2>5, <3>1, <3>3
    <3>5. IF low THEN At(e, grandparent(q)) >= At(e, q) ELSE At(e, grandparent(q)) <= At(e, q)
      BY <3>2 DEF Edge
    <3> QED
      BY <3>2, <3>3, <3>4, <3>5 DEF Edge
  <2>10. Rising(~low, u, q)
    BY <1>4, <1>5, <2>1, <2>7, <2>8, <2>9 DEF Rising
  <2> QED
    BY <1>11, <2>10 DEF u, q
<1> QED
  BY <1>10, <1>11

\* Insert puts an element at the end and restores the order.
LEMMA InsertOrders ==
    ASSUME NEW d \in Seq(Int), LocalOrder(d), NEW x \in Int
    PROVE  LocalOrder(bubbleUp(Append(d, x), Len(d)))
<1> DEFINE e == Append(d, x)
           i == Len(d)
           low == isMinLevel(i)
<1>1. low \in BOOLEAN /\ (~low) \in BOOLEAN
  BY LevelBoolean
<1>2. CASE i = 0
  <2>1. bubbleUp(e, i) = e
    BY <1>2 DEF bubbleUp
  <2>2. Len(e) = 1
    BY <1>2
  <2> QED
    BY <2>1, <2>2 DEF LocalOrder, Places
<1>3. CASE i # 0
  <2>1. /\ e \in Seq(Int) /\ Len(e) = i + 1 /\ i \in Nat \ {0}
        /\ \A k \in Places(d) : At(e, k) = At(d, k)
    <3>1. i \in Nat /\ e \in Seq(Int) /\ Len(e) = i + 1 /\ \A k \in 1 .. i : e[k] = d[k]
      BY AppendProperties
    <3>2. \A k \in Places(d) : k + 1 \in 1 .. i
      BY DEF Places
    <3> QED
      BY <1>3, <3>1, <3>2 DEF At
  <2>2. IF Before(~low, At(e, i), At(e, parent(i)))
        THEN Rising(~low, swap(e, i, parent(i)), parent(i))
        ELSE Rising(low, e, i)
    <3> DEFINE b == low
    <3>1. b <=> isMinLevel(i)
      OBVIOUS
    <3> HIDE DEF b, e
    <3> QED
      BY <1>1, <2>1, <3>1, AppendRises
  <2>3. CASE Before(~low, At(e, i), At(e, parent(i)))
    <3>1. bubbleUp(e, i) = bubbleUpLoop(~low, swap(e, i, parent(i)), parent(i))
      BY <1>3, <2>3 DEF bubbleUp
    <3> HIDE DEF low
    <3> QED
      BY <1>1, <2>2, <2>3, <3>1, RiseOrders
  <2>4. CASE ~Before(~low, At(e, i), At(e, parent(i)))
    <3>1. bubbleUp(e, i) = bubbleUpLoop(low, e, i)
      BY <1>3, <2>4 DEF bubbleUp
    <3> HIDE DEF low
    <3> QED
      BY <1>1, <2>2, <2>4, <3>1, RiseOrders
  <2> QED
    BY <2>3, <2>4
<1> QED
  BY <1>2, <1>3

\* bubbleUp rearranges.
LEMMA BubbleUpRearranges ==
    ASSUME NEW S, NEW e \in Seq(S), NEW i \in Places(e)
    PROVE  bubbleUp(e, i) \in Rearranged(S, e)
<1>1. i \in Nat /\ e \in Rearranged(S, e)
  BY RearrangedSelf DEF Places
<1>2. ASSUME NEW low, NEW f \in Rearranged(S, e), NEW j \in Places(f)
      PROVE  bubbleUpLoop(low, f, j) \in Rearranged(S, e)
  <2>1. f \in Seq(S) /\ j \in Nat
    BY DEF Rearranged, Places
  <2>2. bubbleUpLoop(low, f, j) \in Rearranged(S, f)
    BY <2>1, RiseRearranges
  <2> QED
    BY <2>2 DEF Rearranged
<1>3. CASE i = 0
  BY <1>1, <1>3 DEF bubbleUp
<1>4. CASE i # 0
  <2> DEFINE low == isMinLevel(i)
             u == swap(e, i, parent(i))
  <2>1. parent(i) \in Places(e)
    BY <1>1, <1>4, ParentLess DEF Places
  <2>2. u \in Rearranged(S, e) /\ parent(i) \in Places(u)
    BY <1>1, <2>1, SwapRearranges DEF Rearranged, Places
  <2> HIDE DEF u
  <2>3. bubbleUp(e, i) \in {bubbleUpLoop(~low, u, parent(i)), bubbleUpLoop(low, e, i)}
    BY <1>4 DEF bubbleUp, u
  <2>4. /\ bubbleUpLoop(~low, u, parent(i)) \in Rearranged(S, e)
        /\ bubbleUpLoop(low, e, i) \in Rearranged(S, e)
    <3> HIDE DEF low
    <3> QED
      BY <1>1, <1>2, <2>2
  <2> QED
    BY <2>3, <2>4
<1> QED
  BY <1>3, <1>4

-----------------------------------------------------------------------------
(* Downwards: the scan over the descendants                                *)

\* The descendants that are scanned are the children and grandchildren.
LEMMA DescendantPlaces ==
    ASSUME NEW i \in Nat
    PROVE  /\ \A k \in 1 .. 6 : Descendants(i)[k] \in Nat \ {0} /\ Below(i, Descendants(i)[k])
                                /\ i < Descendants(i)[k]
           /\ \A j \in Nat \ {0} : Below(i, j) => \E k \in 1 .. 6 : Descendants(i)[k] = j
<1> DEFINE D == Descendants(i)
<1>1. /\ D[1] = 2*i + 1 /\ D[2] = 2*i + 2 /\ D[3] = 4*i + 3
      /\ D[4] = 4*i + 4 /\ D[5] = 4*i + 5 /\ D[6] = 4*i + 6
  BY DEF Descendants
<1>2. \A k \in 1 .. 6 : k = 1 \/ k = 2 \/ k = 3 \/ k = 4 \/ k = 5 \/ k = 6
  OBVIOUS
<1> HIDE DEF D
<1>3. \A k \in 1 .. 6 : /\ D[k] \in Nat \ {0} /\ i < D[k]
                        /\ \/ D[k] \in {2*i + 1, 2*i + 2}
                           \/ D[k] \in {4*i + 3, 4*i + 4, 4*i + 5, 4*i + 6}
  BY <1>1, <1>2
<1>4. \A k \in 1 .. 6 : Below(i, D[k])
  BY <1>3, DescendantsOf DEF Below
<1>5. ASSUME NEW j \in Nat \ {0}, Below(i, j) PROVE \E k \in 1 .. 6 : D[k] = j
  <2>1. \/ j \in {2*i + 1, 2*i + 2}
        \/ j \in {4*i + 3, 4*i + 4, 4*i + 5, 4*i + 6}
    BY <1>5, DescendantsOf DEF Below
  <2>2. 1 \in 1 .. 6 /\ 2 \in 1 .. 6 /\ 3 \in 1 .. 6 /\ 4 \in 1 .. 6 /\ 5 \in 1 .. 6 /\ 6 \in 1 .. 6
    OBVIOUS
  <2> QED
    BY <1>1, <2>1, <2>2
<1> QED
  BY <1>3, <1>4, <1>5 DEF D

\* best is the results of the scan after 0 to 6 descendants
IsScan(low, d, n, i, best) ==
    best = [k \in 0 .. 6 |->
              IF k = 0 THEN -1 ELSE Better(low, d, n, best[k - 1], Descendants(i)[k])]

\* the results of the scan
Scan(low, d, n, i) == CHOOSE best : IsScan(low, d, n, i, best)

\* what is to be known of them
Scanned(low, d, n, i) ==
    /\ Scan(low, d, n, i)[0] = -1
    /\ \A k \in 1 .. 6 : Scan(low, d, n, i)[k] =
                            Better(low, d, n, Scan(low, d, n, i)[k - 1], Descendants(i)[k])
    /\ extremeDescendant(low, d, n, i) = Scan(low, d, n, i)[6]

\* There are such results.
LEMMA ScanRuns ==
    ASSUME NEW low, NEW d, NEW n, NEW i \in Nat
    PROVE  Scanned(low, d, n, i)
<1> DEFINE X == Int
           step == [k \in 1 .. 6 |-> [b \in X |-> Better(low, d, n, b, Descendants(i)[k])]]
<1>1. \A k \in 1 .. 6 : Descendants(i)[k] \in X
  BY DescendantPlaces
<1>2. step \in [1 .. 6 -> [X -> X]]
  BY <1>1 DEF Better
<1>3. PICK g : g \in Results(X, 6, -1, step)
  <2>1. ASSUME NEW m, m = 6, NEW a, a = -1 PROVE Results(X, m, a, step) # {}
    <3>1. m \in Nat /\ a \in X
      BY <2>1
    <3> HIDE DEF X, step
    <3>2. step \in [1 .. m -> [X -> X]]
      BY <1>2, <2>1
    <3> QED
      BY <3>1, <3>2, Iterates
  <2>2. Results(X, 6, -1, step) # {}
    <3> HIDE DEF X, step
    <3> QED
      BY <2>1
  <2> QED
    BY <2>2
<1>4. /\ g \in [0 .. 6 -> X] /\ g[0] = -1
      /\ \A k \in 1 .. 6 : g[k] = Better(low, d, n, g[k - 1], Descendants(i)[k])
  <2>1. g \in [0 .. 6 -> X] /\ g[0] = -1 /\ \A k \in 1 .. 6 : g[k] = step[k][g[k - 1]]
    BY <1>3 DEF Results
  <2>2. \A k \in 1 .. 6 : g[k - 1] \in X
    BY <2>1
  <2> QED
    BY <2>1, <2>2
<1>5. IsScan(low, d, n, i, g)
  BY <1>4 DEF IsScan
<1>6. IsScan(low, d, n, i, Scan(low, d, n, i))
  BY <1>5 DEF Scan
<1>7. /\ Scan(low, d, n, i)[0] = -1
      /\ \A k \in 1 .. 6 : Scan(low, d, n, i)[k] =
            Better(low, d, n, Scan(low, d, n, i)[k - 1], Descendants(i)[k])
  BY <1>6 DEF IsScan
<1>8. extremeDescendant(low, d, n, i) = Scan(low, d, n, i)[6]
  BY DEF extremeDescendant, Scan, IsScan
<1> QED
  BY <1>7, <1>8 DEF Scanned

\* m is an extreme one among the children and grandchildren of i, or -1 without any
Extreme(low, d, i, m) ==
    \/ m = -1 /\ \A j \in Places(d) \ {0} : ~Below(i, j)
    \/ /\ m \in Places(d) \ {0} /\ Below(i, m) /\ i < m
       /\ \A j \in Places(d) \ {0} : Below(i, j) => ~Before(low, At(d, j), At(d, m))

\* The scan finds it.
LEMMA ScanFinds ==
    ASSUME NEW low, NEW d \in Seq(Int), NEW i \in Nat
    PROVE  Extreme(low, d, i, extremeDescendant(low, d, Len(d), i))
<1> DEFINE n == Len(d)
           D == Descendants(i)
           b == Scan(low, d, n, i)
           count == [k \in 0 .. 6 |-> k]
           None(k) == b[k] = -1 /\ \A l \in 1 .. k : ~(D[l] < n)
           Best(k) == /\ b[k] \in Places(d) \ {0} /\ Below(i, b[k]) /\ i < b[k]
                      /\ \A l \in 1 .. k : D[l] < n => ~Before(low, At(d, D[l]), At(d, b[k]))
           Good == {k \in 0 .. 6 : None(k) \/ Best(k)}
<1>1. /\ b[0] = -1
      /\ \A k \in 1 .. 6 : b[k] = Better(low, d, n, b[k - 1], D[k])
      /\ extremeDescendant(low, d, n, i) = b[6]
  <2>1. Scanned(low, d, n, i)
    BY ScanRuns
  <2> QED
    BY <2>1 DEF Scanned
<1>2. /\ \A k \in 1 .. 6 : D[k] \in Nat \ {0} /\ Below(i, D[k]) /\ i < D[k]
      /\ \A j \in Nat \ {0} : Below(i, j) => \E k \in 1 .. 6 : D[k] = j
  BY DescendantPlaces
<1>3. n \in Nat /\ \A k \in Places(d) : At(d, k) \in Int /\ k \in Nat /\ k < n
  BY AtIn DEF Places
<1>4. \A k \in Nat : k < n => k \in Places(d)
  BY DEF Places
<1> HIDE DEF n, D, b
<1>5. count[0] \in Good
  BY <1>1
<1>6. ASSUME NEW k \in 1 .. 6, count[k - 1] \in Good PROVE count[k] \in Good
  <2>1. k - 1 \in Nat /\ (None(k - 1) \/ Best(k - 1))
    <3>1. count[k - 1] = k - 1
      OBVIOUS
    <3> HIDE DEF count
    <3>2. k - 1 \in Good
      BY <1>6, <3>1
    <3> HIDE DEF None, Best
    <3> QED
      BY <3>2
  <2>2. \A l \in 1 .. k : l \in 1 .. k - 1 \/ l = k
    OBVIOUS
  <2>3. \A l \in 1 .. k : l \in 1 .. 6
    OBVIOUS
  <2>4. b[k] = IF D[k] < n /\ (b[k - 1] = -1 \/ Before(low, At(d, D[k]), At(d, b[k - 1])))
               THEN D[k] ELSE b[k - 1]
    BY <1>1 DEF Better
  <2>5. CASE D[k] < n /\ (b[k - 1] = -1 \/ Before(low, At(d, D[k]), At(d, b[k - 1])))
    <3>1. b[k] = D[k] /\ D[k] \in Places(d) \ {0}
      BY <1>2, <1>4, <2>4, <2>5
    <3>2. ASSUME NEW l \in 1 .. k, D[l] < n PROVE ~Before(low, At(d, D[l]), At(d, D[k]))
      <4>1. CASE l = k
        BY <1>2, <1>3, <3>1, <4>1 DEF Before
      <4>2. CASE l \in 1 .. k - 1
        <5>1. D[l] \in Places(d)
          BY <1>2, <1>4, <2>3, <3>2
        <5>2. ~None(k - 1)
          BY <3>2, <4>2
        <5>3. Best(k - 1) /\ b[k - 1] # -1
          BY <2>1, <1>3, <5>2
        <5>4. ~Before(low, At(d, D[l]), At(d, b[k - 1])) /\ Before(low, At(d, D[k]), At(d, b[k - 1]))
          BY <2>5, <3>2, <4>2, <5>3
        <5>5. At(d, D[l]) \in Int /\ At(d, D[k]) \in Int /\ At(d, b[k - 1]) \in Int
          BY <1>3, <3>1, <5>1, <5>3
        <5> QED
          BY <5>4, <5>5 DEF Before
      <4> QED
        BY <2>2, <4>1, <4>2
    <3>3. Best(k)
      BY <1>2, <3>1, <3>2
    <3> HIDE DEF None, Best
    <3> QED
      BY <3>3
  <2>6. CASE ~(D[k] < n /\ (b[k - 1] = -1 \/ Before(low, At(d, D[k]), At(d, b[k - 1]))))
    <3>1. b[k] = b[k - 1]
      BY <2>4, <2>6
    <3>2. CASE None(k - 1)
      <4>1. None(k)
        BY <2>2, <2>6, <3>1, <3>2
      <4> HIDE DEF None, Best
      <4> QED
        BY <4>1
    <3>3. CASE Best(k - 1)
      <4>1. D[k] < n => ~Before(low, At(d, D[k]), At(d, b[k - 1]))
        BY <1>3, <2>6, <3>3
      <4>2. Best(k)
        BY <2>2, <3>1, <3>3, <4>1
      <4> HIDE DEF None, Best
      <4> QED
        BY <4>2
    <3> QED
      BY <2>1, <3>2, <3>3
  <2> QED
    BY <2>5, <2>6
<1>7. \A k \in 0 .. 6 : count[k] \in Good
  <2> HIDE DEF Good, count
  <2> QED
    BY <1>5, <1>6, AllAlong
<1>8. None(6) \/ Best(6)
  <2>1. count[6] = 6 /\ 6 \in 0 .. 6
    OBVIOUS
  <2> HIDE DEF count, None, Best
  <2> QED
    BY <1>7, <2>1
<1>9. \A j \in Places(d) \ {0} : Below(i, j) => \E l \in 1 .. 6 : D[l] = j /\ D[l] < n
  BY <1>2, <1>3
<1>10. Extreme(low, d, i, b[6])
  <2>1. CASE None(6)
    <3>1. \A j \in Places(d) \ {0} : ~Below(i, j)
      BY <1>9, <2>1
    <3> QED
      BY <2>1, <3>1 DEF Extreme
  <2>2. CASE Best(6)
    <3>1. \A j \in Places(d) \ {0} : Below(i, j) => ~Before(low, At(d, j), At(d, b[6]))
      BY <1>9, <2>2
    <3> QED
      BY <2>2, <3>1 DEF Extreme
  <2> QED
    BY <1>8, <2>1, <2>2
<1> QED
  BY <1>1, <1>10 DEF n

-----------------------------------------------------------------------------
(* Downwards: the order                                                    *)

\* All is in order, but for i and what is below it; and what is below i is in order
\* with the grandparent of i.
Sinking(low, d, i) ==
    /\ d \in Seq(Int)
    /\ i \in Places(d)
    /\ isMinLevel(i) <=> low
    /\ \A j \in Places(d) \ {0} :
          /\ parent(j) # i => Edge(d, parent(j), j)
          /\ j >= 3 /\ grandparent(j) # i => Edge(d, grandparent(j), j)
          /\ i >= 3 /\ Below(i, j) => Edge(d, grandparent(i), j)

\* x is not after y, towards minima if low
Upto1(low, x, y) == IF low THEN x <= y ELSE x >= y

\* An edge in those terms.
LEMMA EdgeUpto ==
    ASSUME NEW low \in BOOLEAN, NEW d, NEW a, NEW j
    PROVE  /\ (isMinLevel(a) <=> low) => (Edge(d, a, j) <=> Upto1(low, At(d, a), At(d, j)))
           /\ /\ isMinLevel(a) <=> ~low
              /\ At(d, a) \in Int /\ At(d, j) \in Int
              => (Edge(d, a, j) <=> Upto1(low, At(d, j), At(d, a)))
BY DEF Edge, Upto1

\* It orders the integers.
LEMMA UptoOrders ==
    ASSUME NEW low \in BOOLEAN
    PROVE  /\ \A x, y, z \in Int : Upto1(low, x, y) /\ Upto1(low, y, z) => Upto1(low, x, z)
           /\ \A x, y \in Int : ~Before(low, x, y) <=> Upto1(low, y, x)
           /\ \A x, y \in Int : Before(low, x, y) => Upto1(low, x, y)
           /\ \A x \in Int : Upto1(low, x, x)
BY DEF Upto1, Before

\* What is near a place, by the levels.
LEMMA NearLevels ==
    ASSUME NEW d \in Seq(Int), NEW j \in Places(d) \ {0}
    PROVE  /\ j \in Nat /\ parent(j) \in Places(d) /\ parent(j) \in Nat /\ parent(j) < j
           /\ isMinLevel(j) <=> ~isMinLevel(parent(j))
           /\ j >= 3 => /\ grandparent(j) \in Places(d) /\ grandparent(j) \in Nat
                        /\ grandparent(j) < parent(j)
                        /\ grandparent(j) = parent(parent(j)) /\ parent(j) # 0
                        /\ isMinLevel(j) <=> isMinLevel(grandparent(j))
           /\ j < 3 => parent(j) = 0
<1>1. j \in Nat \ {0} /\ j < Len(d) /\ Len(d) \in Nat
  BY DEF Places
<1>2. parent(j) \in Nat /\ parent(j) < j
  BY <1>1, ParentLess
<1>3. j >= 3 => /\ grandparent(j) \in Nat /\ grandparent(j) < j
                /\ grandparent(j) = parent(parent(j)) /\ parent(j) # 0
  BY <1>1, GrandparentLess
<1>4. j >= 3 => grandparent(j) < parent(j)
  BY <1>2, <1>3, ParentLess
<1>5. parent(j) \in Places(d) /\ (j >= 3 => grandparent(j) \in Places(d))
  BY <1>1, <1>2, <1>3 DEF Places
<1>6. j < 3 => parent(j) = 0
  BY <1>1 DEF parent
<1> QED
  BY <1>1, <1>2, <1>3, <1>4, <1>5, <1>6, LevelsAlternate

\* A swap with a child that is an extreme one below i restores the order.
LEMMA SinkChild ==
    ASSUME NEW low \in BOOLEAN, NEW d, NEW i, Sinking(low, d, i),
           NEW m \in Places(d) \ {0}, parent(m) = i,
           \A j \in Places(d) \ {0} : Below(i, j) => ~Before(low, At(d, j), At(d, m)),
           Before(low, At(d, m), At(d, i))
    PROVE  LocalOrder(swap(d, i, m))
<1> DEFINE u == swap(d, i, m)
           le(x, y) == Upto1(low, x, y)
<1>1. d \in Seq(Int) /\ i \in Places(d) /\ (isMinLevel(i) <=> low)
  BY DEF Sinking
<1>2. \A j \in Places(d) : At(d, j) \in Int /\ j \in Nat
  BY <1>1, AtIn DEF Places
<1>3. \A j \in Places(d) \ {0} :
          /\ parent(j) # i => Edge(d, parent(j), j)
          /\ j >= 3 /\ grandparent(j) # i => Edge(d, grandparent(j), j)
          /\ i >= 3 /\ Below(i, j) => Edge(d, grandparent(i), j)
  BY DEF Sinking
<1>4. i < m /\ i # m /\ i \in Nat /\ m \in Nat /\ Below(i, m) /\ (isMinLevel(m) <=> ~low)
  BY <1>1, NearLevels DEF Below
<1>5. /\ u \in Seq(Int) /\ Len(u) = Len(d)
      /\ \A k \in Places(d) :
            At(u, k) = IF k = m THEN At(d, i) ELSE IF k = i THEN At(d, m) ELSE At(d, k)
  BY <1>1, SwapAt
<1>6. Places(u) = Places(d)
  BY <1>5 DEF Places
<1>7. \A k \in Places(d) : At(u, k) \in Int
  BY <1>5, <1>6, AtIn
<1>8. /\ At(u, m) = At(d, i) /\ At(u, i) = At(d, m)
      /\ \A k \in Places(d) : k # m /\ k # i => At(u, k) = At(d, k)
  BY <1>1, <1>4, <1>5
<1>9. /\ le(At(d, m), At(d, i))
      /\ \A j \in Places(d) \ {0} : Below(i, j) => le(At(d, m), At(d, j))
  BY <1>1, <1>2, UptoOrders
<1> HIDE DEF u
<1>10. i # 0 => /\ parent(i) \in Places(d) /\ parent(i) # i /\ parent(i) # m
                /\ (isMinLevel(parent(i)) <=> ~low)
                /\ le(At(d, i), At(d, parent(i)))
  <2> HAVE i # 0
  <2>1. /\ i \in Places(d) \ {0} /\ parent(i) \in Places(d) /\ parent(i) # i /\ parent(i) # m
        /\ (isMinLevel(parent(i)) <=> ~low)
    BY <1>1, <1>4, NearLevels
  <2>2. Edge(d, parent(i), i)
    BY <1>3, <2>1
  <2> QED
    BY <1>1, <1>2, <2>1, <2>2, EdgeUpto
<1>11. ASSUME NEW j \in Places(d) \ {0} PROVE Edge(u, parent(j), j)
  <2>1. /\ parent(j) \in Places(d) /\ parent(j) # j /\ (isMinLevel(j) <=> ~isMinLevel(parent(j)))
        /\ At(u, j) \in Int /\ At(u, parent(j)) \in Int /\ At(d, j) \in Int
        /\ At(d, i) \in Int /\ At(d, m) \in Int /\ At(d, parent(j)) \in Int
    BY <1>1, <1>2, <1>7, NearLevels
  <2>2. CASE j = i
    <3>1. le(At(d, m), At(d, parent(i)))
      BY <1>9, <1>10, <2>1, <2>2, UptoOrders
    <3>2. At(u, parent(j)) = At(d, parent(i)) /\ At(u, j) = At(d, m)
      BY <1>8, <1>10, <2>2
    <3> QED
      BY <1>10, <2>1, <2>2, <3>1, <3>2, EdgeUpto
  <2>3. CASE parent(j) = i
    <3>1. le(At(d, m), At(u, j))
      BY <1>4, <1>8, <1>9, <2>1, <2>3 DEF Below
    <3> QED
      BY <1>1, <1>8, <2>1, <2>3, <3>1, EdgeUpto
  <2>4. CASE parent(j) = m
    <3>1. Edge(d, m, j) /\ j # m /\ j # i
      BY <1>1, <1>3, <1>4, <2>1, <2>4, NearLevels
    <3>2. le(At(d, j), At(d, m))
      BY <1>4, <2>1, <3>1, EdgeUpto
    <3>3. le(At(d, j), At(d, i))
      BY <1>9, <2>1, <3>2, UptoOrders
    <3> QED
      BY <1>4, <1>8, <2>1, <2>4, <3>1, <3>3, EdgeUpto
  <2>5. CASE j # i /\ parent(j) # i /\ parent(j) # m
    <3>1. Edge(d, parent(j), j) /\ j # m
      BY <1>3, <2>5
    <3> QED
      BY <1>8, <2>1, <2>5, <3>1 DEF Edge
  <2> QED
    BY <2>2, <2>3, <2>4, <2>5
<1>12. ASSUME NEW j \in Places(d) \ {0}, j >= 3 PROVE Edge(u, grandparent(j), j)
  <2>1. /\ grandparent(j) \in Places(d) /\ grandparent(j) # j
        /\ (isMinLevel(j) <=> isMinLevel(grandparent(j)))
        /\ grandparent(j) = parent(parent(j)) /\ grandparent(j) < j
        /\ At(u, j) \in Int /\ At(u, grandparent(j)) \in Int /\ At(d, j) \in Int
        /\ At(d, i) \in Int /\ At(d, m) \in Int /\ At(d, grandparent(j)) \in Int
    BY <1>1, <1>2, <1>7, <1>12, NearLevels
  <2>2. CASE j = i
    <3>1. Edge(d, grandparent(i), m) /\ grandparent(i) # m
      BY <1>3, <1>4, <1>12, <2>1, <2>2
    <3>2. At(u, grandparent(j)) = At(d, grandparent(i)) /\ At(u, j) = At(d, m)
      BY <1>8, <2>1, <2>2, <3>1
    <3> QED
      BY <2>2, <3>1, <3>2 DEF Edge
  <2>3. CASE j = m
    <3>1. grandparent(j) = parent(i) /\ i # 0
      BY <1>1, <1>12, <2>1, <2>3, NearLevels
    <3>2. At(u, grandparent(j)) = At(d, parent(i)) /\ At(u, j) = At(d, i)
      BY <1>8, <1>10, <2>3, <3>1
    <3> QED
      BY <1>10, <2>1, <3>1, <3>2, EdgeUpto
  <2>4. CASE grandparent(j) = i /\ j # m
    <3>1. le(At(d, m), At(d, j)) /\ j # i
      BY <1>9, <1>12, <2>1, <2>4 DEF Below
    <3> QED
      BY <1>1, <1>8, <2>1, <2>4, <3>1, EdgeUpto
  <2>5. CASE grandparent(j) = m
    <3>1. Edge(d, m, j) /\ j # m /\ j # i
      BY <1>3, <1>4, <1>12, <2>1, <2>5
    <3>2. le(At(d, j), At(d, m))
      BY <1>4, <2>1, <3>1, EdgeUpto
    <3>3. le(At(d, j), At(d, i))
      BY <1>9, <2>1, <3>2, UptoOrders
    <3> QED
      BY <1>4, <1>8, <2>1, <2>5, <3>1, <3>3, EdgeUpto
  <2>6. CASE j # i /\ j # m /\ grandparent(j) # i /\ grandparent(j) # m
    <3>1. Edge(d, grandparent(j), j)
      BY <1>3, <1>12, <2>6
    <3> QED
      BY <1>8, <2>1, <2>6, <3>1 DEF Edge
  <2> QED
    BY <2>2, <2>3, <2>4, <2>5, <2>6
<1>13. LocalOrder(u)
  BY <1>6, <1>11, <1>12 DEF LocalOrder
<1> QED
  BY <1>13 DEF u

\* A swap with a grandchild that is an extreme one below i, and of that with its parent
\* if they are out of order, moves the disorder to the place of the grandchild.
LEMMA SinkGrandchild ==
    ASSUME NEW low \in BOOLEAN, NEW d, NEW i, Sinking(low, d, i),
           NEW m \in Places(d) \ {0}, m >= 3, grandparent(m) = i,
           \A j \in Places(d) \ {0} : Below(i, j) => ~Before(low, At(d, j), At(d, m)),
           Before(low, At(d, m), At(d, i)),
           NEW u, u = swap(d, i, m),
           NEW w, w = IF Before(low, At(u, parent(m)), At(u, m)) THEN swap(u, m, parent(m)) ELSE u
    PROVE  Sinking(low, w, m)
<1> DEFINE p == parent(m)
           le(x, y) == Upto1(low, x, y)
<1>1. d \in Seq(Int) /\ i \in Places(d) /\ (isMinLevel(i) <=> low)
  BY DEF Sinking
<1>2. \A j \in Places(d) : At(d, j) \in Int /\ j \in Nat
  BY <1>1, AtIn DEF Places
<1>3. \A j \in Places(d) \ {0} :
          /\ parent(j) # i => Edge(d, parent(j), j)
          /\ j >= 3 /\ grandparent(j) # i => Edge(d, grandparent(j), j)
          /\ i >= 3 /\ Below(i, j) => Edge(d, grandparent(i), j)
  BY DEF Sinking
<1>4. /\ p \in Places(d) \ {0} /\ p \in Nat /\ i \in Nat /\ m \in Nat
      /\ i < p /\ p < m /\ i # p /\ i # m /\ p # m /\ i = parent(p)
      /\ (isMinLevel(m) <=> low) /\ (isMinLevel(p) <=> ~low)
      /\ Below(i, m) /\ Below(i, p)
  BY <1>1, <1>2, NearLevels DEF Below
<1>5. /\ u \in Seq(Int) /\ Len(u) = Len(d)
      /\ \A k \in Places(d) :
            At(u, k) = IF k = m THEN At(d, i) ELSE IF k = i THEN At(d, m) ELSE At(d, k)
  BY <1>1, SwapAt
<1>6. Places(u) = Places(d)
  BY <1>5 DEF Places
<1>7. /\ At(u, m) = At(d, i) /\ At(u, i) = At(d, m)
      /\ \A k \in Places(d) : k # m /\ k # i => At(u, k) = At(d, k)
  BY <1>1, <1>4, <1>5
<1>8. /\ le(At(d, m), At(d, i))
      /\ \A j \in Places(d) \ {0} : Below(i, j) => le(At(d, m), At(d, j))
  BY <1>1, <1>2, UptoOrders
<1>9. \A k \in {i, m, p} : At(d, k) \in Int
  BY <1>1, <1>2, <1>4
<1>10. le(At(d, m), At(d, p))
  BY <1>4, <1>8
<1>11. /\ w \in Seq(Int) /\ Len(w) = Len(d) /\ At(w, i) = At(d, m)
       /\ \A k \in Places(d) : k # m /\ k # i /\ k # p => At(w, k) = At(d, k)
       /\ le(At(d, p), At(w, p)) /\ le(At(d, i), At(w, p)) /\ le(At(w, m), At(w, p))
       /\ le(At(d, m), At(w, m))
       /\ At(w, p) = At(d, p) \/ At(w, p) = At(d, i)
  <2>1. At(u, p) = At(d, p)
    BY <1>4, <1>7
  <2>2. CASE Before(low, At(u, p), At(u, m))
    <3>1. w = swap(u, m, p) /\ m \in Places(u) /\ p \in Places(u)
      BY <1>4, <1>6, <2>2
    <3>2. /\ swap(u, m, p) \in Seq(Int) /\ Len(swap(u, m, p)) = Len(u)
          /\ \A k \in Places(u) : At(swap(u, m, p), k) =
                IF k = p THEN At(u, m) ELSE IF k = m THEN At(u, p) ELSE At(u, k)
      <4> HIDE DEF p
      <4> QED
        BY <1>5, <3>1, SwapAt
    <3>3. w \in Seq(Int) /\ Len(w) = Len(d)
      BY <1>5, <3>1, <3>2
    <3>4. /\ At(w, p) = At(d, i) /\ At(w, m) = At(d, p) /\ At(w, i) = At(d, m)
          /\ \A k \in Places(d) : k # m /\ k # i /\ k # p => At(w, k) = At(d, k)
      BY <1>1, <1>4, <1>6, <1>7, <2>1, <3>1, <3>2
    <3>5. le(At(d, p), At(d, i))
      BY <1>7, <1>9, <2>1, <2>2, UptoOrders
    <3> QED
      BY <1>9, <1>10, <3>3, <3>4, <3>5, UptoOrders
  <2>3. CASE ~Before(low, At(u, p), At(u, m))
    <3>1. w = u
      BY <2>3
    <3>2. /\ At(w, p) = At(d, p) /\ At(w, m) = At(d, i) /\ At(w, i) = At(d, m)
          /\ \A k \in Places(d) : k # m /\ k # i => At(w, k) = At(d, k)
      BY <1>7, <2>1, <3>1
    <3>3. le(At(d, i), At(d, p))
      BY <1>7, <1>9, <2>1, <2>3, UptoOrders
    <3> QED
      BY <1>5, <1>8, <1>9, <3>1, <3>2, <3>3, UptoOrders
  <2> QED
    BY <2>2, <2>3
<1> HIDE DEF p
<1>12. Places(w) = Places(d)
  BY <1>11 DEF Places
<1>13. \A k \in Places(d) : At(w, k) \in Int
  BY <1>11, <1>12, AtIn
<1>14. i # 0 => /\ parent(i) \in Places(d) /\ parent(i) # i /\ parent(i) # m /\ parent(i) # p
                /\ (isMinLevel(parent(i)) <=> ~low)
                /\ At(w, parent(i)) = At(d, parent(i))
                /\ le(At(d, i), At(d, parent(i)))
  <2> HAVE i # 0
  <2>1. /\ i \in Places(d) \ {0} /\ parent(i) \in Places(d) /\ parent(i) # i /\ parent(i) # m
        /\ parent(i) # p /\ (isMinLevel(parent(i)) <=> ~low)
    BY <1>1, <1>4, NearLevels
  <2>2. Edge(d, parent(i), i)
    BY <1>3, <2>1
  <2> QED
    BY <1>1, <1>2, <1>11, <2>1, <2>2, EdgeUpto
<1>15. ASSUME NEW j \in Places(d) \ {0}, parent(j) # m PROVE Edge(w, parent(j), j)
  <2>1. /\ parent(j) \in Places(d) /\ parent(j) # j /\ (isMinLevel(j) <=> ~isMinLevel(parent(j)))
        /\ At(w, j) \in Int /\ At(w, parent(j)) \in Int /\ At(d, j) \in Int
        /\ At(d, i) \in Int /\ At(d, m) \in Int /\ At(d, parent(j)) \in Int
        /\ At(d, p) \in Int /\ At(w, p) \in Int /\ At(w, m) \in Int
        /\ At(w, i) \in Int
    <3>1. /\ parent(j) \in Places(d) /\ parent(j) \in Nat /\ parent(j) < j
          /\ (isMinLevel(j) <=> ~isMinLevel(parent(j)))
      BY <1>1, NearLevels
    <3> QED
      BY <1>1, <1>2, <1>4, <1>13, <3>1
  <2>2. CASE j = i
    <3>1. le(At(d, m), At(d, parent(i)))
      BY <1>8, <1>14, <2>1, <2>2, UptoOrders
    <3> QED
      BY <1>11, <1>14, <2>1, <2>2, <3>1, EdgeUpto
  <2>3. CASE j = m
    BY <1>4, <1>11, <2>1, <2>3, EdgeUpto DEF p
  <2>4. CASE parent(j) = i
    <3>1. le(At(d, m), At(w, j))
      <4>1. le(At(d, m), At(d, j)) /\ j # i /\ j # m
        BY <1>4, <1>8, <2>1, <2>4 DEF Below, p
      <4>2. CASE j = p
        BY <1>11, <2>1, <4>1, <4>2, UptoOrders
      <4>3. CASE j # p
        BY <1>11, <4>1, <4>3
      <4> QED
        BY <4>2, <4>3
    <3> QED
      BY <1>1, <1>11, <2>1, <2>4, <3>1, EdgeUpto
  <2>5. CASE parent(j) = p /\ j # m
    <3>1. Edge(d, p, j) /\ j # m /\ j # i /\ j # p
      <4>1. p < j
        BY <1>1, <2>5, NearLevels
      <4> QED
        BY <1>3, <1>4, <1>2, <2>5, <4>1
    <3>2. le(At(d, j), At(d, p))
      BY <1>4, <2>1, <3>1, EdgeUpto
    <3>3. le(At(w, j), At(w, p))
      BY <1>11, <2>1, <3>1, <3>2, UptoOrders
    <3> QED
      BY <1>4, <2>1, <2>5, <3>3, EdgeUpto
  <2>6. CASE j # i /\ j # m /\ parent(j) # i /\ parent(j) # p
    <3>1. Edge(d, parent(j), j) /\ j # p
      BY <1>3, <1>4, <2>6
    <3>2. At(w, j) = At(d, j) /\ At(w, parent(j)) = At(d, parent(j))
      BY <1>11, <1>15, <2>1, <2>6, <3>1
    <3> QED
      BY <3>1, <3>2 DEF Edge
  <2> QED
    BY <2>2, <2>3, <2>4, <2>5, <2>6
<1>16. ASSUME NEW j \in Places(d) \ {0}, j >= 3, grandparent(j) # m
       PROVE  Edge(w, grandparent(j), j)
  <2>1. /\ grandparent(j) \in Places(d) /\ grandparent(j) # j
        /\ (isMinLevel(j) <=> isMinLevel(grandparent(j)))
        /\ grandparent(j) = parent(parent(j)) /\ grandparent(j) < j
        /\ At(w, j) \in Int /\ At(w, grandparent(j)) \in Int /\ At(d, j) \in Int
        /\ At(d, i) \in Int /\ At(d, m) \in Int /\ At(d, grandparent(j)) \in Int
        /\ At(d, p) \in Int /\ At(w, p) \in Int /\ At(w, m) \in Int
        /\ At(w, i) \in Int
    <3>1. /\ grandparent(j) \in Places(d) /\ grandparent(j) # j
          /\ (isMinLevel(j) <=> isMinLevel(grandparent(j)))
          /\ grandparent(j) = parent(parent(j)) /\ grandparent(j) < j
      BY <1>1, <1>2, <1>16, NearLevels
    <3> QED
      BY <1>1, <1>2, <1>4, <1>13, <3>1
  <2>2. CASE j = i
    <3>1. /\ Edge(d, grandparent(i), m)
          /\ grandparent(i) # m /\ grandparent(i) # p /\ grandparent(i) # i
      BY <1>2, <1>3, <1>4, <1>16, <2>1, <2>2
    <3>2. At(w, grandparent(j)) = At(d, grandparent(i)) /\ At(w, j) = At(d, m)
      BY <1>11, <2>1, <2>2, <3>1
    <3> QED
      BY <2>2, <3>1, <3>2 DEF Edge
  <2>3. CASE j = m
    BY <1>1, <1>11, <2>1, <2>3, EdgeUpto
  <2>4. CASE j = p
    <3>1. grandparent(j) = parent(i) /\ i # 0
      BY <1>1, <1>4, <1>16, <2>1, <2>4, NearLevels
    <3>2. Edge(d, parent(i), p)
      BY <1>3, <1>4, <1>14, <1>16, <2>4, <3>1
    <3>3. le(At(d, p), At(d, parent(i)))
      BY <1>14, <2>1, <3>1, <3>2, EdgeUpto
    <3>4. le(At(w, p), At(d, parent(i)))
      BY <1>11, <1>14, <3>1, <3>3
    <3> QED
      BY <1>14, <2>1, <2>4, <3>1, <3>4, EdgeUpto
  <2>5. CASE grandparent(j) = i /\ j # m
    <3>1. le(At(d, m), At(d, j)) /\ j # i /\ j # p
      <4>1. j # p
        BY <1>1, <1>4, <1>16, <2>5, NearLevels
      <4> QED
        BY <1>8, <1>16, <2>1, <2>5, <4>1 DEF Below
    <3> QED
      BY <1>1, <1>11, <2>1, <2>5, <3>1, EdgeUpto
  <2>6. CASE grandparent(j) = p
    <3>1. Edge(d, p, j) /\ j # m /\ j # i /\ j # p
      BY <1>2, <1>3, <1>4, <1>16, <2>1, <2>6
    <3>2. le(At(d, j), At(d, p))
      BY <1>4, <2>1, <3>1, EdgeUpto
    <3>3. le(At(w, j), At(w, p))
      BY <1>11, <2>1, <3>1, <3>2, UptoOrders
    <3> QED
      BY <1>4, <2>1, <2>6, <3>3, EdgeUpto
  <2>7. CASE j # i /\ j # m /\ j # p /\ grandparent(j) # i /\ grandparent(j) # p
    <3>1. Edge(d, grandparent(j), j)
      BY <1>3, <1>16, <2>7
    <3>2. At(w, j) = At(d, j) /\ At(w, grandparent(j)) = At(d, grandparent(j))
      BY <1>11, <1>16, <2>1, <2>7
    <3> QED
      BY <3>1, <3>2 DEF Edge
  <2> QED
    BY <2>2, <2>3, <2>4, <2>5, <2>6, <2>7
<1>17. ASSUME NEW j \in Places(d) \ {0}, Below(m, j) PROVE Edge(w, i, j)
  <2>1. /\ parent(j) < j /\ parent(j) \in Nat /\ j \in Nat
        /\ (j >= 3 => grandparent(j) \in Nat /\ grandparent(j) < j)
    BY <1>1, <1>2, NearLevels
  <2>2. m < j /\ j # m /\ j # i /\ j # p
    BY <1>4, <1>17, <2>1 DEF Below
  <2>3. Edge(d, m, j)
    BY <1>3, <1>4, <1>17 DEF Below
  <2>4. At(w, j) = At(d, j) /\ At(w, i) = At(d, m)
    BY <1>11, <2>2
  <2> QED
    BY <1>1, <1>4, <2>3, <2>4 DEF Edge
<1>18. /\ m \in Places(w)
       /\ \A j \in Places(w) \ {0} :
             /\ parent(j) # m => Edge(w, parent(j), j)
             /\ j >= 3 /\ grandparent(j) # m => Edge(w, grandparent(j), j)
             /\ m >= 3 /\ Below(m, j) => Edge(w, grandparent(m), j)
  BY <1>12, <1>15, <1>16, <1>17
<1> QED
  BY <1>4, <1>11, <1>18 DEF Sinking

\* When no pass swaps any more, all is in order; and in order, no pass swaps.
LEMMA SinkEnds ==
    ASSUME NEW low \in BOOLEAN, NEW d, NEW i, Sinking(low, d, i),
           NEW m, Extreme(low, d, i, m)
    PROVE  LocalOrder(d) <=> (m = -1 \/ ~Before(low, At(d, m), At(d, i)))
<1>1. d \in Seq(Int) /\ i \in Places(d) /\ (isMinLevel(i) <=> low)
  BY DEF Sinking
<1>2. \A j \in Places(d) : At(d, j) \in Int /\ j \in Nat
  BY <1>1, AtIn DEF Places
<1>3. \A j \in Places(d) \ {0} :
          /\ parent(j) # i => Edge(d, parent(j), j)
          /\ j >= 3 /\ grandparent(j) # i => Edge(d, grandparent(j), j)
  BY DEF Sinking
<1>4. \A j \in Places(d) \ {0} : Edge(d, i, j) <=> Upto1(low, At(d, i), At(d, j))
  BY <1>1, <1>2, EdgeUpto
<1>5. LocalOrder(d) <=> \A j \in Places(d) \ {0} : Below(i, j) => Edge(d, i, j)
  BY <1>3 DEF LocalOrder, Below
<1>6. CASE m = -1
  BY <1>5, <1>2, <1>6 DEF Extreme
<1>7. CASE m # -1
  <2>1. /\ m \in Places(d) \ {0} /\ Below(i, m)
        /\ \A j \in Places(d) \ {0} : Below(i, j) => Upto1(low, At(d, m), At(d, j))
    BY <1>2, <1>7, UptoOrders DEF Extreme
  <2>2. ~Before(low, At(d, m), At(d, i)) <=> Upto1(low, At(d, i), At(d, m))
    BY <1>1, <1>2, <2>1, UptoOrders
  <2>3. CASE Upto1(low, At(d, i), At(d, m))
    <3>1. \A j \in Places(d) \ {0} : Below(i, j) => Upto1(low, At(d, i), At(d, j))
      BY <1>1, <1>2, <2>1, <2>3, UptoOrders
    <3> QED
      BY <1>4, <1>5, <2>2, <2>3, <3>1
  <2>4. CASE ~Upto1(low, At(d, i), At(d, m))
    BY <1>4, <1>5, <1>7, <2>1, <2>2, <2>4
  <2> QED
    BY <2>3, <2>4
<1> QED
  BY <1>6, <1>7

\* the states after passes downwards that begin with d and i
IsSink(low, d, n, i, s) ==
    s = [k \in 0 .. n |-> IF k = 0 THEN [d |-> d, i |-> i] ELSE trickleDownStep(low, n, s[k - 1])]

Sink(low, d, n, i) == CHOOSE s : IsSink(low, d, n, i, s)

\* what is to be known of them: their type, how each follows, and that the loop
\* ends with the last
SinkRan(S, low, d, i) ==
    LET n == Len(d)
        r == Sink(low, d, n, i)
    IN  /\ r \in [0 .. n -> States(S, d, n)]
        /\ r[0] = [d |-> d, i |-> i]
        /\ \A k \in 1 .. n : r[k] = trickleDownStep(low, n, r[k - 1])
        /\ (low = isMinLevel(i)) => trickleDown(d, n, i) = r[n].d

\* What a pass does: nothing, a swap with a child, or a swap with a grandchild.
LEMMA StepCases ==
    ASSUME NEW low, NEW n, NEW s, NEW m, m = extremeDescendant(low, s.d, n, s.i),
           NEW u, u = swap(s.d, s.i, m)
    PROVE  trickleDownStep(low, n, s) =
              IF m = -1 \/ ~Before(low, At(s.d, m), At(s.d, s.i)) THEN s
              ELSE IF isGrandchild(s.i, m)
                   THEN [d |-> IF Before(low, At(u, parent(m)), At(u, m))
                               THEN swap(u, m, parent(m)) ELSE u,
                         i |-> m]
                   ELSE [d |-> u, i |-> n]
BY DEF trickleDownStep

\* A pass downwards rearranges.
LEMMA SinkState ==
    ASSUME NEW S \in SUBSET Int, NEW d \in Seq(S), NEW low, NEW s \in States(S, d, Len(d))
    PROVE  trickleDownStep(low, Len(d), s) \in States(S, d, Len(d))
<1> DEFINE m == extremeDescendant(low, s.d, Len(d), s.i)
           u == swap(s.d, s.i, m)
<1>1. /\ s.d \in Rearranged(S, d) /\ s.i \in 0 .. Len(d) /\ s.i \in Nat
      /\ Len(s.d) = Len(d) /\ Len(d) \in Nat /\ s.d \in Seq(S)
  BY DEF States, Rearranged
<1>2. s.d \in Seq(Int)
  BY <1>1, SeqMonotonic
<1>3. Extreme(low, s.d, s.i, m)
  BY <1>1, <1>2, ScanFinds
<1>4. trickleDownStep(low, Len(d), s) =
          IF m = -1 \/ ~Before(low, At(s.d, m), At(s.d, s.i)) THEN s
          ELSE IF isGrandchild(s.i, m)
               THEN [d |-> IF Before(low, At(u, parent(m)), At(u, m))
                           THEN swap(u, m, parent(m)) ELSE u,
                     i |-> m]
               ELSE [d |-> u, i |-> Len(d)]
  BY StepCases
<1> HIDE DEF m, u
<1>5. CASE m = -1
  BY <1>4, <1>5
<1>6. CASE m # -1
  <2>1. m \in Places(s.d) \ {0} /\ s.i < m
    BY <1>3, <1>6 DEF Extreme
  <2>2. m \in 0 .. Len(d) /\ s.i \in Places(s.d)
    BY <1>1, <2>1 DEF Places
  <2>3. u \in Rearranged(S, d)
    BY <1>1, <2>1, <2>2, SwapRearranges DEF u
  <2>4. Places(u) = Places(s.d)
    BY <1>1, <2>3 DEF Places, Rearranged
  <2>5. parent(m) \in Places(s.d)
    BY <1>2, <2>1, NearLevels
  <2>6. swap(u, m, parent(m)) \in Rearranged(S, d)
    BY <2>1, <2>3, <2>4, <2>5, SwapRearranges
  <2>7. Len(d) \in 0 .. Len(d)
    BY <1>1
  <2> QED
    BY <1>4, <2>2, <2>3, <2>6, <2>7 DEF States
<1> QED
  BY <1>5, <1>6

\* There are such states.
LEMMA SinkRuns ==
    ASSUME NEW S \in SUBSET Int, NEW d \in Seq(S), NEW i \in Places(d), NEW low
    PROVE  SinkRan(S, low, d, i)
<1> DEFINE n == Len(d)
           X == States(S, d, n)
           a == [d |-> d, i |-> i]
           next == [s \in X |-> trickleDownStep(low, n, s)]
           step == [k \in 1 .. n |-> next]
<1>1. n \in Nat /\ i \in 0 .. n
  BY DEF Places
<1>2. a \in X
  BY <1>1, RearrangedSelf DEF States
<1>3. next \in [X -> X]
  BY SinkState
<1>4. step \in [1 .. n -> [X -> X]]
  BY <1>3
<1>5. PICK g : g \in Results(X, n, a, step)
  <2> HIDE DEF X, a, step, n
  <2> QED
    BY <1>1, <1>2, <1>4, Iterates
<1>6. /\ g \in [0 .. n -> X] /\ g[0] = a
      /\ \A k \in 1 .. n : g[k] = trickleDownStep(low, n, g[k - 1])
  <2>1. g \in [0 .. n -> X] /\ g[0] = a /\ \A k \in 1 .. n : g[k] = step[k][g[k - 1]]
    BY <1>5 DEF Results
  <2>2. \A k \in 1 .. n : g[k - 1] \in X
    BY <1>1, <2>1
  <2> HIDE DEF X, a
  <2> QED
    BY <2>1, <2>2
<1> HIDE DEF X
<1>7. IsSink(low, d, n, i, g)
  BY <1>1, <1>6 DEF IsSink
<1>8. IsSink(low, d, n, i, Sink(low, d, n, i))
  BY <1>7 DEF Sink
<1> DEFINE r == Sink(low, d, n, i)
<1>9. r[0] = a /\ \A k \in 1 .. n : r[k] = trickleDownStep(low, n, r[k - 1])
  BY <1>1, <1>8 DEF IsSink
<1>10. \A k \in 0 .. n : r[k] \in X
  <2>1. ASSUME NEW k \in 1 .. n, r[k - 1] \in X PROVE r[k] \in X
    BY <1>1, <1>9, <2>1, SinkState DEF X
  <2> HIDE DEF r
  <2>2. r[0] \in X
    BY <1>2, <1>9
  <2> HIDE DEF n
  <2> QED
    BY <1>1, <2>1, <2>2, AllAlong
<1>11. r \in [0 .. n -> X]
  BY <1>8, <1>10 DEF IsSink
<1>12. (low = isMinLevel(i)) => trickleDown(d, n, i) = r[n].d
  BY DEF trickleDown, Sink, IsSink
<1> QED
  BY <1>9, <1>11, <1>12 DEF X, SinkRan

\* What sinks ends in order.
LEMMA SinkOrders ==
    ASSUME NEW low \in BOOLEAN, NEW d, NEW i, Sinking(low, d, i), low = isMinLevel(i)
    PROVE  LocalOrder(trickleDown(d, Len(d), i))
<1> DEFINE n == Len(d)
           r == Sink(low, d, n, i)
           Still(k) == Sinking(low, r[k].d, r[k].i) /\ (r[k].i >= k \/ LocalOrder(r[k].d))
           Done(k) == r[k].d \in Seq(Int) /\ LocalOrder(r[k].d) /\ r[k].i = n
           Good == {k \in 0 .. n : Still(k) \/ Done(k)}
           count == [k \in 0 .. n |-> k]
<1>1. d \in Seq(Int) /\ i \in Places(d) /\ i \in Nat /\ n \in Nat
  BY DEF Sinking, Places
<1>2. /\ r \in [0 .. n -> States(Int, d, n)] /\ r[0] = [d |-> d, i |-> i]
      /\ \A k \in 1 .. n : r[k] = trickleDownStep(low, n, r[k - 1])
      /\ trickleDown(d, n, i) = r[n].d
  <2>1. SinkRan(Int, low, d, i)
    BY <1>1, SinkRuns
  <2> QED
    BY <2>1 DEF SinkRan
<1>3. \A k \in 0 .. n : Len(r[k].d) = n /\ r[k].d \in Seq(Int)
  BY <1>2 DEF States, Rearranged
<1> HIDE DEF r, n
<1>4. count[0] \in Good
  BY <1>1, <1>2
<1>5. ASSUME NEW k \in 1 .. n, count[k - 1] \in Good PROVE count[k] \in Good
  <2> DEFINE s == r[k - 1]
             m == extremeDescendant(low, s.d, n, s.i)
             u == swap(s.d, s.i, m)
  <2>1. k - 1 \in 0 .. n /\ (Still(k - 1) \/ Done(k - 1))
    <3>1. k - 1 \in 0 .. n /\ count[k - 1] = k - 1
      BY <1>1
    <3>2. k - 1 \in Good
      BY <1>5, <3>1
    <3> HIDE DEF count, Still, Done
    <3> QED
      BY <3>1, <3>2
  <2>2. r[k] = IF m = -1 \/ ~Before(low, At(s.d, m), At(s.d, s.i)) THEN s
               ELSE IF isGrandchild(s.i, m)
                    THEN [d |-> IF Before(low, At(u, parent(m)), At(u, m))
                                THEN swap(u, m, parent(m)) ELSE u,
                          i |-> m]
                    ELSE [d |-> u, i |-> n]
    BY <1>2, StepCases
  <2>3. /\ s.d \in Seq(Int) /\ Len(s.d) = n /\ s.i \in Nat
    <3>1. s \in States(Int, d, n)
      BY <1>2, <2>1
    <3> QED
      BY <1>3, <2>1, <3>1 DEF States
  <2>4. Extreme(low, s.d, s.i, m)
    BY <2>3, ScanFinds
  <2>5. n \in Nat /\ (k \in 0 .. n) /\ count[k] = k
    BY <1>1
  <2>6. Still(k - 1) => /\ Sinking(low, s.d, s.i)
                        /\ s.i >= k - 1 \/ LocalOrder(s.d)
    OBVIOUS
  <2>7. Done(k - 1) => LocalOrder(s.d) /\ s.i = n
    OBVIOUS
  <2> HIDE DEF s, m, u
  <2>8. CASE Done(k - 1)
    <3>1. m = -1
      BY <2>3, <2>4, <2>5, <2>7, <2>8 DEF Extreme, Places
    <3>2. r[k] = s
      BY <2>2, <3>1
    <3>3. Done(k)
      BY <2>3, <2>7, <2>8, <3>2
    <3> HIDE DEF Still, Done
    <3> QED
      BY <2>5, <3>3
  <2>9. CASE Still(k - 1) /\ (m = -1 \/ ~Before(low, At(s.d, m), At(s.d, s.i)))
    <3>1. LocalOrder(s.d)
      BY <2>4, <2>6, <2>9, SinkEnds
    <3>2. r[k] = s
      BY <2>2, <2>9
    <3>3. Still(k)
      BY <2>6, <2>9, <3>1, <3>2
    <3> HIDE DEF Still, Done
    <3> QED
      BY <2>5, <3>3
  <2>10. CASE Still(k - 1) /\ m # -1 /\ Before(low, At(s.d, m), At(s.d, s.i))
    <3>1. Sinking(low, s.d, s.i) /\ ~LocalOrder(s.d) /\ s.i >= k - 1
      BY <2>4, <2>6, <2>10, SinkEnds
    <3>2. /\ m \in Places(s.d) \ {0} /\ Below(s.i, m) /\ s.i < m /\ m \in Nat
          /\ \A j \in Places(s.d) \ {0} : Below(s.i, j) => ~Before(low, At(s.d, j), At(s.d, m))
      BY <2>4, <2>10 DEF Extreme, Places
    <3>3. CASE isGrandchild(s.i, m)
      <4>1. m >= 3 /\ grandparent(m) = s.i
        <5>1. m >= 4 * s.i + 3 /\ m >= 3
          BY <2>3, <3>2, <3>3 DEF isGrandchild
        <5>2. parent(m) # s.i
          BY <2>3, <3>2, <5>1, DescendantsOf
        <5> QED
          BY <3>2, <5>1, <5>2 DEF Below
      <4> DEFINE w == IF Before(low, At(u, parent(m)), At(u, m))
                      THEN swap(u, m, parent(m)) ELSE u
      <4>2. r[k] = [d |-> w, i |-> m]
        BY <2>2, <2>10, <3>3
      <4>3. Sinking(low, w, m)
        BY <2>10, <3>1, <3>2, <4>1, SinkGrandchild DEF u
      <4> HIDE DEF w
      <4>4. m >= k
        BY <2>3, <2>5, <3>1, <3>2
      <4>5. Still(k)
        BY <4>2, <4>3, <4>4
      <4> HIDE DEF Still, Done
      <4> QED
        BY <2>5, <4>5
    <3>4. CASE ~isGrandchild(s.i, m)
      <4>1. parent(m) = s.i
        <5>1. ~(m >= 4 * s.i + 3)
          BY <3>4 DEF isGrandchild
        <5>2. ~(m >= 3 /\ grandparent(m) = s.i)
          BY <2>3, <3>2, <5>1, DescendantsOf
        <5> QED
          BY <3>2, <5>2 DEF Below
      <4>2. r[k] = [d |-> u, i |-> n]
        BY <2>2, <2>10, <3>4
      <4>3. LocalOrder(u)
        BY <2>10, <3>1, <3>2, <4>1, SinkChild DEF u
      <4>4. r[k].d \in Seq(Int)
        BY <1>3, <2>5
      <4>5. Done(k)
        BY <4>2, <4>3, <4>4
      <4> HIDE DEF Still, Done
      <4> QED
        BY <2>5, <4>5
    <3> QED
      BY <3>3, <3>4
  <2> QED
    BY <2>1, <2>8, <2>9, <2>10
<1>6. \A k \in 0 .. n : count[k] \in Good
  <2> HIDE DEF Good, count
  <2> QED
    BY <1>1, <1>4, <1>5, AllAlong
<1>7. Still(n) \/ Done(n)
  <2>1. n \in 0 .. n /\ count[n] = n
    BY <1>1
  <2> HIDE DEF count, Still, Done
  <2> QED
    BY <1>6, <2>1
<1>8. LocalOrder(r[n].d)
  <2>1. CASE Done(n)
    BY <2>1
  <2>2. CASE Still(n)
    <3>1. r[n].i \in 0 .. n - 1
      <4>1. r[n].i \in Places(r[n].d) /\ Len(r[n].d) = n
        BY <1>1, <1>3, <2>2 DEF Sinking
      <4> QED
        BY <4>1 DEF Places
    <3> QED
      BY <1>1, <2>2, <3>1
  <2> QED
    BY <1>7, <2>1, <2>2
<1> QED
  BY <1>2, <1>8 DEF n

\* trickleDown rearranges.
LEMMA TrickleRearranges ==
    ASSUME NEW S \in SUBSET Int, NEW d \in Seq(S), NEW i \in Places(d)
    PROVE  trickleDown(d, Len(d), i) \in Rearranged(S, d)
<1> DEFINE low == isMinLevel(i)
           n == Len(d)
           r == Sink(low, d, n, i)
<1>1. r \in [0 .. n -> States(S, d, n)] /\ trickleDown(d, n, i) = r[n].d
  <2>1. SinkRan(S, low, d, i)
    BY SinkRuns
  <2> QED
    BY <2>1 DEF SinkRan
<1>2. r[n] \in States(S, d, n)
  <2>1. n \in Nat
    OBVIOUS
  <2> HIDE DEF n, r
  <2> QED
    BY <1>1, <2>1
<1>3. r[n].d \in Rearranged(S, d)
  BY <1>2 DEF States
<1> QED
  BY <1>1, <1>3

-----------------------------------------------------------------------------
(* The two ends                                                            *)

\* The root has a least element.
LEMMA RootLeast ==
    ASSUME NEW d \in Seq(Int), LocalOrder(d)
    PROVE  \A j \in Places(d) : At(d, 0) <= At(d, j)
<1> SUFFICES ASSUME NEW j0 \in Places(d) PROVE At(d, 0) <= At(d, j0)
  OBVIOUS
<1> DEFINE Good == {j \in 0 .. j0 : At(d, 0) <= At(d, j)}
<1>1. j0 \in Nat /\ \A j \in 0 .. j0 : j \in Places(d) /\ At(d, j) \in Int
  <2>1. j0 \in Nat /\ \A j \in 0 .. j0 : j \in Places(d)
    BY DEF Places
  <2> QED
    BY <2>1, AtIn
<1>2. ASSUME NEW j \in 0 .. j0, \A l \in 0 .. j - 1 : l \in Good PROVE j \in Good
  <2>1. CASE j = 0
    BY <1>1, <2>1
  <2>2. CASE j # 0 /\ isMinLevel(j)
    <3>1. j \in Places(d) \ {0}
      BY <1>1, <2>2
    <3>2. j >= 3
      BY <2>2, <3>1, NearLevels, LevelsAlternate
    <3>3. /\ Edge(d, grandparent(j), j) /\ isMinLevel(grandparent(j))
          /\ grandparent(j) \in 0 .. j - 1
      BY <2>2, <3>1, <3>2, NearLevels DEF LocalOrder
    <3>4. At(d, 0) <= At(d, grandparent(j)) /\ grandparent(j) \in 0 .. j0
      BY <1>2, <3>3
    <3> QED
      BY <1>1, <3>3, <3>4 DEF Edge
  <2>3. CASE j # 0 /\ ~isMinLevel(j)
    <3>1. j \in Places(d) \ {0}
      BY <1>1, <2>3
    <3>2. /\ Edge(d, parent(j), j) /\ isMinLevel(parent(j))
          /\ parent(j) \in 0 .. j - 1
      BY <2>3, <3>1, NearLevels DEF LocalOrder
    <3>3. At(d, 0) <= At(d, parent(j)) /\ parent(j) \in 0 .. j0
      BY <1>2, <3>2
    <3> QED
      BY <1>1, <3>2, <3>3 DEF Edge
  <2> QED
    BY <2>1, <2>2, <2>3
<1>3. \A j \in 0 .. j0 : j \in Good
  <2> HIDE DEF Good
  <2> QED
    BY <1>1, <1>2, FromSmaller
<1> QED
  BY <1>1, <1>3

\* One of the children of the root has a greatest element, if there are any.
LEMMA ChildrenGreatest ==
    ASSUME NEW d \in Seq(Int), LocalOrder(d)
    PROVE  \A j \in Places(d) \ {0} :
              At(d, j) <= At(d, 1) \/ (2 \in Places(d) /\ At(d, j) <= At(d, 2))
<1> SUFFICES ASSUME NEW j0 \in Places(d) \ {0}
             PROVE At(d, j0) <= At(d, 1) \/ (2 \in Places(d) /\ At(d, j0) <= At(d, 2))
  OBVIOUS
<1> DEFINE Top(j) == At(d, j) <= At(d, 1) \/ (2 \in Places(d) /\ At(d, j) <= At(d, 2))
           Good == {j \in 0 .. j0 : j = 0 \/ Top(j)}
<1>1. /\ j0 \in Nat /\ 1 \in Places(d) /\ At(d, 1) \in Int
      /\ \A j \in 0 .. j0 : j \in Places(d) /\ At(d, j) \in Int
      /\ 2 \in Places(d) => At(d, 2) \in Int
  <2>1. j0 \in Nat /\ 1 \in Places(d) /\ \A j \in 0 .. j0 : j \in Places(d)
    BY DEF Places
  <2> QED
    BY <2>1, AtIn
<1>2. ASSUME NEW j \in 0 .. j0, \A l \in 0 .. j - 1 : l \in Good PROVE j \in Good
  <2>1. CASE j = 0
    BY <1>1, <2>1
  <2>2. CASE j = 1 \/ j = 2
    BY <1>1, <2>2
  <2>3. CASE j \notin {0, 1, 2} /\ ~isMinLevel(j)
    <3>1. j \in Places(d) \ {0} /\ j >= 3
      BY <1>1, <2>3
    <3>2. /\ Edge(d, grandparent(j), j) /\ ~isMinLevel(grandparent(j))
          /\ grandparent(j) \in 0 .. j - 1
      BY <2>3, <3>1, NearLevels DEF LocalOrder
    <3>3. grandparent(j) # 0
      BY <3>2, LevelsAlternate
    <3>4. Top(grandparent(j)) /\ grandparent(j) \in 0 .. j0
      BY <1>2, <3>2, <3>3
    <3>5. At(d, grandparent(j)) >= At(d, j)
      BY <3>2 DEF Edge
    <3>6. Top(j)
      BY <1>1, <3>4, <3>5
    <3> QED
      BY <3>6
  <2>4. CASE j \notin {0, 1, 2} /\ isMinLevel(j)
    <3>1. j \in Places(d) \ {0} /\ j >= 3
      BY <1>1, <2>4
    <3>2. /\ Edge(d, parent(j), j) /\ ~isMinLevel(parent(j))
          /\ parent(j) \in 0 .. j - 1 /\ parent(j) # 0
      BY <2>4, <3>1, NearLevels DEF LocalOrder
    <3>3. Top(parent(j)) /\ parent(j) \in 0 .. j0
      BY <1>2, <3>2
    <3>4. At(d, parent(j)) >= At(d, j)
      BY <3>2 DEF Edge
    <3>5. Top(j)
      BY <1>1, <3>3, <3>4
    <3> QED
      BY <3>5
  <2> QED
    BY <2>1, <2>2, <2>3, <2>4
<1>3. \A j \in 0 .. j0 : j \in Good
  <2> HIDE DEF Good
  <2> QED
    BY <1>1, <1>2, FromSmaller
<1>4. j0 \in Good /\ j0 # 0
  <2>1. j0 \in 0 .. j0
    BY <1>1
  <2> QED
    BY <1>3, <2>1
<1> QED
  BY <1>4

\* the array with the hole at idx refilled from the end
Moved(d, idx) == SubSeq([d EXCEPT ![idx + 1] = At(d, Len(d) - 1)], 1, Len(d) - 1)

\* What is in it.
LEMMA MovedAt ==
    ASSUME NEW S, NEW d \in Seq(S), NEW idx \in Places(d)
    PROVE  /\ Moved(d, idx) \in Seq(S)
           /\ Len(Moved(d, idx)) = Len(d) - 1
           /\ \A k \in Places(Moved(d, idx)) :
                 k \in Places(d) /\ At(Moved(d, idx), k) = IF k = idx THEN At(d, Len(d) - 1) ELSE At(d, k)
<1> DEFINE n == Len(d)
           e == [d EXCEPT ![idx + 1] = At(d, n - 1)]
           f == SubSeq(e, 1, n - 1)
<1>1. n \in Nat \ {0} /\ idx + 1 \in 1 .. n /\ n - 1 \in Places(d) /\ n - 1 \in 0 .. n
  BY DEF Places
<1>2. At(d, n - 1) \in S
  BY <1>1, AtIn
<1>3. e \in Seq(S) /\ Len(e) = n /\ \A k \in 1 .. n : e[k] = IF k = idx + 1 THEN At(d, n - 1) ELSE d[k]
  BY <1>1, <1>2
<1> HIDE DEF e
<1>4. f \in Seq(S) /\ Len(f) = n - 1 /\ \A k \in 1 .. n - 1 : f[k] = e[k]
  <2>1. /\ f \in Seq(S)
        /\ Len(f) = (IF 1 <= n - 1 THEN n - 1 - 1 + 1 ELSE 0)
        /\ \A k \in 1 .. n - 1 - 1 + 1 : f[k] = e[1 + k - 1]
    <3>1. \A k \in 1 .. n - 1 : k \in 1 .. Len(e)
      BY <1>1, <1>3
    <3> QED
      BY <1>1, <1>3, <3>1, SubSeqProperties
  <2> HIDE DEF f, n
  <2>2. Len(f) = n - 1
    BY <1>1, <2>1
  <2>3. ASSUME NEW k \in 1 .. n - 1 PROVE f[k] = e[k]
    <3>1. k \in 1 .. n - 1 - 1 + 1 /\ 1 + k - 1 = k
      BY <1>1
    <3>2. f[k] = e[1 + k - 1]
      BY <2>1, <3>1
    <3> QED
      BY <3>1, <3>2
  <2> QED
    BY <2>1, <2>2, <2>3
<1>5. f = Moved(d, idx)
  BY DEF Moved, e
<1> HIDE DEF f
<1>6. ASSUME NEW k \in Places(f)
      PROVE  k \in Places(d) /\ At(f, k) = IF k = idx THEN At(d, n - 1) ELSE At(d, k)
  <2>1. k \in Nat /\ k + 1 \in 1 .. n - 1 /\ k + 1 \in 1 .. n /\ idx \in Nat
    BY <1>1, <1>4 DEF Places
  <2>2. At(f, k) = e[k + 1]
    BY <1>4, <2>1 DEF At
  <2>3. e[k + 1] = IF k = idx THEN At(d, n - 1) ELSE At(d, k)
    BY <1>3, <2>1 DEF At
  <2> QED
    BY <2>1, <2>2, <2>3 DEF Places
<1> QED
  BY <1>4, <1>5, <1>6

\* Removal from an end, as the code does it.
LEMMA RemoveIndexIs ==
    ASSUME NEW d, NEW idx
    PROVE  RemoveIndex(d, Len(d), idx) =
              IF idx < Len(d) - 1 THEN trickleDown(Moved(d, idx), Len(d) - 1, idx)
                                  ELSE Moved(d, idx)
BY DEF RemoveIndex, Moved

\* Removal at the root or one of its children restores the order.
LEMMA RemoveOrders ==
    ASSUME NEW d \in Seq(Int), LocalOrder(d), NEW idx \in Places(d), idx \in {0, 1, 2}
    PROVE  LocalOrder(RemoveIndex(d, Len(d), idx))
<1> DEFINE n == Len(d)
           e == Moved(d, idx)
<1>1. n \in Nat /\ idx \in Nat /\ idx < n /\ n - 1 \in Places(d)
  BY DEF Places
<1>2. /\ e \in Seq(Int) /\ Len(e) = n - 1
      /\ \A k \in Places(e) :
            k \in Places(d) /\ At(e, k) = IF k = idx THEN At(d, n - 1) ELSE At(d, k)
  BY MovedAt
<1>3. \A k \in Places(e) : k \in Nat /\ k < n - 1
  BY <1>1, <1>2 DEF Places
<1>4. \A j \in Places(d) \ {0} :
          Edge(d, parent(j), j) /\ (j >= 3 => Edge(d, grandparent(j), j))
  BY DEF LocalOrder
<1> HIDE DEF e
<1>5. CASE ~(idx < n - 1)
  <2>1. \A k \in Places(e) : k \in Places(d) /\ At(e, k) = At(d, k)
    BY <1>1, <1>2, <1>3, <1>5
  <2>2. ASSUME NEW j \in Places(e) \ {0}
        PROVE  Edge(e, parent(j), j) /\ (j >= 3 => Edge(e, grandparent(j), j))
    BY <1>2, <1>4, <2>1, NearLevels DEF Edge
  <2>3. LocalOrder(e)
    BY <2>2 DEF LocalOrder
  <2> QED
    BY <1>5, <2>3, RemoveIndexIs DEF e
<1>6. CASE idx < n - 1
  <2>1. idx \in Places(e)
    BY <1>1, <1>2, <1>6 DEF Places
  <2>2. idx = 0 \/ parent(idx) = 0
    BY DEF parent
  <2>3. \A k \in Places(e) : k # idx => At(e, k) = At(d, k) /\ k \in Places(d)
    BY <1>2
  <2>4. ASSUME NEW j \in Places(e) \ {0}, parent(j) # idx PROVE Edge(e, parent(j), j)
    <3>1. parent(j) \in Places(e) /\ j \in Places(d) \ {0}
      BY <1>2, NearLevels
    <3>2. CASE j # idx
      BY <1>4, <2>3, <2>4, <3>1, <3>2 DEF Edge
    <3>3. CASE j = idx
      <4>1. parent(j) = 0 /\ 0 \in Places(e) /\ isMinLevel(0) /\ idx # 0
        BY <2>2, <3>1, <3>3, LevelsAlternate
      <4>2. At(e, 0) = At(d, 0) /\ At(e, j) = At(d, n - 1)
        BY <1>2, <3>3, <4>1
      <4>3. At(d, 0) <= At(d, n - 1)
        BY <1>1, RootLeast
      <4> QED
        BY <4>1, <4>2, <4>3 DEF Edge
    <3> QED
      BY <3>2, <3>3
  <2>5. ASSUME NEW j \in Places(e) \ {0}, j >= 3, grandparent(j) # idx
        PROVE  Edge(e, grandparent(j), j)
    <3>1. grandparent(j) \in Places(e) /\ j \in Places(d) \ {0} /\ j # idx
      BY <1>2, <2>5, NearLevels
    <3> QED
      BY <1>4, <2>3, <2>5, <3>1 DEF Edge
  <2>6. ~(idx >= 3)
    OBVIOUS
  <2> DEFINE low == isMinLevel(idx)
  <2>7. low \in BOOLEAN /\ low = isMinLevel(idx)
    BY LevelBoolean
  <2>8. Sinking(low, e, idx)
    BY <1>2, <2>1, <2>4, <2>5, <2>6 DEF Sinking
  <2> HIDE DEF low
  <2>9. LocalOrder(trickleDown(e, Len(e), idx))
    BY <2>7, <2>8, SinkOrders
  <2> QED
    BY <1>2, <1>6, <2>9, RemoveIndexIs DEF e
<1> QED
  BY <1>5, <1>6

-----------------------------------------------------------------------------
(* Invariants                                                              *)

\* Removal leaves the rest.
LEMMA RemoveRearranges ==
    ASSUME NEW S \in SUBSET Int, NEW d \in Seq(S), NEW idx \in Places(d)
    PROVE  RemoveIndex(d, Len(d), idx) \in Rearranged(S, Moved(d, idx))
<1>1. Len(d) \in Nat /\ idx \in Nat
  BY DEF Places
<1>2. Moved(d, idx) \in Seq(S) /\ Len(Moved(d, idx)) = Len(d) - 1
  BY MovedAt
<1>3. CASE idx < Len(d) - 1
  <2>1. idx \in Places(Moved(d, idx))
    BY <1>1, <1>2, <1>3 DEF Places
  <2>2. trickleDown(Moved(d, idx), Len(Moved(d, idx)), idx) \in Rearranged(S, Moved(d, idx))
    BY <1>2, <2>1, TrickleRearranges
  <2> QED
    BY <1>2, <1>3, <2>2, RemoveIndexIs
<1>4. CASE ~(idx < Len(d) - 1)
  BY <1>2, <1>4, RearrangedSelf, RemoveIndexIs
<1> QED
  BY <1>3, <1>4

\* The place of the maximum is the root or one of its children.
LEMMA MaxIndexPlace ==
    ASSUME NEW d, Len(d) \in Nat \ {0}
    PROVE  MaxIndex(d, Len(d)) \in Places(d) /\ MaxIndex(d, Len(d)) \in {0, 1, 2}
<1> DEFINE n == Len(d)
<1>1. n \in Nat \ {0}
  OBVIOUS
<1> HIDE DEF n
<1>2. n \in Nat \ {0} /\ (n = 1 \/ n = 2 \/ n > 2)
  BY <1>1
<1>3. MaxIndex(d, n) \in 0 .. n - 1 /\ MaxIndex(d, n) \in {0, 1, 2}
  <2>1. CASE n = 1
    BY <2>1 DEF MaxIndex
  <2>2. CASE n = 2
    BY <2>2 DEF MaxIndex
  <2>3. CASE n > 2
    <3>1. MaxIndex(d, n) = 1 \/ MaxIndex(d, n) = 2
      BY <1>2, <2>3 DEF MaxIndex
    <3> QED
      BY <1>2, <2>3, <3>1
  <2> QED
    BY <1>2, <2>1, <2>2, <2>3
<1> QED
  BY <1>3 DEF n, Places

\* The inductive invariant: the types, and order between near places.
IInv == TypeOK /\ LocalOrder(data)

\* It holds at the start.
LEMMA InitIInv ==
    ASSUME Init
    PROVE  IInv
<1>1. data = <<>> /\ len = 0 /\ ret = NoPriority
  BY DEF Init
<1>2. data \in Seq(Priorities) /\ Len(data) = 0
  BY <1>1
<1> QED
  BY <1>1, <1>2 DEF IInv, TypeOK, LocalOrder, Places

\* Insert keeps it.
LEMMA InsertKeeps ==
    ASSUME IInv, NEW p \in Priorities, Insert(p)
    PROVE  IInv'
<1> DEFINE e == Append(data, p)
<1>1. data \in Seq(Priorities) /\ len = Len(data) /\ LocalOrder(data) /\ Len(data) \in Nat
  BY DEF IInv, TypeOK
<1>2. Priorities \subseteq Int
  BY HeapAssumption
<1>3. data \in Seq(Int)
  BY <1>1, <1>2, SeqMonotonic
<1>4. data' = bubbleUp(e, Len(data)) /\ len' = len + 1 /\ ret' = NoPriority
  BY DEF Insert
<1>5. e \in Seq(Priorities) /\ Len(e) = Len(data) + 1
  BY <1>1, AppendProperties
<1>6. Len(data) \in Places(e)
  BY <1>1, <1>5 DEF Places
<1>7. LocalOrder(bubbleUp(e, Len(data)))
  BY <1>1, <1>2, <1>3, InsertOrders
<1>8. bubbleUp(e, Len(data)) \in Rearranged(Priorities, e)
  BY <1>5, <1>6, BubbleUpRearranges
<1> HIDE DEF e
<1>9. LocalOrder(data') /\ data' \in Seq(Priorities) /\ Len(data') = len'
  BY <1>1, <1>4, <1>5, <1>7, <1>8 DEF Rearranged
<1>10. LocalOrder(data)' <=> LocalOrder(data')
  BY DEF LocalOrder, Places, Edge, At
<1> QED
  BY <1>4, <1>9, <1>10 DEF IInv, TypeOK

\* A removal keeps it.
LEMMA RemoveKeeps ==
    ASSUME IInv, len # 0, NEW idx \in Places(data), idx \in {0, 1, 2},
           ret' = At(data, idx), data' = RemoveIndex(data, Len(data), idx), len' = len - 1
    PROVE  IInv'
<1>1. data \in Seq(Priorities) /\ len = Len(data) /\ LocalOrder(data)
  BY DEF IInv, TypeOK
<1>2. Priorities \subseteq Int
  BY HeapAssumption
<1>3. data \in Seq(Int)
  BY <1>1, <1>2, SeqMonotonic
<1>4. LocalOrder(data')
  BY <1>1, <1>3, RemoveOrders
<1>5. data' \in Rearranged(Priorities, Moved(data, idx))
  BY <1>1, <1>2, RemoveRearranges
<1>6. data' \in Seq(Priorities) /\ Len(data') = len'
  BY <1>1, <1>5, MovedAt DEF Rearranged
<1>7. ret' \in Priorities
  BY <1>1, AtIn
<1>8. LocalOrder(data)' <=> LocalOrder(data')
  BY DEF LocalOrder, Places, Edge, At
<1> QED
  BY <1>4, <1>6, <1>7, <1>8 DEF IInv, TypeOK

\* The two deletions remove at an end, or find nothing to remove.
LEMMA DeletionsRemove ==
    ASSUME IInv
    PROVE  /\ len = 0 <=> data = <<>>
           /\ len # 0 => 0 \in Places(data) /\ MaxIndex(data, len) \in Places(data)
                         /\ MaxIndex(data, len) \in {0, 1, 2} /\ Len(data) = len
<1>1. data \in Seq(Priorities) /\ len = Len(data) /\ Len(data) \in Nat
  BY DEF IInv, TypeOK
<1>2. len = 0 <=> data = <<>>
  BY <1>1, EmptySeq
<1>3. ASSUME len # 0
      PROVE  0 \in Places(data) /\ MaxIndex(data, len) \in Places(data)
             /\ MaxIndex(data, len) \in {0, 1, 2}
  <2>1. 0 \in Places(data)
    BY <1>1, <1>3 DEF Places
  <2> QED
    BY <1>1, <1>3, <2>1, MaxIndexPlace
<1> QED
  BY <1>1, <1>2, <1>3

\* So every step keeps it.
LEMMA NextIInv ==
    ASSUME IInv, [Next]_vars
    PROVE  IInv'
<1>1. ASSUME NEW p \in Priorities, Insert(p) PROVE IInv'
  BY <1>1, InsertKeeps
<1>2. CASE DeleteMin
  <2>1. CASE len = 0
    <3>1. ret' = NoPriority /\ data' = data /\ len' = len
      BY <1>2, <2>1 DEF DeleteMin
    <3> QED
      BY <3>1 DEF IInv, TypeOK, LocalOrder, Places, Edge, At
  <2>2. CASE len # 0
    <3>1. /\ ret' = At(data, 0) /\ data' = RemoveIndex(data, Len(data), 0)
          /\ len' = len - 1
      BY <1>2, <2>2 DEF DeleteMin
    <3> QED
      BY <2>2, <3>1, DeletionsRemove, RemoveKeeps
  <2> QED
    BY <2>1, <2>2
<1>3. CASE DeleteMax
  <2>1. CASE len = 0
    <3>1. ret' = NoPriority /\ data' = data /\ len' = len
      BY <1>3, <2>1 DEF DeleteMax
    <3> QED
      BY <3>1 DEF IInv, TypeOK, LocalOrder, Places, Edge, At
  <2>2. CASE len # 0
    <3> DEFINE m == MaxIndex(data, len)
    <3>1. ret' = At(data, m) /\ data' = RemoveIndex(data, len, m) /\ len' = len - 1
      BY <1>3, <2>2 DEF DeleteMax
    <3>2. Len(data) = len /\ m \in Places(data) /\ m \in {0, 1, 2}
      BY <2>2, DeletionsRemove
    <3> HIDE DEF m
    <3> QED
      BY <2>2, <3>1, <3>2, RemoveKeeps
  <2> QED
    BY <2>1, <2>2
<1>4. CASE UNCHANGED vars
  BY <1>4 DEF vars, IInv, TypeOK, LocalOrder, Places, Edge, At
<1> QED
  BY <1>1, <1>2, <1>3, <1>4 DEF Next

\* So the array is always in order between near places.
THEOREM Invariance == Spec => []IInv
<1>1. IInv /\ [Next]_vars => IInv'
  BY NextIInv
<1> QED
  BY <1>1, InitIInv, PTL DEF Spec

\* The types are right, and the counter that bounds the sifting loops is the length of
\* the array after any insertions and deletions at both ends (mmheap.go:29-95).
THEOREM TypeCorrect == Spec => []TypeOK
<1>1. IInv => TypeOK
  BY DEF IInv
<1> QED
  BY <1>1, Invariance, PTL

\* Nothing below an element of an even level is smaller, nothing below one of an odd level
\* is larger: bubbleUp and trickleDown, with their loops over grandparents and
\* grandchildren, restore the order of the whole array (mmheap.go:105-243).
THEOREM OrderRestored == Spec => []HeapOrder
<1>1. IInv => HeapOrder
  <2> SUFFICES ASSUME IInv PROVE HeapOrder
    OBVIOUS
  <2>1. data \in Seq(Priorities) /\ LocalOrder(data) /\ Priorities \subseteq Int
    BY HeapAssumption DEF IInv, TypeOK
  <2>2. data \in Seq(Int)
    BY <2>1, SeqMonotonic
  <2>3. \A i \in Places(data) : \A a \in Ancestors[i] : Edge(data, a, i)
    BY <2>1, <2>2, LocalIsGlobal
  <2>4. \A i \in 1 .. Len(data) - 1 : i \in Places(data)
    BY DEF Places
  <2> QED
    BY <2>3, <2>4 DEF HeapOrder, Edge
<1> QED
  BY <1>1, Invariance, PTL

\* DeleteMax removes the very item that GetMax has shown, although it finds it from the
\* counter and not from the array (mmheap.go:42-95, workerPool.go:100-104).
THEOREM ShownIsRemoved == Spec => []PeekIsRemoved
<1>1. IInv => PeekIsRemoved
  <2> SUFFICES ASSUME IInv, data # <<>> PROVE GetMax(data) = MaxIndex(data, len)
    BY DEF PeekIsRemoved
  <2>1. data \in Seq(Priorities) /\ len = Len(data) /\ len # 0 /\ len \in Nat
    BY DeletionsRemove DEF IInv, TypeOK
  <2>2. len = 1 \/ len = 2 \/ len > 2
    BY <2>1
  <2>3. CASE len = 1
    BY <2>1, <2>3 DEF GetMax, MaxIndex
  <2>4. CASE len = 2
    BY <2>1, <2>4 DEF GetMax, MaxIndex
  <2>5. CASE len > 2
    <3>1. GetMax(data) = IF At(data, 1) > At(data, 2) THEN 1 ELSE 2
      BY <2>1, <2>5 DEF GetMax
    <3>2. MaxIndex(data, len) = IF At(data, 1) > At(data, 2) THEN 1 ELSE 2
      BY <2>1, <2>5 DEF MaxIndex
    <3> QED
      BY <3>1, <3>2
  <2> QED
    BY <2>2, <2>3, <2>4, <2>5
<1> QED
  BY <1>1, Invariance, PTL

-----------------------------------------------------------------------------
(* Refinement                                                              *)

\* what is in an array of S
Held(S, d) == {p \in S : Count(d, p) # 0}

\* It is what is at the places.
LEMMA HeldAt ==
    ASSUME NEW S, NEW d \in Seq(S)
    PROVE  /\ \A p \in Held(S, d) : \E i \in Places(d) : At(d, i) = p
           /\ \A i \in Places(d) : At(d, i) \in Held(S, d)
<1>1. DOMAIN d = 1 .. Len(d) /\ Len(d) \in Nat
  OBVIOUS
<1>2. ASSUME NEW p PROVE Count(d, p) = 0 <=> {k \in DOMAIN d : d[k] = p} = {}
  BY CountFinite, FS_EmptySet DEF Count
<1>3. ASSUME NEW p \in Held(S, d) PROVE \E i \in Places(d) : At(d, i) = p
  <2>1. PICK k \in DOMAIN d : d[k] = p
    BY <1>2 DEF Held
  <2>2. k - 1 \in Places(d) /\ At(d, k - 1) = p
    BY <1>1, <2>1 DEF Places, At
  <2> QED
    BY <2>2
<1>4. ASSUME NEW i \in Places(d) PROVE At(d, i) \in Held(S, d)
  <2>1. i + 1 \in DOMAIN d /\ d[i + 1] = At(d, i)
    BY <1>1 DEF Places, At
  <2>2. At(d, i) \in S /\ Count(d, At(d, i)) # 0
    BY <1>2, <2>1, AtIn
  <2> QED
    BY <2>2 DEF Held
<1> QED
  BY <1>3, <1>4

\* The bag of an array is made of its counts.
LEMMA BagByCount ==
    ASSUME NEW S, NEW d \in Seq(S)
    PROVE  ToBag(d) = [p \in Held(S, d) |-> Count(d, p)]
<1>1. Range(d) = Held(S, d)
  <2>1. DOMAIN d = 1 .. Len(d) /\ Len(d) \in Nat
    OBVIOUS
  <2>2. ASSUME NEW k \in DOMAIN d PROVE d[k] \in Held(S, d)
    <3>1. k - 1 \in Places(d) /\ At(d, k - 1) = d[k]
      BY <2>1 DEF Places, At
    <3> QED
      BY <3>1, HeldAt
  <2>3. ASSUME NEW p \in Held(S, d) PROVE \E k \in DOMAIN d : d[k] = p
    <3>1. PICK i \in Places(d) : At(d, i) = p
      BY HeldAt
    <3>2. i + 1 \in DOMAIN d /\ d[i + 1] = p
      BY <2>1, <3>1 DEF Places, At
    <3> QED
      BY <3>2
  <2> QED
    BY <2>2, <2>3 DEF Range
<1> QED
  BY <1>1 DEF ToBag, Count

\* An array is empty when its bag is.
LEMMA EmptyBagIs ==
    ASSUME NEW S, NEW d \in Seq(S)
    PROVE  ToBag(d) = Abstract!EmptyBag <=> d = <<>>
<1>1. ToBag(d) = Abstract!EmptyBag <=> Held(S, d) = {}
  BY BagByCount DEF Abstract!EmptyBag, Abstract!SetToBag
<1>2. Len(d) \in Nat /\ (Len(d) = 0 <=> d = <<>>)
  BY EmptySeq
<1>3. Places(d) = {} <=> Len(d) = 0
  <2> DEFINE n == Len(d)
  <2>1. n \in Nat
    BY <1>2
  <2> HIDE DEF n
  <2>2. 0 .. n - 1 = {} <=> n = 0
    BY <2>1
  <2> QED
    BY <2>2 DEF Places, n
<1>4. Held(S, d) = {} <=> Places(d) = {}
  BY HeldAt
<1> QED
  BY <1>1, <1>2, <1>3, <1>4

\* One more of x.
LEMMA AppendCount ==
    ASSUME NEW S, NEW d \in Seq(S), NEW x \in S, NEW p
    PROVE  Count(Append(d, x), p) = IF p = x THEN Count(d, p) + 1 ELSE Count(d, p)
<1> DEFINE e == Append(d, x)
           n == Len(d)
           from == {k \in DOMAIN d : d[k] = p}
           to == {k \in DOMAIN e : e[k] = p}
<1>1. n \in Nat /\ DOMAIN d = 1 .. n /\ DOMAIN e = 1 .. n + 1
  BY AppendProperties
<1>2. (\A k \in 1 .. n : e[k] = d[k]) /\ e[n + 1] = x
  BY AppendProperties
<1>3. IsFiniteSet(from)
  BY CountFinite
<1> HIDE DEF e
<1>4. to = IF p = x THEN from \cup {n + 1} ELSE from
  BY <1>1, <1>2
<1>5. n + 1 \notin from
  BY <1>1
<1> HIDE DEF from, to, n
<1>6. Cardinality(to) = IF p = x THEN Cardinality(from) + 1 ELSE Cardinality(from)
  BY <1>3, <1>4, <1>5, FS_AddElement
<1> QED
  BY <1>6 DEF Count, from, to, e

\* Refilling a hole leaves one less of what was there.
LEMMA MovedCount ==
    ASSUME NEW S, NEW d \in Seq(S), NEW idx \in Places(d), NEW p \in S
    PROVE  Count(d, p) = IF p = At(d, idx) THEN Count(Moved(d, idx), p) + 1
                                           ELSE Count(Moved(d, idx), p)
<1> DEFINE n == Len(d)
           x == At(d, idx)
           e == Moved(d, idx)
           u == swap(d, idx, n - 1)
           a == Append(e, x)
<1>1. n \in Nat \ {0} /\ idx \in Nat /\ n - 1 \in Places(d)
  BY DEF Places
<1>2. e \in Seq(S) /\ Len(e) = n - 1
      /\ \A k \in Places(e) : k \in Places(d) /\ At(e, k) = IF k = idx THEN At(d, n - 1) ELSE At(d, k)
  BY MovedAt
<1>3. x \in S
  BY AtIn
<1>4. u \in Seq(S) /\ Len(u) = n
      /\ \A k \in Places(d) :
            At(u, k) = IF k = n - 1 THEN At(d, idx) ELSE IF k = idx THEN At(d, n - 1) ELSE At(d, k)
  BY <1>1, SwapAt
<1>5. u \in Rearranged(S, d)
  BY <1>1, RearrangedSelf, SwapRearranges
<1> HIDE DEF e, u, n
<1>6. Count(u, p) = Count(d, p)
  BY <1>5 DEF Rearranged
<1>7. a \in Seq(S) /\ Len(a) = n /\ (\A k \in 1 .. n - 1 : a[k] = e[k]) /\ a[n] = x
  <2>1. Len(e) + 1 = n
    BY <1>1, <1>2
  <2> QED
    BY <1>2, <1>3, <2>1, AppendProperties
<1> HIDE DEF a
<1>8. ASSUME NEW k \in 1 .. n PROVE a[k] = u[k]
  <2>1. k - 1 \in Places(d) /\ (k # n => k - 1 \in Places(e)) /\ k \in Nat
    BY <1>1, <1>2 DEF Places, n
  <2>2. At(u, k - 1) = u[k] /\ At(e, k - 1) = e[k]
    BY <2>1 DEF At
  <2>3. CASE k = n
    BY <1>1, <1>4, <1>7, <2>1, <2>2, <2>3
  <2>4. CASE k # n
    BY <1>1, <1>2, <1>4, <1>7, <2>1, <2>2, <2>4
  <2> QED
    BY <2>3, <2>4
<1>9. a = u
  BY <1>1, <1>4, <1>7, <1>8
<1>10. Count(a, p) = IF p = x THEN Count(e, p) + 1 ELSE Count(e, p)
  BY <1>2, <1>3, AppendCount DEF a
<1> QED
  BY <1>6, <1>9, <1>10 DEF e

\* The bag after an insertion.
LEMMA BagAfterInsert ==
    ASSUME NEW S, NEW d \in Seq(S), NEW x \in S, NEW e \in Rearranged(S, Append(d, x))
    PROVE  ToBag(e) = Abstract!BagAdd(ToBag(d), x)
<1> DEFINE B == ToBag(d)
<1>1. e \in Seq(S) /\ \A p \in S : Count(e, p) = Count(Append(d, x), p)
  BY DEF Rearranged
<1>2. \A p \in S : /\ Count(d, p) \in Nat
                   /\ Count(e, p) = IF p = x THEN Count(d, p) + 1 ELSE Count(d, p)
  <2> SUFFICES ASSUME NEW p \in S
               PROVE  /\ Count(d, p) \in Nat
                      /\ Count(e, p) = IF p = x THEN Count(d, p) + 1 ELSE Count(d, p)
    OBVIOUS
  <2>1. Count(d, p) \in Nat
    BY CountFinite
  <2>2. Count(Append(d, x), p) = IF p = x THEN Count(d, p) + 1 ELSE Count(d, p)
    BY AppendCount
  <2> QED
    BY <1>1, <2>1, <2>2
<1>3. B = [p \in Held(S, d) |-> Count(d, p)]
  BY BagByCount
<1>4. ToBag(e) = [p \in Held(S, e) |-> Count(e, p)]
  BY <1>1, BagByCount
<1>5. Held(S, e) = Held(S, d) \cup {x}
  BY <1>2 DEF Held
<1> HIDE DEF B
<1>6. CASE x \in DOMAIN B
  <2>1. Held(S, e) = Held(S, d) /\ Held(S, d) \subseteq S
    BY <1>3, <1>5, <1>6 DEF Held
  <2>2. ToBag(e) = [p \in DOMAIN B |-> IF p = x THEN B[p] + 1 ELSE B[p]]
    BY <1>2, <1>3, <1>4, <2>1
  <2> QED
    BY <1>6, <2>2 DEF Abstract!BagAdd, B
<1>7. CASE x \notin DOMAIN B
  <2>1. x \notin Held(S, d) /\ Held(S, d) \subseteq S /\ Count(d, x) = 0
    BY <1>3, <1>7 DEF Held
  <2>2. ToBag(e) = [p \in DOMAIN B \cup {x} |-> IF p = x THEN 1 ELSE B[p]]
    BY <1>2, <1>3, <1>4, <1>5, <2>1
  <2> QED
    BY <1>7, <2>2 DEF Abstract!BagAdd, B
<1> QED
  BY <1>6, <1>7

\* The bag after a removal.
LEMMA BagAfterRemoval ==
    ASSUME NEW S, NEW d \in Seq(S), NEW idx \in Places(d), NEW e \in Rearranged(S, Moved(d, idx))
    PROVE  ToBag(e) = Abstract!BagRemove(ToBag(d), At(d, idx))
<1> DEFINE B == ToBag(d)
           x == At(d, idx)
<1>1. e \in Seq(S) /\ \A p \in S : Count(e, p) = Count(Moved(d, idx), p)
  BY DEF Rearranged
<1>2. \A p \in S : /\ Count(e, p) \in Nat
                   /\ Count(d, p) = IF p = x THEN Count(e, p) + 1 ELSE Count(e, p)
  <2> SUFFICES ASSUME NEW p \in S
               PROVE  /\ Count(e, p) \in Nat
                      /\ Count(d, p) = IF p = x THEN Count(e, p) + 1 ELSE Count(e, p)
    OBVIOUS
  <2>1. Count(e, p) \in Nat
    BY <1>1, CountFinite
  <2>2. Count(d, p) = IF p = x THEN Count(Moved(d, idx), p) + 1 ELSE Count(Moved(d, idx), p)
    BY MovedCount
  <2> QED
    BY <1>1, <2>1, <2>2
<1>3. B = [p \in Held(S, d) |-> Count(d, p)]
  BY BagByCount
<1>4. ToBag(e) = [p \in Held(S, e) |-> Count(e, p)]
  BY <1>1, BagByCount
<1>5. x \in S /\ x \in Held(S, d)
  BY AtIn, HeldAt
<1> HIDE DEF B, x
<1>6. x \in DOMAIN B /\ B[x] = Count(e, x) + 1 /\ Held(S, d) \subseteq S
  BY <1>2, <1>3, <1>5 DEF Held
<1>7. CASE B[x] = 1
  <2>1. Count(e, x) = 0
    BY <1>2, <1>5, <1>6, <1>7
  <2>2. Held(S, e) = Held(S, d) \ {x}
    BY <1>2, <2>1 DEF Held
  <2>3. ToBag(e) = [p \in DOMAIN B \ {x} |-> B[p]]
    BY <1>2, <1>3, <1>4, <1>6, <2>2
  <2> QED
    BY <1>6, <1>7, <2>3 DEF Abstract!BagRemove, B, x
<1>8. CASE B[x] # 1
  <2>1. Count(e, x) # 0
    BY <1>2, <1>5, <1>6, <1>8
  <2>2. Held(S, e) = Held(S, d)
    BY <1>2, <1>5, <2>1 DEF Held
  <2>3. ToBag(e) = [p \in DOMAIN B |-> IF p = x THEN B[p] - 1 ELSE B[p]]
    BY <1>2, <1>3, <1>4, <1>6, <2>2
  <2> QED
    BY <1>6, <1>8, <2>3 DEF Abstract!BagRemove, B, x
<1> QED
  BY <1>7, <1>8

\* Both ends are extremes of the bag.
LEMMA EndsAreExtremes ==
    ASSUME IInv, len # 0
    PROVE  /\ At(data, 0) = Abstract!Lowest(Abstract!BagToSet(ToBag(data)))
           /\ At(data, MaxIndex(data, len)) = Abstract!Highest(Abstract!BagToSet(ToBag(data)))
<1> DEFINE H == Held(Priorities, data)
           m == MaxIndex(data, len)
<1>1. data \in Seq(Priorities) /\ LocalOrder(data) /\ len = Len(data) /\ Priorities \subseteq Int
  BY HeapAssumption DEF IInv, TypeOK
<1>2. data \in Seq(Int) /\ len \in Nat
  <2>1. data \in Seq(Int)
    BY <1>1, SeqMonotonic
  <2> QED
    BY <1>1, <2>1
<1>3. Abstract!BagToSet(ToBag(data)) = H
  BY <1>1, BagByCount DEF Abstract!BagToSet
<1>4. 0 \in Places(data) /\ m \in Places(data)
  BY DeletionsRemove
<1>5. H \subseteq Int /\ At(data, 0) \in H /\ At(data, m) \in H
  BY <1>1, <1>4, HeldAt DEF Held
<1>6. \A q \in H : \E j \in Places(data) : At(data, j) = q
  BY <1>1, HeldAt
<1>7. \A q \in H : At(data, 0) <= q
  BY <1>1, <1>2, <1>6, RootLeast
<1>8. ASSUME NEW j \in Places(data) PROVE At(data, j) <= At(data, m)
  <2>1. \A k \in Places(data) : At(data, k) \in Int /\ k \in 0 .. len - 1
    BY <1>1, <1>2, AtIn DEF Places
  <2>2. At(data, 0) <= At(data, m)
    BY <1>1, <1>2, <1>4, RootLeast
  <2>3. j # 0 => At(data, j) <= At(data, 1) \/ (2 \in Places(data) /\ At(data, j) <= At(data, 2))
    BY <1>1, <1>2, ChildrenGreatest
  <2>4. CASE j = 0
    BY <2>2, <2>4
  <2>5. CASE j # 0 /\ len = 2
    <3>1. m = 1 /\ 2 \notin Places(data)
      BY <1>1, <2>5 DEF MaxIndex, Places
    <3> QED
      BY <2>3, <2>5, <3>1
  <2>6. CASE j # 0 /\ len > 2
    <3>1. m = IF At(data, 1) > At(data, 2) THEN 1 ELSE 2
      BY <1>2, <2>6 DEF MaxIndex
    <3>2. 1 \in Places(data) /\ 2 \in Places(data)
      BY <1>1, <1>2, <2>6 DEF Places
    <3> HIDE DEF m
    <3> QED
      BY <2>1, <2>3, <2>6, <3>1, <3>2
  <2>7. j # 0 => len = 2 \/ len > 2
    BY <1>2, <2>1
  <2> QED
    BY <2>4, <2>5, <2>6, <2>7
<1>9. \A q \in H : At(data, m) >= q
  <2> HIDE DEF m, H
  <2> QED
    BY <1>5, <1>6, <1>8
<1> HIDE DEF H, m
<1>10. At(data, 0) = Abstract!Lowest(H)
  <2>1. /\ Abstract!Lowest(H) \in H
        /\ \A q \in H : Abstract!Lowest(H) <= q
    BY <1>5, <1>7 DEF Abstract!Lowest
  <2> DEFINE x == At(data, 0)
             y == Abstract!Lowest(H)
  <2>2. x \in Int /\ y \in Int /\ x <= y /\ y <= x
    BY <1>5, <1>7, <2>1
  <2> HIDE DEF x, y
  <2>3. x = y
    BY <2>2
  <2> QED
    BY <2>3 DEF x, y
<1>11. At(data, m) = Abstract!Highest(H)
  <2>1. /\ Abstract!Highest(H) \in H
        /\ \A q \in H : Abstract!Highest(H) >= q
    BY <1>5, <1>9 DEF Abstract!Highest
  <2> DEFINE x == At(data, m)
             y == Abstract!Highest(H)
  <2>2. x \in Int /\ y \in Int /\ x >= y /\ y >= x
    BY <1>5, <1>9, <2>1
  <2> HIDE DEF x, y
  <2>3. x = y
    BY <2>2
  <2> QED
    BY <2>3 DEF x, y
<1> QED
  BY <1>3, <1>10, <1>11 DEF m

\* An operation is the abstract one.
LEMMA NextRefines ==
    ASSUME IInv, [Next]_vars
    PROVE  [Abstract!Next]_<<ToBag(data), ret>>
<1>1. data \in Seq(Priorities) /\ Priorities \subseteq Int /\ len = Len(data)
  BY HeapAssumption DEF IInv, TypeOK
<1>2. ToBag(data) = Abstract!EmptyBag <=> len = 0
  BY <1>1, EmptyBagIs, DeletionsRemove
<1>3. ASSUME NEW p \in Priorities, Insert(p) PROVE Abstract!Insert(p)
  <2> DEFINE e == Append(data, p)
             u == bubbleUp(e, Len(data))
  <2>1. data' = u /\ ret' = NoPriority
    BY <1>3 DEF Insert
  <2>2. e \in Seq(Priorities) /\ Len(data) \in Places(e)
    <3>1. e \in Seq(Priorities) /\ Len(e) = Len(data) + 1 /\ Len(data) \in Nat
      BY <1>1, AppendProperties
    <3> QED
      BY <3>1 DEF Places
  <2>3. u \in Rearranged(Priorities, e)
    BY <2>2, BubbleUpRearranges
  <2>4. ToBag(u) = Abstract!BagAdd(ToBag(data), p)
    BY <1>1, <2>3, BagAfterInsert
  <2> HIDE DEF u
  <2>5. ToBag(data)' = ToBag(u)
    BY <2>1 DEF ToBag, Range
  <2> QED
    BY <2>1, <2>4, <2>5 DEF Abstract!Insert
<1>4. ASSUME NEW idx \in Places(data), data' = RemoveIndex(data, Len(data), idx)
      PROVE  ToBag(data)' = Abstract!BagRemove(ToBag(data), At(data, idx))
  <2> DEFINE u == RemoveIndex(data, Len(data), idx)
  <2>1. u \in Rearranged(Priorities, Moved(data, idx))
    BY <1>1, RemoveRearranges
  <2>2. ToBag(u) = Abstract!BagRemove(ToBag(data), At(data, idx))
    BY <1>1, <2>1, BagAfterRemoval
  <2> HIDE DEF u
  <2>3. ToBag(data)' = ToBag(u)
    BY <1>4 DEF ToBag, Range, u
  <2> QED
    BY <2>2, <2>3
<1>5. CASE DeleteMin
  <2>1. CASE len = 0
    <3>1. ret' = NoPriority /\ data' = data
      BY <1>5, <2>1 DEF DeleteMin
    <3>2. ToBag(data)' = ToBag(data)
      BY <3>1 DEF ToBag, Range
    <3>3. Abstract!TakeLowest
      BY <1>2, <2>1, <3>1, <3>2 DEF Abstract!TakeLowest
    <3> QED
      BY <3>3 DEF Abstract!Next
  <2>2. CASE len # 0
    <3>1. ret' = At(data, 0) /\ data' = RemoveIndex(data, Len(data), 0)
      BY <1>5, <2>2 DEF DeleteMin
    <3>2. ToBag(data)' = Abstract!BagRemove(ToBag(data), At(data, 0))
      BY <1>4, <2>2, <3>1, DeletionsRemove
    <3>3. At(data, 0) = Abstract!Lowest(Abstract!BagToSet(ToBag(data)))
      BY <2>2, EndsAreExtremes
    <3>4. Abstract!TakeLowest
      BY <1>2, <2>2, <3>1, <3>2, <3>3 DEF Abstract!TakeLowest
    <3> QED
      BY <3>4 DEF Abstract!Next
  <2> QED
    BY <2>1, <2>2
<1>6. CASE DeleteMax
  <2>1. CASE len = 0
    <3>1. ret' = NoPriority /\ data' = data
      BY <1>6, <2>1 DEF DeleteMax
    <3>2. ToBag(data)' = ToBag(data)
      BY <3>1 DEF ToBag, Range
    <3>3. Abstract!TakeHighest
      BY <1>2, <2>1, <3>1, <3>2 DEF Abstract!TakeHighest
    <3> QED
      BY <3>3 DEF Abstract!Next
  <2>2. CASE len # 0
    <3> DEFINE m == MaxIndex(data, len)
    <3>1. ret' = At(data, m) /\ data' = RemoveIndex(data, len, m)
      BY <1>6, <2>2 DEF DeleteMax
    <3>2. m \in Places(data)
      BY <2>2, DeletionsRemove
    <3>3. At(data, m) = Abstract!Highest(Abstract!BagToSet(ToBag(data)))
      BY <2>2, EndsAreExtremes
    <3> HIDE DEF m
    <3>4. ToBag(data)' = Abstract!BagRemove(ToBag(data), At(data, m))
      BY <1>1, <1>4, <3>1, <3>2
    <3>5. Abstract!TakeHighest
      BY <1>2, <2>2, <3>1, <3>3, <3>4 DEF Abstract!TakeHighest
    <3> QED
      BY <3>5 DEF Abstract!Next
  <2> QED
    BY <2>1, <2>2
<1>7. CASE UNCHANGED vars
  <2>1. data' = data /\ ret' = ret
    BY <1>7 DEF vars
  <2>2. ToBag(data)' = ToBag(data)
    BY <2>1 DEF ToBag, Range
  <2> QED
    BY <2>1, <2>2
<1>8. ASSUME NEW p \in Priorities, Insert(p) PROVE Abstract!Next
  BY <1>3, <1>8 DEF Abstract!Next
<1> QED
  BY <1>5, <1>6, <1>7, <1>8 DEF Next

\* The array implements the double-ended priority queue: the swaps lose and duplicate
\* nothing, and the two ends return a least and a greatest task there is (mmheap.go:29-243).
THEOREM Implements == Spec => ImplementsBuffer
<1>1. Init => Abstract!Init
  <2> SUFFICES ASSUME Init PROVE Abstract!Init
    OBVIOUS
  <2>1. data = <<>> /\ ret = NoPriority
    BY DEF Init
  <2>2. data \in Seq(Priorities)
    BY <2>1
  <2>3. ToBag(data) = Abstract!EmptyBag
    BY <2>1, <2>2, EmptyBagIs
  <2> QED
    BY <2>1, <2>3 DEF Abstract!Init
<1>2. IInv /\ [Next]_vars => [Abstract!Next]_<<ToBag(data), ret>>
  BY NextRefines
<1> QED
  BY <1>1, <1>2, Invariance, PTL DEF Spec, ImplementsBuffer, Abstract!Spec

=============================================================================
