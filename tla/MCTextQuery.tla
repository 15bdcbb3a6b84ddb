---------------------------- MODULE MCTextQuery ----------------------------
(* Small words over two letters, short texts, and an index of three words.  *)
EXTENDS TextQuery

MCWords == UNION {[1..n -> {1, 2}] : n \in 0..4}
MCUrls  == UNION {[1..n -> {1, 2}] : n \in 0..6}

aaa == <<1, 1, 1>>
bbb == <<2, 2, 2>>
aab == <<1, 1, 2>>

MCDocs == [w \in {aaa, bbb, aab} |->
              CASE w = aaa -> {"d1"} [] w = bbb -> {"d1", "d2"} [] w = aab -> {"d3"}]

\* a known word, one near to two others, one to split, one too far from all
MCQueryWords == {aaa, <<1, 1, 3>>, aaa \o bbb, <<1, 3, 3>>}
MCScores     == {<<0, 0>>, <<1, 0>>, <<0, 1>>}

MCPositionLists == UNION {SetToSeqs(S) : S \in SUBSET (1..3)} \cup {<<1, 2, 4>>}

MCOccurrences == UNION {{[k \in 1..n |-> [type |-> t[k], i |-> k]] : t \in [1..n -> {0, 1}]} :
                            n \in 0..5}

MCTexts == [1..4 -> {"WORD", "NUMBER", "WHITESPACE"}]

Spans == {p \in (0..4) \X (0..4) : p[1] < p[2]}
Rule(S, r) == {[start |-> p[1], end |-> p[2], rule |-> r] : p \in S}
Apart(S) == \A p, q \in S : p = q \/ p[2] <= q[1] \/ q[2] <= p[1]

\* one rule matches any spans that do not overlap, the other at most one
MCMatches == {Rule(S, 1) \cup Rule(T, 2) :
                 S \in {U \in SUBSET Spans : Apart(U)},
                 T \in {U \in SUBSET Spans : Cardinality(U) <= 1}}

line(directive, value) == [directive |-> directive, value |-> value]

\* two agents, and paths of which one is a prefix of the other
MCRobotsLines == {line("agent", "*"), line("agent", "other"), line("disallow", <<1>>),
                  line("allow", <<1, 2>>), line("delay", 2)}
=============================================================================
