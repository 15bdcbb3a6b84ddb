--------------------------- MODULE TextAlgorithms ---------------------------
(***************************************************************************)
(* The algorithms behind indexing and search, as operators: the edit       *)
(* distance and the choice of a replacement (spellChecker.go), the         *)
(* distance of query words in a document and the search in its URL         *)
(* (preprocessingFeatures.go), the entries of the inverted index           *)
(* (indexRepos.go), the tokenizer (tokenizer.go) and the parser of         *)
(* robots.txt (robotsTXT.go).                                              *)
(*                                                                         *)
(* A word is a sequence of letters.  Indices start at 1, where the code's  *)
(* start at 0.                                                             *)
(***************************************************************************)
EXTENDS Integers, Sequences, FiniteSets, SequencesExt, FiniteSetsExt

CONSTANTS
    Penalty,       \* a of preprocessingFeatures.go
    MaxInt,        \* math.MaxInt
    CountRange,    \* 2^16, the values of the stored count
    WordRange,     \* 2^32, the values of a stored position
    MaxPositions   \* the positions that are kept of a word in a document

ASSUME TextAssumption ==
    /\ Penalty \in Nat /\ MaxInt \in Nat
    /\ CountRange \in Nat \ {0} /\ WordRange \in Nat \ {0}
    /\ MaxPositions \in Nat /\ MaxPositions < CountRange

-----------------------------------------------------------------------------
(* spellChecker.go                                                         *)

\* mutant: the cell above and to the left is read after it was overwritten
NextRowStale(word1, word2, i, dp) ==
    LET cell[j \in 0 .. Len(word2)] ==
            IF j = 0 THEN i - 1
            ELSE IF word1[i] = word2[j] THEN cell[j - 1]
            ELSE Min({cell[j - 1], dp[j]}) + 1
    IN  [j \in 0 .. Len(word2) |-> cell[j]]

\* dp after the i-th letter of word1; its cell 0 stays one behind
NextRow(word1, word2, i, dp) ==
    LET upLeft(j) == IF j = 1 THEN i - 1 ELSE dp[j - 1]
        cell[j \in 0 .. Len(word2)] ==
            IF j = 0 THEN i - 1
            ELSE IF word1[i] = word2[j] THEN upLeft(j)
            ELSE Min({cell[j - 1], upLeft(j), dp[j]}) + 1
    IN  cell

\* one more letter of word1, unless a row was over the limit
ReadLetter(word1, word2, maxTypo, i, st) ==
    LET row == NextRow(word1, word2, i, st.dp)
    IN  IF st.over THEN st
        ELSE [dp |-> row, over |-> Min(Range(row)) > maxTypo]

levenshteinDistance(word1, word2, maxTypo) ==
    LET l1 == Len(word1)
        l2 == Len(word2)
        after[i \in 0 .. l1] ==
            IF i = 0 THEN [dp |-> [j \in 0 .. l2 |-> j], over |-> FALSE]
            ELSE ReadLetter(word1, word2, maxTypo, i, after[i - 1])
    IN  IF l1 = 0 THEN l2
        ELSE IF l2 = 0 THEN l1
        ELSE IF after[l1].over THEN maxTypo + 1
        ELSE after[l1].dp[l2]

\* The scores are logarithms of counts; their place is taken by natural numbers, and
\* that of the least score 0.00001 by a hundredth.
Context(s1, s2) == Max({100 * (2 * s1 + 3 * s2), 1})

\* 2^(-distance), for distances up to maxTypo, times 2^(maxTypo + 1)
Nearness(distance, maxTypo) ==
    LET power[k \in 0 .. (maxTypo + 1)] == IF k = 0 THEN 1 ELSE 2 * power[k - 1]
    IN  power[maxTypo + 1 - distance]

noisyChannelScore(word1, word2, s, maxTypo) ==
    LET ld == levenshteinDistance(word1, word2, maxTypo)
    IN  [distance |-> ld,
         score |-> IF ld > maxTypo THEN 0
                   ELSE Nearness(ld, maxTypo) * Context(s[1], s[2])]

\* the index of the first of the best, among indices in increasing order
FirstBest(S, Score(_)) ==
    CHOOSE i \in S : /\ \A j \in S : Score(j) <= Score(i)
                     /\ \A j \in S : Score(j) = Score(i) => i <= j

\* mutant: a candidate at the limit of typos is taken as well
NearLoose(orig, candidates, maxTypo) ==
    {i \in DOMAIN candidates : levenshteinDistance(orig, candidates[i], maxTypo) <= maxTypo}

\* the candidates that count as typos of orig
Near(orig, candidates, maxTypo) ==
    {i \in DOMAIN candidates : levenshteinDistance(orig, candidates[i], maxTypo) < maxTypo}

\* the places where orig falls apart into two candidates, of three letters and more
Splits(orig, candidates) ==
    {i \in 3..(Len(orig) - 3) :
        /\ SubSeq(orig, 1, i) \in Range(candidates)
        /\ SubSeq(orig, i + 1, Len(orig)) \in Range(candidates)}

\* the words that replace orig: one candidate, two, or orig itself
BestReplacement(orig, candidates, scores, maxTypo) ==
    LET near == Near(orig, candidates, maxTypo)
        best == FirstBest(near, LAMBDA i :
                    noisyChannelScore(orig, candidates[i], scores[i], maxTypo).score)
        splits == Splits(orig, candidates)
        place(w) == CHOOSE i \in DOMAIN candidates : candidates[i] = w
        part1(i) == SubSeq(orig, 1, i)
        part2(i) == SubSeq(orig, i + 1, Len(orig))
        at == FirstBest(splits, LAMBDA i :
                  Context(scores[place(part1(i))][1], scores[place(part2(i))][2]))
    IN  IF near # {} THEN <<candidates[best]>>
        ELSE IF splits # {} THEN <<part1(at), part2(at)>>
        ELSE <<orig>>

-----------------------------------------------------------------------------
(* preprocessingFeatures.go                                                *)

\* mutant: a position that equals the target is not passed over
HalveLower(arr, target, st) ==
    LET m == (st.l + st.r) \div 2
    IN  IF st.l >= st.r THEN st
        ELSE IF arr[m] < target THEN [l |-> m + 1, r |-> st.r]
        ELSE [l |-> st.l, r |-> m]

\* a pass of the bisection
Halve(arr, target, st) ==
    LET m == (st.l + st.r) \div 2
    IN  IF st.l >= st.r THEN st
        ELSE IF arr[m] <= target THEN [l |-> m + 1, r |-> st.r]
        ELSE [l |-> st.l, r |-> m]

\* the search for the first position after target, if arr is sorted; a pass leaves less
\* than before, so that there are no more of them than positions
bs(arr, target) ==
    LET n == Len(arr)
        left[k \in 0 .. n] ==
            IF k = 0 THEN [l |-> 1, r |-> n + 1] ELSE Halve(arr, target, left[k - 1])
    IN  left[n].l

\* the greedy chain that began at word i goes on to the word k after it, unless it has ended
NextWord(positions, i, k, st) ==
    LET arr == positions[i + k]
        p   == bs(arr, st.last)
    IN  IF st.end # "none" THEN st
        ELSE IF arr = <<>>
        THEN [last |-> st.last, missing |-> Len(positions) - k, end |-> "short"]
        ELSE IF p > Len(arr) THEN [last |-> st.last, missing |-> st.missing, end |-> "lost"]
        ELSE [last |-> arr[p], missing |-> st.missing, end |-> "none"]

\* the cost of the greedy chain from position start of word i on, or MaxInt
ChainCost(positions, i, start) ==
    LET n == Len(positions)
        chain[k \in 0 .. (n - i)] ==
            IF k = 0 THEN [last |-> start, missing |-> i - 1, end |-> "none"]
            ELSE NextWord(positions, i, k, chain[k - 1])
        st == chain[n - i]
    IN  IF st.end = "lost" THEN MaxInt ELSE st.missing * Penalty + st.last - start

getMinQueryDistInDoc(positions) ==
    Min({MaxInt} \cup
        UNION {{ChainCost(positions, i, positions[i][k]) : k \in DOMAIN positions[i]} :
                   i \in DOMAIN positions})

\* mutant: the shift is one too long
shiftFar(word, r) ==
    LET places == {i \in DOMAIN word : word[i] = r}
    IN  IF places = {} THEN Len(word) ELSE Len(word) - Max(places) + 1

\* how far the window moves when its last letter is r and should not be
shift(word, r) ==
    LET places == {i \in DOMAIN word : word[i] = r}
    IN  IF places = {} THEN Len(word) ELSE Max({1, Len(word) - Max(places)})

\* boyerMoorAlgorithm for one word: a window that matches in part moves by its length
boyerMoorFinds(url, word) ==
    LET l == Len(word)
        scan[p \in l..(Len(url) + l)] ==
            IF p > Len(url) THEN FALSE
            ELSE IF url[p] # word[l] THEN scan[p + shift(word, url[p])]
            ELSE SubSeq(url, p - l + 1, p) = word \/ scan[p + l]
    IN  scan[l]

-----------------------------------------------------------------------------
(* indexRepos.go: what is stored for a word of a document                  *)

encPosEntry(t, p) == (2 * p + t) % WordRange

decPosEntry(d) == [type |-> d % 2, i |-> d \div 2]

\* the buffer has room for twice the positions
marshalWCP(wcp) ==
    LET n == Len(wcp.positions)
    IN  [count |-> wcp.count % CountRange,
         data  |-> [k \in 1..(2 * n) |->
                      IF k <= n
                      THEN encPosEntry(wcp.positions[k].type, wcp.positions[k].i)
                      ELSE 0]]

unmarshalWCP(v) ==
    [count |-> v.count,
     positions |-> [k \in 1..Min({v.count, MaxPositions}) |-> decPosEntry(v.data[k])]]

\* mutant: fewer positions are kept than are read back
StoredEntryShort(occurrences) ==
    marshalWCP([count |-> Len(occurrences),
                positions |-> SubSeq(occurrences, 1, Min({Len(occurrences), MaxPositions - 1}))])

\* IndexDocumentWords for one word: the count of all occurrences, and the first positions
StoredEntry(occurrences) ==
    marshalWCP([count |-> Len(occurrences),
                positions |-> SubSeq(occurrences, 1, Min({Len(occurrences), MaxPositions}))])

\* HandleTextQuery joins the entries of the two words that replace one
Joined(wcp1, wcp2) ==
    [count |-> wcp1.count + wcp2.count, positions |-> wcp1.positions \o wcp2.positions]

\* the positions that Search looks at for a word in a header
HeaderScan(wcp) == 1..Min({wcp.count, MaxPositions})

-----------------------------------------------------------------------------
(* tokenizer.go: a text is given by the types of its runes, a token by its *)
(* type and its place [start, end), from 0                                 *)

token(type, start, end) == [type |-> type, start |-> start, end |-> end]

\* the token being read is put out, unless it is white space
Flush(st) ==
    IF st.len > 0 /\ st.type # "WHITESPACE"
    THEN Append(st.tokens, token(st.type, st.start, st.start + st.len))
    ELSE st.tokens

\* the rune at place p, from 1, is read: one more of the token, or the first of the next
ReadRune(text, p, st) ==
    IF st.len = 0
    THEN [st EXCEPT !.len = 1, !.type = text[p]]
    ELSE IF st.type = text[p]
    THEN [st EXCEPT !.len = @ + 1]
    ELSE [tokens |-> Flush(st), type |-> text[p], start |-> st.start + st.len, len |-> 1]

fragmentTokenize(text, from, to) ==
    LET read[k \in 0 .. to - from] ==
            IF k = 0 THEN [tokens |-> <<>>, type |-> "UNKNOWN", start |-> from, len |-> 0]
            ELSE ReadRune(text, from + k, read[k - 1])
    IN  Flush(read[to - from])

\* by start, the shorter first, and by the order of the rules
Before(t1, t2) ==
    \/ t1.start < t2.start
    \/ t1.start = t2.start /\ t1.end < t2.end
    \/ t1.start = t2.start /\ t1.end = t2.end /\ t1.rule < t2.rule

FirstOf(matches) == CHOOSE m \in matches : \A x \in matches \ {m} : Before(m, x)

\* mutant: an entity that begins where another ends is left out
SelectNextApart(st) ==
    LET m == FirstOf(st.left)
    IN  [left |-> st.left \ {m},
         selected |-> IF st.selected = <<>> \/ m.start > Last(st.selected).end
                      THEN Append(st.selected, m) ELSE st.selected]

\* the next match is chosen if it begins where the last one chosen has ended, or later
SelectNext(st) ==
    LET m == FirstOf(st.left)
    IN  [left |-> st.left \ {m},
         selected |-> IF st.selected = <<>> \/ m.start >= Last(st.selected).end
                      THEN Append(st.selected, m) ELSE st.selected]

selectedEntityTokens(matches) ==
    LET n == Cardinality(matches)
        after[k \in 0 .. n] ==
            IF k = 0 THEN [left |-> matches, selected |-> <<>>] ELSE SelectNext(after[k - 1])
    IN  after[n].selected

\* the text before an entity, and the entity
PutEntity(text, e, st) ==
    [tokens |-> st.tokens \o fragmentTokenize(text, st.pos, e.start)
                  \o <<token("ENTITY", e.start, e.end)>>,
     pos |-> e.end]

entityTokenize(text, matches) ==
    LET entities == selectedEntityTokens(matches)
        put[k \in 0 .. Len(entities)] ==
            IF k = 0 THEN [tokens |-> <<>>, pos |-> 0]
            ELSE PutEntity(text, entities[k], put[k - 1])
        st == put[Len(entities)]
    IN  st.tokens \o fragmentTokenize(text, st.pos, Len(text))

-----------------------------------------------------------------------------
(* robotsTXT.go: a file is a sequence of lines, each a directive and its   *)
(* value; what is kept is a rule for each agent                            *)

NoRule == [allow |-> <<>>, disallow |-> <<>>, delay |-> 0]

\* the rule being read takes the line
AddLine(rule, line) ==
    CASE line.directive = "allow"    -> [rule EXCEPT !.allow = Append(@, line.value)]
      [] line.directive = "disallow" -> [rule EXCEPT !.disallow = Append(@, line.value)]
      [] line.directive = "delay"    -> [rule EXCEPT !.delay = line.value]

NothingRead == [rule |-> NoRule, rules |-> <<>>]

\* the rules with that of one agent stored
Store(rules, agent, rule) ==
    [g \in DOMAIN rules \cup {agent} |-> IF g = agent THEN rule ELSE rules[g]]

\* mutant: every line that names an agent begins a new rule
ReadLineAnew(st, line) ==
    IF line.directive = "agent"
    THEN [rule |-> NoRule, rules |-> Store(st.rules, line.value, NoRule)]
    ELSE IF st.rules = <<>> THEN st
    ELSE [st EXCEPT !.rule = AddLine(@, line)]

\* A line that names an agent stores a copy of the rule being read, a new one if the agent
\* is new; the lines that follow are added to the rule being read and not to the copy.
\* Before the first agent lines are passed over.
ReadLine(st, line) ==
    LET cur == IF line.value \in DOMAIN st.rules THEN st.rule ELSE NoRule
    IN  IF line.directive = "agent"
        THEN [rule |-> cur, rules |-> Store(st.rules, line.value, cur)]
        ELSE IF st.rules = <<>> THEN st
        ELSE [st EXCEPT !.rule = AddLine(@, line)]

ParseRobotsTxt(lines) ==
    LET read[k \in 0 .. Len(lines)] ==
            IF k = 0 THEN NothingRead ELSE ReadLine(read[k - 1], lines[k])
    IN  read[Len(lines)].rules

\* what is not disallowed is allowed, listed or not
IsAllowed(rules, agent, path) ==
    agent \in DOMAIN rules =>
        \A k \in DOMAIN rules[agent].disallow : ~IsPrefix(rules[agent].disallow[k], path)
=============================================================================
