------------------------------ MODULE TextQuery ------------------------------
(***************************************************************************)
(* A search: HandleTextQuery (wordHandling.go) goes through the tokens of  *)
(* the query and corrects the words that no document has; Search           *)
(* (searcher.go) ranks with what the entries of the index hold.            *)
(*                                                                         *)
(* Beside the queries, single calls of the algorithms of TextAlgorithms on *)
(* all small inputs, to compare them with what they should compute.        *)
(***************************************************************************)
EXTENDS TextAlgorithms

CONSTANTS
    Docs,          \* the documents that have a word, by its stem: words |-> documents
    QueryWords,    \* words that queries are made of
    MaxTokens,     \* bound: tokens of a query
    MaxCandidates, \* bound: candidates for a correction
    maxTypo,
    Scores,        \* the scores that a candidate can have
    Words,         \* inputs of the edit distance
    PositionLists, \* inputs of the ranking: the positions of one word
    Urls,          \* URLs searched for words
    Occurrences,   \* the places of a word in a document
    Texts, Matches, \* inputs of the tokenizer
    RobotsLines,   \* the lines of robots.txt files
    MaxLines       \* bound: their number in a file

ASSUME QueryAssumption ==
    /\ IsFiniteSet(DOMAIN Docs)
    /\ MaxTokens \in Nat /\ MaxCandidates \in Nat /\ maxTypo \in Nat
    /\ MaxLines \in Nat
    \* a position fits into a word, beside its type of one bit
    /\ \A o \in Occurrences :
         /\ o \in Seq(Range(o))
         /\ \A k \in DOMAIN o : /\ o[k] = [type |-> o[k].type, i |-> o[k].i]
                                /\ o[k].type \in {0, 1} /\ o[k].i \in Nat
                                /\ 2 * o[k].i + 1 < WordRange
    /\ \A w \in Words \cup Urls \cup QueryWords \cup DOMAIN Docs : w \in Seq(Range(w))
    /\ Scores \in SUBSET (Nat \X Nat)
    /\ PositionLists \in SUBSET Seq(Nat)
    \* a match lies in its text
    /\ \A t \in Texts : t \in Seq(Range(t))
    /\ \A ms \in Matches : /\ IsFiniteSet(ms)
                           /\ ms \in SUBSET [start : Nat, end : Nat, rule : Nat]
                           /\ \A m \in ms : m.start < m.end
                           /\ \A m \in ms : \A t \in Texts : m.end <= Len(t)
    /\ \A l \in RobotsLines : l.directive \in {"agent", "allow", "disallow", "delay"}

VARIABLES
    stemmed,    \* the tokens of the query
    words,      \* its words, corrected so far
    lenWords,
    i, wordPos,
    found,      \* for each token handled, the words it stands for, and their documents
    call        \* a call of an algorithm, and its result

queryVars == <<stemmed, words, lenWords, i, wordPos, found, call>>

NoCall == [op |-> "none"]

QueryInit ==
    /\ stemmed = <<>> /\ words = <<>> /\ lenWords = 0
    /\ i = 1 /\ wordPos = 1
    /\ found = <<>> /\ call = NoCall

AtRest == stemmed = <<>> /\ call = NoCall

-----------------------------------------------------------------------------
(* HandleTextQuery                                                         *)

Number == [type |-> "NUMBER", orig |-> <<>>]
Word(w) == [type |-> "WORD", orig |-> w]

DocsOf(w) == IF w \in DOMAIN Docs THEN Docs[w] ELSE {}

\* TokenizeAndStem: every token that is a word has its original in words
Originals(ts) ==
    LET collected[k \in 0 .. Len(ts)] ==
            IF k = 0 THEN <<>>
            ELSE IF ts[k].type = "WORD" THEN Append(collected[k - 1], ts[k].orig)
            ELSE collected[k - 1]
    IN  collected[Len(ts)]

Ask ==
    /\ AtRest
    /\ \E n \in 1..MaxTokens :
         \E ts \in [1..n -> {Number} \cup {Word(w) : w \in QueryWords}] :
            /\ stemmed' = ts
            /\ words' = Originals(ts)
            /\ lenWords' = Len(Originals(ts))
    /\ i' = 1 /\ wordPos' = 1 /\ found' = <<>>
    /\ UNCHANGED call

HasToken == i <= Len(stemmed)
Wrong(t) == t.type = "WORD" /\ DocsOf(t.orig) = {}

\* a token that needs no correction: documents have it, or it is not a word
Keep ==
    /\ HasToken /\ ~Wrong(stemmed[i])
    /\ found' = Append(found, [by |-> <<stemmed[i].orig>>, docs |-> DocsOf(stemmed[i].orig)])
    /\ wordPos' = IF stemmed[i].type = "WORD" THEN wordPos + 1 ELSE wordPos
    /\ i' = i + 1
    /\ UNCHANGED <<stemmed, words, lenWords, call>>

\* GetWordsByTGrams: the candidates are words of the index, in some order
CandidateLists ==
    UNION {SetToSeqs(C) : C \in {D \in SUBSET (DOMAIN Docs) : Cardinality(D) <= MaxCandidates}}

\* what BestReplacement can make of a word, as candidates and scores may be
Replacements ==
    [w \in QueryWords \cup DOMAIN Docs |->
        UNION {{BestReplacement(w, cs, sc, maxTypo) : sc \in [DOMAIN cs -> Scores]} :
                   cs \in CandidateLists}]

\* mutant: wordPos is not moved to the second of the two words
CorrectBehind ==
    /\ HasToken /\ Wrong(stemmed[i])
    /\ \E by \in Replacements[words[wordPos]] :
         /\ words' = SubSeq(words, 1, wordPos - 1) \o by \o SubSeq(words, wordPos + 1, Len(words))
         /\ lenWords' = lenWords + Len(by) - 1
         /\ found' = Append(found, [by |-> by, docs |-> UNION {DocsOf(w) : w \in Range(by)}])
    /\ wordPos' = wordPos + 1
    /\ i' = i + 1
    /\ UNCHANGED <<stemmed, call>>

\* A word that no document has is replaced, by two words sometimes; words of the index
\* are no stop words, so their stems are not empty.
Correct ==
    /\ HasToken /\ Wrong(stemmed[i])
    /\ \E by \in Replacements[words[wordPos]] :
         /\ words' = SubSeq(words, 1, wordPos - 1) \o by \o SubSeq(words, wordPos + 1, Len(words))
         /\ lenWords' = lenWords + Len(by) - 1
         /\ found' = Append(found, [by |-> by, docs |-> UNION {DocsOf(w) : w \in Range(by)}])
         /\ wordPos' = wordPos + Len(by)
    /\ i' = i + 1
    /\ UNCHANGED <<stemmed, call>>

Answer ==
    /\ stemmed # <<>> /\ ~HasToken
    /\ stemmed' = <<>> /\ words' = <<>> /\ lenWords' = 0
    /\ i' = 1 /\ wordPos' = 1
    /\ found' = <<>>
    /\ UNCHANGED call

-----------------------------------------------------------------------------
(* Single calls                                                            *)

Call(c) ==
    /\ call' = c
    /\ UNCHANGED <<stemmed, words, lenWords, i, wordPos, found>>

Compare ==
    /\ AtRest
    /\ \E w1, w2 \in Words :
         Call([op |-> "distance", word1 |-> w1, word2 |-> w2,
               result |-> levenshteinDistance(w1, w2, maxTypo)])

Replace ==
    /\ AtRest
    /\ \E w \in QueryWords : \E cs \in CandidateLists : \E sc \in [DOMAIN cs -> Scores] :
         Call([op |-> "replace", orig |-> w, candidates |-> cs, scores |-> sc,
               result |-> BestReplacement(w, cs, sc, maxTypo)])

Rank ==
    /\ AtRest
    /\ \E p1, p2, p3 \in PositionLists :
         Call([op |-> "proximity", positions |-> <<p1, p2, p3>>,
               result |-> getMinQueryDistInDoc(<<p1, p2, p3>>)])

Find ==
    /\ AtRest
    /\ \E u \in Urls : \E w \in Words \ {<<>>} :
         Call([op |-> "find", url |-> u, word |-> w, result |-> boyerMoorFinds(u, w)])

ReadBack ==
    /\ AtRest
    /\ \E o1, o2 \in Occurrences :
         LET e1 == unmarshalWCP(StoredEntry(o1))
             e2 == unmarshalWCP(StoredEntry(o2))
         IN  Call([op |-> "entry", occurrences |-> o1, result |-> e1,
                   joined |-> Joined(e1, e2)])

Tokenize ==
    /\ AtRest
    /\ \E t \in Texts : \E ms \in Matches :
         Call([op |-> "tokenize", text |-> t, matches |-> ms,
               result |-> entityTokenize(t, ms)])

ReadRobots ==
    /\ AtRest
    /\ \E n \in 0..MaxLines : \E lines \in [1..n -> RobotsLines] :
         LET rules == ParseRobotsTxt(lines)
         IN  Call([op |-> "robots", lines |-> lines, result |-> rules,
                   forbidden |-> {path \in Urls : ~IsAllowed(rules, "*", path)}])

CallReturns ==
    /\ call # NoCall /\ call' = NoCall
    /\ UNCHANGED <<stemmed, words, lenWords, i, wordPos, found>>

QueryNext ==
    \/ Ask \/ Keep \/ Correct \/ Answer
    \/ Compare \/ Replace \/ Rank \/ Find \/ ReadBack \/ Tokenize
    \/ ReadRobots \/ CallReturns

QuerySpec == QueryInit /\ [][QueryNext]_queryVars

-----------------------------------------------------------------------------
(* What the algorithms should compute                                      *)

\* The ways to let some of n places face some of m, in order
Alignments(n, m) ==
    {f \in UNION {[A -> 1 .. m] : A \in SUBSET (1 .. n)} :
        \A x, y \in DOMAIN f : x < y => f[x] < f[y]}

\* The least cost of an alignment: letters that face each other cost 1 where they differ;
\* every other letter costs 1.
EditDistance(u, v) ==
    LET cost(f) == Len(u) + Len(v) - 2 * Cardinality(DOMAIN f)
                     + Cardinality({k \in DOMAIN f : u[k] # v[f[k]]})
    IN  Min({cost(f) : f \in Alignments(Len(u), Len(v))})

\* The chains of increasing positions of the words from..to
Chains(positions, from, to) ==
    {f \in [from..to -> UNION {Range(positions[j]) : j \in from..to}] :
        /\ \A j \in from..to : f[j] \in Range(positions[j])
        /\ \A j \in from..(to - 1) : f[j] < f[j + 1]}

\* The costs of the chains that reach the last word
WholeCosts(positions, from) ==
    LET n == Len(positions)
    IN  {(from - 1) * Penalty + f[n] - f[from] : f \in Chains(positions, from, n)}

\* The costs of those before a word that the document has not
ShortCosts(positions, from, to) ==
    {(Len(positions) - (to + 1 - from)) * Penalty + f[to] - f[from] :
        f \in Chains(positions, from, to)}

\* Where a chain that ends before a word that the document has not can begin and end
Breaks(positions) ==
    {q \in (1..Len(positions)) \X (1..(Len(positions) - 1)) :
        q[1] <= q[2] /\ positions[q[2] + 1] = <<>>}

\* The costs of all chains, that begin at any word.
ChainCosts(positions) ==
    LET n == Len(positions)
    IN  (UNION {WholeCosts(positions, from) : from \in 1..n})
          \cup (UNION {ShortCosts(positions, p[1], p[2]) : p \in Breaks(positions)})

Increasing(q) == \A k \in 1..(Len(q) - 1) : q[k] < q[k + 1]

\* The lines that reach the rule of an agent: those between the last line that names it
\* and the latest line before that which names an agent for the first time.
KeptLines(lines, agent) ==
    LET Names(k, g) == lines[k].directive = "agent" /\ lines[k].value = g
        last == Max({k \in DOMAIN lines : Names(k, agent)})
        first == Max({k \in 1..last : /\ lines[k].directive = "agent"
                                     /\ \A m \in 1..(k - 1) : ~Names(m, lines[k].value)})
    IN  SubSeq(lines, first, last)

\* the values of the lines with a directive, in their order
Values(lines, directive) ==
    LET taken[k \in 0 .. Len(lines)] ==
            IF k = 0 THEN <<>>
            ELSE IF lines[k].directive = directive THEN Append(taken[k - 1], lines[k].value)
            ELSE taken[k - 1]
    IN  taken[Len(lines)]

OccursIn(w, u) == \E k \in 0..(Len(u) - Len(w)) : SubSeq(u, k + 1, k + Len(w)) = w

-----------------------------------------------------------------------------
(* Properties                                                              *)

\* The walk of HandleTextQuery over the tokens and its walk over the words stay together,
\* whatever was replaced by one word or by two before: wordPos is at the word of token i,
\* lenWords bounds the access to its neighbours, and Search gets one set per token.
QueryAligned ==
    /\ lenWords = Len(words)
    /\ HasToken /\ stemmed[i].type = "WORD"
         => wordPos <= lenWords /\ words[wordPos] = stemmed[i].orig
    /\ Len(found) = i - 1

\* BestReplacement takes a best candidate among those at a distance below maxTypo; only if
\* there is none it splits the word, into two candidates; else it leaves the word alone.
ReplacementBest ==
    call.op = "replace" =>
        LET cs == call.candidates
            dist(k) == EditDistance(call.orig, cs[k])
            score(k) == Nearness(dist(k), maxTypo) * Context(call.scores[k][1], call.scores[k][2])
            near == {k \in DOMAIN cs : dist(k) < maxTypo}
        IN  CASE near # {} -> \E k \in near : /\ call.result = <<cs[k]>>
                                              /\ \A m \in near : score(m) <= score(k)
              [] near = {} /\ Len(call.result) = 2 ->
                    /\ call.result[1] \o call.result[2] = call.orig
                    /\ Range(call.result) \subseteq Range(cs)
              [] OTHER -> call.result = <<call.orig>> /\ Splits(call.orig, cs) = {}

\* levenshteinDistance, with one row, a first cell that lags behind and an early end, is
\* the edit distance as long as that is at most maxTypo, and above maxTypo otherwise.
DistanceExact ==
    call.op = "distance" =>
        LET d == EditDistance(call.word1, call.word2)
        IN  IF d <= maxTypo THEN call.result = d ELSE call.result > maxTypo

\* getMinQueryDistInDoc returns the cost of a chain of the document, or MaxInt, even on the
\* unsorted lists that the joined entries of a split word have; on sorted ones the least.
ProximityRight ==
    call.op = "proximity" =>
        LET costs == ChainCosts(call.positions) \cup {MaxInt}
        IN  /\ call.result \in costs
            /\ (\A k \in 1..3 : Increasing(call.positions[k])) => call.result = Min(costs)

\* boyerMoorAlgorithm counts only words that the URL has, and no such word is missed whose
\* last letter occurs once in it.
FindRight ==
    call.op = "find" =>
        LET w == call.word
        IN  /\ call.result => OccursIn(w, call.url)
            /\ OccursIn(w, call.url) /\ (\A k \in 1..(Len(w) - 1) : w[k] # Last(w)) => call.result

\* An entry read back holds the first positions of the word, and its count unless 16 bits
\* are too few; Search's scan for headers stays inside it, also when two are joined.
EntryReadBack ==
    call.op = "entry" =>
        LET n == Len(call.occurrences)
            r == call.result
        IN  /\ r.positions = SubSeq(call.occurrences, 1, Len(r.positions))
            /\ n < CountRange => r.count = n /\ Len(r.positions) = Min({n, MaxPositions})
            /\ \A e \in {r, call.joined} : HeaderScan(e) \subseteq DOMAIN e.positions

Covers(t, p) == t.start <= p /\ p < t.end

\* entityTokenize cuts the text into tokens in order: outside of entities maximal runs of
\* one type without the white space; and a match is given up only for an entity that
\* begins no later and overlaps it.
TokensTile ==
    call.op = "tokenize" =>
        LET ts == call.result
            entity(k) == ts[k].type = "ENTITY"
        IN  /\ \A k \in 1..(Len(ts) - 1) :
                  /\ ts[k].end <= ts[k + 1].start
                  /\ ts[k].end = ts[k + 1].start /\ ts[k].type = ts[k + 1].type => entity(k)
            /\ \A p \in 0..(Len(call.text) - 1) :
                  \/ \E k \in DOMAIN ts : /\ Covers(ts[k], p)
                                          /\ entity(k) \/ ts[k].type = call.text[p + 1]
                  \/ /\ call.text[p + 1] = "WHITESPACE"
                     /\ \A k \in DOMAIN ts : ~Covers(ts[k], p)
            /\ \A m \in call.matches : \E k \in DOMAIN ts :
                  /\ entity(k) /\ ts[k].start <= m.start /\ Covers(ts[k], m.start)
                  /\ ts[k].start = m.start => ts[k].end <= m.end

\* ParseRobotsTxt keeps of a file what KeptLines says: nothing where each agent is named
\* once, and where one is named again the lines of the group being read, be they another
\* agent's (robotsTXT.go:45-49).  A link is refused exactly if a path disallowed there is
\* a prefix of its own.
RobotsKept ==
    call.op = "robots" =>
        LET agents == Range(Values(call.lines, "agent"))
            group(g) == KeptLines(call.lines, g)
            rule(g) == call.result[g]
        IN  /\ DOMAIN call.result = agents
            /\ \A g \in agents :
                  /\ rule(g).allow = Values(group(g), "allow")
                  /\ rule(g).disallow = Values(group(g), "disallow")
                  /\ LET delays == Values(group(g), "delay")
                     IN  rule(g).delay = IF delays = <<>> THEN 0 ELSE Last(delays)
            /\ call.forbidden =
                 IF "*" \notin agents THEN {}
                 ELSE {path \in Urls :
                         \E d \in Range(Values(group("*"), "disallow")) : IsPrefix(d, path)}
=============================================================================
