---------------------------- MODULE CrawlerProofs ----------------------------
(***************************************************************************)
(* Proofs about the crawl, for any web, any start URLs, any number of      *)
(* workers and any capacity of the cache, with evictions, cancellations    *)
(* and restarts.                                                           *)
(***************************************************************************)
EXTENDS Crawler, Induction, SequenceTheorems, TLAPS

TokenType == [page : Pages, depth : 0 .. MaxDepth]

\* an entry of the cache
EntryType == [page : Pages, links : Seq(DOMAIN tokens) \ {<<>>}]

\* tokens, in memory and on the disk
MemTypes ==
    /\ tokens \in Seq(TokenType) /\ disk \in Seq(TokenType)
    /\ BagToSet(queue) \subseteq DOMAIN tokens

\* the maps and the cache
MapTypes ==
    /\ DOMAIN visited \subseteq Pages /\ DOMAIN dbVisited \subseteq Pages
    /\ lru \in Seq(EntryType) /\ Len(lru) <= LruCapacity

\* a saved list of links is never empty
ListTypes ==
    /\ DOMAIN db \subseteq Pages
    /\ \A p \in DOMAIN db : db[p] \in Seq(Pages) /\ db[p] # <<>>

\* where the workers are, and what they hold
WorkTypes ==
    /\ pc \in [Workers -> Labels] /\ DOMAIN cur = Workers /\ DOMAIN list = Workers
    /\ \A w \in Workers :
        /\ pc[w] = "idle" => cur[w] = 0
        /\ pc[w] # "idle" => cur[w] \in DOMAIN tokens
        /\ list[w] \in Seq(DOMAIN tokens)
        /\ pc[w] = "submit" => list[w] # <<>>

\* a session ends when it is cancelled, with nothing queued
EndInv ==
    /\ todo \subseteq Pages /\ cancelled \in BOOLEAN /\ closed \in BOOLEAN
    /\ closed => cancelled /\ BagToSet(queue) = {}

\* who fetches a page has marked it as visited, and nobody fetches it besides
FetchInv ==
    /\ fetches \in [Pages -> {0, 1}]
    /\ \A p \in Pages : fetches[p] = 1 => p \in DOMAIN visited
    /\ \A w \in Workers : At(w, "fetch") =>
         /\ Page(w) \in DOMAIN visited /\ fetches[Page(w)] = 0
         /\ \A v \in Workers \ {w} : At(v, "fetch") => Page(v) # Page(w)

\* pages that are settled, or whose own token is under way
Placed ==
    DOMAIN visited \cup given
      \cup PagesOf(BagToSet(queue))
      \cup {disk[i].page : i \in DOMAIN disk}
      \cup {Page(w) : w \in {v \in Workers : pc[v] \in Before}}

\* and those that a worker has still to submit as links of p
Reached(p) ==
    Placed \cup UNION {PagesOf(ToSet(list[w])) : w \in {v \in Workers : At(v, "submit") /\ Page(v) = p}}

\* the links of a page are followed from that page: what another worker holds does not count
CoverInv == \A p \in DOMAIN db \ cut : ToSet(db[p]) \subseteq Reached(p)

IInv ==
    /\ MemTypes /\ MapTypes /\ ListTypes /\ WorkTypes /\ EndInv
    /\ FetchInv /\ CoverInv

-----------------------------------------------------------------------------
(* Sequences and bags                                                      *)

\* what is kept of a sequence is a sequence of its elements
LEMMA KeptIsSeq ==
    ASSUME NEW S, NEW q \in Seq(S), NEW keep, NEW n \in 0 .. Len(q)
    PROVE  Kept(q, keep, n) \in Seq(S)
<1> DEFINE Longer(k, r) == IF q[k] \in keep THEN Append(r, q[k]) ELSE r
           Def(g, m) == g = [k \in 0 .. m |-> IF k = 0 THEN <<>> ELSE Longer(k, g[k - 1])]
<1>1. n \in Nat /\ Len(q) \in Nat
  OBVIOUS
<1>2. \A m \in 0 .. n : \E g : Def(g, m)
  <2> DEFINE Bad == {m \in 0 .. n : ~ \E g : Def(g, m)}
  <2>1. SUFFICES ASSUME Bad # {} PROVE FALSE
    OBVIOUS
  <2>2. PICK m \in Bad : \A l \in Bad : m <= l
    <3>1. Bad \subseteq Nat
      BY <1>1
    <3> HIDE DEF Bad
    <3> QED
      BY <2>1, <3>1, LeastNumber
  <2> HIDE DEF Longer
  <2>3. m # 0
    <3>1. Def([k \in 0 .. 0 |-> <<>>], 0)
      OBVIOUS
    <3> QED
      BY <3>1
  <2>4. m - 1 \in 0 .. n /\ m - 1 \notin Bad
    <3>1. m \in 0 .. n
      OBVIOUS
    <3>2. m - 1 \in 0 .. n
      BY <3>1, <2>3, <1>1
    <3> HIDE DEF Bad
    <3> QED
      BY <1>1, <2>2, <3>1, <3>2
  <2>5. PICK g : Def(g, m - 1)
    BY <2>4
  <2>6. Def([k \in 0 .. m |-> IF k = m THEN Longer(m, g[m - 1]) ELSE g[k]], m)
    BY <1>1, <2>3, <2>5
  <2> QED
    BY <2>6
<1> DEFINE kept == CHOOSE g : Def(g, n)
<1>3. Def(kept, n)
  <2>1. \E g : Def(g, n)
    <3> HIDE DEF Def
    <3> QED
      BY <1>1, <1>2
  <2> QED
    BY <2>1, Zenon
<1>4. Kept(q, keep, n) = kept[n]
  BY DEF Kept
<1> HIDE DEF kept
<1>5. \A m \in 0 .. n : kept[m] \in Seq(S)
  <2> DEFINE Bad == {m \in 0 .. n : kept[m] \notin Seq(S)}
  <2>1. SUFFICES ASSUME Bad # {} PROVE FALSE
    OBVIOUS
  <2>2. PICK m \in Bad : \A l \in Bad : m <= l
    <3>1. Bad \subseteq Nat
      BY <1>1
    <3> HIDE DEF Bad
    <3> QED
      BY <2>1, <3>1, LeastNumber
  <2>3. kept[0] = <<>> /\ kept[0] \in Seq(S)
    BY <1>1, <1>3
  <2>4. m \in 0 .. n /\ m # 0
    BY <2>3
  <2>5. m - 1 \in 0 .. n /\ m - 1 \notin Bad
    <3>1. m - 1 \in 0 .. n
      BY <1>1, <2>4
    <3> HIDE DEF Bad
    <3> QED
      BY <1>1, <2>2, <2>4, <3>1
  <2>6. kept[m] = Longer(m, kept[m - 1])
    <3> HIDE DEF Longer
    <3> QED
      BY <1>1, <1>3, <2>4
  <2>7. q[m] \in S /\ kept[m - 1] \in Seq(S)
    BY <1>1, <2>4, <2>5
  <2>8. Longer(m, kept[m - 1]) \in Seq(S)
    BY <2>7
  <2> QED
    BY <2>6, <2>8
<1> QED
  BY <1>1, <1>4, <1>5

\* a sequence of elements of a smaller set
LEMMA SeqGrows ==
    ASSUME NEW S, NEW T, S \subseteq T, NEW q \in Seq(S)
    PROVE  q \in Seq(T)
  OBVIOUS

\* the set of a bag that gets or gives one element
LEMMA BagFacts ==
    ASSUME NEW b, NEW x
    PROVE  /\ BagToSet(BagAdd(b, x)) = BagToSet(b) \cup {x}
           /\ BagToSet(BagRemove(b, x)) \subseteq BagToSet(b)
           /\ BagToSet(b) \ {x} \subseteq BagToSet(BagRemove(b, x))
           /\ BagToSet(EmptyBag) = {}
  BY DEF BagToSet, BagAdd, BagRemove, EmptyBag, SetToBag

\* Get and Put keep the cache a sequence of entries, not longer than its capacity
LEMMA GetKeeps ==
    ASSUME NEW E, NEW c \in Seq(E), NEW p, Cached(c, p)
    PROVE  /\ Entry(c, p) \in E
           /\ Get(c, p) \in Seq(E) /\ Len(Get(c, p)) = Len(c)
<1>1. Place(c, p) \in DOMAIN c
  BY DEF Place, Cached
<1>2. Entry(c, p) \in E
  BY <1>1 DEF Entry
<1>3. Without(c, p) \in Seq(E) /\ Len(Without(c, p)) = Len(c) - 1
  BY <1>1 DEF Without, RemoveAt
<1> QED
  BY <1>2, <1>3 DEF Get

\* and Put does not let it grow over the capacity
LEMMA PutKeeps ==
    ASSUME NEW E, NEW c \in Seq(E), Len(c) <= LruCapacity, NEW p, NEW l,
           [page |-> p, links |-> l] \in E
    PROVE  Put(c, p, l) \in Seq(E) /\ Len(Put(c, p, l)) <= LruCapacity
<1> DEFINE rest == Without(c, p)
           kept == IF Len(rest) = LruCapacity THEN Front(rest) ELSE rest
           e == [page |-> p, links |-> l]
<1>1. LruCapacity \in Nat \ {0}
  BY CrawlerAssumption DEF CrawlerAssumption
<1>2. rest \in Seq(E) /\ Len(rest) <= LruCapacity
  <2>1. CASE Cached(c, p)
    <3>1. Place(c, p) \in DOMAIN c
      BY <2>1 DEF Place, Cached
    <3> QED
      BY <1>1, <2>1, <3>1 DEF Without, RemoveAt
  <2>2. CASE ~Cached(c, p)
    BY <2>2 DEF Without
  <2> QED
    BY <2>1, <2>2
<1> HIDE DEF rest
<1>3. kept \in Seq(E) /\ Len(kept) <= LruCapacity - 1
  BY <1>1, <1>2 DEF Front
<1>4. Put(c, p, l) = <<e>> \o kept
  BY DEF Put, rest
<1> HIDE DEF kept, e
<1>5. e \in E
  BY DEF e
<1>6. <<e>> \o kept \in Seq(E) /\ Len(<<e>> \o kept) = Len(kept) + 1
  BY <1>3, <1>5
<1> QED
  BY <1>1, <1>3, <1>4, <1>6

-----------------------------------------------------------------------------
(* Tokens                                                                  *)

\* a step that is no restart
Move ==
    \/ \E w \in Workers : WorkerStep(w)
    \/ \E p \in Pages : Dispatch(p)
    \/ \E x \in BagToSet(queue) : Spill(x)
    \/ TickPop \/ Cancel \/ EndSession
    \/ UNCHANGED vars

\* the tokens in memory keep their pages
Grown ==
    /\ tokens' \in Seq(TokenType)
    /\ DOMAIN tokens \subseteq DOMAIN tokens'
    /\ \A x \in DOMAIN tokens : tokens'[x].page = tokens[x].page

\* what the assumptions say of the constants
LEMMA Constants ==
    /\ Links \in [Pages -> Seq(Pages)] /\ Starts \subseteq Pages
    /\ LruCapacity \in Nat \ {0} /\ MaxDepth \in Nat
  BY CrawlerAssumption DEF CrawlerAssumption

\* the elements of two sequences in a row
LEMMA ConcatFacts ==
    ASSUME NEW S, NEW q \in Seq(S), NEW r \in Seq(S)
    PROVE  /\ q \o r \in Seq(S) /\ Len(q \o r) = Len(q) + Len(r)
           /\ \A x \in DOMAIN q : (q \o r)[x] = q[x]
           /\ \A i \in 1 .. Len(r) : (q \o r)[Len(q) + i] = r[i]
  OBVIOUS

\* new tokens come after those there are
LEMMA AllocGrows ==
    ASSUME MemTypes, NEW ps \in Seq(Pages), tokens' = Alloc(ps)
    PROVE  /\ Grown
           /\ Pointers(ps) \in Seq(DOMAIN tokens') /\ DOMAIN Pointers(ps) = DOMAIN ps
           /\ ps # <<>> => Pointers(ps) # <<>>
           /\ \A i \in DOMAIN ps : tokens'[Pointers(ps)[i]].page = ps[i]
<1> DEFINE new == [i \in DOMAIN ps |-> Token(ps[i], 0)]
<1>1. tokens \in Seq(TokenType) /\ Len(tokens) \in Nat
  BY DEF MemTypes
<1>2. new \in Seq(TokenType) /\ Len(new) = Len(ps)
  <2>1. \A i \in DOMAIN ps : Token(ps[i], 0) \in TokenType
    BY Constants DEF Token, TokenType
  <2> QED
    BY <2>1
<1>3. \A i \in DOMAIN ps : new[i].page = ps[i]
  BY DEF Token
<1> HIDE DEF new
<1>4. tokens' = tokens \o new
  BY DEF Alloc, new
<1>5. /\ tokens' \in Seq(TokenType) /\ Len(tokens') = Len(tokens) + Len(ps)
      /\ \A x \in DOMAIN tokens : tokens'[x] = tokens[x]
      /\ \A i \in DOMAIN ps : tokens'[Len(tokens) + i] = new[i]
  <2>1. tokens' \in Seq(TokenType) /\ Len(tokens') = Len(tokens) + Len(ps)
    <3>1. tokens \o new \in Seq(TokenType) /\ Len(tokens \o new) = Len(tokens) + Len(new)
      BY <1>1, <1>2, ConcatFacts, Zenon
    <3> QED
      BY <1>2, <1>4, <3>1, Zenon
  <2>2. DOMAIN ps = 1 .. Len(new)
    BY <1>2
  <2> QED
    BY <1>1, <1>2, <1>4, <2>1, <2>2, ConcatFacts
<1>6. Grown
  BY <1>1, <1>5 DEF Grown
<1>7. DOMAIN Pointers(ps) = 1 .. Len(ps) /\ \A i \in DOMAIN ps : Pointers(ps)[i] = Len(tokens) + i
  BY DEF Pointers
<1>8. \A i \in DOMAIN ps : Len(tokens) + i \in DOMAIN tokens'
  <2>1. DOMAIN tokens' = 1 .. Len(tokens) + Len(ps)
    BY <1>5
  <2>2. Len(ps) \in Nat /\ DOMAIN ps = 1 .. Len(ps)
    BY LenProperties
  <2> QED
    BY <1>1, <2>1, <2>2
<1>9. Pointers(ps) \in Seq(DOMAIN tokens')
  <2>1. \A i \in 1 .. Len(ps) : Len(tokens) + i \in DOMAIN tokens'
    BY <1>8, LenProperties
  <2> QED
    BY <2>1 DEF Pointers
<1>10. ps # <<>> => Pointers(ps) # <<>>
  BY <1>7
<1> QED
  BY <1>3, <1>5, <1>6, <1>7, <1>9, <1>10

\* one new token
LEMMA AppendGrows ==
    ASSUME MemTypes, NEW t \in TokenType, tokens' = Append(tokens, t)
    PROVE  /\ Grown
           /\ Len(tokens) + 1 \in DOMAIN tokens' /\ tokens'[Len(tokens) + 1] = t
  BY DEF MemTypes, Grown

\* no pointer is lost
LEMMA Unmoved ==
    ASSUME MemTypes, UNCHANGED tokens
    PROVE  Grown
  BY DEF MemTypes, Grown

\* the page and the depth of a worker's token
LEMMA TokenOf ==
    ASSUME IInv, NEW w \in Workers, pc[w] # "idle"
    PROVE  /\ cur[w] \in DOMAIN tokens /\ tokens[cur[w]] \in TokenType
           /\ Page(w) \in Pages /\ Depth(w) \in 0 .. MaxDepth
<1>1. cur[w] \in DOMAIN tokens /\ tokens \in Seq(TokenType)
  BY DEF IInv, WorkTypes, MemTypes
<1>2. tokens[cur[w]] \in TokenType
  BY <1>1
<1> QED
  BY <1>1, <1>2 DEF TokenType, Page, Depth

\* what a page yields are pages
LEMMA ParsedIsSeq ==
    ASSUME IInv, NEW w \in Workers, pc[w] # "idle", NEW n \in 0 .. Len(Links[Page(w)])
    PROVE  Parsed(w, n) \in Seq(Pages)
<1>1. Links[Page(w)] \in Seq(Pages)
  BY TokenOf, Constants
<1> QED
  BY <1>1, KeptIsSeq DEF Parsed

\* Every step but a restart keeps the pages of the tokens in memory.
LEMMA TokensGrow ==
    ASSUME IInv, Move
    PROVE  Grown
<1>1. ASSUME NEW w \in Workers, Take(w) PROVE Grown
  <2>1. UNCHANGED tokens
    BY <1>1 DEF Take, memVars
  <2> QED
    BY <2>1, Unmoved DEF IInv
<1>2. ASSUME NEW w \in Workers, Enter(w) PROVE Grown
  <2>1. UNCHANGED tokens
    BY <1>2 DEF Enter, memVars
  <2> QED
    BY <2>1, Unmoved DEF IInv
<1>3. ASSUME NEW w \in Workers, OffersEnd(w) PROVE Grown
  <2>1. UNCHANGED tokens
    BY <1>3 DEF OffersEnd, memVars
  <2> QED
    BY <2>1, Unmoved DEF IInv
<1>4. ASSUME NEW w \in Workers, Offers(w) PROVE Grown
  <2>1. UNCHANGED tokens
    BY <1>4 DEF Offers, memVars
  <2> QED
    BY <2>1, Unmoved DEF IInv
<1>5. ASSUME NEW w \in Workers, Visit(w) PROVE Grown
  <2>1. UNCHANGED tokens
    BY <1>5 DEF Visit, memVars
  <2> QED
    BY <2>1, Unmoved DEF IInv
<1>6. ASSUME NEW w \in Workers, Swap(w) PROVE Grown
  <2>1. UNCHANGED tokens
    BY <1>6 DEF Swap, memVars
  <2> QED
    BY <2>1, Unmoved DEF IInv
<1>7. ASSUME NEW w \in Workers, LoadLinks(w) PROVE Grown
  <2>1. \/ UNCHANGED tokens
        \/ Page(w) \in DOMAIN db /\ tokens' = Alloc(db[Page(w)])
    BY <1>7 DEF LoadLinks
  <2>2. \A p \in DOMAIN db : db[p] \in Seq(Pages)
    BY DEF IInv, ListTypes
  <2> QED
    BY <2>1, <2>2, Unmoved, AllocGrows DEF IInv
<1>8. ASSUME NEW w \in Workers, FetchFails(w) PROVE Grown
  <2>1. UNCHANGED tokens
    BY <1>8 DEF FetchFails, memVars
  <2> QED
    BY <2>1, Unmoved DEF IInv
<1>9. ASSUME NEW w \in Workers, Fetch(w) PROVE Grown
  <2>1. PICK n \in 0 .. Len(Links[Page(w)]) : tokens' = Alloc(Parsed(w, n))
    BY <1>9 DEF Fetch
  <2>2. Parsed(w, n) \in Seq(Pages)
    BY <1>9, ParsedIsSeq DEF Fetch, At
  <2> QED
    BY <2>1, <2>2, AllocGrows DEF IInv
<1>10. ASSUME NEW w \in Workers, IndexFails(w) PROVE Grown
  <2>1. UNCHANGED tokens
    BY <1>10 DEF IndexFails, memVars
  <2> QED
    BY <2>1, Unmoved DEF IInv
<1>11. ASSUME NEW w \in Workers, Index(w) PROVE Grown
  <2>1. UNCHANGED tokens
    BY <1>11 DEF Index, memVars
  <2> QED
    BY <2>1, Unmoved DEF IInv
<1>12. ASSUME NEW w \in Workers, SubmitLink(w) PROVE Grown
  <2> DEFINE h == Head(list[w])
             t == [tokens[h] EXCEPT !.depth = Depth(w) + 1]
  <2>1. /\ tokens' = [tokens EXCEPT ![h].depth = Depth(w) + 1]
        /\ pc[w] = "submit" /\ Depth(w) < MaxDepth
    BY <1>12 DEF SubmitLink, At
  <2>2. h \in DOMAIN tokens
    BY <2>1 DEF IInv, WorkTypes
  <2>3. tokens[h] \in TokenType /\ tokens \in Seq(TokenType)
    BY <2>2 DEF IInv, MemTypes
  <2>4. Depth(w) + 1 \in 0 .. MaxDepth
    BY <2>1, TokenOf, Constants
  <2>5. t \in TokenType /\ t.page = tokens[h].page
    BY <2>3, <2>4 DEF TokenType
  <2>6. tokens' = [tokens EXCEPT ![h] = t]
    BY <2>1
  <2> HIDE DEF h, t
  <2> QED
    BY <2>2, <2>3, <2>5, <2>6 DEF Grown
<1>13. ASSUME NEW w \in Workers, Interrupted(w) PROVE Grown
  <2>1. UNCHANGED tokens
    BY <1>13 DEF Interrupted, memVars
  <2> QED
    BY <2>1, Unmoved DEF IInv
<1>14. ASSUME NEW p \in Pages, Dispatch(p) PROVE Grown
  <2>1. Token(p, 0) \in TokenType
    BY Constants DEF Token, TokenType
  <2>2. tokens' = Append(tokens, Token(p, 0))
    BY <1>14 DEF Dispatch
  <2> QED
    BY <2>1, <2>2, AppendGrows DEF IInv
<1>15. ASSUME NEW x \in BagToSet(queue), Spill(x) PROVE Grown
  <2>1. UNCHANGED tokens
    BY <1>15 DEF Spill, memVars
  <2> QED
    BY <2>1, Unmoved DEF IInv
<1>16. CASE TickPop
  <2>1. tokens' = Append(tokens, Last(disk)) /\ disk # <<>>
    BY <1>16 DEF TickPop
  <2>2. Last(disk) \in TokenType
    BY <2>1 DEF IInv, MemTypes, Last
  <2> QED
    BY <2>1, <2>2, AppendGrows DEF IInv
<1>17. CASE Cancel
  <2>1. UNCHANGED tokens
    BY <1>17 DEF Cancel, memVars
  <2> QED
    BY <2>1, Unmoved DEF IInv
<1>18. CASE EndSession
  <2>1. UNCHANGED tokens
    BY <1>18 DEF EndSession, memVars
  <2> QED
    BY <2>1, Unmoved DEF IInv
<1>19. CASE UNCHANGED vars
  <2>1. UNCHANGED tokens
    BY <1>19 DEF vars, memVars
  <2> QED
    BY <2>1, Unmoved DEF IInv
<1> QED
  BY <1>1, <1>2, <1>3, <1>4, <1>5, <1>6, <1>7, <1>8, <1>9, <1>10, <1>11, <1>12, <1>13,
     <1>14, <1>15, <1>16, <1>17, <1>18, <1>19 DEF Move, WorkerStep

-----------------------------------------------------------------------------
(* Types                                                                   *)

\* what the pool and the disk get: tokens there are
LEMMA MemKept ==
    ASSUME IInv, Grown, disk' \in Seq(TokenType), BagToSet(queue') \subseteq DOMAIN tokens'
    PROVE  MemTypes'
  BY DEF Grown, MemTypes

\* Every step keeps the types of the tokens.
LEMMA MemTypesStep ==
    ASSUME IInv, Move, Grown
    PROVE  MemTypes'
<1>1. ASSUME NEW w \in Workers, Take(w) PROVE MemTypes'
  <2>1. PICK x : queue' = BagRemove(queue, x)
    BY <1>1 DEF Take
  <2>2. disk' = disk
    BY <1>1 DEF Take, diskVars
  <2>3. disk' \in Seq(TokenType) /\ BagToSet(queue') \subseteq DOMAIN tokens'
    BY <2>1, <2>2, BagFacts DEF IInv, MemTypes, Grown
  <2> QED
    BY <2>3, MemKept
<1>2. ASSUME NEW w \in Workers, Enter(w) PROVE MemTypes'
  <2>1. /\ UNCHANGED queue /\ pc[w] # "idle"
        /\ UNCHANGED disk \/ disk' = Append(disk, tokens[cur[w]])
    BY <1>2 DEF Enter, memVars, PushBack, At
  <2>2. tokens[cur[w]] \in TokenType /\ disk \in Seq(TokenType)
    BY <2>1, TokenOf DEF IInv, MemTypes
  <2>3. disk' \in Seq(TokenType)
    BY <2>1, <2>2, AppendProperties
  <2>4. BagToSet(queue') \subseteq DOMAIN tokens'
    BY <2>1 DEF IInv, MemTypes, Grown
  <2> QED
    BY <2>3, <2>4, MemKept
<1>3. ASSUME NEW w \in Workers, OffersEnd(w) PROVE MemTypes'
  <2>1. UNCHANGED <<queue, disk>>
    BY <1>3 DEF OffersEnd, memVars, diskVars
  <2>2. disk' \in Seq(TokenType) /\ BagToSet(queue') \subseteq DOMAIN tokens'
    BY <2>1 DEF IInv, MemTypes, Grown
  <2> QED
    BY <2>2, MemKept
<1>4. ASSUME NEW w \in Workers, Offers(w) PROVE MemTypes'
  <2>1. UNCHANGED <<queue, disk>>
    BY <1>4 DEF Offers, memVars, diskVars
  <2>2. disk' \in Seq(TokenType) /\ BagToSet(queue') \subseteq DOMAIN tokens'
    BY <2>1 DEF IInv, MemTypes, Grown
  <2> QED
    BY <2>2, MemKept
<1>5. ASSUME NEW w \in Workers, Visit(w) PROVE MemTypes'
  <2>1. UNCHANGED <<queue, disk>>
    BY <1>5 DEF Visit, memVars, diskVars
  <2>2. disk' \in Seq(TokenType) /\ BagToSet(queue') \subseteq DOMAIN tokens'
    BY <2>1 DEF IInv, MemTypes, Grown
  <2> QED
    BY <2>2, MemKept
<1>6. ASSUME NEW w \in Workers, Swap(w) PROVE MemTypes'
  <2>1. UNCHANGED <<queue, disk>>
    BY <1>6 DEF Swap, memVars, diskVars
  <2>2. disk' \in Seq(TokenType) /\ BagToSet(queue') \subseteq DOMAIN tokens'
    BY <2>1 DEF IInv, MemTypes, Grown
  <2> QED
    BY <2>2, MemKept
<1>7. ASSUME NEW w \in Workers, LoadLinks(w) PROVE MemTypes'
  <2>1. UNCHANGED <<queue, disk>>
    BY <1>7 DEF LoadLinks, memVars, diskVars
  <2>2. disk' \in Seq(TokenType) /\ BagToSet(queue') \subseteq DOMAIN tokens'
    BY <2>1 DEF IInv, MemTypes, Grown
  <2> QED
    BY <2>2, MemKept
<1>8. ASSUME NEW w \in Workers, FetchFails(w) PROVE MemTypes'
  <2>1. UNCHANGED <<queue, disk>>
    BY <1>8 DEF FetchFails, memVars, diskVars
  <2>2. disk' \in Seq(TokenType) /\ BagToSet(queue') \subseteq DOMAIN tokens'
    BY <2>1 DEF IInv, MemTypes, Grown
  <2> QED
    BY <2>2, MemKept
<1>9. ASSUME NEW w \in Workers, Fetch(w) PROVE MemTypes'
  <2>1. UNCHANGED <<queue, disk>>
    BY <1>9 DEF Fetch, memVars, diskVars
  <2>2. disk' \in Seq(TokenType) /\ BagToSet(queue') \subseteq DOMAIN tokens'
    BY <2>1 DEF IInv, MemTypes, Grown
  <2> QED
    BY <2>2, MemKept
<1>10. ASSUME NEW w \in Workers, IndexFails(w) PROVE MemTypes'
  <2>1. UNCHANGED <<queue, disk>>
    BY <1>10 DEF IndexFails, memVars, diskVars
  <2>2. disk' \in Seq(TokenType) /\ BagToSet(queue') \subseteq DOMAIN tokens'
    BY <2>1 DEF IInv, MemTypes, Grown
  <2> QED
    BY <2>2, MemKept
<1>11. ASSUME NEW w \in Workers, Index(w) PROVE MemTypes'
  <2>1. UNCHANGED <<queue, disk>>
    BY <1>11 DEF Index, memVars, diskVars
  <2>2. disk' \in Seq(TokenType) /\ BagToSet(queue') \subseteq DOMAIN tokens'
    BY <2>1 DEF IInv, MemTypes, Grown
  <2> QED
    BY <2>2, MemKept
<1>12. ASSUME NEW w \in Workers, SubmitLink(w) PROVE MemTypes'
  <2>1. queue' = BagAdd(queue, Head(list[w])) /\ disk' = disk /\ pc[w] = "submit"
    BY <1>12 DEF SubmitLink, diskVars, At
  <2>2. Head(list[w]) \in DOMAIN tokens
    BY <2>1 DEF IInv, WorkTypes
  <2>3. disk' \in Seq(TokenType) /\ BagToSet(queue') \subseteq DOMAIN tokens'
    BY <2>1, <2>2, BagFacts DEF IInv, MemTypes, Grown
  <2> QED
    BY <2>3, MemKept
<1>13. ASSUME NEW w \in Workers, Interrupted(w) PROVE MemTypes'
  <2>1. /\ UNCHANGED queue /\ pc[w] # "idle"
        /\ UNCHANGED disk \/ disk' = Append(disk, tokens[cur[w]])
    BY <1>13 DEF Interrupted, memVars, PushBack, At
  <2>2. tokens[cur[w]] \in TokenType /\ disk \in Seq(TokenType)
    BY <2>1, TokenOf DEF IInv, MemTypes
  <2>3. disk' \in Seq(TokenType)
    BY <2>1, <2>2, AppendProperties
  <2>4. BagToSet(queue') \subseteq DOMAIN tokens'
    BY <2>1 DEF IInv, MemTypes, Grown
  <2> QED
    BY <2>3, <2>4, MemKept
<1>14. ASSUME NEW p \in Pages, Dispatch(p) PROVE MemTypes'
  <2>1. /\ tokens' = Append(tokens, Token(p, 0)) /\ queue' = BagAdd(queue, Len(tokens) + 1)
    BY <1>14 DEF Dispatch
  <2>2. Len(tokens) + 1 \in DOMAIN tokens'
    BY <2>1 DEF IInv, MemTypes
  <2>3. disk' \in Seq(TokenType)
    BY <1>14 DEF Dispatch, diskVars, IInv, MemTypes, Front
  <2>4. BagToSet(queue') \subseteq DOMAIN tokens'
    BY <2>1, <2>2, BagFacts DEF IInv, MemTypes, Grown
  <2> QED
    BY <2>3, <2>4, MemKept
<1>15. ASSUME NEW x \in BagToSet(queue), Spill(x) PROVE MemTypes'
  <2>1. queue' = BagRemove(queue, x) /\ disk' = Append(disk, tokens[x])
    BY <1>15 DEF Spill
  <2>2. x \in DOMAIN tokens /\ tokens \in Seq(TokenType)
    BY DEF IInv, MemTypes
  <2>3. tokens[x] \in TokenType
    BY <2>2
  <2>4. disk' \in Seq(TokenType)
    BY <2>1, <2>3, AppendProperties DEF IInv, MemTypes
  <2>5. BagToSet(queue') \subseteq DOMAIN tokens'
    BY <2>1, BagFacts DEF IInv, MemTypes, Grown
  <2> QED
    BY <2>4, <2>5, MemKept
<1>16. CASE TickPop
  <2>1. /\ tokens' = Append(tokens, Last(disk)) /\ queue' = BagAdd(queue, Len(tokens) + 1)
    BY <1>16 DEF TickPop
  <2>2. Len(tokens) + 1 \in DOMAIN tokens'
    BY <2>1 DEF IInv, MemTypes
  <2>3. disk' \in Seq(TokenType)
    BY <1>16 DEF TickPop, diskVars, IInv, MemTypes, Front
  <2>4. BagToSet(queue') \subseteq DOMAIN tokens'
    BY <2>1, <2>2, BagFacts DEF IInv, MemTypes, Grown
  <2> QED
    BY <2>3, <2>4, MemKept
<1>17. CASE Cancel
  <2>1. UNCHANGED <<queue, disk>>
    BY <1>17 DEF Cancel, memVars, diskVars
  <2>2. disk' \in Seq(TokenType) /\ BagToSet(queue') \subseteq DOMAIN tokens'
    BY <2>1 DEF IInv, MemTypes, Grown
  <2> QED
    BY <2>2, MemKept
<1>18. CASE EndSession
  <2>1. UNCHANGED <<queue, disk>>
    BY <1>18 DEF EndSession, memVars, diskVars
  <2>2. disk' \in Seq(TokenType) /\ BagToSet(queue') \subseteq DOMAIN tokens'
    BY <2>1 DEF IInv, MemTypes, Grown
  <2> QED
    BY <2>2, MemKept
<1>19. CASE UNCHANGED vars
  <2>1. UNCHANGED <<queue, disk>>
    BY <1>19 DEF vars, memVars, diskVars
  <2>2. disk' \in Seq(TokenType) /\ BagToSet(queue') \subseteq DOMAIN tokens'
    BY <2>1 DEF IInv, MemTypes, Grown
  <2> QED
    BY <2>2, MemKept
<1> QED
  BY <1>1, <1>2, <1>3, <1>4, <1>5, <1>6, <1>7, <1>8, <1>9, <1>10, <1>11, <1>12, <1>13,
     <1>14, <1>15, <1>16, <1>17, <1>18, <1>19 DEF Move, WorkerStep

\* the entries of the cache stay entries
LEMMA EntriesGrow == ASSUME Grown PROVE EntryType \subseteq EntryType'
<1>1. DOMAIN tokens \subseteq DOMAIN tokens'
  BY DEF Grown
<1>2. Seq(DOMAIN tokens) \subseteq Seq(DOMAIN tokens')
  BY <1>1, SeqGrows
<1> QED
  BY <1>2 DEF EntryType

\* a step that leaves the cache alone
LEMMA MapsKept ==
    ASSUME IInv, Grown, UNCHANGED lru, DOMAIN visited' \subseteq Pages,
           DOMAIN dbVisited' \subseteq Pages
    PROVE  MapTypes'
<1>1. lru \in Seq(EntryType) /\ Len(lru) <= LruCapacity
  BY DEF IInv, MapTypes
<1>2. lru \in Seq(EntryType')
  BY <1>1, EntriesGrow, SeqGrows
<1> QED
  BY <1>1, <1>2 DEF MapTypes

\* Every step keeps the types of the maps, and the cache within its capacity.
LEMMA MapTypesStep ==
    ASSUME IInv, Move, Grown
    PROVE  MapTypes'
<1>1. ASSUME NEW w \in Workers, Take(w) PROVE MapTypes'
  <2>1. /\ UNCHANGED lru
        /\ DOMAIN visited' \subseteq Pages /\ DOMAIN dbVisited' \subseteq Pages
    BY <1>1 DEF Take, mapVars, diskVars, IInv, MapTypes
  <2> QED
    BY <2>1, MapsKept
<1>2. ASSUME NEW w \in Workers, Enter(w) PROVE MapTypes'
  <2>1. /\ UNCHANGED lru
        /\ DOMAIN visited' \subseteq Pages /\ DOMAIN dbVisited' \subseteq Pages
    BY <1>2 DEF Enter, mapVars, diskVars, IInv, MapTypes
  <2> QED
    BY <2>1, MapsKept
<1>3. ASSUME NEW w \in Workers, OffersEnd(w) PROVE MapTypes'
  <2>1. /\ UNCHANGED lru
        /\ DOMAIN visited' \subseteq Pages /\ DOMAIN dbVisited' \subseteq Pages
    BY <1>3 DEF OffersEnd, mapVars, diskVars, IInv, MapTypes
  <2> QED
    BY <2>1, MapsKept
<1>4. ASSUME NEW w \in Workers, Offers(w) PROVE MapTypes'
  <2>1. /\ UNCHANGED lru
        /\ DOMAIN visited' \subseteq Pages /\ DOMAIN dbVisited' \subseteq Pages
    BY <1>4 DEF Offers, mapVars, diskVars, IInv, MapTypes
  <2> QED
    BY <2>1, MapsKept
<1>5. ASSUME NEW w \in Workers, Visit(w) PROVE MapTypes'
  <2>1. Page(w) \in Pages
    BY <1>5, TokenOf DEF Visit, At
  <2>2. /\ UNCHANGED <<lru, dbVisited>>
        /\ visited' = visited \/ visited' = Store(visited, Page(w), Depth(w))
    BY <1>5 DEF Visit, diskVars
  <2>3. DOMAIN visited' \subseteq Pages /\ DOMAIN dbVisited' \subseteq Pages
    BY <2>1, <2>2 DEF Store, IInv, MapTypes
  <2> QED
    BY <2>2, <2>3, MapsKept
<1>6. ASSUME NEW w \in Workers, Swap(w) PROVE MapTypes'
  <2>1. Page(w) \in Pages
    BY <1>6, TokenOf DEF Swap, At
  <2>2. /\ UNCHANGED <<lru, dbVisited>>
        /\ visited' = visited \/ visited' = Store(visited, Page(w), Depth(w))
    BY <1>6 DEF Swap, diskVars
  <2>3. DOMAIN visited' \subseteq Pages /\ DOMAIN dbVisited' \subseteq Pages
    BY <2>1, <2>2 DEF Store, IInv, MapTypes
  <2> QED
    BY <2>2, <2>3, MapsKept
<1>7. ASSUME NEW w \in Workers, LoadLinks(w) PROVE MapTypes'
  <2>1. Page(w) \in Pages
    BY <1>7, TokenOf DEF LoadLinks, At
  <2>2. /\ lru \in Seq(EntryType) /\ Len(lru) <= LruCapacity
        /\ UNCHANGED <<visited, dbVisited>>
    BY <1>7 DEF LoadLinks, diskVars, IInv, MapTypes
  <2>3. lru' \in Seq(EntryType') /\ Len(lru') <= LruCapacity
    <3>0. lru \in Seq(EntryType')
      BY <2>2, EntriesGrow, SeqGrows
    <3>1. CASE Cached(lru, Page(w))
      <4>1. lru' = Get(lru, Page(w))
        BY <1>7, <3>1 DEF LoadLinks
      <4> QED
        BY <2>2, <3>0, <3>1, <4>1, GetKeeps
    <3>2. CASE ~Cached(lru, Page(w)) /\ Page(w) \in DOMAIN db
      <4> DEFINE ps == db[Page(w)]
      <4>1. ps \in Seq(Pages) /\ ps # <<>>
        BY <3>2 DEF IInv, ListTypes
      <4>2. tokens' = Alloc(ps) /\ lru' = Put(lru, Page(w), Pointers(ps))
        BY <1>7, <3>2 DEF LoadLinks
      <4> HIDE DEF ps
      <4>3. [page |-> Page(w), links |-> Pointers(ps)] \in EntryType'
        <5>1. Pointers(ps) \in Seq(DOMAIN tokens') /\ Pointers(ps) # <<>>
          BY <4>1, <4>2, AllocGrows DEF IInv
        <5> QED
          BY <2>1, <5>1 DEF EntryType
      <4> QED
        BY <2>2, <3>0, <4>2, <4>3, PutKeeps
    <3>3. CASE ~Cached(lru, Page(w)) /\ Page(w) \notin DOMAIN db
      BY <1>7, <2>2, <3>0, <3>3 DEF LoadLinks
    <3> QED
      BY <3>1, <3>2, <3>3
  <2> QED
    BY <2>2, <2>3 DEF IInv, MapTypes
<1>8. ASSUME NEW w \in Workers, FetchFails(w) PROVE MapTypes'
  <2>1. /\ UNCHANGED lru
        /\ DOMAIN visited' \subseteq Pages /\ DOMAIN dbVisited' \subseteq Pages
    BY <1>8 DEF FetchFails, mapVars, diskVars, IInv, MapTypes
  <2> QED
    BY <2>1, MapsKept
<1>9. ASSUME NEW w \in Workers, Fetch(w) PROVE MapTypes'
  <2>1. Page(w) \in Pages /\ pc[w] # "idle"
    BY <1>9, TokenOf DEF Fetch, At
  <2>2. /\ lru \in Seq(EntryType) /\ Len(lru) <= LruCapacity
        /\ UNCHANGED <<visited, dbVisited>>
    BY <1>9 DEF Fetch, diskVars, IInv, MapTypes
  <2>3. PICK n \in 0 .. Len(Links[Page(w)]) :
          /\ tokens' = Alloc(Parsed(w, n))
          /\ lru' = IF Parsed(w, n) = <<>> THEN lru
                    ELSE Put(lru, Page(w), Pointers(Parsed(w, n)))
    BY <1>9 DEF Fetch
  <2> DEFINE ps == Parsed(w, n)
  <2>4. ps \in Seq(Pages)
    BY <2>1, ParsedIsSeq
  <2>5. tokens' = Alloc(ps) /\ lru' = IF ps = <<>> THEN lru ELSE Put(lru, Page(w), Pointers(ps))
    BY <2>3
  <2> HIDE DEF ps
  <2>6. lru \in Seq(EntryType')
    BY <2>2, EntriesGrow, SeqGrows
  <2>7. ps # <<>> => [page |-> Page(w), links |-> Pointers(ps)] \in EntryType'
    <3>1. Pointers(ps) \in Seq(DOMAIN tokens') /\ (ps # <<>> => Pointers(ps) # <<>>)
      BY <2>4, <2>5, AllocGrows DEF IInv
    <3> QED
      BY <2>1, <3>1 DEF EntryType
  <2>8. lru' \in Seq(EntryType') /\ Len(lru') <= LruCapacity
    BY <2>2, <2>5, <2>6, <2>7, PutKeeps
  <2> QED
    BY <2>2, <2>8 DEF IInv, MapTypes
<1>10. ASSUME NEW w \in Workers, IndexFails(w) PROVE MapTypes'
  <2>1. /\ UNCHANGED lru
        /\ DOMAIN visited' \subseteq Pages /\ DOMAIN dbVisited' \subseteq Pages
    BY <1>10 DEF IndexFails, mapVars, diskVars, IInv, MapTypes
  <2> QED
    BY <2>1, MapsKept
<1>11. ASSUME NEW w \in Workers, Index(w) PROVE MapTypes'
  <2>1. /\ UNCHANGED lru
        /\ DOMAIN visited' \subseteq Pages /\ DOMAIN dbVisited' \subseteq Pages
    BY <1>11 DEF Index, mapVars, diskVars, IInv, MapTypes
  <2> QED
    BY <2>1, MapsKept
<1>12. ASSUME NEW w \in Workers, SubmitLink(w) PROVE MapTypes'
  <2>1. /\ UNCHANGED lru
        /\ DOMAIN visited' \subseteq Pages /\ DOMAIN dbVisited' \subseteq Pages
    BY <1>12 DEF SubmitLink, mapVars, diskVars, IInv, MapTypes
  <2> QED
    BY <2>1, MapsKept
<1>13. ASSUME NEW w \in Workers, Interrupted(w) PROVE MapTypes'
  <2>1. /\ UNCHANGED lru
        /\ DOMAIN visited' \subseteq Pages /\ DOMAIN dbVisited' \subseteq Pages
    BY <1>13 DEF Interrupted, mapVars, diskVars, IInv, MapTypes
  <2> QED
    BY <2>1, MapsKept
<1>14. ASSUME NEW p \in Pages, Dispatch(p) PROVE MapTypes'
  <2>1. /\ UNCHANGED lru
        /\ DOMAIN visited' \subseteq Pages /\ DOMAIN dbVisited' \subseteq Pages
    BY <1>14 DEF Dispatch, mapVars, diskVars, IInv, MapTypes
  <2> QED
    BY <2>1, MapsKept
<1>15. ASSUME NEW x \in BagToSet(queue), Spill(x) PROVE MapTypes'
  <2>1. /\ UNCHANGED lru
        /\ DOMAIN visited' \subseteq Pages /\ DOMAIN dbVisited' \subseteq Pages
    BY <1>15 DEF Spill, mapVars, diskVars, IInv, MapTypes
  <2> QED
    BY <2>1, MapsKept
<1>16. CASE TickPop
  <2>1. /\ UNCHANGED lru
        /\ DOMAIN visited' \subseteq Pages /\ DOMAIN dbVisited' \subseteq Pages
    BY <1>16 DEF TickPop, mapVars, diskVars, IInv, MapTypes
  <2> QED
    BY <2>1, MapsKept
<1>17. CASE Cancel
  <2>1. /\ UNCHANGED lru
        /\ DOMAIN visited' \subseteq Pages /\ DOMAIN dbVisited' \subseteq Pages
    BY <1>17 DEF Cancel, mapVars, diskVars, IInv, MapTypes
  <2> QED
    BY <2>1, MapsKept
<1>18. CASE EndSession
  <2>1. /\ UNCHANGED lru
        /\ DOMAIN visited' \subseteq Pages /\ DOMAIN dbVisited' \subseteq Pages
    BY <1>18 DEF EndSession, mapVars, diskVars, IInv, MapTypes
  <2> QED
    BY <2>1, MapsKept
<1>19. CASE UNCHANGED vars
  <2>1. /\ UNCHANGED lru
        /\ DOMAIN visited' \subseteq Pages /\ DOMAIN dbVisited' \subseteq Pages
    BY <1>19 DEF vars, mapVars, diskVars, IInv, MapTypes
  <2> QED
    BY <2>1, MapsKept
<1> QED
  BY <1>1, <1>2, <1>3, <1>4, <1>5, <1>6, <1>7, <1>8, <1>9, <1>10, <1>11, <1>12, <1>13,
     <1>14, <1>15, <1>16, <1>17, <1>18, <1>19 DEF Move, WorkerStep

\* Every step keeps the lists in the database lists of pages, none of them
\* empty.
LEMMA ListTypesStep ==
    ASSUME IInv, Move, Grown
    PROVE  ListTypes'
<1>1. ASSUME NEW w \in Workers, Take(w) PROVE ListTypes'
  BY <1>1 DEF Take, ListTypes, IInv, diskVars
<1>2. ASSUME NEW w \in Workers, Enter(w) PROVE ListTypes'
  BY <1>2 DEF Enter, ListTypes, IInv, diskVars
<1>3. ASSUME NEW w \in Workers, OffersEnd(w) PROVE ListTypes'
  BY <1>3 DEF OffersEnd, ListTypes, IInv, diskVars
<1>4. ASSUME NEW w \in Workers, Offers(w) PROVE ListTypes'
  BY <1>4 DEF Offers, ListTypes, IInv, diskVars
<1>5. ASSUME NEW w \in Workers, Visit(w) PROVE ListTypes'
  BY <1>5 DEF Visit, ListTypes, IInv, diskVars
<1>6. ASSUME NEW w \in Workers, Swap(w) PROVE ListTypes'
  BY <1>6 DEF Swap, ListTypes, IInv, diskVars
<1>7. ASSUME NEW w \in Workers, LoadLinks(w) PROVE ListTypes'
  BY <1>7 DEF LoadLinks, ListTypes, IInv, diskVars
<1>8. ASSUME NEW w \in Workers, FetchFails(w) PROVE ListTypes'
  BY <1>8 DEF FetchFails, ListTypes, IInv, diskVars
<1>9. ASSUME NEW w \in Workers, Fetch(w) PROVE ListTypes'
  BY <1>9 DEF Fetch, ListTypes, IInv, diskVars
<1>10. ASSUME NEW w \in Workers, IndexFails(w) PROVE ListTypes'
  BY <1>10 DEF IndexFails, ListTypes, IInv, diskVars
<1>11. ASSUME NEW w \in Workers, Index(w) PROVE ListTypes'
  <2> DEFINE new == [i \in DOMAIN list[w] |-> tokens[list[w][i]].page]
  <2>1. /\ pc[w] # "idle"
        /\ db' = db \/ (list[w] # <<>> /\ db' = Store(db, Page(w), new))
    BY <1>11 DEF Index, At
  <2>2. Page(w) \in Pages
    BY <2>1, TokenOf
  <2>3. list[w] # <<>> => new \in Seq(Pages) /\ new # <<>>
    <3>1. list[w] \in Seq(DOMAIN tokens)
      BY DEF IInv, WorkTypes
    <3>2. \A i \in DOMAIN list[w] : tokens[list[w][i]].page \in Pages
      <4>1. \A x \in DOMAIN tokens : tokens[x] \in TokenType /\ tokens[x].page \in Pages
        <5>1. \A x \in DOMAIN tokens : tokens[x] \in TokenType
          BY DEF IInv, MemTypes
        <5> QED
          BY <5>1 DEF TokenType
      <4>2. \A i \in DOMAIN list[w] : list[w][i] \in DOMAIN tokens
        BY <3>1
      <4> QED
        BY <4>1, <4>2
    <3> QED
      BY <3>1, <3>2
  <2> HIDE DEF new
  <2> QED
    BY <2>1, <2>2, <2>3 DEF IInv, ListTypes, Store
<1>12. ASSUME NEW w \in Workers, SubmitLink(w) PROVE ListTypes'
  BY <1>12 DEF SubmitLink, ListTypes, IInv, diskVars
<1>13. ASSUME NEW w \in Workers, Interrupted(w) PROVE ListTypes'
  BY <1>13 DEF Interrupted, ListTypes, IInv, diskVars
<1>14. ASSUME NEW p \in Pages, Dispatch(p) PROVE ListTypes'
  BY <1>14 DEF Dispatch, ListTypes, IInv, diskVars
<1>15. ASSUME NEW x \in BagToSet(queue), Spill(x) PROVE ListTypes'
  BY <1>15 DEF Spill, ListTypes, IInv, diskVars
<1>16. CASE TickPop
  BY <1>16 DEF TickPop, ListTypes, IInv, diskVars
<1>17. CASE Cancel
  BY <1>17 DEF Cancel, ListTypes, IInv, diskVars
<1>18. CASE EndSession
  BY <1>18 DEF EndSession, ListTypes, IInv, diskVars
<1>19. CASE UNCHANGED vars
  BY <1>19 DEF vars, memVars, mapVars, diskVars, ctlVars, histVars, workVars,
     ListTypes, IInv
<1> QED
  BY <1>1, <1>2, <1>3, <1>4, <1>5, <1>6, <1>7, <1>8, <1>9, <1>10, <1>11, <1>12, <1>13,
     <1>14, <1>15, <1>16, <1>17, <1>18, <1>19 DEF Move, WorkerStep

\* what a worker holds: its token and the tokens still to submit
Held(w) ==
    /\ pc[w] \in Labels
    /\ pc[w] = "idle" => cur[w] = 0
    /\ pc[w] # "idle" => cur[w] \in DOMAIN tokens
    /\ list[w] \in Seq(DOMAIN tokens)
    /\ pc[w] = "submit" => list[w] # <<>>

\* a step changes nothing for the other workers
Others(w) ==
    /\ DOMAIN pc' = Workers /\ DOMAIN cur' = Workers /\ DOMAIN list' = Workers
    /\ pc' = [v \in Workers |-> pc'[v]]
    /\ \A v \in Workers \ {w} : pc'[v] = pc[v] /\ cur'[v] = cur[v] /\ list'[v] = list[v]

\* the types of the workers, worker by worker
LEMMA WorkIsHeld ==
    ASSUME IInv, Grown, NEW w \in Workers, Others(w), Held(w)'
    PROVE  WorkTypes'
<1>1. \A v \in Workers : Held(v)'
  <2> TAKE v \in Workers
  <2>1. CASE v = w
    BY <2>1
  <2>2. CASE v # w
    <3>1. list[v] \in Seq(DOMAIN tokens) /\ DOMAIN tokens \subseteq DOMAIN tokens'
      BY DEF IInv, WorkTypes, Grown
    <3>2. list[v] \in Seq(DOMAIN tokens')
      BY <3>1, SeqGrows
    <3> QED
      BY <2>2, <3>1, <3>2 DEF Held, Others, IInv, WorkTypes
  <2> QED
    BY <2>1, <2>2
<1> QED
  BY <1>1 DEF Others, Held, WorkTypes

\* a worker's step leaves the others alone
LEMMA WorkerAlone ==
    ASSUME IInv, NEW w \in Workers, WorkerStep(w)
    PROVE  Others(w)
<1>1. pc \in [Workers -> Labels] /\ DOMAIN cur = Workers /\ DOMAIN list = Workers
  BY DEF IInv, WorkTypes
<1>2. ASSUME Return(w) PROVE Others(w)
  BY <1>1, <1>2 DEF Return, Goto, Others
<1>3. ASSUME NEW l, Goto(w, l), cur' = cur \/ \E x : cur' = [cur EXCEPT ![w] = x],
             list' = list \/ \E q : list' = [list EXCEPT ![w] = q]
      PROVE  Others(w)
  BY <1>1, <1>3 DEF Goto, Others
<1>4. ASSUME UNCHANGED <<pc, cur>>, list' = [list EXCEPT ![w] = Tail(@)] PROVE Others(w)
  BY <1>1, <1>4 DEF Others
<1>5. CASE Take(w) \/ Enter(w) \/ OffersEnd(w) \/ Offers(w)
  BY <1>2, <1>3, <1>5 DEF Take, Enter, OffersEnd, Offers
<1>6. CASE Visit(w) \/ Swap(w) \/ LoadLinks(w) \/ FetchFails(w) \/ Fetch(w)
  BY <1>2, <1>3, <1>6 DEF Visit, Swap, LoadLinks, FetchFails, Fetch
<1>7. CASE IndexFails(w) \/ Index(w) \/ SubmitLink(w) \/ Interrupted(w)
  BY <1>2, <1>3, <1>4, <1>7 DEF IndexFails, Index, SubmitLink, Interrupted
<1> QED
  BY <1>5, <1>6, <1>7 DEF WorkerStep

\* a worker that returns holds nothing
LEMMA ReturnHolds ==
    ASSUME IInv, NEW w \in Workers, Return(w)
    PROVE  Held(w)'
  BY DEF IInv, WorkTypes, Return, Goto, Held, Labels

\* a worker that goes on keeps what it holds
LEMMA GotoHolds ==
    ASSUME IInv, Grown, NEW w \in Workers, pc[w] # "idle", NEW l \in Labels \ {"idle", "submit"},
           Goto(w, l), UNCHANGED <<cur, list>>
    PROVE  Held(w)'
<1>1. list[w] \in Seq(DOMAIN tokens) /\ DOMAIN tokens \subseteq DOMAIN tokens'
  BY DEF IInv, WorkTypes, Grown
<1>2. list[w] \in Seq(DOMAIN tokens')
  BY <1>1, SeqGrows
<1> QED
  BY <1>1, <1>2 DEF IInv, WorkTypes, Goto, Held

\* and so does one that has a new list
LEMMA ListHolds ==
    ASSUME IInv, Grown, NEW w \in Workers, pc[w] # "idle", NEW l \in {"index", "submit"},
           Goto(w, l), UNCHANGED cur, NEW q \in Seq(DOMAIN tokens'), l = "submit" => q # <<>>,
           list' = [list EXCEPT ![w] = q]
    PROVE  Held(w)'
  BY DEF IInv, WorkTypes, Goto, Held, Labels, Grown

\* After a step of a worker it holds tokens there are.
LEMMA WorkerHolds ==
    ASSUME IInv, Grown, NEW w \in Workers, WorkerStep(w)
    PROVE  Held(w)'
<1>1. CASE Take(w)
  <2>1. PICK x \in BagToSet(queue) : cur' = [cur EXCEPT ![w] = x]
    BY <1>1 DEF Take
  <2>2. x \in DOMAIN tokens' /\ list[w] \in Seq(DOMAIN tokens')
    <3>1. x \in DOMAIN tokens
      BY <2>1 DEF IInv, MemTypes
    <3>2. list[w] \in Seq(DOMAIN tokens) /\ DOMAIN tokens \subseteq DOMAIN tokens'
      BY DEF IInv, WorkTypes, Grown
    <3> QED
      BY <3>1, <3>2, SeqGrows
  <2> QED
    BY <1>1, <2>1, <2>2 DEF Take, Goto, Held, Labels, IInv, WorkTypes
<1>2. CASE Enter(w)
  <2>1. /\ pc[w] # "idle"
        /\ Return(w) \/ \E l \in Labels \ {"idle", "submit"} : Goto(w, l) /\ UNCHANGED <<cur, list>>
    BY <1>2 DEF Enter, At, Labels
  <2> QED
    BY <2>1, ReturnHolds, GotoHolds
<1>3. CASE OffersEnd(w)
  <2>1. Return(w)
    BY <1>3 DEF OffersEnd
  <2> QED
    BY <2>1, ReturnHolds
<1>4. CASE Offers(w)
  <2>1. /\ pc[w] # "idle"
        /\ Return(w) \/ \E l \in Labels \ {"idle", "submit"} : Goto(w, l) /\ UNCHANGED <<cur, list>>
    BY <1>4 DEF Offers, At, Labels
  <2> QED
    BY <2>1, ReturnHolds, GotoHolds
<1>5. CASE Visit(w)
  <2>1. /\ pc[w] # "idle"
        /\ Return(w) \/ \E l \in Labels \ {"idle", "submit"} : Goto(w, l) /\ UNCHANGED <<cur, list>>
    BY <1>5 DEF Visit, At, Labels
  <2> QED
    BY <2>1, ReturnHolds, GotoHolds
<1>6. CASE Swap(w)
  <2>1. /\ pc[w] # "idle"
        /\ Return(w) \/ \E l \in Labels \ {"idle", "submit"} : Goto(w, l) /\ UNCHANGED <<cur, list>>
    BY <1>6 DEF Swap, At, Labels
  <2> QED
    BY <2>1, ReturnHolds, GotoHolds
<1>7. CASE LoadLinks(w)
  <2>1. pc[w] # "idle" /\ lru \in Seq(EntryType)
    BY <1>7 DEF LoadLinks, At, IInv, MapTypes
  <2>2. CASE Cached(lru, Page(w))
    <3> DEFINE q == Entry(lru, Page(w)).links
    <3>1. Entry(lru, Page(w)) \in EntryType'
      BY <2>1, <2>2, GetKeeps, EntriesGrow
    <3>2. q \in Seq(DOMAIN tokens') /\ q # <<>>
      BY <3>1 DEF EntryType
    <3>3. list' = [list EXCEPT ![w] = q] /\ Goto(w, "submit") /\ UNCHANGED cur
      BY <1>7, <2>2 DEF LoadLinks
    <3> HIDE DEF q
    <3> QED
      BY <2>1, <3>2, <3>3, ListHolds
  <2>3. CASE ~Cached(lru, Page(w)) /\ Page(w) \in DOMAIN db
    <3> DEFINE ps == db[Page(w)]
    <3>1. ps \in Seq(Pages) /\ ps # <<>>
      BY <2>3 DEF IInv, ListTypes
    <3>2. /\ tokens' = Alloc(ps) /\ list' = [list EXCEPT ![w] = Pointers(ps)]
          /\ Goto(w, "submit") /\ UNCHANGED cur
      BY <1>7, <2>3 DEF LoadLinks
    <3> HIDE DEF ps
    <3>3. Pointers(ps) \in Seq(DOMAIN tokens') /\ Pointers(ps) # <<>>
      BY <3>1, <3>2, AllocGrows DEF IInv
    <3> QED
      BY <2>1, <3>2, <3>3, ListHolds
  <2>4. CASE ~Cached(lru, Page(w)) /\ Page(w) \notin DOMAIN db
    BY <1>7, <2>4, ReturnHolds DEF LoadLinks
  <2> QED
    BY <2>2, <2>3, <2>4
<1>8. CASE FetchFails(w)
  <2>1. Return(w)
    BY <1>8 DEF FetchFails
  <2> QED
    BY <2>1, ReturnHolds
<1>9. CASE Fetch(w)
  <2>1. pc[w] # "idle" /\ Goto(w, "index") /\ UNCHANGED cur
    BY <1>9 DEF Fetch, At
  <2>2. PICK n \in 0 .. Len(Links[Page(w)]) :
          /\ tokens' = Alloc(Parsed(w, n))
          /\ list' = [list EXCEPT ![w] = Pointers(Parsed(w, n))]
    BY <1>9 DEF Fetch
  <2>3. Parsed(w, n) \in Seq(Pages)
    BY <2>1, ParsedIsSeq
  <2>4. Pointers(Parsed(w, n)) \in Seq(DOMAIN tokens')
    BY <2>2, <2>3, AllocGrows DEF IInv
  <2> QED
    BY <2>1, <2>2, <2>4, ListHolds
<1>10. CASE IndexFails(w)
  <2>1. Return(w)
    BY <1>10 DEF IndexFails
  <2> QED
    BY <2>1, ReturnHolds
<1>11. CASE Index(w)
  <2>1. CASE list[w] = <<>>
    BY <1>11, <2>1, ReturnHolds DEF Index
  <2>2. CASE list[w] # <<>>
    <3>1. pc[w] # "idle" /\ Goto(w, "submit") /\ UNCHANGED <<cur, list>>
      BY <1>11, <2>2 DEF Index, At
    <3>2. list[w] \in Seq(DOMAIN tokens) /\ DOMAIN tokens \subseteq DOMAIN tokens'
      BY DEF IInv, WorkTypes, Grown
    <3>3. list[w] \in Seq(DOMAIN tokens')
      BY <3>2, SeqGrows
    <3> QED
      BY <2>2, <3>1, <3>2, <3>3 DEF Held, Goto, Labels, IInv, WorkTypes
  <2> QED
    BY <2>1, <2>2
<1>12. CASE SubmitLink(w)
  <2>1. CASE Len(list[w]) = 1
    BY <1>12, <2>1, ReturnHolds DEF SubmitLink
  <2>2. CASE Len(list[w]) # 1
    <3>1. pc[w] = "submit" /\ list' = [list EXCEPT ![w] = Tail(list[w])] /\ UNCHANGED <<pc, cur>>
      BY <1>12, <2>2 DEF SubmitLink, At
    <3>2. list[w] \in Seq(DOMAIN tokens) /\ DOMAIN tokens \subseteq DOMAIN tokens' /\ list[w] # <<>>
      BY <3>1 DEF IInv, WorkTypes, Grown
    <3>3. list[w] \in Seq(DOMAIN tokens')
      BY <3>2, SeqGrows
    <3>4. Tail(list[w]) \in Seq(DOMAIN tokens') /\ Tail(list[w]) # <<>>
      <4>1. Tail(list[w]) \in Seq(DOMAIN tokens') /\ Len(Tail(list[w])) = Len(list[w]) - 1
        BY <3>2, <3>3, HeadTailProperties
      <4>2. Len(list[w]) \in Nat /\ Len(list[w]) # 0
        BY <3>2, LenProperties, EmptySeq
      <4>3. Len(Tail(list[w])) # 0 /\ Len(<<>>) = 0
        BY <2>2, <4>1, <4>2
      <4> QED
        BY <4>1, <4>3, Zenon
    <3> QED
      BY <3>1, <3>2, <3>4 DEF Held, Labels, IInv, WorkTypes
  <2> QED
    BY <2>1, <2>2
<1>13. CASE Interrupted(w)
  <2>1. Return(w)
    BY <1>13 DEF Interrupted
  <2> QED
    BY <2>1, ReturnHolds
<1> QED
  BY <1>1, <1>2, <1>3, <1>4, <1>5, <1>6, <1>7, <1>8, <1>9, <1>10, <1>11, <1>12, <1>13
     DEF WorkerStep

\* Every step keeps the types of the workers.
LEMMA WorkTypesStep ==
    ASSUME IInv, Move, Grown
    PROVE  WorkTypes'
<1>1. ASSUME NEW w \in Workers, WorkerStep(w) PROVE WorkTypes'
  BY <1>1, WorkerAlone, WorkerHolds, WorkIsHeld
<1>2. ASSUME UNCHANGED workVars PROVE WorkTypes'
  <2>1. UNCHANGED <<pc, cur, list>> /\ DOMAIN tokens \subseteq DOMAIN tokens'
    BY <1>2 DEF workVars, Grown
  <2>2. \A w \in Workers : list[w] \in Seq(DOMAIN tokens')
    <3> TAKE w \in Workers
    <3>1. list[w] \in Seq(DOMAIN tokens)
      BY DEF IInv, WorkTypes
    <3> QED
      BY <2>1, <3>1, SeqGrows
  <2> QED
    BY <2>1, <2>2 DEF IInv, WorkTypes
<1> QED
  BY <1>1, <1>2 DEF Move, Dispatch, Spill, TickPop, Cancel, EndSession, vars

\* A session ends cancelled, with nothing queued, and nothing is queued
\* after that.
LEMMA EndInvStep ==
    ASSUME IInv, Move, Grown
    PROVE  EndInv'
<1>1. ASSUME NEW w \in Workers, Take(w) PROVE EndInv'
  <2>1. \E x : queue' = BagRemove(queue, x)
    BY <1>1 DEF Take
  <2>2. UNCHANGED <<todo, cancelled, closed>>
    BY <1>1 DEF Take, ctlVars
  <2> QED
    BY <2>1, <2>2, BagFacts DEF IInv, EndInv
<1>2. ASSUME NEW w \in Workers, Enter(w) PROVE EndInv'
  BY <1>2 DEF Enter, EndInv, IInv, ctlVars, memVars
<1>3. ASSUME NEW w \in Workers, OffersEnd(w) PROVE EndInv'
  BY <1>3 DEF OffersEnd, EndInv, IInv, ctlVars, memVars
<1>4. ASSUME NEW w \in Workers, Offers(w) PROVE EndInv'
  BY <1>4 DEF Offers, EndInv, IInv, ctlVars, memVars
<1>5. ASSUME NEW w \in Workers, Visit(w) PROVE EndInv'
  BY <1>5 DEF Visit, EndInv, IInv, ctlVars, memVars
<1>6. ASSUME NEW w \in Workers, Swap(w) PROVE EndInv'
  BY <1>6 DEF Swap, EndInv, IInv, ctlVars, memVars
<1>7. ASSUME NEW w \in Workers, LoadLinks(w) PROVE EndInv'
  BY <1>7 DEF LoadLinks, EndInv, IInv, ctlVars, memVars
<1>8. ASSUME NEW w \in Workers, FetchFails(w) PROVE EndInv'
  BY <1>8 DEF FetchFails, EndInv, IInv, ctlVars, memVars
<1>9. ASSUME NEW w \in Workers, Fetch(w) PROVE EndInv'
  BY <1>9 DEF Fetch, EndInv, IInv, ctlVars, memVars
<1>10. ASSUME NEW w \in Workers, IndexFails(w) PROVE EndInv'
  BY <1>10 DEF IndexFails, EndInv, IInv, ctlVars, memVars
<1>11. ASSUME NEW w \in Workers, Index(w) PROVE EndInv'
  BY <1>11 DEF Index, EndInv, IInv, ctlVars, memVars
<1>12. ASSUME NEW w \in Workers, SubmitLink(w) PROVE EndInv'
  BY <1>12 DEF SubmitLink, EndInv, IInv, ctlVars, memVars
<1>13. ASSUME NEW w \in Workers, Interrupted(w) PROVE EndInv'
  BY <1>13 DEF Interrupted, EndInv, IInv, ctlVars, memVars
<1>14. ASSUME NEW p \in Pages, Dispatch(p) PROVE EndInv'
  BY <1>14 DEF Dispatch, EndInv, IInv, ctlVars, memVars
<1>15. ASSUME NEW x \in BagToSet(queue), Spill(x) PROVE EndInv'
  <2>1. \E y : queue' = BagRemove(queue, y)
    BY <1>15 DEF Spill
  <2>2. UNCHANGED <<todo, cancelled, closed>>
    BY <1>15 DEF Spill, ctlVars
  <2> QED
    BY <2>1, <2>2, BagFacts DEF IInv, EndInv
<1>16. CASE TickPop
  BY <1>16 DEF TickPop, EndInv, IInv, ctlVars, memVars
<1>17. CASE Cancel
  BY <1>17 DEF Cancel, EndInv, IInv, ctlVars, memVars
<1>18. CASE EndSession
  <2>1. BagToSet(queue') = {}
    BY <1>18, BagFacts DEF EndSession, memVars
  <2> QED
    BY <1>18, <2>1 DEF EndSession, IInv, EndInv
<1>19. CASE UNCHANGED vars
  BY <1>19 DEF vars, memVars, mapVars, diskVars, ctlVars, histVars, workVars, EndInv,
     IInv
<1> QED
  BY <1>1, <1>2, <1>3, <1>4, <1>5, <1>6, <1>7, <1>8, <1>9, <1>10, <1>11, <1>12, <1>13,
     <1>14, <1>15, <1>16, <1>17, <1>18, <1>19 DEF Move, WorkerStep

-----------------------------------------------------------------------------
(* Fetches                                                                 *)

\* a worker's page stays the same
LEMMA PageStays ==
    ASSUME IInv, Grown, NEW v \in Workers, pc[v] # "idle", cur'[v] = cur[v]
    PROVE  Page(v)' = Page(v) /\ Page(v) \in Pages
  BY TokenOf DEF Page, Grown

\* when nobody begins to fetch, and no page is fetched or forgotten
LEMMA FetchKept ==
    ASSUME IInv, Grown, UNCHANGED fetches, DOMAIN visited \subseteq DOMAIN visited',
           \A v \in Workers : pc'[v] = "fetch" => pc[v] = "fetch" /\ cur'[v] = cur[v]
    PROVE  FetchInv'
<1>1. \A v \in Workers : pc'[v] = "fetch" => Page(v)' = Page(v) /\ Page(v) \in Pages
  BY PageStays
<1> QED
  BY <1>1 DEF IInv, FetchInv, At

\* Who fetches a page stays the only one, and nobody fetches it again.
LEMMA FetchInvStep ==
    ASSUME IInv, Move, Grown
    PROVE  FetchInv'
<1>1. ASSUME NEW w \in Workers, Take(w) PROVE FetchInv'
  <2>1. UNCHANGED <<fetches, visited>>
    BY <1>1 DEF Take, histVars, mapVars
  <2>2. pc'[w] # "fetch"
    BY <1>1 DEF Take, Return, Goto, At, IInv, WorkTypes
  <2>3. Others(w)
    BY <1>1, WorkerAlone DEF WorkerStep
  <2> QED
    BY <2>1, <2>2, <2>3, FetchKept DEF Others
<1>2. ASSUME NEW w \in Workers, Enter(w) PROVE FetchInv'
  <2>1. UNCHANGED <<fetches, visited>>
    BY <1>2 DEF Enter, histVars, mapVars
  <2>2. pc'[w] # "fetch"
    BY <1>2 DEF Enter, Return, Goto, At, IInv, WorkTypes
  <2>3. Others(w)
    BY <1>2, WorkerAlone DEF WorkerStep
  <2> QED
    BY <2>1, <2>2, <2>3, FetchKept DEF Others
<1>3. ASSUME NEW w \in Workers, OffersEnd(w) PROVE FetchInv'
  <2>1. UNCHANGED <<fetches, visited>>
    BY <1>3 DEF OffersEnd, histVars, mapVars
  <2>2. pc'[w] # "fetch"
    BY <1>3 DEF OffersEnd, Return, Goto, At, IInv, WorkTypes
  <2>3. Others(w)
    BY <1>3, WorkerAlone DEF WorkerStep
  <2> QED
    BY <2>1, <2>2, <2>3, FetchKept DEF Others
<1>4. ASSUME NEW w \in Workers, Offers(w) PROVE FetchInv'
  <2>1. UNCHANGED <<fetches, visited>>
    BY <1>4 DEF Offers, histVars, mapVars
  <2>2. pc'[w] # "fetch"
    BY <1>4 DEF Offers, Return, Goto, At, IInv, WorkTypes
  <2>3. Others(w)
    BY <1>4, WorkerAlone DEF WorkerStep
  <2> QED
    BY <2>1, <2>2, <2>3, FetchKept DEF Others
<1>5. ASSUME NEW w \in Workers, Visit(w) PROVE FetchInv'
  <2>1. Others(w)
    BY <1>5, WorkerAlone DEF WorkerStep
  <2>2. UNCHANGED fetches /\ DOMAIN visited \subseteq DOMAIN visited'
    BY <1>5 DEF Visit, histVars, Store
  <2>3. CASE Page(w) \in DOMAIN visited
    <3>1. pc'[w] # "fetch"
      BY <1>5, <2>3 DEF Visit, Return, Goto, At, IInv, WorkTypes
    <3> QED
      BY <2>1, <2>2, <3>1, FetchKept DEF Others
  <2>4. CASE Page(w) \notin DOMAIN visited
    <3>1. /\ pc[w] = "visit" /\ cur' = cur /\ Page(w) \in Pages /\ Page(w)' = Page(w)
      BY <1>5, <2>4, PageStays, TokenOf DEF Visit, At
    <3>2. DOMAIN visited' = DOMAIN visited \cup {Page(w)}
      BY <1>5, <2>4 DEF Visit, Store
    <3>3. \A v \in Workers \ {w} : pc'[v] = "fetch" =>
            pc[v] = "fetch" /\ Page(v)' = Page(v) /\ Page(v) \in DOMAIN visited /\ Page(v) # Page(w)
      BY <2>1, <2>4, <3>1, PageStays DEF Others, IInv, FetchInv, At
    <3>4. fetches[Page(w)] = 0
      BY <2>4, <3>1 DEF IInv, FetchInv
    <3> QED
      BY <2>2, <3>1, <3>2, <3>3, <3>4 DEF IInv, FetchInv, At
  <2> QED
    BY <2>3, <2>4
<1>6. ASSUME NEW w \in Workers, Swap(w) PROVE FetchInv'
  <2>1. UNCHANGED fetches /\ DOMAIN visited \subseteq DOMAIN visited'
    BY <1>6 DEF Swap, histVars, Store
  <2>2. pc'[w] # "fetch"
    BY <1>6 DEF Swap, Goto, At, IInv, WorkTypes
  <2>3. Others(w)
    BY <1>6, WorkerAlone DEF WorkerStep
  <2> QED
    BY <2>1, <2>2, <2>3, FetchKept DEF Others
<1>7. ASSUME NEW w \in Workers, LoadLinks(w) PROVE FetchInv'
  <2>1. UNCHANGED <<fetches, visited>>
    BY <1>7 DEF LoadLinks, histVars, mapVars
  <2>2. pc'[w] # "fetch"
    BY <1>7 DEF LoadLinks, Return, Goto, At, IInv, WorkTypes
  <2>3. Others(w)
    BY <1>7, WorkerAlone DEF WorkerStep
  <2> QED
    BY <2>1, <2>2, <2>3, FetchKept DEF Others
<1>8. ASSUME NEW w \in Workers, FetchFails(w) PROVE FetchInv'
  <2>1. Others(w)
    BY <1>8, WorkerAlone DEF WorkerStep
  <2>2. /\ pc[w] = "fetch" /\ pc'[w] # "fetch" /\ Page(w) \in Pages
        /\ UNCHANGED visited /\ fetches' = [fetches EXCEPT ![Page(w)] = @ + 1]
    BY <1>8, TokenOf DEF FetchFails, Fetched, Return, Goto, At, mapVars, IInv, WorkTypes
  <2>3. Page(w) \in DOMAIN visited /\ fetches[Page(w)] = 0
    BY <2>2 DEF IInv, FetchInv, At
  <2>4. \A v \in Workers : pc'[v] = "fetch" =>
          /\ v # w /\ pc[v] = "fetch" /\ Page(v)' = Page(v) /\ Page(v) \in Pages
          /\ Page(v) # Page(w)
    BY <2>1, <2>2, PageStays DEF Others, IInv, FetchInv, At
  <2>5. fetches' \in [Pages -> {0, 1}] /\ \A p \in Pages : p # Page(w) => fetches'[p] = fetches[p]
    BY <2>2, <2>3 DEF IInv, FetchInv
  <2> QED
    BY <2>2, <2>3, <2>4, <2>5 DEF IInv, FetchInv, At
<1>9. ASSUME NEW w \in Workers, Fetch(w) PROVE FetchInv'
  <2>1. Others(w)
    BY <1>9, WorkerAlone DEF WorkerStep
  <2>2. /\ pc[w] = "fetch" /\ pc'[w] # "fetch" /\ Page(w) \in Pages
        /\ UNCHANGED visited /\ fetches' = [fetches EXCEPT ![Page(w)] = @ + 1]
    BY <1>9, TokenOf DEF Fetch, Fetched, Return, Goto, At, mapVars, IInv, WorkTypes
  <2>3. Page(w) \in DOMAIN visited /\ fetches[Page(w)] = 0
    BY <2>2 DEF IInv, FetchInv, At
  <2>4. \A v \in Workers : pc'[v] = "fetch" =>
          /\ v # w /\ pc[v] = "fetch" /\ Page(v)' = Page(v) /\ Page(v) \in Pages
          /\ Page(v) # Page(w)
    BY <2>1, <2>2, PageStays DEF Others, IInv, FetchInv, At
  <2>5. fetches' \in [Pages -> {0, 1}] /\ \A p \in Pages : p # Page(w) => fetches'[p] = fetches[p]
    BY <2>2, <2>3 DEF IInv, FetchInv
  <2> QED
    BY <2>2, <2>3, <2>4, <2>5 DEF IInv, FetchInv, At
<1>10. ASSUME NEW w \in Workers, IndexFails(w) PROVE FetchInv'
  <2>1. UNCHANGED <<fetches, visited>>
    BY <1>10 DEF IndexFails, histVars, mapVars
  <2>2. pc'[w] # "fetch"
    BY <1>10 DEF IndexFails, Return, Goto, At, IInv, WorkTypes
  <2>3. Others(w)
    BY <1>10, WorkerAlone DEF WorkerStep
  <2> QED
    BY <2>1, <2>2, <2>3, FetchKept DEF Others
<1>11. ASSUME NEW w \in Workers, Index(w) PROVE FetchInv'
  <2>1. UNCHANGED <<fetches, visited>>
    BY <1>11 DEF Index, histVars, mapVars
  <2>2. pc'[w] # "fetch"
    BY <1>11 DEF Index, Return, Goto, At, IInv, WorkTypes
  <2>3. Others(w)
    BY <1>11, WorkerAlone DEF WorkerStep
  <2> QED
    BY <2>1, <2>2, <2>3, FetchKept DEF Others
<1>12. ASSUME NEW w \in Workers, SubmitLink(w) PROVE FetchInv'
  <2>1. UNCHANGED <<fetches, visited>>
    BY <1>12 DEF SubmitLink, histVars, mapVars
  <2>2. pc'[w] # "fetch"
    BY <1>12 DEF SubmitLink, Return, Goto, At, IInv, WorkTypes
  <2>3. Others(w)
    BY <1>12, WorkerAlone DEF WorkerStep
  <2> QED
    BY <2>1, <2>2, <2>3, FetchKept DEF Others
<1>13. ASSUME NEW w \in Workers, Interrupted(w) PROVE FetchInv'
  <2>1. UNCHANGED <<fetches, visited>>
    BY <1>13 DEF Interrupted, histVars, mapVars
  <2>2. pc'[w] # "fetch"
    BY <1>13 DEF Interrupted, Return, Goto, At, IInv, WorkTypes
  <2>3. Others(w)
    BY <1>13, WorkerAlone DEF WorkerStep
  <2> QED
    BY <2>1, <2>2, <2>3, FetchKept DEF Others
<1>14. ASSUME NEW p \in Pages, Dispatch(p) PROVE FetchInv'
  <2>1. UNCHANGED <<fetches, visited>>
    BY <1>14 DEF Dispatch, histVars, mapVars
  <2>2. \A v \in Workers : pc'[v] = "fetch" => pc[v] = "fetch" /\ cur'[v] = cur[v]
    BY <1>14 DEF Dispatch, workVars
  <2> QED
    BY <2>1, <2>2, FetchKept
<1>15. ASSUME NEW x \in BagToSet(queue), Spill(x) PROVE FetchInv'
  <2>1. UNCHANGED <<fetches, visited>>
    BY <1>15 DEF Spill, histVars, mapVars
  <2>2. \A v \in Workers : pc'[v] = "fetch" => pc[v] = "fetch" /\ cur'[v] = cur[v]
    BY <1>15 DEF Spill, workVars
  <2> QED
    BY <2>1, <2>2, FetchKept
<1>16. CASE TickPop
  <2>1. UNCHANGED <<fetches, visited>>
    BY <1>16 DEF TickPop, histVars, mapVars
  <2>2. \A v \in Workers : pc'[v] = "fetch" => pc[v] = "fetch" /\ cur'[v] = cur[v]
    BY <1>16 DEF TickPop, workVars
  <2> QED
    BY <2>1, <2>2, FetchKept
<1>17. CASE Cancel
  <2>1. UNCHANGED <<fetches, visited>>
    BY <1>17 DEF Cancel, histVars, mapVars
  <2>2. \A v \in Workers : pc'[v] = "fetch" => pc[v] = "fetch" /\ cur'[v] = cur[v]
    BY <1>17 DEF Cancel, workVars
  <2> QED
    BY <2>1, <2>2, FetchKept
<1>18. CASE EndSession
  <2>1. UNCHANGED <<fetches, visited>>
    BY <1>18 DEF EndSession, histVars, mapVars
  <2>2. \A v \in Workers : pc'[v] = "fetch" => pc[v] = "fetch" /\ cur'[v] = cur[v]
    BY <1>18 DEF EndSession, workVars
  <2> QED
    BY <2>1, <2>2, FetchKept
<1>19. CASE UNCHANGED vars
  <2>1. UNCHANGED <<fetches, visited>>
    BY <1>19 DEF vars, histVars, mapVars
  <2>2. \A v \in Workers : pc'[v] = "fetch" => pc[v] = "fetch" /\ cur'[v] = cur[v]
    BY <1>19 DEF vars, workVars
  <2> QED
    BY <2>1, <2>2, FetchKept
<1> QED
  BY <1>1, <1>2, <1>3, <1>4, <1>5, <1>6, <1>7, <1>8, <1>9, <1>10, <1>11, <1>12, <1>13,
     <1>14, <1>15, <1>16, <1>17, <1>18, <1>19 DEF Move, WorkerStep

-----------------------------------------------------------------------------
(* Links                                                                   *)

\* a page stays covered when what covers it is kept, or handed on
LEMMA ReachKept ==
    ASSUME IInv, Grown, NEW p,
           DOMAIN visited \subseteq DOMAIN visited', given \subseteq given',
           \A x \in BagToSet(queue) : x \in BagToSet(queue') \/ tokens[x].page \in Placed',
           \A i \in DOMAIN disk : disk[i].page \in Placed',
           \A v \in Workers : pc[v] \in Before => Page(v) \in Placed',
           \A v \in Workers : pc[v] = "submit" /\ Page(v) = p =>
             \A x \in ToSet(list[v]) : tokens[x].page \in Reached(p)'
    PROVE  Reached(p) \subseteq Reached(p)'
<1> SUFFICES ASSUME NEW q \in Reached(p) PROVE q \in Reached(p)'
  OBVIOUS
<1>1. Placed' \subseteq Reached(p)'
  BY DEF Reached
<1>2. CASE q \in DOMAIN visited \cup given
  BY <1>1, <1>2 DEF Placed
<1>3. CASE q \in PagesOf(BagToSet(queue))
  <2>1. PICK x \in BagToSet(queue) : q = tokens[x].page
    BY <1>3 DEF PagesOf
  <2>2. x \in BagToSet(queue') => tokens'[x].page \in Placed'
    BY DEF Placed, PagesOf
  <2>3. tokens'[x].page = tokens[x].page
    BY <2>1 DEF Grown, IInv, MemTypes
  <2> QED
    BY <1>1, <2>1, <2>2, <2>3
<1>4. CASE q \in {disk[i].page : i \in DOMAIN disk}
  BY <1>1, <1>4
<1>5. CASE q \in {Page(w) : w \in {v \in Workers : pc[v] \in Before}}
  BY <1>1, <1>5
<1>6. CASE \E v \in Workers : pc[v] = "submit" /\ Page(v) = p /\ q \in PagesOf(ToSet(list[v]))
  <2>1. PICK v \in Workers : pc[v] = "submit" /\ Page(v) = p /\ q \in PagesOf(ToSet(list[v]))
    BY <1>6
  <2>2. PICK x \in ToSet(list[v]) : q = tokens[x].page
    BY <2>1 DEF PagesOf
  <2> QED
    BY <2>1, <2>2
<1>7. \/ q \in Placed
      \/ \E v \in Workers : pc[v] = "submit" /\ Page(v) = p /\ q \in PagesOf(ToSet(list[v]))
  BY DEF Reached, At
<1> QED
  BY <1>2, <1>3, <1>4, <1>5, <1>6, <1>7 DEF Placed

\* the pages of pointers stay the same
LEMMA PagesStay ==
    ASSUME IInv, Grown, NEW v \in Workers, NEW x \in ToSet(list[v])
    PROVE  x \in DOMAIN tokens /\ tokens'[x].page = tokens[x].page
<1>1. list[v] \in Seq(DOMAIN tokens)
  BY DEF IInv, WorkTypes
<1>2. x \in DOMAIN tokens
  BY <1>1 DEF ToSet
<1> QED
  BY <1>2 DEF Grown

\* a worker that does not move covers what it covered
LEMMA StillCovers ==
    ASSUME IInv, Grown, NEW v \in Workers, NEW p,
           pc'[v] = pc[v], cur'[v] = cur[v], list'[v] = list[v]
    PROVE  /\ pc[v] \in Before => Page(v) \in Placed'
           /\ pc[v] = "submit" /\ Page(v) = p =>
                \A x \in ToSet(list[v]) : tokens[x].page \in Reached(p)'
<1>1. ASSUME pc[v] \in Before PROVE Page(v) \in Placed'
  <2>1. Page(v)' = Page(v)
    BY <1>1, PageStays DEF Before
  <2>2. Page(v)' \in Placed'
    BY <1>1 DEF Placed
  <2> QED
    BY <2>1, <2>2
<1>2. ASSUME pc[v] = "submit", Page(v) = p, NEW x \in ToSet(list[v])
      PROVE  tokens[x].page \in Reached(p)'
  <2>1. Page(v)' = Page(v) /\ tokens'[x].page = tokens[x].page
    BY <1>2, PageStays, PagesStay
  <2>2. tokens'[x].page \in PagesOf(ToSet(list[v]))'
    BY DEF PagesOf
  <2> QED
    BY <1>2, <2>1, <2>2 DEF Reached, At
<1> QED
  BY <1>1, <1>2

\* a record on the disk stays there
LEMMA DiskCovers ==
    ASSUME IInv, disk' = disk \/ \E t : disk' = Append(disk, t)
    PROVE  \A i \in DOMAIN disk : disk[i].page \in Placed'
<1>1. disk \in Seq(TokenType)
  BY DEF IInv, MemTypes
<1>2. \A i \in DOMAIN disk : i \in DOMAIN disk' /\ disk'[i] = disk[i]
  BY <1>1
<1> QED
  BY <1>2 DEF Placed

\* the same for a step of one worker
LEMMA WorkerCovers ==
    ASSUME IInv, Grown, NEW w \in Workers, Others(w), NEW p,
           DOMAIN visited \subseteq DOMAIN visited', given \subseteq given',
           \A x \in BagToSet(queue) : x \in BagToSet(queue') \/ tokens[x].page \in Placed',
           disk' = disk \/ \E t : disk' = Append(disk, t),
           pc[w] \in Before => Page(w) \in Placed',
           pc[w] = "submit" /\ Page(w) = p =>
             \A x \in ToSet(list[w]) : tokens[x].page \in Reached(p)'
    PROVE  Reached(p) \subseteq Reached(p)'
<1>1. \A v \in Workers \ {w} :
        /\ pc[v] \in Before => Page(v) \in Placed'
        /\ pc[v] = "submit" /\ Page(v) = p =>
             \A x \in ToSet(list[v]) : tokens[x].page \in Reached(p)'
  BY StillCovers DEF Others
<1>2. \A v \in Workers : pc[v] \in Before => Page(v) \in Placed'
  BY <1>1
<1>3. \A v \in Workers : pc[v] = "submit" /\ Page(v) = p =>
        \A x \in ToSet(list[v]) : tokens[x].page \in Reached(p)'
  BY <1>1
<1>4. \A i \in DOMAIN disk : disk[i].page \in Placed'
  BY DiskCovers
<1> QED
  BY <1>2, <1>3, <1>4, ReachKept

\* and for a step of none
LEMMA PoolCovers ==
    ASSUME IInv, Grown, UNCHANGED workVars, NEW p,
           DOMAIN visited \subseteq DOMAIN visited', given \subseteq given',
           \A x \in BagToSet(queue) : x \in BagToSet(queue') \/ tokens[x].page \in Placed',
           \A i \in DOMAIN disk : disk[i].page \in Placed'
    PROVE  Reached(p) \subseteq Reached(p)'
<1>1. \A v \in Workers :
        /\ pc[v] \in Before => Page(v) \in Placed'
        /\ pc[v] = "submit" /\ Page(v) = p =>
             \A x \in ToSet(list[v]) : tokens[x].page \in Reached(p)'
  BY StillCovers DEF workVars
<1>2. \A v \in Workers : pc[v] = "submit" /\ Page(v) = p =>
        \A x \in ToSet(list[v]) : tokens[x].page \in Reached(p)'
  BY <1>1
<1> QED
  BY <1>1, <1>2, ReachKept

\* what is to be shown of a step that saves no list
LEMMA CoverKept ==
    ASSUME IInv, UNCHANGED db, cut \subseteq cut',
           \A p \in DOMAIN db \ cut' : Reached(p) \subseteq Reached(p)'
    PROVE  CoverInv'
  BY DEF IInv, CoverInv

\* The links of every saved list stay covered, where the task was not cut
\* short.
LEMMA CoverInvStep ==
    ASSUME IInv, Move, Grown
    PROVE  CoverInv'
<1>1. ASSUME NEW w \in Workers, Take(w) PROVE CoverInv'
  <2>1. Others(w)
    BY <1>1, WorkerAlone DEF WorkerStep
  <2>2. PICK x \in BagToSet(queue) : queue' = BagRemove(queue, x) /\ cur' = [cur EXCEPT ![w] = x]
    BY <1>1 DEF Take
  <2>3. /\ UNCHANGED <<tokens, visited, given, disk, db, cut>>
        /\ pc[w] = "idle" /\ pc'[w] \in Before /\ cur'[w] = x
    BY <1>1, <2>2 DEF Take, mapVars, diskVars, histVars, At, Goto, Before, IInv,
       WorkTypes
  <2>4. tokens[x].page \in Placed'
    <3>1. Page(w)' = tokens[x].page
      BY <2>3 DEF Page
    <3>2. Page(w)' \in Placed'
      BY <2>3 DEF Placed
    <3> QED
      BY <3>1, <3>2
  <2>5. \A y \in BagToSet(queue) : y \in BagToSet(queue') \/ tokens[y].page \in Placed'
    BY <2>2, <2>4, BagFacts
  <2>6. \A p : Reached(p) \subseteq Reached(p)'
    BY <2>1, <2>3, <2>5, WorkerCovers DEF Before
  <2> QED
    BY <2>3, <2>6, CoverKept
<1>2. ASSUME NEW w \in Workers, Enter(w) PROVE CoverInv'
  <2>1. Others(w)
    BY <1>2, WorkerAlone DEF WorkerStep
  <2>2. /\ DOMAIN visited \subseteq DOMAIN visited' /\ pc[w] # "submit"
        /\ given \subseteq given' /\ UNCHANGED <<queue, db, cut>>
        /\ disk' = disk \/ \E t : disk' = Append(disk, t)
    BY <1>2 DEF Enter, memVars, mapVars, diskVars, histVars, At, Store, PushBack
  <2>3. Page(w) \in Placed'
    <3>1. CASE ~cancelled
      <4>1. pc[w] # "idle" /\ cur' = cur /\ pc'[w] \in Before
        BY <1>2, <3>1 DEF Enter, At, Goto, Before, IInv, WorkTypes
      <4>2. Page(w)' = Page(w)
        BY <4>1, PageStays
      <4>3. Page(w)' \in Placed'
        BY <4>1 DEF Placed
      <4> QED
        BY <4>2, <4>3
    <3>2. CASE cancelled /\ closed
      BY <1>2, <3>2 DEF Enter, Placed
    <3>3. CASE cancelled /\ ~closed
      <4>1. disk' = Append(disk, tokens[cur[w]]) /\ disk \in Seq(TokenType)
        BY <1>2, <3>3 DEF Enter, PushBack, IInv, MemTypes
      <4>2. Len(disk) + 1 \in DOMAIN disk' /\ disk'[Len(disk) + 1] = tokens[cur[w]]
        BY <4>1
      <4> QED
        BY <4>2 DEF Placed, Page
    <3> QED
      BY <3>1, <3>2, <3>3
  <2>4. \A p : Reached(p) \subseteq Reached(p)'
    BY <2>1, <2>2, <2>3, WorkerCovers
  <2> QED
    BY <2>2, <2>4, CoverKept
<1>3. ASSUME NEW w \in Workers, OffersEnd(w) PROVE CoverInv'
  <2>1. Others(w)
    BY <1>3, WorkerAlone DEF WorkerStep
  <2>2. /\ DOMAIN visited \subseteq DOMAIN visited' /\ pc[w] # "submit"
        /\ given \subseteq given' /\ UNCHANGED <<queue, db, cut>>
        /\ disk' = disk \/ \E t : disk' = Append(disk, t)
    BY <1>3 DEF OffersEnd, memVars, mapVars, diskVars, histVars, At, Store, PushBack
  <2>3. Page(w) \in Placed'
    BY <1>3 DEF OffersEnd, Placed
  <2>4. \A p : Reached(p) \subseteq Reached(p)'
    BY <2>1, <2>2, <2>3, WorkerCovers
  <2> QED
    BY <2>2, <2>4, CoverKept
<1>4. ASSUME NEW w \in Workers, Offers(w) PROVE CoverInv'
  <2>1. Others(w)
    BY <1>4, WorkerAlone DEF WorkerStep
  <2>2. /\ DOMAIN visited \subseteq DOMAIN visited' /\ pc[w] # "submit"
        /\ given \subseteq given' /\ UNCHANGED <<queue, db, cut>>
        /\ disk' = disk \/ \E t : disk' = Append(disk, t)
    BY <1>4 DEF Offers, memVars, mapVars, diskVars, histVars, At, Store, PushBack
  <2>3. Page(w) \in Placed'
    <3>1. pc[w] # "idle" /\ cur' = cur /\ pc'[w] \in Before
      BY <1>4 DEF Offers, At, Goto, Before, IInv, WorkTypes
    <3>2. Page(w)' = Page(w)
      BY <3>1, PageStays
    <3>3. Page(w)' \in Placed'
      BY <3>1 DEF Placed
    <3> QED
      BY <3>2, <3>3
  <2>4. \A p : Reached(p) \subseteq Reached(p)'
    BY <2>1, <2>2, <2>3, WorkerCovers
  <2> QED
    BY <2>2, <2>4, CoverKept
<1>5. ASSUME NEW w \in Workers, Visit(w) PROVE CoverInv'
  <2>1. Others(w)
    BY <1>5, WorkerAlone DEF WorkerStep
  <2>2. /\ DOMAIN visited \subseteq DOMAIN visited' /\ pc[w] # "submit"
        /\ given \subseteq given' /\ UNCHANGED <<queue, db, cut>>
        /\ disk' = disk \/ \E t : disk' = Append(disk, t)
    BY <1>5 DEF Visit, memVars, mapVars, diskVars, histVars, At, Store, PushBack
  <2>3. Page(w) \in Placed'
    BY <1>5 DEF Visit, Placed, Store
  <2>4. \A p : Reached(p) \subseteq Reached(p)'
    BY <2>1, <2>2, <2>3, WorkerCovers
  <2> QED
    BY <2>2, <2>4, CoverKept
<1>6. ASSUME NEW w \in Workers, Swap(w) PROVE CoverInv'
  <2>1. Others(w)
    BY <1>6, WorkerAlone DEF WorkerStep
  <2>2. /\ DOMAIN visited \subseteq DOMAIN visited' /\ pc[w] \notin Before /\ pc[w] # "submit"
        /\ UNCHANGED <<queue, disk, given, db, cut>>
    BY <1>6 DEF Swap, memVars, mapVars, diskVars, histVars, At, Before, Store
  <2>3. \A p : Reached(p) \subseteq Reached(p)'
    BY <2>1, <2>2, WorkerCovers
  <2> QED
    BY <2>2, <2>3, CoverKept
<1>7. ASSUME NEW w \in Workers, LoadLinks(w) PROVE CoverInv'
  <2>1. Others(w)
    BY <1>7, WorkerAlone DEF WorkerStep
  <2>2. /\ DOMAIN visited \subseteq DOMAIN visited' /\ pc[w] \notin Before /\ pc[w] # "submit"
        /\ UNCHANGED <<queue, disk, given, db, cut>>
    BY <1>7 DEF LoadLinks, memVars, mapVars, diskVars, histVars, At, Before, Store
  <2>3. \A p : Reached(p) \subseteq Reached(p)'
    BY <2>1, <2>2, WorkerCovers
  <2> QED
    BY <2>2, <2>3, CoverKept
<1>8. ASSUME NEW w \in Workers, FetchFails(w) PROVE CoverInv'
  <2>1. Others(w)
    BY <1>8, WorkerAlone DEF WorkerStep
  <2>2. /\ DOMAIN visited \subseteq DOMAIN visited' /\ pc[w] \notin Before /\ pc[w] # "submit"
        /\ UNCHANGED <<queue, disk, given, db, cut>>
    BY <1>8 DEF FetchFails, memVars, mapVars, diskVars, histVars, At, Before, Store
  <2>3. \A p : Reached(p) \subseteq Reached(p)'
    BY <2>1, <2>2, WorkerCovers
  <2> QED
    BY <2>2, <2>3, CoverKept
<1>9. ASSUME NEW w \in Workers, Fetch(w) PROVE CoverInv'
  <2>1. Others(w)
    BY <1>9, WorkerAlone DEF WorkerStep
  <2>2. /\ DOMAIN visited \subseteq DOMAIN visited' /\ pc[w] \notin Before /\ pc[w] # "submit"
        /\ UNCHANGED <<queue, disk, given, db, cut>>
    BY <1>9 DEF Fetch, memVars, mapVars, diskVars, histVars, At, Before, Store
  <2>3. \A p : Reached(p) \subseteq Reached(p)'
    BY <2>1, <2>2, WorkerCovers
  <2> QED
    BY <2>2, <2>3, CoverKept
<1>10. ASSUME NEW w \in Workers, IndexFails(w) PROVE CoverInv'
  <2>1. Others(w)
    BY <1>10, WorkerAlone DEF WorkerStep
  <2>2. /\ DOMAIN visited \subseteq DOMAIN visited' /\ pc[w] \notin Before /\ pc[w] # "submit"
        /\ UNCHANGED <<queue, disk, given, db, cut>>
    BY <1>10 DEF IndexFails, memVars, mapVars, diskVars, histVars, At, Before, Store
  <2>3. \A p : Reached(p) \subseteq Reached(p)'
    BY <2>1, <2>2, WorkerCovers
  <2> QED
    BY <2>2, <2>3, CoverKept
<1>11. ASSUME NEW w \in Workers, Index(w) PROVE CoverInv'
  <2>1. Others(w)
    BY <1>11, WorkerAlone DEF WorkerStep
  <2>2. /\ UNCHANGED <<tokens, queue, visited, given, disk, cut>> /\ pc[w] = "index"
    BY <1>11 DEF Index, memVars, mapVars, histVars, At
  <2>3. \A p : Reached(p) \subseteq Reached(p)'
    BY <2>1, <2>2, WorkerCovers DEF Before
  <2>4. CASE list[w] = <<>>
    BY <1>11, <2>2, <2>3, <2>4, CoverKept DEF Index
  <2>5. CASE list[w] # <<>>
    <3> DEFINE new == [i \in DOMAIN list[w] |-> tokens[list[w][i]].page]
    <3>1. /\ db' = Store(db, Page(w), new) /\ UNCHANGED <<cur, list>> /\ pc'[w] = "submit"
      BY <1>11, <2>5 DEF Index, Goto, IInv, WorkTypes
    <3>2. ToSet(new) = PagesOf(ToSet(list[w]))
      BY DEF ToSet, PagesOf
    <3>3. Page(w)' = Page(w) /\ PagesOf(ToSet(list[w]))' = PagesOf(ToSet(list[w]))
      BY <2>2, <3>1 DEF Page, PagesOf
    <3>4. ASSUME NEW p, Page(w) = p PROVE PagesOf(ToSet(list[w])) \subseteq Reached(p)'
      BY <3>1, <3>3, <3>4 DEF Reached, At
    <3> HIDE DEF new
    <3>5. /\ DOMAIN db' = DOMAIN db \cup {Page(w)}
          /\ db'[Page(w)] = new
          /\ \A p \in DOMAIN db \ {Page(w)} : db'[p] = db[p]
      BY <3>1 DEF Store
    <3>6. ASSUME NEW p \in DOMAIN db' \ cut' PROVE ToSet(db'[p]) \subseteq Reached(p)'
      <4>1. CASE p = Page(w)
        BY <3>2, <3>4, <3>5, <4>1
      <4>2. CASE p # Page(w)
        <5>1. p \in DOMAIN db \ cut /\ db'[p] = db[p]
          BY <2>2, <3>5, <3>6, <4>2
        <5>2. ToSet(db[p]) \subseteq Reached(p)
          BY <5>1 DEF IInv, CoverInv
        <5> QED
          BY <2>3, <5>1, <5>2
      <4> QED
        BY <4>1, <4>2
    <3> QED
      BY <3>6 DEF CoverInv
  <2> QED
    BY <2>4, <2>5
<1>12. ASSUME NEW w \in Workers, SubmitLink(w) PROVE CoverInv'
  <2>1. Others(w)
    BY <1>12, WorkerAlone DEF WorkerStep
  <2> DEFINE h == Head(list[w])
  <2>2. /\ UNCHANGED <<visited, given, disk, db, cut>> /\ pc[w] = "submit"
        /\ queue' = BagAdd(queue, h)
        /\ \/ Len(list[w]) = 1
           \/ list' = [list EXCEPT ![w] = Tail(list[w])] /\ UNCHANGED <<pc, cur>>
    BY <1>12 DEF SubmitLink, mapVars, diskVars, histVars, At
  <2>3. list[w] \in Seq(DOMAIN tokens) /\ list[w] # <<>>
    BY <2>2 DEF IInv, WorkTypes
  <2>4. ASSUME NEW p, Page(w) = p, NEW x \in ToSet(list[w])
        PROVE  tokens[x].page \in Reached(p)'
    <3>1. tokens'[x].page = tokens[x].page
      BY PagesStay
    <3>2. CASE x = h
      <4>1. x \in BagToSet(queue')
        BY <2>2, <3>2, BagFacts
      <4>2. tokens'[x].page \in Reached(p)'
        BY <4>1 DEF Reached, Placed, PagesOf
      <4> QED
        BY <3>1, <4>2
    <3>3. CASE x # h
      <4>1. PICK i \in 2 .. Len(list[w]) : x = list[w][i]
        BY <2>3, <3>3 DEF ToSet
      <4>2. Len(list[w]) # 1
        BY <2>3, <4>1
      <4>3. list'[w] = Tail(list[w]) /\ pc'[w] = "submit" /\ cur'[w] = cur[w]
        BY <2>2, <4>2 DEF IInv, WorkTypes
      <4>4. x \in ToSet(Tail(list[w]))
        <5>1. i - 1 \in DOMAIN Tail(list[w]) /\ Tail(list[w])[i - 1] = x
          BY <2>3, <4>1, HeadTailProperties
        <5> QED
          BY <5>1 DEF ToSet
      <4>5. Page(w)' = p
        BY <2>2, <2>4, <4>3, PageStays
      <4>6. tokens'[x].page \in PagesOf(ToSet(list[w]))'
        BY <4>3, <4>4 DEF PagesOf
      <4>7. tokens'[x].page \in Reached(p)'
        BY <4>3, <4>5, <4>6 DEF Reached, At
      <4> QED
        BY <3>1, <4>7
    <3> QED
      BY <3>2, <3>3
  <2>5. \A x \in BagToSet(queue) : x \in BagToSet(queue')
    BY <2>2, BagFacts
  <2>6. \A p : Reached(p) \subseteq Reached(p)'
    BY <2>1, <2>2, <2>4, <2>5, WorkerCovers DEF Before
  <2> QED
    BY <2>2, <2>6, CoverKept
<1>13. ASSUME NEW w \in Workers, Interrupted(w) PROVE CoverInv'
  <2>1. Others(w)
    BY <1>13, WorkerAlone DEF WorkerStep
  <2>2. /\ UNCHANGED <<visited, given, queue, db>> /\ pc[w] = "submit"
        /\ disk' = disk \/ \E t : disk' = Append(disk, t)
        /\ cut' = cut \cup {Page(w)}
    BY <1>13 DEF Interrupted, memVars, mapVars, At, PushBack
  <2>3. \A p \in DOMAIN db \ cut' : Reached(p) \subseteq Reached(p)'
    BY <2>1, <2>2, WorkerCovers DEF Before
  <2> QED
    BY <2>2, <2>3, CoverKept
<1>14. ASSUME NEW p \in Pages, Dispatch(p) PROVE CoverInv'
  <2>1. UNCHANGED <<workVars, visited, given, db, cut>> /\ disk' = disk
    BY <1>14 DEF Dispatch, mapVars, diskVars, histVars
  <2>2. \A x \in BagToSet(queue) : x \in BagToSet(queue')
    BY <1>14, BagFacts DEF Dispatch, memVars
  <2>3. \A i \in DOMAIN disk : disk[i].page \in Placed'
    BY <2>1, DiskCovers
  <2>4. \A q : Reached(q) \subseteq Reached(q)'
    BY <2>1, <2>2, <2>3, PoolCovers
  <2> QED
    BY <2>1, <2>4, CoverKept
<1>15. ASSUME NEW x \in BagToSet(queue), Spill(x) PROVE CoverInv'
  <2>1. /\ UNCHANGED <<tokens, workVars, visited, given, db, cut>>
        /\ disk' = Append(disk, tokens[x]) /\ queue' = BagRemove(queue, x)
    BY <1>15 DEF Spill, mapVars, histVars
  <2>2. \A i \in DOMAIN disk : disk[i].page \in Placed'
    BY <2>1, DiskCovers
  <2>3. tokens[x].page \in Placed'
    <3>1. disk \in Seq(TokenType)
      BY DEF IInv, MemTypes
    <3>2. Len(disk) + 1 \in DOMAIN disk' /\ disk'[Len(disk) + 1] = tokens[x]
      BY <2>1, <3>1
    <3> QED
      BY <3>2 DEF Placed
  <2>4. \A y \in BagToSet(queue) : y \in BagToSet(queue') \/ tokens[y].page \in Placed'
    BY <2>1, <2>3, BagFacts
  <2>5. \A p : Reached(p) \subseteq Reached(p)'
    BY <2>1, <2>2, <2>4, PoolCovers
  <2> QED
    BY <2>1, <2>5, CoverKept
<1>16. CASE TickPop
  <2>1. /\ UNCHANGED <<workVars, visited, given, db, cut>>
        /\ disk # <<>> /\ disk' = Front(disk)
        /\ tokens' = Append(tokens, Last(disk)) /\ queue' = BagAdd(queue, Len(tokens) + 1)
    BY <1>16 DEF TickPop, mapVars, histVars
  <2>2. \A x \in BagToSet(queue) : x \in BagToSet(queue')
    BY <2>1, BagFacts
  <2>3. \A i \in DOMAIN disk : disk[i].page \in Placed'
    <3> TAKE i \in DOMAIN disk
    <3>1. disk \in Seq(TokenType) /\ tokens \in Seq(TokenType)
      BY DEF IInv, MemTypes
    <3>2. CASE i = Len(disk)
      <4>1. Len(tokens) + 1 \in BagToSet(queue')
        BY <2>1, BagFacts
      <4>2. tokens'[Len(tokens) + 1] = disk[i]
        BY <2>1, <3>1, <3>2 DEF Last
      <4> QED
        BY <4>1, <4>2 DEF Placed, PagesOf
    <3>3. CASE i # Len(disk)
      <4>1. i \in DOMAIN disk' /\ disk'[i] = disk[i]
        BY <2>1, <3>1, <3>3 DEF Front
      <4> QED
        BY <4>1 DEF Placed
    <3> QED
      BY <3>2, <3>3
  <2>4. \A p : Reached(p) \subseteq Reached(p)'
    BY <2>1, <2>2, <2>3, PoolCovers
  <2> QED
    BY <2>1, <2>4, CoverKept
<1>17. CASE Cancel
  <2>1. UNCHANGED <<workVars, visited, given, db, cut>> /\ disk' = disk
    BY <1>17 DEF Cancel, mapVars, diskVars, histVars
  <2>2. \A x \in BagToSet(queue) : x \in BagToSet(queue')
    BY <1>17, BagFacts DEF Cancel, memVars
  <2>3. \A i \in DOMAIN disk : disk[i].page \in Placed'
    BY <2>1, DiskCovers
  <2>4. \A q : Reached(q) \subseteq Reached(q)'
    BY <2>1, <2>2, <2>3, PoolCovers
  <2> QED
    BY <2>1, <2>4, CoverKept
<1>18. CASE EndSession
  <2>1. UNCHANGED <<workVars, visited, given, db, cut>> /\ disk' = disk
    BY <1>18 DEF EndSession, mapVars, diskVars, histVars
  <2>2. \A x \in BagToSet(queue) : x \in BagToSet(queue')
    BY <1>18, BagFacts DEF EndSession, memVars
  <2>3. \A i \in DOMAIN disk : disk[i].page \in Placed'
    BY <2>1, DiskCovers
  <2>4. \A q : Reached(q) \subseteq Reached(q)'
    BY <2>1, <2>2, <2>3, PoolCovers
  <2> QED
    BY <2>1, <2>4, CoverKept
<1>19. CASE UNCHANGED vars
  <2>1. UNCHANGED <<workVars, visited, given, db, cut>> /\ disk' = disk
    BY <1>19 DEF vars, mapVars, diskVars, histVars
  <2>2. \A x \in BagToSet(queue) : x \in BagToSet(queue')
    BY <1>19, BagFacts DEF vars, memVars
  <2>3. \A i \in DOMAIN disk : disk[i].page \in Placed'
    BY <2>1, DiskCovers
  <2>4. \A q : Reached(q) \subseteq Reached(q)'
    BY <2>1, <2>2, <2>3, PoolCovers
  <2> QED
    BY <2>1, <2>4, CoverKept
<1> QED
  BY <1>1, <1>2, <1>3, <1>4, <1>5, <1>6, <1>7, <1>8, <1>9, <1>10, <1>11, <1>12, <1>13,
     <1>14, <1>15, <1>16, <1>17, <1>18, <1>19 DEF Move, WorkerStep

-----------------------------------------------------------------------------
(* Restarts, and the theorems                                              *)

\* A restart forgets the memory: what was queued is none by then, and the pages that only
\* the memory had are counted as given up, or as cut short.
LEMMA RestartStep == IInv /\ Restart => IInv'
<1> SUFFICES ASSUME IInv, Restart PROVE IInv'
  OBVIOUS
<1>1. /\ closed /\ tokens' = <<>> /\ BagToSet(queue') = {} /\ lru' = <<>>
      /\ UNCHANGED <<disk, db, dbVisited>> /\ visited' = dbVisited /\ todo' = Starts
      /\ cancelled' = FALSE /\ closed' = FALSE
      /\ fetches' = [p \in Pages |-> 0]
      /\ pc' = Idle /\ cur' = [w \in Workers |-> 0] /\ list' = [w \in Workers |-> <<>>]
  BY BagFacts DEF Restart, diskVars
<1>2. MemTypes'
  BY <1>1 DEF IInv, MemTypes
<1>3. MapTypes'
  <2>1. lru' \in Seq(EntryType') /\ Len(lru') = 0
    BY <1>1
  <2> QED
    BY <1>1, <2>1, Constants DEF IInv, MapTypes
<1>4. ListTypes'
  BY <1>1 DEF IInv, ListTypes
<1>5. WorkTypes'
  BY <1>1 DEF WorkTypes, Idle, Labels
<1>6. EndInv'
  BY <1>1, Constants DEF EndInv
<1>7. FetchInv'
  BY <1>1 DEF FetchInv, Idle, At
<1>8. CoverInv'
  <2> SUFFICES ASSUME NEW p \in DOMAIN db \ cut', NEW q \in ToSet(db[p])
               PROVE  q \in Placed'
    BY <1>1 DEF CoverInv, Reached
  <2>1. /\ cut' = cut \cup {Page(w) : w \in {v \in Workers : At(v, "submit")}}
        /\ given' = given \cup (DOMAIN visited \ DOMAIN dbVisited)
                      \cup {Page(w) : w \in {v \in Workers : pc[v] \in Before}}
    BY DEF Restart
  <2>2. q \in Reached(p)
    BY <2>1 DEF IInv, CoverInv
  <2>3. q \in Placed
    BY <2>1, <2>2 DEF Reached
  <2>4. PagesOf(BagToSet(queue)) = {}
    BY <1>1 DEF IInv, EndInv, PagesOf
  <2> QED
    BY <1>1, <2>1, <2>3, <2>4 DEF Placed
<1> QED
  BY <1>2, <1>3, <1>4, <1>5, <1>6, <1>7, <1>8 DEF IInv

\* The invariant holds at the start.
LEMMA InitIInv == Init => IInv
<1> SUFFICES ASSUME Init PROVE IInv
  OBVIOUS
<1>1. MemTypes
  BY BagFacts DEF Init, MemTypes
<1>2. MapTypes
  <2>1. lru \in Seq(EntryType) /\ Len(lru) = 0
    BY DEF Init
  <2> QED
    BY <2>1, Constants DEF Init, MapTypes, EmptyMap
<1>3. ListTypes
  BY DEF Init, ListTypes, EmptyMap
<1>4. WorkTypes
  BY DEF Init, WorkTypes, Idle, Labels
<1>5. EndInv
  BY BagFacts, Constants DEF Init, EndInv
<1>6. FetchInv
  BY DEF Init, FetchInv, Idle, At
<1>7. CoverInv
  BY DEF Init, CoverInv, EmptyMap
<1> QED
  BY <1>1, <1>2, <1>3, <1>4, <1>5, <1>6, <1>7 DEF IInv

\* The inductive invariant: types, who fetches a page, and what each page with a saved list
\* has to reach its links.
THEOREM Invariance == Spec => []IInv
<1>1. IInv /\ [Next]_vars => IInv'
  <2> SUFFICES ASSUME IInv, [Next]_vars PROVE IInv'
    OBVIOUS
  <2>1. Move \/ Restart
    BY DEF Next, Move
  <2>2. ASSUME Move PROVE IInv'
    <3>1. Grown
      BY <2>2, TokensGrow
    <3> QED
      BY <2>2, <3>1, MemTypesStep, MapTypesStep, ListTypesStep, WorkTypesStep, EndInvStep,
         FetchInvStep, CoverInvStep DEF IInv
  <2> QED
    BY <2>1, <2>2, RestartStep
<1> QED
  BY <1>1, InitIInv, PTL DEF Spec

\* Pointers in the pool, in the cache and in the workers point to tokens, and the cache stays
\* within its capacity (scraper.go, lru.go).
THEOREM TypeCorrect == Spec => []TypeOK
<1>1. IInv => TypeOK
  <2> SUFFICES ASSUME IInv PROVE TypeOK
    OBVIOUS
  <2>1. \A x \in DOMAIN tokens : IsToken(tokens[x])
    <3>1. \A x \in DOMAIN tokens : tokens[x] \in TokenType
      BY DEF IInv, MemTypes
    <3> QED
      BY <3>1 DEF TokenType, IsToken
  <2>2. \A i \in DOMAIN disk : IsToken(disk[i])
    <3>1. \A i \in DOMAIN disk : disk[i] \in TokenType
      BY DEF IInv, MemTypes
    <3> QED
      BY <3>1 DEF TokenType, IsToken
  <2>3. \A w \in Workers : cur[w] \in DOMAIN tokens <=> pc[w] # "idle"
    <3>1. 0 \notin DOMAIN tokens
      BY DEF IInv, MemTypes
    <3> QED
      BY <3>1 DEF IInv, WorkTypes
  <2>4. \A w \in Workers : ToSet(list[w]) \subseteq DOMAIN tokens
    <3> TAKE w \in Workers
    <3>1. list[w] \in Seq(DOMAIN tokens)
      BY DEF IInv, WorkTypes
    <3> QED
      BY <3>1 DEF ToSet
  <2> QED
    BY <2>1, <2>2, <2>3, <2>4 DEF IInv, MemTypes, MapTypes, ListTypes, WorkTypes, TypeOK
<1> QED
  BY <1>1, Invariance, PTL

\* Two workers never fetch the same page in one session, and no page is fetched twice
\* (scraper.go, ScrapeWithContext: LoadOrStore on the visited map decides).
THEOREM FetchesOnce == Spec => []FetchedOnce
<1>1. IInv => FetchedOnce
  BY DEF IInv, FetchInv, FetchedOnce
<1> QED
  BY <1>1, Invariance, PTL

\* The links of a page whose list is saved are visited or under way, through revisits,
\* evictions, cancellations and restarts, unless a task was cut short or a token dropped.
THEOREM LinksFollowed == Spec => []LinksCovered
<1>1. IInv => LinksCovered
  <2> SUFFICES ASSUME IInv, NEW p \in DOMAIN db \ cut
               PROVE  ToSet(db[p]) \subseteq DOMAIN visited \cup UnderWay \cup given
    BY DEF LinksCovered
  <2>1. ToSet(db[p]) \subseteq Reached(p)
    BY DEF IInv, CoverInv
  <2>2. Placed \subseteq DOMAIN visited \cup UnderWay \cup given
    BY DEF Placed, UnderWay
  <2>3. \A w \in Workers : At(w, "submit") => PagesOf(ToSet(list[w])) \subseteq UnderWay
    BY DEF UnderWay
  <2>4. Reached(p) \subseteq DOMAIN visited \cup UnderWay \cup given
    BY <2>2, <2>3 DEF Reached
  <2> QED
    BY <2>1, <2>4
<1> QED
  BY <1>1, Invariance, PTL
=============================================================================
