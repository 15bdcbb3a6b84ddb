------------------------------- MODULE Crawler -------------------------------
(***************************************************************************)
(* A crawl of a small web: ScrapeWithContext (scraper.go) with the visited *)
(* map, the LRU cache of link lists, the lists saved in the database, and  *)
(* sessions that are cancelled and resumed.                                *)
(*                                                                         *)
(* Link tokens are objects: the list a page yields is put in the cache,    *)
(* and the very tokens of the list are submitted, so a token can be queued *)
(* and in the cache at once.  A pointer is an index into tokens.           *)
(*                                                                         *)
(* The pool is what WorkerPool shows it to be, a bag from which every task *)
(* is taken once; the order of priorities is left open, evictions to the   *)
(* disk and ticks that bring tasks back included.  The losses of the pool  *)
(* while it stops are counted here as pages given up.                      *)
(***************************************************************************)
EXTENDS Integers, Sequences, FiniteSets, SequencesExt, BagsExt

CONSTANTS
    Pages,        \* normalized URLs
    Links,        \* the links a page has, in order, as far as they are followed
    Starts,       \* the configured start URLs
    Workers,
    LruCapacity,
    MaxDepth,     \* bound: no deeper token is submitted
    MaxFaults     \* bound: cancellations, evictions and deadlines, in all

ASSUME CrawlerAssumption ==
    /\ Links \in [Pages -> Seq(Pages)]
    /\ Starts \subseteq Pages
    /\ LruCapacity \in Nat \ {0}
    /\ MaxDepth \in Nat /\ MaxFaults \in Nat

VARIABLES
    tokens,     \* the link tokens in memory: page and depth
    queue,      \* the bag of pointers in the pool
    disk,       \* the serialized tokens in the stack
    visited,    \* ws.visited: the depth of each visited page
    lru,        \* ws.lru, the most recent entry first
    db,         \* the link lists saved under the hash of a page
    dbVisited,  \* what SaveVisitedUrls has stored
    pc,         \* where each worker is
    cur,        \* its curLink
    list,       \* its links, those not yet handled
    todo,       \* start URLs not yet dispatched
    cancelled,  \* the session's context is done
    closed,     \* the session has ended: stack closed, visited saved
    faults,     \* the disturbances so far
    fetches,    \* how often each page was fetched in this session
    cut,        \* pages whose links were not all submitted
    given       \* pages whose token was dropped before the page was visited

memVars   == <<tokens, queue>>
mapVars   == <<visited, lru>>
diskVars  == <<disk, db, dbVisited>>
ctlVars   == <<todo, cancelled, closed>>
histVars  == <<fetches, cut, given>>
workVars  == <<pc, cur, list>>
vars == <<memVars, mapVars, diskVars, ctlVars, faults, histVars, workVars>>

-----------------------------------------------------------------------------
(* Maps, the cache and the memory of tokens                                *)

EmptyMap == [k \in {} |-> 0]

Store(map, k, v) == [x \in DOMAIN map \cup {k} |-> IF x = k THEN v ELSE map[x]]

Cached(cache, p) == \E i \in DOMAIN cache : cache[i].page = p
Place(cache, p)  == CHOOSE i \in DOMAIN cache : cache[i].page = p
Entry(cache, p)  == cache[Place(cache, p)]

\* the cache without the entry of p
Without(cache, p) ==
    IF Cached(cache, p) THEN RemoveAt(cache, Place(cache, p)) ELSE cache

\* Get moves the entry to the front
Get(cache, p) ==
    IF Cached(cache, p) THEN <<Entry(cache, p)>> \o Without(cache, p) ELSE cache

\* Put replaces the entry, or evicts the last one when the cache is full
Put(cache, p, l) ==
    LET rest == Without(cache, p)
    IN  <<[page |-> p, links |-> l]>>
          \o (IF Len(rest) = LruCapacity THEN Front(rest) ELSE rest)

\* new tokens for a sequence of pages, and the pointers to them
Token(p, d)  == [page |-> p, depth |-> d]
Alloc(ps)    == tokens \o [i \in DOMAIN ps |-> Token(ps[i], 0)]
Pointers(ps) == [i \in DOMAIN ps |-> Len(tokens) + i]

Page(w)  == tokens[cur[w]].page
Depth(w) == tokens[cur[w]].depth

-----------------------------------------------------------------------------
Idle == [w \in Workers |-> "idle"]

Init ==
    /\ tokens = <<>> /\ queue = EmptyBag
    /\ disk = <<>> /\ db = EmptyMap /\ dbVisited = EmptyMap
    /\ visited = EmptyMap /\ lru = <<>>
    /\ pc = Idle /\ cur = [w \in Workers |-> 0] /\ list = [w \in Workers |-> <<>>]
    /\ todo = Starts
    /\ cancelled = FALSE /\ closed = FALSE
    /\ faults = 0
    /\ fetches = [p \in Pages |-> 0] /\ cut = {} /\ given = {}

At(w, label) == pc[w] = label

Goto(w, label) == pc' = [pc EXCEPT ![w] = label]

\* ScrapeWithContext returns
Return(w) ==
    /\ Goto(w, "idle")
    /\ cur' = [cur EXCEPT ![w] = 0]
    /\ list' = [list EXCEPT ![w] = <<>>]

Fault == faults < MaxFaults /\ faults' = faults + 1

\* the context of a task is done: the session was cancelled, or crawlTime,
\* which includes the waiting for the host's rate limiter, is over
Expires == IF cancelled THEN UNCHANGED faults ELSE Fault

\* the pool saves a canceled task, or fails to when the file is closed
PushBack(w) ==
    IF closed
    THEN UNCHANGED disk
    ELSE disk' = Append(disk, tokens[cur[w]])

-----------------------------------------------------------------------------
(* ScrapeWithContext                                                       *)

Take(w) ==
    /\ At(w, "idle")
    /\ \E x \in BagToSet(queue) :
         /\ queue' = BagRemove(queue, x)
         /\ cur' = [cur EXCEPT ![w] = x]
    /\ Goto(w, "entry")
    /\ UNCHANGED <<tokens, mapVars, diskVars, ctlVars, faults, histVars, list>>

\* mutant: a task that finds the session cancelled counts as done
EnterDone(w) ==
    /\ At(w, "entry")
    /\ IF cancelled
       THEN Return(w) /\ UNCHANGED <<disk, given>>
       ELSE Goto(w, "offers") /\ UNCHANGED <<cur, list, disk, given>>
    /\ UNCHANGED <<memVars, mapVars, db, dbVisited, ctlVars, faults, fetches, cut>>

\* the first context check
Enter(w) ==
    /\ At(w, "entry")
    /\ IF cancelled
       THEN /\ PushBack(w)
            /\ given' = IF closed THEN given \cup {Page(w)} ELSE given
            /\ Return(w)
       ELSE Goto(w, "offers") /\ UNCHANGED <<cur, list, disk, given>>
    /\ UNCHANGED <<memVars, mapVars, db, dbVisited, ctlVars, faults, fetches, cut>>

\* robots.txt and sitemap.xml are requested; a sitemap that decodes, even to
\* nothing, ends the task, and so does a context that is done by now
OffersEnd(w) ==
    /\ At(w, "offers")
    /\ given' = given \cup {Page(w)}
    /\ Return(w)
    /\ UNCHANGED <<memVars, mapVars, diskVars, ctlVars, faults, fetches, cut>>

Offers(w) ==
    /\ At(w, "offers")
    /\ ~cancelled
    /\ Goto(w, "visit")
    /\ UNCHANGED <<memVars, mapVars, diskVars, ctlVars, faults, histVars, cur, list>>

\* mutant: the comparison is the wrong way round
SeenSwapped(prev, depth) == prev >= depth

\* the test on the depth of the earlier visit
Seen(prev, depth) == prev <= depth

\* mutant: the entry is only read here and written after the fetch
VisitLoadOnly(w) ==
    /\ At(w, "visit")
    /\ IF Page(w) \notin DOMAIN visited
       THEN Goto(w, "fetch") /\ UNCHANGED <<visited, cur, list>>
       ELSE IF Seen(visited[Page(w)], Depth(w))
            THEN Return(w) /\ UNCHANGED visited
            ELSE Goto(w, "swap") /\ UNCHANGED <<visited, cur, list>>
    /\ UNCHANGED <<memVars, lru, diskVars, ctlVars, faults, histVars>>

\* LoadOrStore
Visit(w) ==
    /\ At(w, "visit")
    /\ IF Page(w) \notin DOMAIN visited
       THEN /\ visited' = Store(visited, Page(w), Depth(w))
            /\ Goto(w, "fetch") /\ UNCHANGED <<cur, list>>
       ELSE IF Seen(visited[Page(w)], Depth(w))
            THEN Return(w) /\ UNCHANGED visited
            ELSE Goto(w, "swap") /\ UNCHANGED <<visited, cur, list>>
    /\ UNCHANGED <<memVars, lru, diskVars, ctlVars, faults, histVars>>

Swap(w) ==
    /\ At(w, "swap")
    /\ visited' = Store(visited, Page(w), Depth(w))
    /\ Goto(w, "load")
    /\ UNCHANGED <<memVars, lru, diskVars, ctlVars, faults, histVars, cur, list>>

\* the links of a revisited page, from the cache or else decoded from the
\* database into new tokens; a page whose list is not saved is an error
LoadLinks(w) ==
    /\ At(w, "load")
    /\ IF Cached(lru, Page(w))
       THEN /\ list' = [list EXCEPT ![w] = Entry(lru, Page(w)).links]
            /\ lru' = Get(lru, Page(w))
            /\ Goto(w, "submit") /\ UNCHANGED <<tokens, cur>>
       ELSE IF Page(w) \in DOMAIN db
            THEN LET ps == db[Page(w)]
                 IN  /\ tokens' = Alloc(ps)
                     /\ list' = [list EXCEPT ![w] = Pointers(ps)]
                     /\ lru' = Put(lru, Page(w), Pointers(ps))
                     /\ Goto(w, "submit") /\ UNCHANGED cur
            ELSE Return(w) /\ UNCHANGED <<tokens, lru>>
    /\ UNCHANGED <<queue, visited, diskVars, ctlVars, faults, histVars>>

Fetched(w) == fetches' = [fetches EXCEPT ![Page(w)] = @ + 1]

\* getHTML fails, as it does when the context is done
FetchFails(w) ==
    /\ At(w, "fetch")
    /\ Fetched(w)
    /\ Return(w)
    /\ UNCHANGED <<memVars, mapVars, diskVars, ctlVars, faults, cut, given>>

\* parseHTMLStream leaves out a link to a page that was visited closer to the
\* start than the page it is found on
Wanted(w, q) == q \notin DOMAIN visited \/ visited[q] >= Depth(w)

\* the first n of s, those in keep
Kept(s, keep, n) ==
    LET kept[i \in 0 .. n] ==
            IF i = 0 THEN <<>>
            ELSE IF s[i] \in keep THEN Append(kept[i - 1], s[i]) ELSE kept[i - 1]
    IN  kept[n]

\* the links of the first n, which are all unless parsing exceeds its deadline
Parsed(w, n) == Kept(Links[Page(w)], {q \in Pages : Wanted(w, q)}, n)

Fetch(w) ==
    /\ At(w, "fetch")
    /\ ~cancelled
    /\ Fetched(w)
    /\ \E n \in 0 .. Len(Links[Page(w)]) :
         LET ps == Parsed(w, n)
         IN  /\ \/ n = Len(Links[Page(w)]) /\ UNCHANGED faults
                \/ n < Len(Links[Page(w)]) /\ Expires
             /\ tokens' = Alloc(ps)
             /\ list' = [list EXCEPT ![w] = Pointers(ps)]
             /\ lru' = IF ps = <<>> THEN lru ELSE Put(lru, Page(w), Pointers(ps))
    /\ Goto(w, "index")
    /\ UNCHANGED <<queue, visited, diskVars, ctlVars, cut, given, cur>>

\* HandleDocumentWords or the saving of the list fails: a near-duplicate, a
\* page the model rejects, an error of the database
IndexFails(w) ==
    /\ At(w, "index")
    /\ Return(w)
    /\ UNCHANGED <<memVars, mapVars, diskVars, ctlVars, faults, histVars>>

\* the page is indexed and its links, if it has any, are saved
Index(w) ==
    /\ At(w, "index")
    /\ IF list[w] = <<>>
       THEN Return(w) /\ UNCHANGED db
       ELSE /\ db' = Store(db, Page(w), [i \in DOMAIN list[w] |-> tokens[list[w][i]].page])
            /\ Goto(w, "submit") /\ UNCHANGED <<cur, list>>
    /\ UNCHANGED <<memVars, mapVars, disk, dbVisited, ctlVars, faults, histVars>>

\* the next token gets its depth and is submitted; after the last one the
\* task is done
SubmitLink(w) ==
    /\ At(w, "submit")
    /\ ~cancelled
    /\ Depth(w) < MaxDepth
    /\ tokens' = [tokens EXCEPT ![Head(list[w])].depth = Depth(w) + 1]
    /\ queue' = BagAdd(queue, Head(list[w]))
    /\ IF Len(list[w]) = 1
       THEN Return(w)
       ELSE list' = [list EXCEPT ![w] = Tail(@)] /\ UNCHANGED <<pc, cur>>
    /\ UNCHANGED <<mapVars, diskVars, ctlVars, faults, histVars>>

\* the context check in the loop: the task is canceled and pushed back
Interrupted(w) ==
    /\ At(w, "submit")
    /\ Expires
    /\ PushBack(w)
    /\ cut' = cut \cup {Page(w)}
    /\ Return(w)
    /\ UNCHANGED <<memVars, mapVars, db, dbVisited, ctlVars, fetches, given>>

WorkerStep(w) ==
    \/ Take(w) \/ Enter(w) \/ OffersEnd(w) \/ Offers(w) \/ Visit(w) \/ Swap(w)
    \/ LoadLinks(w) \/ FetchFails(w) \/ Fetch(w) \/ IndexFails(w) \/ Index(w)
    \/ SubmitLink(w) \/ Interrupted(w)

-----------------------------------------------------------------------------
(* The session and the pool                                                *)

Dispatch(p) ==
    /\ p \in todo
    /\ ~closed
    /\ todo' = todo \ {p}
    /\ tokens' = Append(tokens, Token(p, 0))
    /\ queue' = BagAdd(queue, Len(tokens) + 1)
    /\ UNCHANGED <<mapVars, diskVars, cancelled, closed, faults, histVars, workVars>>

\* the pool evicts a queued task
Spill(x) ==
    /\ Fault
    /\ x \in BagToSet(queue)
    /\ queue' = BagRemove(queue, x)
    /\ disk' = Append(disk, tokens[x])
    /\ UNCHANGED <<tokens, mapVars, db, dbVisited, ctlVars, histVars, workVars>>

\* a tick; one after the cancellation would only move a record out and back
TickPop ==
    /\ ~cancelled
    /\ disk # <<>>
    /\ disk' = Front(disk)
    /\ tokens' = Append(tokens, Last(disk))
    /\ queue' = BagAdd(queue, Len(tokens) + 1)
    /\ UNCHANGED <<mapVars, db, dbVisited, ctlVars, faults, histVars, workVars>>

Cancel ==
    /\ ~cancelled
    /\ Fault
    /\ cancelled' = TRUE
    /\ UNCHANGED <<memVars, mapVars, diskVars, todo, closed, histVars, workVars>>

\* dispatch has returned and Wait sees an empty pool; tasks may still run
EndSession ==
    /\ cancelled /\ ~closed
    /\ queue = EmptyBag
    /\ closed' = TRUE
    /\ dbVisited' = visited
    /\ UNCHANGED <<memVars, mapVars, disk, db, todo, cancelled, faults, histVars, workVars>>

Before == {"entry", "offers", "visit"}

\* the process exits, whatever its workers do, and a new session begins
Restart ==
    /\ closed
    /\ cancelled' = FALSE /\ closed' = FALSE
    /\ tokens' = <<>> /\ queue' = EmptyBag /\ lru' = <<>>
    /\ visited' = dbVisited
    /\ pc' = Idle /\ cur' = [w \in Workers |-> 0] /\ list' = [w \in Workers |-> <<>>]
    /\ todo' = Starts
    /\ fetches' = [p \in Pages |-> 0]
    /\ cut' = cut \cup {Page(w) : w \in {v \in Workers : At(v, "submit")}}
    /\ given' = given \cup (DOMAIN visited \ DOMAIN dbVisited)
                      \cup {Page(w) : w \in {v \in Workers : pc[v] \in Before}}
    /\ UNCHANGED <<diskVars, faults>>

Next ==
    \/ \E w \in Workers : WorkerStep(w)
    \/ \E p \in Pages : Dispatch(p)
    \/ \E x \in BagToSet(queue) : Spill(x)
    \/ TickPop
    \/ Cancel \/ EndSession \/ Restart

Spec == Init /\ [][Next]_vars

\* goroutines that can run do, and ticks keep coming
Fairness ==
    /\ \A w \in Workers : WF_vars(WorkerStep(w))
    /\ \A p \in Pages : WF_vars(Dispatch(p))
    /\ WF_vars(EndSession)
    /\ WF_vars(TickPop)

FairSpec == Spec /\ Fairness

-----------------------------------------------------------------------------
(* Properties                                                              *)

Labels == {"idle", "entry", "offers", "visit", "swap", "load", "fetch",
           "index", "submit"}

IsToken(t) == t.page \in Pages /\ t.depth \in 0 .. MaxDepth

\* Typing: pointers point to tokens and the cache stays within its capacity.
TypeOK ==
    /\ \A x \in DOMAIN tokens : IsToken(tokens[x])
    /\ BagToSet(queue) \subseteq DOMAIN tokens
    /\ \A i \in DOMAIN disk : IsToken(disk[i])
    /\ DOMAIN visited \subseteq Pages /\ DOMAIN db \subseteq Pages
    /\ Len(lru) <= LruCapacity
    /\ \A w \in Workers :
         /\ pc[w] \in Labels
         /\ cur[w] \in DOMAIN tokens <=> pc[w] # "idle"
         /\ ToSet(list[w]) \subseteq DOMAIN tokens

\* Two workers never fetch the same page in one session, however many tokens
\* for it are in the queue and in the workers (scraper.go:221).
FetchedOnce == \A p \in Pages : fetches[p] <= 1

PagesOf(S) == {tokens[x].page : x \in S}

\* the pages a token is under way to
UnderWay ==
    PagesOf(BagToSet(queue))
      \cup {disk[i].page : i \in DOMAIN disk}
      \cup {Page(w) : w \in {v \in Workers : pc[v] \in Before}}
      \cup UNION {PagesOf(ToSet(list[w])) : w \in {v \in Workers : At(v, "submit")}}

\* No link is forgotten: once the links of a page are saved, each leads to a
\* page that is visited or has a token in the pool, on the disk or in a
\* worker, through revisits, evictions, cancellation and resumption, except
\* where a task was cut short or a token was dropped.
LinksCovered ==
    \A p \in DOMAIN db \ cut :
        ToSet(db[p]) \subseteq DOMAIN visited \cup UnderWay \cup given

Quiet == queue = EmptyBag /\ pc = Idle

\* The crawl of a finite web comes to rest, although pages link in circles,
\* are visited again from closer by, and two such visits may store their
\* depths in either order (scraper.go:221-226).
CrawlTerminates == <>[]Quiet

-----------------------------------------------------------------------------
(* What the documentation promises and the code does not keep              *)

\* README.md:20, "To preserve the information needed to continue crawling": an
\* interrupted crawl that has come to rest again, with nothing left on disk,
\* has followed every link of every saved list it was not sent away from.
ResumedCrawlCompletes ==
    Quiet /\ disk = <<>> /\ ~cancelled /\ todo = {} =>
        \A p \in DOMAIN db : ToSet(db[p]) \subseteq DOMAIN visited \cup given
=============================================================================
