------------------------------ MODULE WordIndex ------------------------------
(***************************************************************************)
(* The tri-gram index of words behind the spelling correction: the         *)
(* allocators of word ids, one goroutine per shard with a shared counter   *)
(* (alloc, indexRepos.go), the workers that store the words of a document  *)
(* (IndexTriGrams, nGramRepo.go), the reader (GetWordsByTGrams), and the   *)
(* process around them: interrupt, saving of the counter, exit, crash and  *)
(* restart.                                                                *)
(*                                                                         *)
(* A word is the sequence of its letters.  Words and ids are kept in the   *)
(* key-value store, tri-grams in files.  The store is written with NoSync  *)
(* and is never closed: it is a log of writes, and a process that ends may *)
(* leave only a prefix of what it wrote.  A write to a file stays.         *)
(***************************************************************************)
EXTENDS Integers, Sequences, FiniteSets, SequencesExt

CONSTANTS
    Docs,          \* documents: sequences of words
    Indexers,      \* pool workers that index documents
    WorkersCount,  \* capacity of a shard's channel and of its cache
    IdSpace,       \* ids an entry of a file can tell apart, 2^24 in the code
    LosesTail,     \* whether the store may lose unsynced writes at an exit
    MaxCalls,      \* bound: documents indexed, in all
    MaxFaults,     \* bound: failed reads and writes, and kills, in all
    MaxSessions    \* bound: processes

Words == UNION {Range(d) : d \in Docs}

\* the shard of a word is its first letter
Shard(w) == w[1]
Shards   == {Shard(w) : w \in Words}

ASSUME WordIndexAssumption ==
    /\ \A d \in Docs : d \in Seq(Range(d))
    /\ \A w \in Words : w \in Seq(Range(w)) /\ Len(w) > 0
    /\ WorkersCount \in Nat \ {0} /\ IdSpace \in Nat \ {0}
    /\ LosesTail \in BOOLEAN
    /\ MaxCalls \in Nat /\ MaxFaults \in Nat /\ MaxSessions \in Nat

VARIABLES
    counter,    \* c of NewIndexRepository
    cancelled,  \* the interrupt has ended the process's context
    saved,      \* the counter has been stored at shutdown
    panicked,   \* a send on a closed channel has ended the process
    chan,       \* each shard's channel of requests
    apc,        \* where each allocator is
    areq,       \* the request it works on, with the id it has drawn
    cache,      \* its LRU cache, the most recent entry first
    ipc,        \* where each indexer is
    words,      \* the words it has still to handle, the current one first
    answer,     \* the buffer of its request's seqC
    grams,      \* tri-grams of the current word it has still to write
    wal,        \* the writes to the store, in order
    base,       \* how many of them an earlier process has left behind
    files,      \* the entries of the n-gram files
    fresh,      \* words given a new id by this process, with the id
    dropped,    \* words whose tri-grams a returning call has left unwritten
    calls, faults, sessions

procVars  == <<counter, cancelled, saved, panicked>>
allocVars == <<apc, areq, cache>>
callVars  == <<ipc, words, grams>>
storeVars == <<wal, base>>
boundVars == <<calls, faults, sessions>>
vars == <<procVars, chan, allocVars, callVars, answer, storeVars, files,
          fresh, dropped, boundVars>>

-----------------------------------------------------------------------------
(* The store                                                               *)

wordKey(w) == <<"word", w>>
seqKey(n)  == <<"num", n>>
inck       == <<"inc">>

\* a log has a value for a key: that of the last write
HasIn(log, k)  == \E n \in DOMAIN log : log[n].key = k
FindIn(log, k) == log[CHOOSE n \in DOMAIN log :
                         /\ log[n].key = k
                         /\ \A m \in DOMAIN log : log[m].key = k => m <= n].val

Has(k)  == HasIn(wal, k)
Find(k) == FindIn(wal, k)

Set(k, v) == wal' = Append(wal, [key |-> k, val |-> v]) /\ UNCHANGED base

LoadIndexC(log) == IF HasIn(log, inck) THEN FindIn(log, inck) ELSE 0

-----------------------------------------------------------------------------
(* Tri-grams and the entries of the files                                  *)

\* the tri-grams of a word, each once
extractTGrams(w) ==
    LET found[n \in 0 .. Len(w)] ==
            IF n < 3 THEN <<>>
            ELSE LET g == SubSeq(w, n - 2, n)
                 IN  IF g \in Range(found[n - 1]) THEN found[n - 1]
                     ELSE Append(found[n - 1], g)
    IN  found[Len(w)]

\* the elements of q that a loop keeps, in their order
Filter(q, keep) ==
    LET kept[n \in 0 .. Len(q)] ==
            IF n = 0 THEN <<>>
            ELSE IF q[n] \in keep THEN Append(kept[n - 1], q[n]) ELSE kept[n - 1]
    IN  kept[Len(q)]

\* an entry lies in the file of the first two letters and packs the id with
\* the third
encNGData(n, g) == [file |-> SubSeq(g, 1, 2), last |-> g[3], id |-> n % IdSpace]

\* ids of the entries that match a tri-gram of w
Candidates(w) ==
    {e.id : e \in {f \in files : \E g \in Range(extractTGrams(w)) :
                       f.file = SubSeq(g, 1, 2) /\ f.last = g[3]}}

\* getWordsFromSeq: an id without a word fails the whole query
QueryFails(w) == \E n \in Candidates(w) : ~Has(seqKey(n))

GetWordsByTGrams(w) ==
    IF QueryFails(w) THEN {} ELSE {Find(seqKey(n)) : n \in Candidates(w)}

-----------------------------------------------------------------------------
Running == ~panicked
Fault == faults < MaxFaults /\ faults' = faults + 1 /\ UNCHANGED <<calls, sessions>>

AllocIdle == [s \in Shards |-> "wait"]
NoRequest == [s \in Shards |-> <<>>]
CallsIdle == [i \in Indexers |-> "idle"]
Nothing   == [i \in Indexers |-> <<>>]

Init ==
    /\ counter = 0 /\ cancelled = FALSE /\ saved = FALSE /\ panicked = FALSE
    /\ chan = NoRequest /\ apc = AllocIdle /\ areq = NoRequest /\ cache = NoRequest
    /\ ipc = CallsIdle /\ words = Nothing /\ answer = Nothing /\ grams = Nothing
    /\ wal = <<>> /\ base = 0 /\ fresh = {}
    /\ files = {} /\ dropped = {}
    /\ calls = 0 /\ faults = 0 /\ sessions = 1

-----------------------------------------------------------------------------
(* alloc                                                                   *)

Put(s, w, n) ==
    LET others == Filter(cache[s], {e \in Range(cache[s]) : e.word # w})
        all    == <<[word |-> w, id |-> n]>> \o others
    IN  [cache EXCEPT ![s] = SubSeq(all, 1, IF Len(all) > WorkersCount
                                            THEN WorkersCount ELSE Len(all))]

Cached(s, w) == \E e \in Range(cache[s]) : e.word = w
Entry(s, w)  == CHOOSE e \in Range(cache[s]) : e.word = w

\* the allocator takes a request, unless the context is done: then it drops
\* the request and closes its channel
AllocTake(s) ==
    /\ Running /\ apc[s] = "wait" /\ chan[s] # <<>>
    /\ chan' = [chan EXCEPT ![s] = Tail(@)]
    /\ IF cancelled
       THEN apc' = [apc EXCEPT ![s] = "closed"] /\ UNCHANGED areq
       ELSE /\ apc' = [apc EXCEPT ![s] = "look"]
            /\ areq' = [areq EXCEPT ![s] = Head(chan[s])]
    /\ UNCHANGED <<procVars, cache, callVars, answer, storeVars, files, fresh,
                   dropped, boundVars>>

\* entry.seqC <- seq; the buffer of one never blocks
Reply(s, n, l) ==
    /\ answer' = [answer EXCEPT ![areq[s].from] = <<[id |-> n, loaded |-> l]>>]
    /\ apc' = [apc EXCEPT ![s] = "wait"]
    /\ areq' = [areq EXCEPT ![s] = <<>>]

\* the word is in the cache, or in the store
AllocFind(s) ==
    /\ Running /\ apc[s] = "look"
    /\ LET w == areq[s].word IN
         \/ /\ Cached(s, w)
            /\ Reply(s, Entry(s, w).id, TRUE)
            /\ cache' = Put(s, w, Entry(s, w).id)
         \/ /\ ~Cached(s, w) /\ Has(wordKey(w))
            /\ Reply(s, Find(wordKey(w)), TRUE)
            /\ UNCHANGED cache
    /\ UNCHANGED <<procVars, chan, callVars, storeVars, files, fresh, dropped,
                   boundVars>>

\* mutant: a counter of each shard's own
NextIdPerShard(s) == 1 + Cardinality({p \in fresh : Shard(p[1]) = s})

\* atomic.AddUint32(startPos, 1)
NextId(s) == counter + 1

\* the word is new, or it could not be read: every error of Get counts as
\* "not found"
AllocAdd(s) ==
    /\ Running /\ apc[s] = "look"
    /\ ~Cached(s, areq[s].word)
    /\ IF Has(wordKey(areq[s].word)) THEN Fault ELSE UNCHANGED boundVars
    /\ areq' = [areq EXCEPT ![s] = [word |-> @.word, from |-> @.from, id |-> NextId(s)]]
    /\ counter' = counter + 1
    /\ apc' = [apc EXCEPT ![s] = "setWord"]
    /\ UNCHANGED <<cancelled, saved, panicked, chan, cache, callVars, answer,
                   storeVars, files, fresh, dropped>>

AllocSetWord(s) ==
    /\ Running /\ apc[s] = "setWord"
    /\ Set(wordKey(areq[s].word), areq[s].id)
    /\ apc' = [apc EXCEPT ![s] = "setSeq"]
    /\ UNCHANGED <<procVars, chan, areq, cache, callVars, answer, files, fresh,
                   dropped, boundVars>>

\* mutant: a new word is answered as one that was loaded
AllocSetSeqLoaded(s) ==
    /\ Running /\ apc[s] = "setSeq"
    /\ Set(seqKey(areq[s].id), areq[s].word)
    /\ cache' = Put(s, areq[s].word, areq[s].id)
    /\ fresh' = fresh \cup {<<areq[s].word, areq[s].id>>}
    /\ Reply(s, areq[s].id, TRUE)
    /\ UNCHANGED <<procVars, chan, callVars, files, dropped, boundVars>>

\* the second write, the cache and the answer
AllocSetSeq(s) ==
    /\ Running /\ apc[s] = "setSeq"
    /\ Set(seqKey(areq[s].id), areq[s].word)
    /\ cache' = Put(s, areq[s].word, areq[s].id)
    /\ fresh' = fresh \cup {<<areq[s].word, areq[s].id>>}
    /\ Reply(s, areq[s].id, FALSE)
    /\ UNCHANGED <<procVars, chan, callVars, files, dropped, boundVars>>

\* either write fails: the allocator logs it, returns and closes its channel
AllocFails(s) ==
    /\ Running /\ apc[s] \in {"setWord", "setSeq"}
    /\ Fault
    /\ apc' = [apc EXCEPT ![s] = "closed"]
    /\ areq' = [areq EXCEPT ![s] = <<>>]
    /\ UNCHANGED <<procVars, chan, cache, callVars, answer, storeVars, files,
                   fresh, dropped>>

AllocStep(s) ==
    \/ AllocTake(s) \/ AllocFind(s) \/ AllocAdd(s)
    \/ AllocSetWord(s) \/ AllocSetSeq(s) \/ AllocFails(s)

-----------------------------------------------------------------------------
(* IndexTriGrams                                                           *)

\* the next word, or the end of the call; what was written is forgotten
NextWord(i) ==
    /\ words' = [words EXCEPT ![i] = Tail(@)]
    /\ ipc' = [ipc EXCEPT ![i] = IF Len(words[i]) = 1 THEN "idle" ELSE "request"]
    /\ grams' = [grams EXCEPT ![i] = <<>>]
    /\ answer' = [answer EXCEPT ![i] = <<>>]

\* the call returns an error, with its current word unfinished
Return(i, label) ==
    /\ ipc' = [ipc EXCEPT ![i] = label]
    /\ words' = [words EXCEPT ![i] = <<>>]
    /\ grams' = [grams EXCEPT ![i] = <<>>]
    /\ dropped' = dropped \cup {Head(words[i])}

\* words of one letter are skipped
Call(i, doc) ==
    /\ Running /\ ipc[i] = "idle" /\ calls < MaxCalls
    /\ LET long == Filter(doc, {w \in Words : Len(w) > 1}) IN
         /\ long # <<>>
         /\ words' = [words EXCEPT ![i] = long]
    /\ ipc' = [ipc EXCEPT ![i] = "request"]
    /\ calls' = calls + 1
    /\ UNCHANGED <<procVars, chan, allocVars, answer, grams, storeVars, files,
                   fresh, dropped, faults, sessions>>

Request(i) ==
    /\ Running /\ ipc[i] = "request"
    /\ LET s == Shard(Head(words[i])) IN
         /\ apc[s] # "closed" /\ Len(chan[s]) < WorkersCount
         /\ chan' = [chan EXCEPT ![s] =
                        Append(@, [word |-> Head(words[i]), from |-> i, id |-> 0])]
    /\ ipc' = [ipc EXCEPT ![i] = "await"]
    /\ UNCHANGED <<procVars, allocVars, words, answer, grams, storeVars, files,
                   fresh, dropped, boundVars>>

\* a select that picks the send on a closed channel
RequestOnClosed(i) ==
    /\ Running /\ ipc[i] = "request"
    /\ apc[Shard(Head(words[i]))] = "closed"
    /\ panicked' = TRUE
    /\ UNCHANGED <<counter, cancelled, saved, chan, allocVars, callVars, answer,
                   storeVars, files, fresh, dropped, boundVars>>

\* mutant: only the answer ends the waiting
CallCancelledEarly(i) ==
    /\ Running /\ cancelled /\ ipc[i] = "request"
    /\ Return(i, "gone")
    /\ UNCHANGED <<procVars, chan, allocVars, answer, storeVars, files, fresh,
                   boundVars>>

\* ctx.Done, in either select; the worker takes no other task after that
CallCancelled(i) ==
    /\ Running /\ cancelled /\ ipc[i] \in {"request", "await"}
    /\ Return(i, "gone")
    /\ UNCHANGED <<procVars, chan, allocVars, answer, storeVars, files, fresh,
                   boundVars>>

\* the answer; for a word that was loaded nothing is written
Receive(i) ==
    /\ Running /\ ipc[i] = "await" /\ answer[i] # <<>>
    /\ LET todo == extractTGrams(Head(words[i])) IN
         IF answer[i][1].loaded \/ todo = <<>>
         THEN NextWord(i)
         ELSE /\ ipc' = [ipc EXCEPT ![i] = "write"]
              /\ grams' = [grams EXCEPT ![i] = todo]
              /\ UNCHANGED <<words, answer>>
    /\ UNCHANGED <<procVars, chan, allocVars, storeVars, files, fresh, dropped,
                   boundVars>>

\* one entry, under the lock of its file
WriteGram(i) ==
    /\ Running /\ ipc[i] = "write"
    /\ files' = files \cup {encNGData(answer[i][1].id, Head(grams[i]))}
    /\ IF Len(grams[i]) = 1
       THEN NextWord(i)
       ELSE /\ grams' = [grams EXCEPT ![i] = Tail(@)]
            /\ UNCHANGED <<ipc, words, answer>>
    /\ UNCHANGED <<procVars, chan, allocVars, storeVars, fresh, dropped, boundVars>>

\* the file cannot be opened or written: the call returns the error
WriteFails(i) ==
    /\ Running /\ ipc[i] = "write"
    /\ Fault
    /\ Return(i, "idle")
    /\ answer' = [answer EXCEPT ![i] = <<>>]
    /\ UNCHANGED <<procVars, chan, allocVars, storeVars, files, fresh>>

CallStep(i) ==
    \/ Request(i) \/ RequestOnClosed(i) \/ CallCancelled(i)
    \/ Receive(i) \/ WriteGram(i) \/ WriteFails(i)

-----------------------------------------------------------------------------
(* The process                                                             *)

Cancel ==
    /\ Running /\ ~cancelled
    /\ cancelled' = TRUE
    /\ UNCHANGED <<counter, saved, panicked, chan, allocVars, callVars, answer,
                   storeVars, files, fresh, dropped, boundVars>>

\* the backup goroutine, beside allocators that are not waited for
UpdateIndexC ==
    /\ Running /\ cancelled /\ ~saved
    /\ Set(inck, counter)
    /\ saved' = TRUE
    /\ UNCHANGED <<counter, cancelled, panicked, chan, allocVars, callVars, answer,
                   files, fresh, dropped, boundVars>>

\* NewIndexRepository in a new process, on what the store has kept
Restart(log) ==
    /\ sessions < MaxSessions /\ sessions' = sessions + 1
    /\ wal' = log /\ base' = Len(log)
    /\ counter' = LoadIndexC(log)
    /\ cancelled' = FALSE /\ saved' = FALSE /\ panicked' = FALSE
    /\ chan' = NoRequest /\ apc' = AllocIdle /\ areq' = NoRequest /\ cache' = NoRequest
    /\ ipc' = CallsIdle /\ words' = Nothing /\ answer' = Nothing /\ grams' = Nothing
    /\ fresh' = {}
    /\ dropped' = dropped \cup {Head(words[i]) : i \in {j \in Indexers : words[j] # <<>>}}
    /\ UNCHANGED <<files, calls>>

Kept == {SubSeq(wal, 1, n) : n \in (IF LosesTail THEN base ELSE Len(wal))..Len(wal)}

\* backupWG.Wait returns: the counter is saved; running tasks are not waited
\* for (see WorkerPool)
Exit == saved /\ Running /\ UNCHANGED faults /\ \E log \in Kept : Restart(log)

\* the process has panicked, or is killed
Crash ==
    /\ IF panicked THEN UNCHANGED faults
                   ELSE faults < MaxFaults /\ faults' = faults + 1
    /\ \E log \in Kept : Restart(log)

-----------------------------------------------------------------------------
Next ==
    \/ \E s \in Shards : AllocStep(s)
    \/ \E i \in Indexers : CallStep(i) \/ \E d \in Docs : Call(i, d)
    \/ Cancel \/ UpdateIndexC \/ Exit \/ Crash

Spec == Init /\ [][Next]_vars

\* Go runs every goroutine that can run.  Nothing has to be indexed, to fail
\* or to be interrupted.
FairSpec ==
    /\ Spec
    /\ \A s \in Shards : WF_vars(AllocStep(s))
    /\ \A i \in Indexers : WF_vars(CallStep(i))
    /\ WF_vars(UpdateIndexC)

-----------------------------------------------------------------------------
(* Properties                                                              *)

Requests == [word : Words, from : Indexers, id : Nat]
Answers  == [id : Nat \ {0}, loaded : BOOLEAN]
Entries  == [file : {SubSeq(g, 1, 2) : g \in UNION {Range(extractTGrams(w)) : w \in Words}},
             last : Shards \cup UNION {Range(w) : w \in Words}, id : 0..(IdSpace - 1)]

\* Types: an answer carries a positive id (0 stands for no id in the code's
\* zero-valued sequence), channels and caches stay within workersCount, and
\* what an earlier process left behind is a prefix of the store's log.
TypeOK ==
    /\ counter \in Nat /\ {cancelled, saved, panicked} \subseteq BOOLEAN
    /\ \A s \in Shards :
         /\ chan[s] \in Seq(Requests) /\ Len(chan[s]) <= WorkersCount
         /\ apc[s] \in {"wait", "look", "setWord", "setSeq", "closed"}
         /\ areq[s] = <<>> \/ areq[s] \in Requests
         /\ Len(cache[s]) <= WorkersCount
    /\ \A i \in Indexers :
         /\ ipc[i] \in {"idle", "request", "await", "write", "gone"}
         /\ words[i] \in Seq(Words)
         /\ answer[i] = <<>> \/ answer[i][1] \in Answers
         /\ grams[i] # <<>> <=> ipc[i] = "write"
    /\ base \in 0..Len(wal)
    /\ files \subseteq Entries
    /\ fresh \subseteq (Words \X (Nat \ {0})) /\ dropped \subseteq Words

\* The ids that one process gives to new words are distinct, although its
\* allocators share only the counter, and each of them leads back to its word
\* (alloc stores both directions before it answers, indexRepos.go:323-339).
FreshIdsResolve ==
    /\ \A p, q \in fresh : p[2] = q[2] => p = q
    /\ \A p \in fresh : Has(seqKey(p[2])) /\ Find(seqKey(p[2])) = p[1]

\* where the tri-grams of a new word are under way: its answer waits to be
\* received, or an indexer is writing them
BeingWritten(w, n) ==
    \E i \in Indexers :
        /\ ipc[i] \in {"await", "write"} /\ Head(words[i]) = w
        /\ answer[i] = <<[id |-> n, loaded |-> FALSE]>>

\* Only the request that creates a word is told to write its tri-grams
\* (loaded, nGramRepo.go:90).  Whoever asks for the word at the same time, they
\* are all written, or being written, or the writing call has returned early.
TrigramsComplete ==
    \A p \in fresh :
        \/ \A g \in Range(extractTGrams(p[1])) : encNGData(p[2], g) \in files
        \/ BeingWritten(p[1], p[2])
        \/ p[1] \in dropped

\* A call of IndexTriGrams returns, also when the process is interrupted while
\* its request waits or has been dropped (nGramRepo.go:68-77).  The exceptions
\* are an allocator that gave up because the store failed, for which callers
\* wait until the interrupt, and the end of the process.
CallsReturn ==
    \A i \in Indexers :
        ipc[i] # "idle" ~> \/ ipc[i] \in {"idle", "gone"}
                           \/ panicked
                           \/ ~cancelled /\ \E s \in Shards : apc[s] = "closed"

\* The words that GetWordsByTGrams proposes for a word share a tri-gram with
\* it, and it does not fail on an id that has no word (nGramRepo.go:150).
CandidatesShareTrigram ==
    \A w \in Words :
        /\ ~QueryFails(w)
        /\ \A v \in GetWordsByTGrams(w) :
             Range(extractTGrams(v)) \cap Range(extractTGrams(w)) # {}
=============================================================================
