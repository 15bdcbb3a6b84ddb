---------------------------- MODULE DocumentIndex ----------------------------
(***************************************************************************)
(* How a page becomes a document: HandleDocumentWords (wordHandling.go)    *)
(* with the near-duplicate files and their writers (shingleRepo.go), the   *)
(* bigram counters, the document and its postings (indexRepos.go,          *)
(* documentRepos.go), the hash parameters that are saved when a session    *)
(* returns (salt.bin), and the process around them: interrupt, shutdown,   *)
(* exit, crash and restart.  What a search finds is read from the same     *)
(* store.                                                                  *)
(*                                                                         *)
(* The store is written with NoSync and never closed, so that an ending    *)
(* process may lose its last writes: from some moment on (LoseTail) writes *)
(* are seen by this process only.  Writes to files stay.                   *)
(*                                                                         *)
(* A signature is a sequence of hash values, cut into chunks; a word is a  *)
(* sequence of letters.  A page is handled by one worker at a time (see    *)
(* Crawler), so that the state of a call is kept under its page.           *)
(***************************************************************************)
EXTENDS Integers, Sequences, FiniteSets, SequencesExt

CONSTANTS
    Pages,
    Sign,          \* the signature of each page, empty for fewer than 5 words
    WordsOf,       \* the stemmed words of each page
    Skipped,       \* pages the regression model turns down
    ChunkLen,      \* hash values in a chunk, 8 in the code
    Shards,        \* shingle files, 512 in the code
    WorkersCount,  \* capacity of a shingle channel
    MaxCalls,      \* bound: pages handled, in all
    MaxFaults,     \* bound: failed reads and writes, lost tails of the
                   \* store and kills, in all
    MaxSessions    \* bound: crawl sessions, in all; a process ends only if
                   \* another session can follow

ASSUME DocumentIndexAssumption ==
    /\ ChunkLen \in Nat \ {0} /\ Shards \in Nat \ {0} /\ WorkersCount \in Nat \ {0}
    /\ \A p \in Pages : Sign[p] \in Seq(Nat) /\ Len(Sign[p]) % ChunkLen = 0
    /\ \A p \in Pages : \A x \in WordsOf[p] : x \in Seq(Range(x)) /\ x # <<>>
    /\ Skipped \subseteq Pages
    \* an id is a hexadecimal number: not the separator of a key, and none of the
    \* marks Failed and Free below
    /\ \A p \in Pages : p # "_" /\ p # "failed" /\ p # <<>>
    /\ MaxCalls \in Nat /\ MaxFaults \in Nat /\ MaxSessions \in Nat

VARIABLES
    cancelled,  \* the interrupt has ended the process's context
    panicked,   \* a send on a closed channel has ended the process
    refused,    \* NewIndexer has refused to start
    lastEnd,    \* how the process before this one ended
    session,    \* where the crawl session is
    visited,    \* its visited pages
    salt,       \* salt.bin
    closed,     \* stop has closed the shingle channels
    stopped,    \* the backup goroutine has returned
    queue,      \* each shingle channel
    writer,     \* each shingleWorker
    files,      \* the entries of the shingle files
    mu,         \* who holds ir.mu
    pc,         \* where the handling of each page is
    sent,       \* chunks of its signature that were sent
    freq,       \* the bigram count that was read
    todo,       \* words whose posting is still to be stored
    store,      \* what the process reads from the key-value store
    kept,       \* what a process after it would find there
    losing,     \* writes are not kept any more
    halfway,    \* pages left between their shingles and their document
    cut,        \* pages whose shingles were not all written
    calls, faults, sessions

procVars  == <<cancelled, panicked, refused, lastEnd>>
sessVars  == <<session, visited, salt>>
chanVars  == <<closed, stopped, queue, writer, files>>
callVars  == <<mu, pc, sent, freq, todo>>
storeVars == <<store, kept, losing>>
histVars  == <<halfway, cut>>
boundVars == <<calls, faults, sessions>>
vars == <<procVars, sessVars, chanVars, callVars, storeVars, histVars, boundVars>>

-----------------------------------------------------------------------------
(* The store and what is read from it                                      *)

docKey(p)     == [kind |-> "doc", str |-> <<p>>]
visitedKey(p) == [kind |-> "visited", str |-> <<p>>]

\* the word, the separator and the id of the document
riKey(x, p) == [kind |-> "ri", str |-> x \o <<"_", p>>]

Has(k) == k \in store.keys

Write(new) ==
    /\ store' = new
    /\ kept' = IF losing THEN kept ELSE new
    /\ UNCHANGED losing

Set(keys) == Write([store EXCEPT !.keys = @ \cup keys])

GetFreq == store.bigram

\* mutant: the prefix ends with the word
wprefixBare(x) == x

wprefix(x) == x \o <<"_">>

\* what follows the prefix in the keys that begin with it; it has to be the
\* id of a document, in hexadecimal
KeyParts(x) ==
    {SubSeq(k.str, Len(wprefix(x)) + 1, Len(k.str)) :
        k \in {r \in store.keys : r.kind = "ri" /\ IsPrefix(wprefix(x), r.str)}}

DecodeFails(x) == \E part \in KeyParts(x) : ~(Len(part) = 1 /\ part[1] \in Pages)

Failed == {"failed"}

GetDocumentsByWord(x) ==
    IF DecodeFails(x) THEN Failed ELSE {part[1] : part \in KeyParts(x)}

\* a document that cannot be read ends the search without a result
Search(x) ==
    LET ids == GetDocumentsByWord(x)
    IN  IF ids = Failed \/ \E p \in ids : ~Has(docKey(p)) THEN Failed ELSE ids

-----------------------------------------------------------------------------
(* Signatures                                                              *)

Chunks(p)   == Len(Sign[p]) \div ChunkLen
Chunk(s, k) == SubSeq(s, (k - 1) * ChunkLen + 1, k * ChunkLen)

\* the sum of the values, each taken modulo the number of files
makeShingleKey(chunk) ==
    LET key[n \in 0 .. Len(chunk)] ==
            IF n = 0 THEN 0 ELSE key[n - 1] + (chunk[n] % Shards)
    IN  key[Len(chunk)] % Shards

\* an entry carries its chunk and the whole signature
Shingle(p, k) == [key |-> Chunk(Sign[p], k), sign |-> Sign[p]]

\* signatures found in the files of the chunks in ks
SimilarSigns(p, ks) == {e.sign : e \in {f \in files : \E k \in ks : f.key = Chunk(Sign[p], k)}}

\* calcSim(s, t) > 0.8
Similar(s, t) == 5 * Cardinality({j \in DOMAIN s : s[j] = t[j]}) > 4 * Len(s)

\* mutant: the decision of the model is not looked at
HasSignatureAll(p) == Sign[p] # <<>>

HasSignature(p) == p \notin Skipped /\ Sign[p] # <<>>

Channels == 0 .. Shards - 1
Channel(p, k) == makeShingleKey(Chunk(Sign[p], k))

-----------------------------------------------------------------------------
Running == ~panicked /\ ~refused
Fault   == faults < MaxFaults /\ faults' = faults + 1 /\ UNCHANGED <<calls, sessions>>

NoEntries == [f \in Channels |-> <<>>]
AllRun    == [f \in Channels |-> "run"]
Idle      == [p \in Pages |-> "idle"]
Zero      == [p \in Pages |-> 0]
NoWords   == [p \in Pages |-> {}]
Free      == <<>>

\* updates is the number of updates of the bigram, for BigramsExact
EmptyStore == [keys |-> {}, bigram |-> 0, updates |-> 0]

Init ==
    /\ cancelled = FALSE /\ panicked = FALSE /\ refused = FALSE /\ lastEnd = "exit"
    /\ session = "none" /\ visited = {} /\ salt = "none"
    /\ closed = FALSE /\ stopped = FALSE
    /\ queue = NoEntries /\ writer = AllRun /\ files = {}
    /\ mu = Free /\ pc = Idle /\ sent = Zero /\ freq = Zero /\ todo = NoWords
    /\ store = EmptyStore /\ kept = EmptyStore /\ losing = FALSE
    /\ halfway = {} /\ cut = {}
    /\ calls = 0 /\ faults = 0 /\ sessions = 0

-----------------------------------------------------------------------------
(* HandleDocumentWords                                                     *)

\* pages that a call leaves with shingles and no document
Half == {p \in Pages : pc[p] \in {"send", "bigrams", "commit", "save"} /\ sent[p] > 0}

Goto(p, label) == pc' = [pc EXCEPT ![p] = label]

\* the call returns
Return(p) ==
    /\ Goto(p, "idle")
    /\ sent' = [sent EXCEPT ![p] = 0]
    /\ freq' = [freq EXCEPT ![p] = 0]
    /\ todo' = [todo EXCEPT ![p] = {}]

\* a worker has stored the page as visited and fetched it
Begin(p) ==
    /\ Running /\ session = "live" /\ ~cancelled
    /\ pc[p] = "idle" /\ p \notin visited
    /\ calls < MaxCalls /\ calls' = calls + 1
    /\ visited' = visited \cup {p}
    /\ todo' = [todo EXCEPT ![p] = WordsOf[p]]
    /\ Goto(p, "look")
    /\ UNCHANGED <<procVars, session, salt, chanVars, mu, sent, freq, storeVars,
                   histVars, faults, sessions>>

\* near-duplicates are looked for, and the page is turned down or goes on.  The
\* files only grow, so reading them one after the other gives what one
\* reading at the first or at the last moment gives.  A file that cannot be
\* opened is passed over.
Look(p) ==
    /\ Running /\ pc[p] = "look"
    /\ IF ~HasSignature(p)
       THEN Goto(p, "bigrams") /\ UNCHANGED <<sent, freq, todo, boundVars>>
       ELSE \E ks \in SUBSET (1 .. Chunks(p)) :
              /\ IF ks = 1 .. Chunks(p) THEN UNCHANGED boundVars ELSE Fault
              /\ IF \E s \in SimilarSigns(p, ks) : Similar(Sign[p], s)
                 THEN Return(p)
                 ELSE Goto(p, "send") /\ UNCHANGED <<sent, freq, todo>>
    /\ UNCHANGED <<procVars, sessVars, chanVars, mu, storeVars, histVars>>

\* the chunk is sent, and the next one follows
SendNext(p) ==
    /\ sent' = [sent EXCEPT ![p] = @ + 1]
    /\ Goto(p, IF sent[p] + 1 = Chunks(p) THEN "bigrams" ELSE "send")

Send(p) ==
    /\ Running /\ pc[p] = "send"
    /\ LET k == sent[p] + 1
           f == Channel(p, k)
       IN  /\ ~closed /\ Len(queue[f]) < WorkersCount
           /\ queue' = [queue EXCEPT ![f] = Append(@, Shingle(p, k))]
    /\ SendNext(p)
    /\ UNCHANGED <<procVars, sessVars, closed, stopped, writer, files, mu, freq,
                   todo, storeVars, histVars, boundVars>>

\* the select picks the send on a closed channel
SendOnClosed(p) ==
    /\ Running /\ pc[p] = "send" /\ closed
    /\ panicked' = TRUE
    /\ UNCHANGED <<cancelled, refused, lastEnd, sessVars, chanVars, callVars, storeVars,
                   histVars, boundVars>>

\* ctx.Done: the error is context.Canceled, on which the caller goes on
SendCancelled(p) ==
    /\ Running /\ pc[p] = "send" /\ cancelled
    /\ Goto(p, "bigrams")
    /\ cut' = cut \cup {p}
    /\ UNCHANGED <<procVars, sessVars, chanVars, mu, sent, freq, todo, storeVars,
                   halfway, boundVars>>

\* mutant: the count is read before the lock is taken
BigramsReadUnlocked(p) ==
    /\ Running /\ pc[p] = "bigrams"
    /\ freq' = [freq EXCEPT ![p] = GetFreq]
    /\ Goto(p, "commit")
    /\ UNCHANGED <<procVars, sessVars, chanVars, mu, sent, todo, storeVars,
                   histVars, boundVars>>

\* UpdateBiFreq takes the lock and reads; the pages share one bigram
BigramsRead(p) ==
    /\ Running /\ pc[p] = "bigrams" /\ mu = Free
    /\ mu' = p
    /\ freq' = [freq EXCEPT ![p] = GetFreq]
    /\ Goto(p, "commit")
    /\ UNCHANGED <<procVars, sessVars, chanVars, sent, todo, storeVars, histVars,
                   boundVars>>

\* the batch is committed and the lock released; a page the model has turned
\* down ends here, with an error
BigramsCommit(p) ==
    /\ Running /\ pc[p] = "commit"
    /\ Write([store EXCEPT !.bigram = freq[p] + 1, !.updates = @ + 1])
    /\ mu' = Free
    /\ IF p \in Skipped
       THEN Return(p)
       ELSE Goto(p, "save") /\ UNCHANGED <<sent, freq, todo>>
    /\ UNCHANGED <<procVars, sessVars, chanVars, histVars, boundVars>>

AfterSave(p) == IF todo[p] = {} THEN Return(p)
                ELSE Goto(p, "words") /\ UNCHANGED <<sent, freq, todo>>

\* mutant: the postings are stored without the document
SaveDocumentNot(p) ==
    /\ Running /\ pc[p] = "save" /\ mu = Free
    /\ AfterSave(p)
    /\ UNCHANGED <<procVars, sessVars, chanVars, mu, storeVars, histVars, boundVars>>

SaveDocument(p) ==
    /\ Running /\ pc[p] = "save" /\ mu = Free
    /\ Set({docKey(p)})
    /\ AfterSave(p)
    /\ UNCHANGED <<procVars, sessVars, chanVars, mu, histVars, boundVars>>

\* IndexDocumentWords, one posting at a time in the order of a map; the
\* tri-grams that follow are the subject of WordIndex
IndexWord(p) ==
    /\ Running /\ pc[p] = "words"
    /\ \E x \in todo[p] :
         /\ Set({riKey(x, p)})
         /\ IF todo[p] = {x}
            THEN Return(p)
            ELSE todo' = [todo EXCEPT ![p] = @ \ {x}] /\ UNCHANGED <<pc, sent, freq>>
    /\ UNCHANGED <<procVars, sessVars, chanVars, mu, histVars, boundVars>>

\* a read of the shingle files or a read or a write of the store fails: the
\* call returns the error, and the deferred Unlock is run
CallFails(p) ==
    /\ Running /\ pc[p] \in {"look", "commit", "save", "words"}
    /\ pc[p] = "look" => HasSignature(p)
    /\ Fault
    /\ Return(p)
    /\ mu' = IF mu = p THEN Free ELSE mu
    /\ halfway' = halfway \cup (Half \cap {p})
    /\ UNCHANGED <<procVars, sessVars, chanVars, storeVars, cut>>

CallStep(p) ==
    \/ Look(p) \/ Send(p) \/ SendOnClosed(p) \/ SendCancelled(p)
    \/ BigramsRead(p) \/ BigramsCommit(p) \/ SaveDocument(p) \/ IndexWord(p)
    \/ CallFails(p)

-----------------------------------------------------------------------------
(* The writers of the shingle files and the shutdown                       *)

\* pages whose signature is among the entries
Owners(entries) == {p \in Pages : \E e \in entries : e.sign = Sign[p]}

WriteShingle(f) ==
    /\ Running /\ writer[f] = "run" /\ queue[f] # <<>>
    /\ files' = files \cup {Head(queue[f])}
    /\ queue' = [queue EXCEPT ![f] = Tail(@)]
    /\ UNCHANGED <<procVars, sessVars, closed, stopped, writer, callVars, storeVars,
                   histVars, boundVars>>

\* mutant: a writer that gives up does not close done
WriteFailsSilently(f) ==
    /\ Running /\ writer[f] = "run" /\ queue[f] # <<>>
    /\ Fault
    /\ queue' = [queue EXCEPT ![f] = Tail(@)]
    /\ writer' = [writer EXCEPT ![f] = "hung"]
    /\ cut' = cut \cup Owners({Head(queue[f])})
    /\ UNCHANGED <<procVars, sessVars, closed, stopped, files, callVars, storeVars, halfway>>

\* the write fails: the entry is gone, and nobody receives from the channel
\* any more
WriteFails(f) ==
    /\ Running /\ writer[f] = "run" /\ queue[f] # <<>>
    /\ Fault
    /\ queue' = [queue EXCEPT ![f] = Tail(@)]
    /\ writer' = [writer EXCEPT ![f] = "dead"]
    /\ cut' = cut \cup Owners({Head(queue[f])})
    /\ UNCHANGED <<procVars, sessVars, closed, stopped, files, callVars, storeVars, halfway>>

WriterStep(f) == WriteShingle(f) \/ WriteFails(f)

Cancel ==
    /\ Running /\ ~cancelled
    /\ cancelled' = TRUE
    /\ UNCHANGED <<panicked, refused, lastEnd, sessVars, chanVars, callVars, storeVars,
                   histVars, boundVars>>

\* stop closes the channels; one after the other, but a send to one that is
\* still open might as well have come before the first
StopClose ==
    /\ Running /\ cancelled /\ ~closed
    /\ closed' = TRUE
    /\ UNCHANGED <<procVars, sessVars, stopped, queue, writer, files, callVars, storeVars,
                   histVars, boundVars>>

\* mutant: the writers are not waited for
StopWaitNot ==
    /\ Running /\ closed /\ ~stopped
    /\ stopped' = TRUE
    /\ UNCHANGED <<procVars, sessVars, closed, queue, writer, files, callVars, storeVars,
                   histVars, boundVars>>

\* and waits for their writers, which end when the channel is drained; the
\* backup goroutine returns
StopWait ==
    /\ Running /\ closed /\ ~stopped
    /\ \A f \in Channels : writer[f] = "dead" \/ (writer[f] = "run" /\ queue[f] = <<>>)
    /\ stopped' = TRUE
    /\ UNCHANGED <<procVars, sessVars, closed, queue, writer, files, callVars, storeVars,
                   histVars, boundVars>>

StopStep == StopClose \/ StopWait

\* the writes from here on would be lost with the process
LoseTail ==
    /\ Running /\ ~losing
    /\ Fault
    /\ losing' = TRUE
    /\ UNCHANGED <<procVars, sessVars, chanVars, callVars, store, kept, histVars>>

-----------------------------------------------------------------------------
(* The session and the process                                             *)

StartSession ==
    /\ Running /\ ~cancelled /\ session \in {"none", "ended"}
    /\ sessions < MaxSessions /\ sessions' = sessions + 1
    /\ session' = "live"
    /\ visited' = {p \in Pages : Has(visitedKey(p))}
    /\ UNCHANGED <<procVars, salt, chanVars, callVars, storeVars, histVars, calls, faults>>

\* the session is stopped or interrupted and Run returns, with tasks that
\* still run: SaveVisitedUrls, then SaveHashArrays, which truncates the file
SaveVisitedUrls ==
    /\ Running /\ session = "live"
    /\ session' = "salt" /\ salt' = "empty"
    /\ Set({visitedKey(p) : p \in visited})
    /\ UNCHANGED <<procVars, visited, chanVars, callVars, histVars, boundVars>>

\* and writes it
WriteSalt ==
    /\ Running /\ session = "salt"
    /\ session' = "ended" /\ salt' = "saved"
    /\ UNCHANGED <<procVars, visited, chanVars, callVars, storeVars, histVars, boundVars>>

\* NewIndexer refuses a truncated file, and documents without one
RefusesStart ==
    \/ salt = "empty"
    \/ salt = "none" /\ \E p \in Pages : docKey(p) \in kept.keys

\* a new process, on what the store has kept
Restart(unwritten) ==
    /\ sessions < MaxSessions
    /\ store' = kept /\ UNCHANGED kept /\ losing' = FALSE
    /\ refused' = RefusesStart
    /\ cancelled' = FALSE /\ panicked' = FALSE
    /\ session' = "none" /\ visited' = {}
    /\ closed' = FALSE /\ stopped' = FALSE /\ queue' = NoEntries /\ writer' = AllRun
    /\ mu' = Free /\ pc' = Idle /\ sent' = Zero /\ freq' = Zero
    /\ todo' = NoWords
    /\ halfway' = halfway \cup Half
                    \cup {p \in Pages : docKey(p) \in store.keys \ kept.keys}
    /\ cut' = cut \cup Owners(unwritten)
    /\ UNCHANGED <<salt, files, calls, sessions>>

Queued(fs) == UNION {Range(queue[f]) : f \in fs}

\* mutant: main does not wait for the session
ExitEarly ==
    /\ Running /\ stopped
    /\ lastEnd' = "exit" /\ UNCHANGED faults
    /\ Restart(Queued({f \in Channels : writer[f] = "dead"}))

\* backupWG.Wait returns: the session and the backup goroutine have; tasks are
\* not waited for (see WorkerPool)
Exit ==
    /\ Running /\ stopped /\ session \in {"none", "ended"}
    /\ lastEnd' = "exit" /\ UNCHANGED faults
    /\ Restart(Queued({f \in Channels : writer[f] = "dead"}))

\* the process has panicked, or is killed
Crash ==
    /\ ~refused
    /\ IF panicked THEN UNCHANGED faults ELSE faults < MaxFaults /\ faults' = faults + 1
    /\ lastEnd' = "crash"
    /\ Restart(Queued(Channels))

-----------------------------------------------------------------------------
Next ==
    \/ \E p \in Pages : CallStep(p) \/ Begin(p)
    \/ \E f \in Channels : WriterStep(f)
    \/ Cancel \/ StopStep \/ LoseTail
    \/ StartSession \/ SaveVisitedUrls \/ WriteSalt
    \/ Exit \/ Crash

Spec == Init /\ [][Next]_vars

\* Go runs every goroutine that can run.  Nothing has to be started, to fail or
\* to be interrupted.
FairSpec ==
    /\ Spec
    /\ \A p \in Pages : WF_vars(CallStep(p))
    /\ \A f \in Channels : WF_vars(WriterStep(f))
    /\ WF_vars(StopStep)

-----------------------------------------------------------------------------
(* Properties                                                              *)

\* Types: channels stay within their capacity and are closed only after the
\* interrupt, ir.mu is held exactly inside UpdateBiFreq, and without a lost
\* tail what is read is what is kept.
TypeOK ==
    /\ {cancelled, panicked, refused, stopped} \subseteq BOOLEAN
    /\ lastEnd \in {"exit", "crash"}
    /\ session \in {"none", "live", "salt", "ended"}
    /\ salt \in {"none", "empty", "saved"} /\ visited \subseteq Pages
    /\ closed \in BOOLEAN /\ (closed => cancelled)
    /\ \A f \in Channels :
         /\ Len(queue[f]) <= WorkersCount
         /\ writer[f] \in {"run", "dead"}
    /\ mu = Free \/ mu \in Pages
    /\ \A p \in Pages :
         /\ pc[p] \in {"idle", "look", "send", "bigrams", "commit", "save", "words"}
         /\ mu = p <=> pc[p] = "commit"
         /\ sent[p] \in Nat /\ freq[p] \in Nat
    /\ kept.keys \subseteq store.keys /\ (~losing => kept = store)
    /\ halfway \subseteq Pages /\ cut \subseteq Pages

\* Every posting leads to a document, in every state of the store that an
\* ending process may leave: a search does not fail over a document that is
\* missing (wordHandling.go:83-90, searcher.go:79-82).
PostingsHaveDocs ==
    \A keys \in {store.keys, kept.keys} : \A p \in Pages : \A x \in WordsOf[p] :
        riKey(x, p) \in keys => docKey(p) \in keys

\* A search for a word finds exactly the pages that have a posting of it,
\* although the postings are found by the prefix of a key in which the word is
\* followed by "_" (indexRepos.go:179).  The exception is a word that another
\* stored word continues with "_", as entities and runs of symbols may.
SearchExact ==
    \A x \in UNION {WordsOf[p] : p \in Pages} :
        \/ \E p \in Pages : \E y \in WordsOf[p] :
             Has(riKey(y, p)) /\ Len(y) > Len(x) /\ IsPrefix(Append(x, "_"), y)
        \/ Search(x) = {p \in Pages : Has(riKey(x, p))}

\* A signature that can turn a page down belongs to a page that is indexed or
\* being indexed.  The exceptions are pages left between the two writes by an
\* error or the end of a process, which after a crash turn down themselves
\* (wordHandling.go:66, 83).
SignaturesHaveDocs ==
    \A e \in files \cup Queued(Channels) :
        \E p \in Pages : Sign[p] = e.sign /\ (Has(docKey(p)) \/ pc[p] # "idle" \/ p \in halfway)

\* The signature of an indexed page is found under every one of its chunks, as
\* soon as the writers have come to it, through an orderly shutdown as well:
\* stop drains the channels before the process exits (shingleRepo.go:98-106).
\* The exceptions are an interrupt while the chunks are sent, a failed write
\* and a crash.
SignaturesComplete ==
    \A p \in Pages :
        HasSignature(p) /\ Has(docKey(p)) /\ p \notin cut =>
            \A k \in 1 .. Chunks(p) : Shingle(p, k) \in files \cup Queued(Channels)

\* The counter of a bigram is the number of updates, whatever order workers
\* come in and whichever writes are lost (indexRepos.go:256-286).
BigramsExact == store.bigram = store.updates /\ kept.bigram = kept.updates

\* After an orderly exit the next process starts: the parameters of the hashes
\* are complete on disk whenever there are documents (indexer.go:69-77,
\* scraper.go:136-139).  Only a crash can leave an index that is refused.
OrderlyExitRestarts == refused => lastEnd = "crash"

\* An interrupted process comes to the end of its shutdown and no call is left
\* waiting, although channels may be full and a writer may have given up
\* before (shingleRepo.go:34-37, 81, 103-105), unless a sender meets a closed
\* channel.
ShutdownEnds ==
    cancelled ~> (stopped /\ pc = Idle) \/ panicked \/ ~cancelled
=============================================================================
