------------------------- MODULE DocumentIndexProofs -------------------------
(***************************************************************************)
(* Proofs about the document index, for any pages, signatures and words,   *)
(* any number of shards and any capacity of their channels; and, in a part *)
(* of their own at the end, about the queries that read the index, and the *)
(* algorithms of a search, the tokenizer and the reader of robots.txt, for *)
(* any words, URLs, entries, texts and lines.                              *)
(***************************************************************************)
EXTENDS DocumentIndex, TextQuery, Induction, FiniteSetTheorems, SequenceTheorems, TLAPS

\* what the process can find in the store
Keys ==
    {docKey(p) : p \in Pages} \cup {visitedKey(p) : p \in Pages}
      \cup UNION {{riKey(x, p) : x \in WordsOf[p]} : p \in Pages}

Stores == [keys : SUBSET Keys, bigram : Nat, updates : Nat]

\* what can be in a shingle file or on the way to one
Entries == UNION {{Shingle(p, k) : k \in 1 .. Chunks(p)} : p \in Pages}

PageWords == UNION {WordsOf[p] : p \in Pages}

Labels == {"idle", "look", "send", "bigrams", "commit", "save", "words"}

ProcTypes ==
    /\ cancelled \in BOOLEAN /\ panicked \in BOOLEAN /\ refused \in BOOLEAN
    /\ lastEnd \in {"exit", "crash"}
    /\ session \in {"none", "live", "salt", "ended"} /\ visited \subseteq Pages
    /\ salt \in {"none", "empty", "saved"}

ChanTypes ==
    /\ closed \in BOOLEAN /\ stopped \in BOOLEAN /\ (closed => cancelled)
    /\ queue \in [Channels -> Seq(Entries)]
    /\ \A f \in Channels : Len(queue[f]) <= WorkersCount
    /\ writer \in [Channels -> {"run", "dead"}]
    /\ cut \subseteq Pages

CallTypes ==
    /\ mu \in Pages \cup {Free}
    /\ pc \in [Pages -> Labels]
    /\ sent \in [Pages -> Nat] /\ freq \in [Pages -> Nat]
    /\ todo \in [Pages -> SUBSET PageWords]
    /\ \A p \in Pages : todo[p] \subseteq WordsOf[p]
    /\ halfway \subseteq Pages

\* the store is ahead of what is kept only from some moment on
StoreTypes ==
    /\ store \in Stores /\ kept \in Stores /\ losing \in BOOLEAN
    /\ kept.keys \subseteq store.keys /\ (~losing => kept = store)

\* What a call has done at its label.
CallInv ==
    \A p \in Pages :
        /\ pc[p] = "commit" <=> mu = p
        /\ pc[p] = "commit" => freq[p] = store.bigram
        /\ sent[p] > 0 => pc[p] \notin {"idle", "look"} /\ HasSignature(p)
        /\ pc[p] = "send" => HasSignature(p) /\ sent[p] < Chunks(p)
        /\ pc[p] \in {"save", "words"} => p \notin Skipped
        /\ pc[p] = "words" => Has(docKey(p))

\* a page that has a document, is being indexed, or was left in between
Known(p) == Has(docKey(p)) \/ sent[p] > 0 \/ p \in halfway

\* the signatures in files and channels belong to such pages
OwnersInv ==
    \A e \in files \cup Queued(Channels) : \E p \in Pages : Sign[p] = e.sign /\ Known(p)

\* chunk k of the signature of p has been sent
Sent(p, k) ==
    \/ Has(docKey(p))
    \/ pc[p] \in {"bigrams", "commit", "save", "words"}
    \/ pc[p] = "send" /\ k <= sent[p]

\* what has been sent is found, unless the page counts as cut
WrittenInv ==
    \A p \in Pages : HasSignature(p) /\ p \notin cut =>
        \A k \in 1 .. Chunks(p) :
            Sent(p, k) => Shingle(p, k) \in files \cup Queued(Channels)

\* when the backup goroutine has returned, only the channels of writers that gave up
\* hold anything
StopInv == stopped => closed /\ \A f \in Channels : writer[f] = "dead" \/ queue[f] = <<>>

\* salt.bin lags behind the documents only while a session lives or saves it
SaltInv ==
    /\ refused => lastEnd = "crash"
    /\ ~refused =>
         /\ salt = "empty" => session = "salt"
         /\ session = "ended" => salt = "saved"
         /\ session = "none" /\ salt = "none" => pc = Idle /\ \A p \in Pages : ~Has(docKey(p))

IInv ==
    /\ ProcTypes /\ ChanTypes /\ CallTypes /\ StoreTypes /\ CallInv
    /\ PostingsHaveDocs /\ BigramsExact
    /\ OwnersInv /\ WrittenInv /\ StopInv /\ SaltInv

-----------------------------------------------------------------------------
(* The constants, keys and signatures                                      *)

\* the letters of words, with what else occurs in a key
Letters == (UNION {Range(x) : x \in PageWords}) \cup {"_"} \cup Pages

\* a word of a page is a sequence of letters and not empty
LEMMA WordsAreSeqs ==
    ASSUME NEW p \in Pages, NEW x \in WordsOf[p]
    PROVE  x \in Seq(Letters) /\ x # <<>>
<1>1. x \in Seq(Range(x)) /\ x # <<>>
  BY DocumentIndexAssumption DEF DocumentIndexAssumption
<1>2. Range(x) \subseteq Letters
  BY DEF Letters, PageWords
<1> QED
  BY <1>1, <1>2, SeqMonotonic

\* two letters are a sequence
LEMMA PairIsSeq ==
    ASSUME NEW S, NEW u \in S, NEW v \in S
    PROVE  <<u, v>> \in Seq(S) /\ Len(<<u, v>>) = 2
  OBVIOUS

\* a posting's key tells its word and its page
LEMMA RiKeyInjective ==
    ASSUME NEW x \in Seq(Letters), NEW y \in Seq(Letters), NEW p \in Pages, NEW q \in Pages,
           riKey(x, p) = riKey(y, q)
    PROVE  x = y /\ p = q
<1> DEFINE a == <<"_", p>>
           b == <<"_", q>>
<1>1. a \in Seq(Letters) /\ Len(a) = 2 /\ b \in Seq(Letters) /\ Len(b) = 2
  <2>1. "_" \in Letters /\ p \in Letters /\ q \in Letters
    BY DEF Letters
  <2> QED
    BY <2>1, PairIsSeq
<1>2. a[2] = p /\ b[2] = q
  OBVIOUS
<1>3. x \o a = y \o b
  BY DEF riKey
<1> HIDE DEF a, b
<1>4. /\ Len(x) \in Nat /\ Len(x \o a) = Len(x) + 2
      /\ Len(y) \in Nat /\ Len(y \o b) = Len(y) + 2
  <2>1. Len(x) \in Nat /\ Len(y) \in Nat
    BY LenProperties
  <2>2. Len(x \o a) = Len(x) + Len(a) /\ Len(y \o b) = Len(y) + Len(b)
    BY <1>1, ConcatProperties
  <2> QED
    BY <1>1, <2>1, <2>2
<1>5. Len(x) = Len(y)
  BY <1>3, <1>4
<1>6. (x \o a)[Len(x) + 2] = a[2] /\ (y \o b)[Len(y) + 2] = b[2]
  BY <1>1, <1>4, ConcatProperties
<1>7. \A ix \in 1 .. Len(x) : (x \o a)[ix] = x[ix] /\ (y \o b)[ix] = y[ix]
  BY <1>1, <1>4, <1>5, ConcatProperties
<1>8. x = y
  BY <1>3, <1>5, <1>7, SeqEqual
<1> QED
  BY <1>2, <1>3, <1>5, <1>6, <1>8

\* keys of different kinds differ, and those of documents tell the page
LEMMA KeysDiffer ==
    ASSUME NEW p, NEW q, NEW x
    PROVE  /\ docKey(p) # visitedKey(q) /\ docKey(p) # riKey(x, q)
           /\ visitedKey(p) # riKey(x, q)
           /\ docKey(p) = docKey(q) => p = q
  BY DEF docKey, visitedKey, riKey

\* the value of a recursive function over a chunk, by its least counterexample
LEMMA ShingleKeyInRange ==
    ASSUME NEW chunk \in Seq(Nat)
    PROVE  makeShingleKey(chunk) \in Channels
<1> DEFINE Def(g, n) == g = [k \in 0 .. n |->
                               IF k = 0 THEN 0 ELSE g[k - 1] + (chunk[k] % Shards)]
<1>1. /\ Len(chunk) \in Nat /\ Shards \in Nat \ {0}
      /\ \A k \in 1 .. Len(chunk) : chunk[k] % Shards \in Nat
  <2>1. \A k \in 1 .. Len(chunk) : chunk[k] \in Nat
    OBVIOUS
  <2>2. Shards \in Nat \ {0}
    BY Zenon, DocumentIndexAssumption DEF DocumentIndexAssumption
  <2> QED
    BY <2>1, <2>2
<1>2. \A n \in 0 .. Len(chunk) : \E g : Def(g, n)
  <2> DEFINE Bad == {n \in 0 .. Len(chunk) : ~ \E g : Def(g, n)}
  <2>1. SUFFICES ASSUME Bad # {} PROVE FALSE
    OBVIOUS
  <2>2. PICK n \in Bad : \A m \in Bad : n <= m
    <3>1. Bad \subseteq Nat
      BY <1>1
    <3> HIDE DEF Bad
    <3> QED
      BY <2>1, <3>1, LeastNumber
  <2>3. n # 0
    <3>1. Def([k \in 0 .. 0 |-> 0], 0)
      BY <1>1
    <3> QED
      BY <3>1
  <2>4. n - 1 \in 0 .. Len(chunk) /\ n - 1 \notin Bad
    <3>1. n \in 0 .. Len(chunk)
      OBVIOUS
    <3>2. n - 1 \in 0 .. Len(chunk)
      BY <3>1, <2>3, <1>1
    <3> HIDE DEF Bad
    <3> QED
      BY <1>1, <2>2, <3>1, <3>2
  <2>5. PICK g : Def(g, n - 1)
    BY <2>4
  <2>6. Def([k \in 0 .. n |-> IF k = n THEN g[n - 1] + (chunk[n] % Shards) ELSE g[k]], n)
    BY <1>1, <2>3, <2>5, SMTT(30)
  <2> QED
    BY <2>6
<1> DEFINE key == CHOOSE g : Def(g, Len(chunk))
<1>3. Def(key, Len(chunk))
  <2>1. \E g : Def(g, Len(chunk))
    BY <1>1, <1>2
  <2> QED
    BY <2>1, Zenon
<1>4. makeShingleKey(chunk) = key[Len(chunk)] % Shards
  BY DEF makeShingleKey
<1> HIDE DEF key
<1>5. \A n \in 0 .. Len(chunk) : key[n] \in Nat
  <2> DEFINE Bad == {n \in 0 .. Len(chunk) : key[n] \notin Nat}
  <2>1. SUFFICES ASSUME Bad # {} PROVE FALSE
    OBVIOUS
  <2>2. PICK n \in Bad : \A m \in Bad : n <= m
    <3>1. Bad \subseteq Nat
      BY <1>1
    <3> HIDE DEF Bad
    <3> QED
      BY <2>1, <3>1, LeastNumber
  <2>3. n \in 0 .. Len(chunk) /\ n # 0
    BY <1>1, <1>3
  <2>4. n - 1 \in 0 .. Len(chunk) /\ n - 1 \notin Bad
    <3>1. n - 1 \in 0 .. Len(chunk)
      BY <1>1, <2>3
    <3> HIDE DEF Bad
    <3> QED
      BY <1>1, <2>2, <2>3, <3>1
  <2>5. key[n] = key[n - 1] + (chunk[n] % Shards)
    BY <1>1, <1>3, <2>3
  <2> QED
    BY <1>1, <2>3, <2>4, <2>5
<1>6. key[Len(chunk)] \in Nat
  BY <1>1, <1>5
<1> HIDE DEF Def
<1> QED
  BY <1>1, <1>4, <1>6 DEF Channels

\* a chunk lies within its signature
LEMMA ChunkFacts ==
    ASSUME NEW p \in Pages
    PROVE  /\ Chunks(p) \in Nat
           /\ Sign[p] # <<>> => Chunks(p) > 0
           /\ \A k \in 1 .. Chunks(p) : Channel(p, k) \in Channels /\ Shingle(p, k) \in Entries
<1> DEFINE n == Len(Sign[p])
           c == Chunks(p)
<1>1. Sign[p] \in Seq(Nat) /\ n \in Nat /\ n % ChunkLen = 0 /\ ChunkLen \in Nat /\ ChunkLen > 0
  <2>1. /\ Sign[p] \in Seq(Nat) /\ n % ChunkLen = 0
        /\ ChunkLen \in Nat \ {0}
    BY Zenon, DocumentIndexAssumption DEF DocumentIndexAssumption
  <2>2. n \in Nat
    BY <2>1, LenProperties
  <2> HIDE DEF n
  <2> QED
    BY <2>1, <2>2
<1>2. c \in Nat /\ n = c * ChunkLen
  <2> HIDE DEF n
  <2>1. n = ChunkLen * (n \div ChunkLen) + (n % ChunkLen) /\ n \div ChunkLen \in Nat
    BY <1>1
  <2>2. c = n \div ChunkLen
    BY DEF n, Chunks
  <2> HIDE DEF c
  <2> QED
    BY <1>1, <2>1, <2>2
<1>3. Sign[p] # <<>> => c > 0
  <2>1. ASSUME c = 0 PROVE n = 0
    BY <1>1, <1>2, <2>1
  <2>2. Sign[p] # <<>> => n # 0
    BY <1>1
  <2> HIDE DEF n, c
  <2> QED
    BY <1>2, <2>1, <2>2
<1>4. ASSUME NEW k \in 1 .. c
      PROVE  Channel(p, k) \in Channels /\ Shingle(p, k) \in Entries
  <2> HIDE DEF c
  <2>1. k \in 1 .. Chunks(p)
    BY DEF c
  <2>2. Shingle(p, k) \in Entries
    BY <2>1 DEF Entries
  <2>3. 0 <= (k - 1) * ChunkLen /\ k * ChunkLen <= n /\ k * ChunkLen \in Nat
    <3>1. k - 1 \in Nat /\ c - k \in Nat /\ k \in Nat
      BY <1>2
    <3>2. (k - 1) * ChunkLen \in Nat /\ (c - k) * ChunkLen \in Nat /\ k * ChunkLen \in Nat
      BY <1>1, <3>1
    <3>3. n = k * ChunkLen + (c - k) * ChunkLen
      BY <1>1, <1>2, <3>1
    <3> HIDE DEF n
    <3> QED
      BY <1>1, <3>2, <3>3
  <2>4. Chunk(Sign[p], k) \in Seq(Nat)
    <3> DEFINE a == (k - 1) * ChunkLen + 1
               b == k * ChunkLen
    <3>1. a \in Int /\ b \in Int /\ 1 <= a /\ b <= n
      BY <1>1, <1>2, <2>3
    <3> HIDE DEF a, b
    <3>2. \A ix \in a .. b : Sign[p][ix] \in Nat
      BY <1>1, <3>1
    <3>3. SubSeq(Sign[p], a, b) \in Seq(Nat)
      BY <3>1, <3>2, SubSeqProperties
    <3> QED
      BY <3>3 DEF Chunk, a, b
  <2> QED
    BY <2>2, <2>4, ShingleKeyInRange DEF Channel
<1> QED
  BY <1>2, <1>3, <1>4

-----------------------------------------------------------------------------
(* The store                                                               *)

\* a write adds to the store, and to what is kept unless the tail is lost
LEMMA WriteFacts ==
    ASSUME NEW new \in Stores, StoreTypes, store.keys \subseteq new.keys, Write(new)
    PROVE  /\ StoreTypes'
           /\ store' = new /\ (kept' = kept \/ kept' = new)
  BY DEF StoreTypes, Write

\* what a write of keys changes of the store
LEMMA SetFacts ==
    ASSUME NEW keys \in SUBSET Keys, StoreTypes, Set(keys)
    PROVE  /\ StoreTypes'
           /\ store'.keys = store.keys \cup keys
           /\ store'.bigram = store.bigram /\ store'.updates = store.updates
           /\ kept' = kept \/ kept' = store'
<1> DEFINE new == [store EXCEPT !.keys = @ \cup keys]
<1>1. /\ new \in Stores
      /\ new.keys = store.keys \cup keys
      /\ new.bigram = store.bigram /\ new.updates = store.updates
  BY DEF StoreTypes, Stores
<1>2. Write(new)
  BY DEF Set
<1> HIDE DEF new
<1> QED
  BY <1>1, <1>2, WriteFacts

\* the keys that the process writes
LEMMA KeysWritten ==
    ASSUME NEW p \in Pages
    PROVE  /\ docKey(p) \in Keys /\ visitedKey(p) \in Keys
           /\ \A x \in WordsOf[p] : riKey(x, p) \in Keys
  BY DEF Keys

\* Every step keeps the types of the store, and only a lost tail parts what
\* is read from what is kept.
LEMMA StoreTypesStep ==
    ASSUME IInv, [Next]_vars
    PROVE  StoreTypes'
<1>1. ASSUME NEW p \in Pages, Begin(p) PROVE StoreTypes'
  BY <1>1 DEF Begin, StoreTypes, IInv, storeVars
<1>2. ASSUME NEW p \in Pages, Look(p) PROVE StoreTypes'
  BY <1>2 DEF Look, StoreTypes, IInv, storeVars
<1>3. ASSUME NEW p \in Pages, Send(p) PROVE StoreTypes'
  BY <1>3 DEF Send, StoreTypes, IInv, storeVars
<1>4. ASSUME NEW p \in Pages, SendOnClosed(p) PROVE StoreTypes'
  BY <1>4 DEF SendOnClosed, StoreTypes, IInv, storeVars
<1>5. ASSUME NEW p \in Pages, SendCancelled(p) PROVE StoreTypes'
  BY <1>5 DEF SendCancelled, StoreTypes, IInv, storeVars
<1>6. ASSUME NEW p \in Pages, BigramsRead(p) PROVE StoreTypes'
  BY <1>6 DEF BigramsRead, StoreTypes, IInv, storeVars
<1>7. ASSUME NEW p \in Pages, BigramsCommit(p) PROVE StoreTypes'
  <2> DEFINE new == [store EXCEPT !.bigram = freq[p] + 1, !.updates = @ + 1]
  <2>1. new \in Stores /\ new.keys = store.keys
    <3>1. freq[p] \in Nat /\ store \in Stores
      BY DEF IInv, CallTypes, StoreTypes
    <3> DEFINE n == freq[p] + 1
               u == store.updates + 1
    <3>2. n \in Nat /\ u \in Nat
      BY <3>1 DEF Stores
    <3>3. new = [store EXCEPT !.bigram = n, !.updates = u]
      OBVIOUS
    <3> HIDE DEF new, n, u
    <3> QED
      BY <3>1, <3>2, <3>3 DEF Stores
  <2>2. Write(new)
    BY <1>7 DEF BigramsCommit
  <2> HIDE DEF new
  <2> QED
    BY <2>1, <2>2, WriteFacts DEF IInv
<1>8. ASSUME NEW p \in Pages, SaveDocument(p) PROVE StoreTypes'
  <2>1. {docKey(p)} \in SUBSET Keys /\ Set({docKey(p)})
    BY <1>8, KeysWritten DEF SaveDocument
  <2> QED
    BY <2>1, SetFacts DEF IInv
<1>9. ASSUME NEW p \in Pages, IndexWord(p) PROVE StoreTypes'
  <2>1. PICK x \in todo[p] : Set({riKey(x, p)})
    BY <1>9 DEF IndexWord
  <2>2. {riKey(x, p)} \in SUBSET Keys
    BY <2>1, KeysWritten DEF IInv, CallTypes
  <2> QED
    BY <2>1, <2>2, SetFacts DEF IInv
<1>10. ASSUME NEW p \in Pages, CallFails(p) PROVE StoreTypes'
  BY <1>10 DEF CallFails, StoreTypes, IInv, storeVars
<1>11. ASSUME NEW f \in Channels, WriteShingle(f) PROVE StoreTypes'
  BY <1>11 DEF WriteShingle, StoreTypes, IInv, storeVars
<1>12. ASSUME NEW f \in Channels, WriteFails(f) PROVE StoreTypes'
  BY <1>12 DEF WriteFails, StoreTypes, IInv, storeVars
<1>13. CASE Cancel
  BY <1>13 DEF Cancel, StoreTypes, IInv, storeVars
<1>14. CASE StopClose
  BY <1>14 DEF StopClose, StoreTypes, IInv, storeVars
<1>15. CASE StopWait
  BY <1>15 DEF StopWait, StoreTypes, IInv, storeVars
<1>16. CASE LoseTail
  BY <1>16 DEF LoseTail, IInv, StoreTypes
<1>17. CASE StartSession
  BY <1>17 DEF StartSession, StoreTypes, IInv, storeVars
<1>18. CASE SaveVisitedUrls
  <2>1. {visitedKey(p) : p \in visited} \in SUBSET Keys
    BY KeysWritten DEF IInv, ProcTypes
  <2>2. Set({visitedKey(p) : p \in visited})
    BY <1>18 DEF SaveVisitedUrls
  <2> QED
    BY <2>1, <2>2, SetFacts DEF IInv
<1>19. CASE WriteSalt
  BY <1>19 DEF WriteSalt, StoreTypes, IInv, storeVars
<1>20. CASE Exit
  BY <1>20 DEF Exit, Restart, IInv, StoreTypes
<1>21. CASE Crash
  BY <1>21 DEF Crash, Restart, IInv, StoreTypes
<1>22. CASE UNCHANGED vars
  BY <1>22 DEF vars, procVars, sessVars, chanVars, callVars, storeVars, histVars,
     boundVars, IInv, StoreTypes
<1> QED
  BY <1>1, <1>2, <1>3, <1>4, <1>5, <1>6, <1>7, <1>8, <1>9, <1>10, <1>11, <1>12, <1>13,
     <1>14, <1>15, <1>16, <1>17, <1>18, <1>19, <1>20, <1>21, <1>22 DEF Next, CallStep,
     WriterStep, StopStep

\* Every step keeps the types of the process and the session.
LEMMA ProcTypesStep ==
    ASSUME IInv, [Next]_vars
    PROVE  ProcTypes'
<1>1. ASSUME NEW p \in Pages, Begin(p) PROVE ProcTypes'
  BY <1>1 DEF Begin, ProcTypes, IInv, procVars, sessVars
<1>2. ASSUME NEW p \in Pages, Look(p) PROVE ProcTypes'
  BY <1>2 DEF Look, ProcTypes, IInv, procVars, sessVars
<1>3. ASSUME NEW p \in Pages, Send(p) PROVE ProcTypes'
  BY <1>3 DEF Send, ProcTypes, IInv, procVars, sessVars
<1>4. ASSUME NEW p \in Pages, SendOnClosed(p) PROVE ProcTypes'
  BY <1>4 DEF SendOnClosed, ProcTypes, IInv, procVars, sessVars
<1>5. ASSUME NEW p \in Pages, SendCancelled(p) PROVE ProcTypes'
  BY <1>5 DEF SendCancelled, ProcTypes, IInv, procVars, sessVars
<1>6. ASSUME NEW p \in Pages, BigramsRead(p) PROVE ProcTypes'
  BY <1>6 DEF BigramsRead, ProcTypes, IInv, procVars, sessVars
<1>7. ASSUME NEW p \in Pages, BigramsCommit(p) PROVE ProcTypes'
  BY <1>7 DEF BigramsCommit, ProcTypes, IInv, procVars, sessVars
<1>8. ASSUME NEW p \in Pages, SaveDocument(p) PROVE ProcTypes'
  BY <1>8 DEF SaveDocument, ProcTypes, IInv, procVars, sessVars
<1>9. ASSUME NEW p \in Pages, IndexWord(p) PROVE ProcTypes'
  BY <1>9 DEF IndexWord, ProcTypes, IInv, procVars, sessVars
<1>10. ASSUME NEW p \in Pages, CallFails(p) PROVE ProcTypes'
  BY <1>10 DEF CallFails, ProcTypes, IInv, procVars, sessVars
<1>11. ASSUME NEW f \in Channels, WriteShingle(f) PROVE ProcTypes'
  BY <1>11 DEF WriteShingle, ProcTypes, IInv, procVars, sessVars
<1>12. ASSUME NEW f \in Channels, WriteFails(f) PROVE ProcTypes'
  BY <1>12 DEF WriteFails, ProcTypes, IInv, procVars, sessVars
<1>13. CASE Cancel
  BY <1>13 DEF Cancel, ProcTypes, IInv, procVars, sessVars
<1>14. CASE StopClose
  BY <1>14 DEF StopClose, ProcTypes, IInv, procVars, sessVars
<1>15. CASE StopWait
  BY <1>15 DEF StopWait, ProcTypes, IInv, procVars, sessVars
<1>16. CASE LoseTail
  BY <1>16 DEF LoseTail, ProcTypes, IInv, procVars, sessVars
<1>17. CASE StartSession
  BY <1>17 DEF StartSession, ProcTypes, IInv, procVars, sessVars
<1>18. CASE SaveVisitedUrls
  BY <1>18 DEF SaveVisitedUrls, ProcTypes, IInv, procVars, sessVars
<1>19. CASE WriteSalt
  BY <1>19 DEF WriteSalt, ProcTypes, IInv, procVars, sessVars
<1>20. CASE Exit
  BY <1>20 DEF Exit, Restart, IInv, RefusesStart, ProcTypes
<1>21. CASE Crash
  BY <1>21 DEF Crash, Restart, IInv, RefusesStart, ProcTypes
<1>22. CASE UNCHANGED vars
  BY <1>22 DEF vars, procVars, sessVars, chanVars, callVars, storeVars, histVars,
     boundVars, IInv, ProcTypes
<1> QED
  BY <1>1, <1>2, <1>3, <1>4, <1>5, <1>6, <1>7, <1>8, <1>9, <1>10, <1>11, <1>12, <1>13,
     <1>14, <1>15, <1>16, <1>17, <1>18, <1>19, <1>20, <1>21, <1>22 DEF Next, CallStep,
     WriterStep, StopStep

-----------------------------------------------------------------------------
(* The channels                                                            *)

\* what a sequence contains when an element is added or taken
LEMMA RangeFacts ==
    ASSUME NEW S, NEW s \in Seq(S), NEW e \in S
    PROVE  /\ Range(Append(s, e)) = Range(s) \cup {e}
           /\ s # <<>> => Head(s) \in S /\ Range(s) = {Head(s)} \cup Range(Tail(s))
           /\ Range(s) \subseteq S
<1>1. Len(s) \in Nat
  BY LenProperties
<1>2. Range(Append(s, e)) = Range(s) \cup {e}
  BY <1>1 DEF Range
<1>3. ASSUME s # <<>> PROVE Head(s) \in S /\ Range(s) = {Head(s)} \cup Range(Tail(s))
  <2>1. /\ Head(s) \in S /\ Tail(s) \in Seq(S) /\ Len(Tail(s)) = Len(s) - 1
        /\ \A ix \in 1 .. Len(Tail(s)) : Tail(s)[ix] = s[ix + 1]
    BY <1>3, HeadTailProperties
  <2>2. Head(s) = s[1] /\ Len(s) > 0
    BY <1>3
  <2>3. DOMAIN s = 1 .. Len(s) /\ DOMAIN Tail(s) = 1 .. Len(s) - 1
    BY <2>1, LenProperties
  <2>4. \A ix \in 1 .. Len(s) : ix = 1 \/ ix - 1 \in 1 .. Len(s) - 1
    BY <1>1
  <2>5. \A ix \in 1 .. Len(s) - 1 : ix + 1 \in 1 .. Len(s) /\ Tail(s)[ix] = s[ix + 1]
    BY <1>1, <2>1
  <2>6. Range(Tail(s)) \subseteq Range(s)
    BY <2>3, <2>5 DEF Range
  <2>7. \A ix \in 1 .. Len(s) : s[ix] \in {s[1]} \cup Range(Tail(s))
    <3>1. ASSUME NEW ix \in 1 .. Len(s), ix # 1 PROVE s[ix] \in Range(Tail(s))
      <4>1. ix - 1 \in 1 .. Len(s) - 1 /\ (ix - 1) + 1 = ix
        BY <2>4, <3>1, <1>1
      <4>2. Tail(s)[ix - 1] = s[ix]
        BY <2>5, <4>1
      <4> QED
        BY <2>3, <4>1, <4>2 DEF Range
    <3> QED
      BY <3>1
  <2> QED
    BY <1>1, <2>1, <2>2, <2>3, <2>6, <2>7 DEF Range
<1>4. Range(s) \subseteq S
  BY DEF Range
<1> QED
  BY <1>2, <1>3, <1>4

\* one entry more in one channel
LEMMA QueuedMore ==
    ASSUME NEW f \in Channels, NEW e \in Entries, queue \in [Channels -> Seq(Entries)],
           queue' = [queue EXCEPT ![f] = Append(@, e)]
    PROVE  /\ queue' \in [Channels -> Seq(Entries)]
           /\ Queued(Channels)' = Queued(Channels) \cup {e}
<1>1. queue[f] \in Seq(Entries)
  OBVIOUS
<1>2. \A g \in Channels : queue'[g] = IF g = f THEN Append(queue[g], e) ELSE queue[g]
  OBVIOUS
<1>3. queue' \in [Channels -> Seq(Entries)]
  BY <1>1, <1>2
<1>4. Range(queue'[f]) = Range(queue[f]) \cup {e}
  BY <1>1, <1>2, RangeFacts
<1>5. \A g \in Channels \ {f} : Range(queue'[g]) = Range(queue[g])
  BY <1>2
<1> QED
  BY <1>3, <1>4, <1>5 DEF Queued

\* the first entry of one channel is taken
LEMMA QueuedLess ==
    ASSUME NEW f \in Channels, queue \in [Channels -> Seq(Entries)], queue[f] # <<>>,
           queue' = [queue EXCEPT ![f] = Tail(@)]
    PROVE  /\ queue' \in [Channels -> Seq(Entries)]
           /\ Head(queue[f]) \in Entries
           /\ Queued(Channels)' \cup {Head(queue[f])} = Queued(Channels)
<1>1. queue[f] \in Seq(Entries)
  OBVIOUS
<1>2. \A g \in Channels : queue'[g] = IF g = f THEN Tail(queue[g]) ELSE queue[g]
  OBVIOUS
<1>3. Head(queue[f]) \in Entries /\ Tail(queue[f]) \in Seq(Entries)
  BY <1>1, HeadTailProperties
<1>4. queue' \in [Channels -> Seq(Entries)]
  BY <1>2, <1>3
<1>5. Range(queue[f]) = Range(queue'[f]) \cup {Head(queue[f])}
  BY <1>1, <1>2, <1>3, RangeFacts
<1>6. \A g \in Channels \ {f} : Range(queue'[g]) = Range(queue[g])
  BY <1>2
<1>7. Queued(Channels) = Range(queue[f]) \cup UNION {Range(queue[g]) : g \in Channels \ {f}}
  BY DEF Queued
<1>8. Queued(Channels)' = Range(queue'[f]) \cup UNION {Range(queue[g]) : g \in Channels \ {f}}
  BY <1>6 DEF Queued
<1> QED
  BY <1>3, <1>4, <1>5, <1>7, <1>8

\* a new process has empty channels and running writers
LEMMA FreshChannels ==
    /\ NoEntries \in [Channels -> Seq(Entries)]
    /\ \A f \in Channels : NoEntries[f] = <<>> /\ Len(NoEntries[f]) = 0
    /\ AllRun \in [Channels -> {"run", "dead"}]
  BY DEF NoEntries, AllRun

\* a shorter channel stays within its capacity
LEMMA TailTypes ==
    ASSUME NEW f \in Channels, ChanTypes, queue[f] # <<>>,
           queue' = [queue EXCEPT ![f] = Tail(@)]
    PROVE  /\ queue' \in [Channels -> Seq(Entries)]
           /\ \A g \in Channels : Len(queue'[g]) <= WorkersCount
<1>1. /\ queue \in [Channels -> Seq(Entries)] /\ WorkersCount \in Nat
      /\ \A g \in Channels : Len(queue[g]) <= WorkersCount
  BY Zenon, DocumentIndexAssumption DEF DocumentIndexAssumption, ChanTypes
<1>2. queue[f] \in Seq(Entries) /\ queue'[f] = Tail(queue[f])
  BY <1>1
<1>3. Len(queue'[f]) = Len(queue[f]) - 1 /\ Len(queue[f]) \in Nat
  BY <1>2, HeadTailProperties, LenProperties
<1>4. Len(queue'[f]) <= WorkersCount
  BY <1>1, <1>3
<1>5. \A g \in Channels \ {f} : queue'[g] = queue[g]
  BY <1>1
<1> QED
  BY <1>1, <1>4, <1>5, QueuedLess

\* Every step keeps the types of the channels and their writers.
LEMMA ChanTypesStep ==
    ASSUME IInv, [Next]_vars
    PROVE  ChanTypes'
<1>1. ASSUME NEW p \in Pages, Begin(p) PROVE ChanTypes'
  BY <1>1 DEF Begin, ChanTypes, IInv, chanVars, histVars, procVars
<1>2. ASSUME NEW p \in Pages, Look(p) PROVE ChanTypes'
  BY <1>2 DEF Look, ChanTypes, IInv, chanVars, histVars, procVars
<1>3. ASSUME NEW p \in Pages, Send(p) PROVE ChanTypes'
  <2> DEFINE k == sent[p] + 1
             f == Channel(p, k)
  <2>1. k \in 1 .. Chunks(p)
    BY <1>3, ChunkFacts DEF Send, IInv, CallInv, CallTypes
  <2>2. f \in Channels /\ Shingle(p, k) \in Entries
    BY <2>1, ChunkFacts
  <2>3. /\ queue' = [queue EXCEPT ![f] = Append(@, Shingle(p, k))]
        /\ Len(queue[f]) < WorkersCount
        /\ UNCHANGED <<closed, stopped, writer, cut, cancelled>>
    BY <1>3 DEF Send, histVars, procVars
  <2>4. /\ queue \in [Channels -> Seq(Entries)] /\ WorkersCount \in Nat
        /\ \A g \in Channels : Len(queue[g]) <= WorkersCount
    BY Zenon, DocumentIndexAssumption DEF DocumentIndexAssumption, IInv, ChanTypes
  <2> HIDE DEF f, k
  <2>5. queue' \in [Channels -> Seq(Entries)]
    BY <2>2, <2>3, <2>4, QueuedMore
  <2>6. \A g \in Channels : Len(queue'[g]) <= WorkersCount
    <3>1. queue[f] \in Seq(Entries) /\ queue'[f] = Append(queue[f], Shingle(p, k))
      BY <2>2, <2>3, <2>4
    <3>2. Len(queue'[f]) <= WorkersCount
      BY <2>2, <2>3, <2>4, <3>1
    <3>3. \A g \in Channels \ {f} : queue'[g] = queue[g]
      BY <2>3, <2>4
    <3> QED
      BY <2>4, <3>2, <3>3
  <2> QED
    BY <2>3, <2>5, <2>6 DEF IInv, ChanTypes
<1>4. ASSUME NEW p \in Pages, SendOnClosed(p) PROVE ChanTypes'
  BY <1>4 DEF SendOnClosed, ChanTypes, IInv, chanVars, histVars, procVars
<1>5. ASSUME NEW p \in Pages, SendCancelled(p) PROVE ChanTypes'
  BY <1>5 DEF SendCancelled, ChanTypes, IInv, chanVars, histVars, procVars
<1>6. ASSUME NEW p \in Pages, BigramsRead(p) PROVE ChanTypes'
  BY <1>6 DEF BigramsRead, ChanTypes, IInv, chanVars, histVars, procVars
<1>7. ASSUME NEW p \in Pages, BigramsCommit(p) PROVE ChanTypes'
  BY <1>7 DEF BigramsCommit, ChanTypes, IInv, chanVars, histVars, procVars
<1>8. ASSUME NEW p \in Pages, SaveDocument(p) PROVE ChanTypes'
  BY <1>8 DEF SaveDocument, ChanTypes, IInv, chanVars, histVars, procVars
<1>9. ASSUME NEW p \in Pages, IndexWord(p) PROVE ChanTypes'
  BY <1>9 DEF IndexWord, ChanTypes, IInv, chanVars, histVars, procVars
<1>10. ASSUME NEW p \in Pages, CallFails(p) PROVE ChanTypes'
  BY <1>10 DEF CallFails, ChanTypes, IInv, chanVars, histVars, procVars
<1>11. ASSUME NEW f \in Channels, WriteShingle(f) PROVE ChanTypes'
  <2>1. /\ queue[f] # <<>> /\ queue' = [queue EXCEPT ![f] = Tail(@)]
        /\ UNCHANGED <<closed, stopped, writer, cut, cancelled>>
    BY <1>11 DEF WriteShingle, histVars, procVars
  <2> QED
    BY <2>1, TailTypes DEF IInv, ChanTypes
<1>12. ASSUME NEW f \in Channels, WriteFails(f) PROVE ChanTypes'
  <2>1. /\ queue[f] # <<>> /\ queue' = [queue EXCEPT ![f] = Tail(@)]
        /\ writer' = [writer EXCEPT ![f] = "dead"] /\ cut' \subseteq cut \cup Pages
        /\ UNCHANGED <<closed, stopped, cancelled>>
    BY <1>12 DEF WriteFails, procVars, Owners
  <2> QED
    BY <2>1, TailTypes DEF IInv, ChanTypes
<1>13. CASE Cancel
  BY <1>13 DEF Cancel, ChanTypes, IInv, chanVars, histVars, procVars
<1>14. CASE StopClose
  BY <1>14 DEF StopClose, ChanTypes, IInv, chanVars, histVars, procVars
<1>15. CASE StopWait
  BY <1>15 DEF StopWait, ChanTypes, IInv, chanVars, histVars, procVars
<1>16. CASE LoseTail
  BY <1>16 DEF LoseTail, ChanTypes, IInv, chanVars, histVars, procVars
<1>17. CASE StartSession
  BY <1>17 DEF StartSession, ChanTypes, IInv, chanVars, histVars, procVars
<1>18. CASE SaveVisitedUrls
  BY <1>18 DEF SaveVisitedUrls, ChanTypes, IInv, chanVars, histVars, procVars
<1>19. CASE WriteSalt
  BY <1>19 DEF WriteSalt, ChanTypes, IInv, chanVars, histVars, procVars
<1>20. CASE Exit
  <2>1. ~closed' /\ ~stopped' /\ queue' = NoEntries /\ writer' = AllRun
    BY <1>20 DEF Exit, Restart
  <2>2. cut' \subseteq Pages
    BY <1>20 DEF Exit, Restart, Owners, IInv, ChanTypes
  <2>3. closed' \in BOOLEAN /\ stopped' \in BOOLEAN
    BY <1>20 DEF Exit, Restart
  <2>4. WorkersCount \in Nat
    BY Zenon, DocumentIndexAssumption DEF DocumentIndexAssumption
  <2>5. \A f \in Channels : Len(queue'[f]) <= WorkersCount
    BY <2>1, <2>4, FreshChannels
  <2> QED
    BY <2>1, <2>2, <2>3, <2>5, FreshChannels DEF ChanTypes
<1>21. CASE Crash
  <2>1. ~closed' /\ ~stopped' /\ queue' = NoEntries /\ writer' = AllRun
    BY <1>21 DEF Crash, Restart
  <2>2. cut' \subseteq Pages
    BY <1>21 DEF Crash, Restart, Owners, IInv, ChanTypes
  <2>3. closed' \in BOOLEAN /\ stopped' \in BOOLEAN
    BY <1>21 DEF Crash, Restart
  <2>4. WorkersCount \in Nat
    BY Zenon, DocumentIndexAssumption DEF DocumentIndexAssumption
  <2>5. \A f \in Channels : Len(queue'[f]) <= WorkersCount
    BY <2>1, <2>4, FreshChannels
  <2> QED
    BY <2>1, <2>2, <2>3, <2>5, FreshChannels DEF ChanTypes
<1>22. CASE UNCHANGED vars
  BY <1>22 DEF vars, procVars, sessVars, chanVars, callVars, storeVars, histVars,
     boundVars, IInv, ChanTypes
<1> QED
  BY <1>1, <1>2, <1>3, <1>4, <1>5, <1>6, <1>7, <1>8, <1>9, <1>10, <1>11, <1>12, <1>13,
     <1>14, <1>15, <1>16, <1>17, <1>18, <1>19, <1>20, <1>21, <1>22 DEF Next, CallStep,
     WriterStep, StopStep

-----------------------------------------------------------------------------
(* The calls                                                               *)

\* the state of the calls in a new process
LEMMA FreshCalls ==
    /\ Idle \in [Pages -> Labels] /\ Zero \in [Pages -> Nat]
    /\ NoWords \in [Pages -> SUBSET PageWords]
    /\ \A p \in Pages : Idle[p] = "idle" /\ Zero[p] = 0 /\ NoWords[p] = {}
    /\ \A p \in Pages : p # Free
<1>1. \A p \in Pages : p # Free
  BY DocumentIndexAssumption DEF DocumentIndexAssumption, Free
<1> QED
  BY <1>1 DEF Idle, Zero, NoWords, Labels

\* Every step keeps the types of the calls.
LEMMA CallTypesStep ==
    ASSUME IInv, [Next]_vars
    PROVE  CallTypes'
<1>1. ASSUME NEW p \in Pages, Begin(p) PROVE CallTypes'
  BY <1>1 DEF Begin, Goto, IInv, PageWords, Labels, histVars, CallTypes
<1>2. ASSUME NEW p \in Pages, Look(p) PROVE CallTypes'
  <2>1. \/ Return(p)
        \/ \E l \in {"bigrams", "send"} : Goto(p, l) /\ UNCHANGED <<sent, freq, todo>>
    BY <1>2 DEF Look
  <2>2. UNCHANGED <<mu, halfway>>
    BY <1>2 DEF Look, histVars
  <2> QED
    BY <2>1, <2>2 DEF Return, Goto, IInv, CallTypes, Labels
<1>3. ASSUME NEW p \in Pages, Send(p) PROVE CallTypes'
  BY <1>3 DEF Send, SendNext, Goto, IInv, Labels, histVars, CallTypes
<1>4. ASSUME NEW p \in Pages, SendOnClosed(p) PROVE CallTypes'
  BY <1>4 DEF SendOnClosed, CallTypes, IInv, callVars, histVars
<1>5. ASSUME NEW p \in Pages, SendCancelled(p) PROVE CallTypes'
  BY <1>5 DEF SendCancelled, Goto, IInv, Labels, CallTypes
<1>6. ASSUME NEW p \in Pages, BigramsRead(p) PROVE CallTypes'
  <2>1. GetFreq \in Nat
    BY DEF GetFreq, IInv, StoreTypes, Stores
  <2> QED
    BY <1>6, <2>1 DEF BigramsRead, Goto, IInv, CallTypes, Labels, histVars
<1>7. ASSUME NEW p \in Pages, BigramsCommit(p) PROVE CallTypes'
  BY <1>7 DEF BigramsCommit, Goto, Return, IInv, Labels, histVars, CallTypes
<1>8. ASSUME NEW p \in Pages, SaveDocument(p) PROVE CallTypes'
  BY <1>8 DEF SaveDocument, Goto, Return, AfterSave, IInv, Labels, histVars, CallTypes
<1>9. ASSUME NEW p \in Pages, IndexWord(p) PROVE CallTypes'
  BY <1>9 DEF IndexWord, Goto, Return, IInv, Labels, histVars, CallTypes
<1>10. ASSUME NEW p \in Pages, CallFails(p) PROVE CallTypes'
  BY <1>10 DEF CallFails, Goto, Return, IInv, Labels, Half, CallTypes
<1>11. ASSUME NEW f \in Channels, WriteShingle(f) PROVE CallTypes'
  BY <1>11 DEF WriteShingle, CallTypes, IInv, callVars, histVars
<1>12. ASSUME NEW f \in Channels, WriteFails(f) PROVE CallTypes'
  BY <1>12 DEF WriteFails, CallTypes, IInv, callVars, histVars
<1>13. CASE Cancel
  BY <1>13 DEF Cancel, CallTypes, IInv, callVars, histVars
<1>14. CASE StopClose
  BY <1>14 DEF StopClose, CallTypes, IInv, callVars, histVars
<1>15. CASE StopWait
  BY <1>15 DEF StopWait, CallTypes, IInv, callVars, histVars
<1>16. CASE LoseTail
  BY <1>16 DEF LoseTail, CallTypes, IInv, callVars, histVars
<1>17. CASE StartSession
  BY <1>17 DEF StartSession, CallTypes, IInv, callVars, histVars
<1>18. CASE SaveVisitedUrls
  BY <1>18 DEF SaveVisitedUrls, CallTypes, IInv, callVars, histVars
<1>19. CASE WriteSalt
  BY <1>19 DEF WriteSalt, CallTypes, IInv, callVars, histVars
<1>20. CASE Exit
  <2>1. mu' = Free /\ pc' = Idle /\ sent' = Zero /\ freq' = Zero /\ todo' = NoWords
    BY <1>20 DEF Exit, Restart
  <2>2. halfway' \subseteq Pages
    BY <1>20 DEF Exit, Restart, Half, IInv, CallTypes
  <2> QED
    BY <2>1, <2>2, FreshCalls DEF CallTypes
<1>21. CASE Crash
  <2>1. mu' = Free /\ pc' = Idle /\ sent' = Zero /\ freq' = Zero /\ todo' = NoWords
    BY <1>21 DEF Crash, Restart
  <2>2. halfway' \subseteq Pages
    BY <1>21 DEF Crash, Restart, Half, IInv, CallTypes
  <2> QED
    BY <2>1, <2>2, FreshCalls DEF CallTypes
<1>22. CASE UNCHANGED vars
  BY <1>22 DEF vars, procVars, sessVars, chanVars, callVars, storeVars, histVars,
     boundVars, IInv, CallTypes
<1> QED
  BY <1>1, <1>2, <1>3, <1>4, <1>5, <1>6, <1>7, <1>8, <1>9, <1>10, <1>11, <1>12, <1>13,
     <1>14, <1>15, <1>16, <1>17, <1>18, <1>19, <1>20, <1>21, <1>22 DEF Next, CallStep,
     WriterStep, StopStep

\* Every step keeps what a call has done at its label.
LEMMA CallInvStep ==
    ASSUME IInv, [Next]_vars
    PROVE  CallInv'
<1>1. ASSUME NEW p \in Pages, Begin(p) PROVE CallInv'
  BY <1>1, FreshCalls DEF Begin, Goto, Has, IInv, CallInv, CallTypes, callVars,
     storeVars
<1>2. ASSUME NEW p \in Pages, Look(p) PROVE CallInv'
  BY <1>2, ChunkFacts DEF Look, Goto, Return, HasSignature, Has, IInv, CallInv,
     CallTypes, callVars, storeVars
<1>3. ASSUME NEW p \in Pages, Send(p) PROVE CallInv'
  <2>1. sent[p] + 1 <= Chunks(p) /\ HasSignature(p) /\ sent[p] \in Nat /\ Chunks(p) \in Nat
    BY <1>3, ChunkFacts DEF Send, IInv, CallInv, CallTypes
  <2>2. /\ sent' = [sent EXCEPT ![p] = @ + 1]
        /\ pc' = [pc EXCEPT ![p] = IF sent[p] + 1 = Chunks(p) THEN "bigrams" ELSE "send"]
        /\ pc[p] = "send" /\ UNCHANGED <<mu, freq, store>>
    BY <1>3 DEF Send, SendNext, Goto, storeVars
  <2> QED
    BY <2>1, <2>2 DEF IInv, CallInv, CallTypes, Has
<1>4. ASSUME NEW p \in Pages, SendOnClosed(p) PROVE CallInv'
  BY <1>4 DEF SendOnClosed, CallInv, IInv, callVars, storeVars, Has
<1>5. ASSUME NEW p \in Pages, SendCancelled(p) PROVE CallInv'
  BY <1>5 DEF SendCancelled, Goto, Has, IInv, CallInv, CallTypes, callVars, storeVars
<1>6. ASSUME NEW p \in Pages, BigramsRead(p) PROVE CallInv'
  BY <1>6, FreshCalls DEF BigramsRead, Goto, GetFreq, Has, IInv, CallInv, CallTypes,
     callVars, storeVars
<1>7. ASSUME NEW p \in Pages, BigramsCommit(p) PROVE CallInv'
  <2>1. /\ pc[p] = "commit" /\ mu' = Free
        /\ IF p \in Skipped THEN Return(p) ELSE Goto(p, "save") /\ UNCHANGED <<sent, freq, todo>>
    BY <1>7 DEF BigramsCommit
  <2>2. store'.keys = store.keys
    BY <1>7 DEF BigramsCommit, Write, IInv, StoreTypes, Stores
  <2> QED
    BY <2>1, <2>2, FreshCalls DEF Return, Goto, Has, IInv, CallInv, CallTypes
<1>8. ASSUME NEW p \in Pages, SaveDocument(p) PROVE CallInv'
  <2>1. /\ pc[p] = "save" /\ mu = Free /\ UNCHANGED mu /\ AfterSave(p)
        /\ Set({docKey(p)})
    BY <1>8 DEF SaveDocument
  <2>2. store'.keys = store.keys \cup {docKey(p)} /\ store'.bigram = store.bigram
    BY <2>1, KeysWritten, SetFacts DEF IInv
  <2> QED
    BY <2>1, <2>2 DEF AfterSave, Return, Goto, Has, IInv, CallInv, CallTypes
<1>9. ASSUME NEW p \in Pages, IndexWord(p) PROVE CallInv'
  <2>1. PICK x \in todo[p] :
          /\ Set({riKey(x, p)})
          /\ IF todo[p] = {x}
             THEN Return(p)
             ELSE todo' = [todo EXCEPT ![p] = @ \ {x}] /\ UNCHANGED <<pc, sent, freq>>
    BY <1>9 DEF IndexWord
  <2>2. riKey(x, p) \in Keys
    BY <2>1, KeysWritten DEF IInv, CallTypes
  <2>3. store'.keys = store.keys \cup {riKey(x, p)} /\ store'.bigram = store.bigram
    BY <2>1, <2>2, SetFacts DEF IInv
  <2>4. pc[p] = "words" /\ UNCHANGED mu
    BY <1>9 DEF IndexWord
  <2> QED
    BY <2>1, <2>3, <2>4 DEF Return, Goto, Has, IInv, CallInv, CallTypes
<1>10. ASSUME NEW p \in Pages, CallFails(p) PROVE CallInv'
  BY <1>10, FreshCalls DEF CallFails, Goto, Return, Has, IInv, CallInv, CallTypes,
     callVars, storeVars
<1>11. ASSUME NEW f \in Channels, WriteShingle(f) PROVE CallInv'
  BY <1>11 DEF WriteShingle, CallInv, IInv, callVars, storeVars, Has
<1>12. ASSUME NEW f \in Channels, WriteFails(f) PROVE CallInv'
  BY <1>12 DEF WriteFails, CallInv, IInv, callVars, storeVars, Has
<1>13. CASE Cancel
  BY <1>13 DEF Cancel, CallInv, IInv, callVars, storeVars, Has
<1>14. CASE StopClose
  BY <1>14 DEF StopClose, CallInv, IInv, callVars, storeVars, Has
<1>15. CASE StopWait
  BY <1>15 DEF StopWait, CallInv, IInv, callVars, storeVars, Has
<1>16. CASE LoseTail
  BY <1>16 DEF LoseTail, CallInv, IInv, callVars, storeVars, Has
<1>17. CASE StartSession
  BY <1>17 DEF StartSession, CallInv, IInv, callVars, storeVars, Has
<1>18. CASE SaveVisitedUrls
  <2>1. {visitedKey(p) : p \in visited} \in SUBSET Keys
    BY KeysWritten DEF IInv, ProcTypes
  <2>2. Set({visitedKey(p) : p \in visited}) /\ UNCHANGED callVars
    BY <1>18 DEF SaveVisitedUrls
  <2>3. store.keys \subseteq store'.keys /\ store'.bigram = store.bigram
    BY <2>1, <2>2, SetFacts DEF IInv
  <2> QED
    BY <2>2, <2>3 DEF IInv, CallInv, callVars, Has
<1>19. CASE WriteSalt
  BY <1>19 DEF WriteSalt, CallInv, IInv, callVars, storeVars, Has
<1>20. CASE Exit
  <2>1. mu' = Free /\ pc' = Idle /\ sent' = Zero
    BY <1>20 DEF Exit, Restart
  <2>2. \A p \in Pages : pc'[p] = "idle" /\ sent'[p] = 0 /\ mu' # p
    BY <2>1, FreshCalls
  <2> QED
    BY <2>2 DEF CallInv
<1>21. CASE Crash
  <2>1. mu' = Free /\ pc' = Idle /\ sent' = Zero
    BY <1>21 DEF Crash, Restart
  <2>2. \A p \in Pages : pc'[p] = "idle" /\ sent'[p] = 0 /\ mu' # p
    BY <2>1, FreshCalls
  <2> QED
    BY <2>2 DEF CallInv
<1>22. CASE UNCHANGED vars
  BY <1>22 DEF vars, procVars, sessVars, chanVars, callVars, storeVars, histVars,
     boundVars, IInv, Has, CallInv
<1> QED
  BY <1>1, <1>2, <1>3, <1>4, <1>5, <1>6, <1>7, <1>8, <1>9, <1>10, <1>11, <1>12, <1>13,
     <1>14, <1>15, <1>16, <1>17, <1>18, <1>19, <1>20, <1>21, <1>22 DEF Next, CallStep,
     WriterStep, StopStep

-----------------------------------------------------------------------------
(* The store's contents                                                    *)

\* every posting still has a document when documents, visited pages or a
\* posting of an indexed page are added
LEMMA PostingsAdded ==
    ASSUME NEW keys \in SUBSET Keys, StoreTypes, PostingsHaveDocs, Set(keys),
           \A p \in Pages : \A x \in WordsOf[p] :
               riKey(x, p) \in keys => docKey(p) \in store.keys
    PROVE  PostingsHaveDocs'
<1>1. store'.keys = store.keys \cup keys /\ (kept' = kept \/ kept' = store')
  BY SetFacts
<1>2. ASSUME NEW p \in Pages, NEW x \in WordsOf[p], riKey(x, p) \in store'.keys
      PROVE  docKey(p) \in store'.keys
  BY <1>1, <1>2 DEF PostingsHaveDocs
<1>3. ASSUME NEW p \in Pages, NEW x \in WordsOf[p], riKey(x, p) \in kept'.keys
      PROVE  docKey(p) \in kept'.keys
  BY <1>1, <1>2, <1>3 DEF PostingsHaveDocs
<1> QED
  BY <1>2, <1>3 DEF PostingsHaveDocs

\* Every step keeps the documents of the postings.
LEMMA PostingsHaveDocsStep ==
    ASSUME IInv, [Next]_vars
    PROVE  PostingsHaveDocs'
<1>1. ASSUME NEW p \in Pages, Begin(p) PROVE PostingsHaveDocs'
  BY <1>1 DEF Begin, PostingsHaveDocs, IInv, storeVars
<1>2. ASSUME NEW p \in Pages, Look(p) PROVE PostingsHaveDocs'
  BY <1>2 DEF Look, PostingsHaveDocs, IInv, storeVars
<1>3. ASSUME NEW p \in Pages, Send(p) PROVE PostingsHaveDocs'
  BY <1>3 DEF Send, PostingsHaveDocs, IInv, storeVars
<1>4. ASSUME NEW p \in Pages, SendOnClosed(p) PROVE PostingsHaveDocs'
  BY <1>4 DEF SendOnClosed, PostingsHaveDocs, IInv, storeVars
<1>5. ASSUME NEW p \in Pages, SendCancelled(p) PROVE PostingsHaveDocs'
  BY <1>5 DEF SendCancelled, PostingsHaveDocs, IInv, storeVars
<1>6. ASSUME NEW p \in Pages, BigramsRead(p) PROVE PostingsHaveDocs'
  BY <1>6 DEF BigramsRead, PostingsHaveDocs, IInv, storeVars
<1>7. ASSUME NEW p \in Pages, BigramsCommit(p) PROVE PostingsHaveDocs'
  <2>1. store'.keys = store.keys /\ (kept' = kept \/ kept' = store')
    BY <1>7 DEF BigramsCommit, Write, IInv, StoreTypes, Stores
  <2> QED
    BY <2>1 DEF IInv, PostingsHaveDocs
<1>8. ASSUME NEW p \in Pages, SaveDocument(p) PROVE PostingsHaveDocs'
  <2>1. {docKey(p)} \in SUBSET Keys /\ Set({docKey(p)})
    BY <1>8, KeysWritten DEF SaveDocument
  <2>2. \A q \in Pages : \A x \in WordsOf[q] : riKey(x, q) \notin {docKey(p)}
    BY KeysDiffer
  <2> QED
    BY <2>1, <2>2, PostingsAdded DEF IInv
<1>9. ASSUME NEW p \in Pages, IndexWord(p) PROVE PostingsHaveDocs'
  <2>1. PICK x \in todo[p] : Set({riKey(x, p)})
    BY <1>9 DEF IndexWord
  <2>2. x \in WordsOf[p] /\ {riKey(x, p)} \in SUBSET Keys
    BY <2>1, KeysWritten DEF IInv, CallTypes
  <2>3. docKey(p) \in store.keys
    BY <1>9 DEF IndexWord, IInv, CallInv, Has
  <2>4. \A q \in Pages : \A y \in WordsOf[q] :
          riKey(y, q) \in {riKey(x, p)} => docKey(q) \in store.keys
    BY <2>2, <2>3, WordsAreSeqs, RiKeyInjective
  <2> QED
    BY <2>1, <2>2, <2>4, PostingsAdded DEF IInv
<1>10. ASSUME NEW p \in Pages, CallFails(p) PROVE PostingsHaveDocs'
  BY <1>10 DEF CallFails, PostingsHaveDocs, IInv, storeVars
<1>11. ASSUME NEW f \in Channels, WriteShingle(f) PROVE PostingsHaveDocs'
  BY <1>11 DEF WriteShingle, PostingsHaveDocs, IInv, storeVars
<1>12. ASSUME NEW f \in Channels, WriteFails(f) PROVE PostingsHaveDocs'
  BY <1>12 DEF WriteFails, PostingsHaveDocs, IInv, storeVars
<1>13. CASE Cancel
  BY <1>13 DEF Cancel, PostingsHaveDocs, IInv, storeVars
<1>14. CASE StopClose
  BY <1>14 DEF StopClose, PostingsHaveDocs, IInv, storeVars
<1>15. CASE StopWait
  BY <1>15 DEF StopWait, PostingsHaveDocs, IInv, storeVars
<1>16. CASE LoseTail
  BY <1>16 DEF LoseTail, PostingsHaveDocs, IInv, storeVars
<1>17. CASE StartSession
  BY <1>17 DEF StartSession, PostingsHaveDocs, IInv, storeVars
<1>18. CASE SaveVisitedUrls
  <2>1. {visitedKey(p) : p \in visited} \in SUBSET Keys
    BY KeysWritten DEF IInv, ProcTypes
  <2>2. Set({visitedKey(p) : p \in visited})
    BY <1>18 DEF SaveVisitedUrls
  <2>3. \A q \in Pages : \A x \in WordsOf[q] : riKey(x, q) \notin {visitedKey(p) : p \in visited}
    BY KeysDiffer
  <2> QED
    BY <2>1, <2>2, <2>3, PostingsAdded DEF IInv
<1>19. CASE WriteSalt
  BY <1>19 DEF WriteSalt, PostingsHaveDocs, IInv, storeVars
<1>20. CASE Exit
  BY <1>20 DEF Exit, Restart, IInv, PostingsHaveDocs
<1>21. CASE Crash
  BY <1>21 DEF Crash, Restart, IInv, PostingsHaveDocs
<1>22. CASE UNCHANGED vars
  BY <1>22 DEF vars, procVars, sessVars, chanVars, callVars, storeVars, histVars,
     boundVars, IInv, PostingsHaveDocs
<1> QED
  BY <1>1, <1>2, <1>3, <1>4, <1>5, <1>6, <1>7, <1>8, <1>9, <1>10, <1>11, <1>12, <1>13,
     <1>14, <1>15, <1>16, <1>17, <1>18, <1>19, <1>20, <1>21, <1>22 DEF Next, CallStep,
     WriterStep, StopStep

\* Every step keeps the counter of the bigram exact.
LEMMA BigramsExactStep ==
    ASSUME IInv, [Next]_vars
    PROVE  BigramsExact'
<1>1. ASSUME NEW p \in Pages, Begin(p) PROVE BigramsExact'
  BY <1>1 DEF Begin, BigramsExact, IInv, storeVars
<1>2. ASSUME NEW p \in Pages, Look(p) PROVE BigramsExact'
  BY <1>2 DEF Look, BigramsExact, IInv, storeVars
<1>3. ASSUME NEW p \in Pages, Send(p) PROVE BigramsExact'
  BY <1>3 DEF Send, BigramsExact, IInv, storeVars
<1>4. ASSUME NEW p \in Pages, SendOnClosed(p) PROVE BigramsExact'
  BY <1>4 DEF SendOnClosed, BigramsExact, IInv, storeVars
<1>5. ASSUME NEW p \in Pages, SendCancelled(p) PROVE BigramsExact'
  BY <1>5 DEF SendCancelled, BigramsExact, IInv, storeVars
<1>6. ASSUME NEW p \in Pages, BigramsRead(p) PROVE BigramsExact'
  BY <1>6 DEF BigramsRead, BigramsExact, IInv, storeVars
<1>7. ASSUME NEW p \in Pages, BigramsCommit(p) PROVE BigramsExact'
  <2>1. freq[p] = store.bigram /\ store.bigram = store.updates
    BY <1>7 DEF BigramsCommit, IInv, CallInv, BigramsExact
  <2>2. store'.bigram = freq[p] + 1 /\ store'.updates = store.updates + 1
    BY <1>7 DEF BigramsCommit, Write, IInv, StoreTypes, Stores
  <2>3. kept' = kept \/ kept' = store'
    BY <1>7 DEF BigramsCommit, Write
  <2> QED
    BY <2>1, <2>2, <2>3 DEF IInv, BigramsExact
<1>8. ASSUME NEW p \in Pages, SaveDocument(p) PROVE BigramsExact'
  <2>1. {docKey(p)} \in SUBSET Keys /\ Set({docKey(p)})
    BY <1>8, KeysWritten DEF SaveDocument
  <2> QED
    BY <2>1, SetFacts DEF IInv, BigramsExact
<1>9. ASSUME NEW p \in Pages, IndexWord(p) PROVE BigramsExact'
  <2>1. PICK x \in todo[p] : Set({riKey(x, p)})
    BY <1>9 DEF IndexWord
  <2>2. {riKey(x, p)} \in SUBSET Keys
    BY <2>1, KeysWritten DEF IInv, CallTypes
  <2> QED
    BY <2>1, <2>2, SetFacts DEF IInv, BigramsExact
<1>10. ASSUME NEW p \in Pages, CallFails(p) PROVE BigramsExact'
  BY <1>10 DEF CallFails, BigramsExact, IInv, storeVars
<1>11. ASSUME NEW f \in Channels, WriteShingle(f) PROVE BigramsExact'
  BY <1>11 DEF WriteShingle, BigramsExact, IInv, storeVars
<1>12. ASSUME NEW f \in Channels, WriteFails(f) PROVE BigramsExact'
  BY <1>12 DEF WriteFails, BigramsExact, IInv, storeVars
<1>13. CASE Cancel
  BY <1>13 DEF Cancel, BigramsExact, IInv, storeVars
<1>14. CASE StopClose
  BY <1>14 DEF StopClose, BigramsExact, IInv, storeVars
<1>15. CASE StopWait
  BY <1>15 DEF StopWait, BigramsExact, IInv, storeVars
<1>16. CASE LoseTail
  BY <1>16 DEF LoseTail, BigramsExact, IInv, storeVars
<1>17. CASE StartSession
  BY <1>17 DEF StartSession, BigramsExact, IInv, storeVars
<1>18. CASE SaveVisitedUrls
  <2>1. {visitedKey(p) : p \in visited} \in SUBSET Keys
    BY KeysWritten DEF IInv, ProcTypes
  <2>2. Set({visitedKey(p) : p \in visited})
    BY <1>18 DEF SaveVisitedUrls
  <2> QED
    BY <2>1, <2>2, SetFacts DEF IInv, BigramsExact
<1>19. CASE WriteSalt
  BY <1>19 DEF WriteSalt, BigramsExact, IInv, storeVars
<1>20. CASE Exit
  BY <1>20 DEF Exit, Restart, IInv, BigramsExact
<1>21. CASE Crash
  BY <1>21 DEF Crash, Restart, IInv, BigramsExact
<1>22. CASE UNCHANGED vars
  BY <1>22 DEF vars, procVars, sessVars, chanVars, callVars, storeVars, histVars,
     boundVars, IInv, BigramsExact
<1> QED
  BY <1>1, <1>2, <1>3, <1>4, <1>5, <1>6, <1>7, <1>8, <1>9, <1>10, <1>11, <1>12, <1>13,
     <1>14, <1>15, <1>16, <1>17, <1>18, <1>19, <1>20, <1>21, <1>22 DEF Next, CallStep,
     WriterStep, StopStep

-----------------------------------------------------------------------------
(* Signatures                                                              *)

\* entries that were there before stay accounted for
LEMMA OwnersKept ==
    ASSUME OwnersInv, (files \cup Queued(Channels))' \subseteq files \cup Queued(Channels),
           \A p \in Pages : Known(p) => Known(p)'
    PROVE  OwnersInv'
  BY DEF OwnersInv

\* nothing is queued in a new process
LEMMA NothingQueued ==
    ASSUME queue = NoEntries
    PROVE  Queued(Channels) = {}
  BY DEF Queued, NoEntries, Range

\* Every step keeps the pages of the signatures known.
LEMMA OwnersInvStep ==
    ASSUME IInv, [Next]_vars
    PROVE  OwnersInv'
<1>1. ASSUME NEW p \in Pages, Begin(p) PROVE OwnersInv'
  <2>1. \A q \in Pages : Known(q) => Known(q)'
    BY <1>1 DEF Begin, Goto, callVars, storeVars, histVars, Known, Has
  <2>2. (files \cup Queued(Channels))' \subseteq files \cup Queued(Channels)
    BY <1>1 DEF Begin, chanVars, Queued
  <2> QED
    BY <2>1, <2>2, OwnersKept DEF IInv
<1>2. ASSUME NEW p \in Pages, Look(p) PROVE OwnersInv'
  <2>1. \A q \in Pages : Known(q) => Known(q)'
    <3>1. sent[p] = 0
      BY <1>2 DEF Look, IInv, CallInv, CallTypes
    <3>2. Return(p) \/ UNCHANGED sent
      BY <1>2 DEF Look
    <3> QED
      BY <1>2, <3>1, <3>2 DEF Look, Return, storeVars, histVars, Known, Has, IInv,
         CallTypes
  <2>2. (files \cup Queued(Channels))' \subseteq files \cup Queued(Channels)
    BY <1>2 DEF Look, chanVars, Queued
  <2> QED
    BY <2>1, <2>2, OwnersKept DEF IInv
<1>3. ASSUME NEW p \in Pages, Send(p) PROVE OwnersInv'
  <2> DEFINE k == sent[p] + 1
             e == Shingle(p, k)
  <2>1. sent' = [sent EXCEPT ![p] = @ + 1] /\ UNCHANGED <<store, halfway, files>>
    BY <1>3 DEF Send, SendNext, storeVars, histVars
  <2>2. k \in 1 .. Chunks(p)
    BY <1>3, ChunkFacts DEF Send, IInv, CallInv, CallTypes
  <2>3. Queued(Channels)' = Queued(Channels) \cup {e}
    <3>1. Channel(p, k) \in Channels /\ e \in Entries
      BY <2>2, ChunkFacts
    <3>2. queue' = [queue EXCEPT ![Channel(p, k)] = Append(@, e)]
      BY <1>3 DEF Send
    <3> HIDE DEF e, k
    <3> QED
      BY <3>1, <3>2, QueuedMore DEF IInv, ChanTypes
  <2>4. \A q \in Pages : Known(q) => Known(q)'
    BY <2>1 DEF Known, Has, IInv, CallTypes
  <2>5. e.sign = Sign[p] /\ Known(p)'
    BY <2>1 DEF Shingle, Known, IInv, CallTypes
  <2> HIDE DEF e
  <2> QED
    BY <2>1, <2>3, <2>4, <2>5 DEF OwnersInv, IInv
<1>4. ASSUME NEW p \in Pages, SendOnClosed(p) PROVE OwnersInv'
  BY <1>4 DEF SendOnClosed, OwnersInv, IInv, Known, Has, Queued, callVars, storeVars,
     histVars, chanVars
<1>5. ASSUME NEW p \in Pages, SendCancelled(p) PROVE OwnersInv'
  <2>1. \A q \in Pages : Known(q) => Known(q)'
    BY <1>5 DEF SendCancelled, Goto, callVars, storeVars, histVars, Known, Has
  <2>2. (files \cup Queued(Channels))' \subseteq files \cup Queued(Channels)
    BY <1>5 DEF SendCancelled, chanVars, Queued
  <2> QED
    BY <2>1, <2>2, OwnersKept DEF IInv
<1>6. ASSUME NEW p \in Pages, BigramsRead(p) PROVE OwnersInv'
  <2>1. \A q \in Pages : Known(q) => Known(q)'
    BY <1>6 DEF BigramsRead, Goto, callVars, storeVars, histVars, Known, Has
  <2>2. (files \cup Queued(Channels))' \subseteq files \cup Queued(Channels)
    BY <1>6 DEF BigramsRead, chanVars, Queued
  <2> QED
    BY <2>1, <2>2, OwnersKept DEF IInv
<1>7. ASSUME NEW p \in Pages, BigramsCommit(p) PROVE OwnersInv'
  <2>1. \A q \in Pages : Known(q) => Known(q)'
    <3>1. store'.keys = store.keys
      BY <1>7 DEF BigramsCommit, Write, IInv, StoreTypes, Stores
    <3>2. (sent[p] = 0 /\ Return(p)) \/ UNCHANGED sent
      BY <1>7 DEF BigramsCommit, IInv, CallInv, CallTypes, HasSignature
    <3> QED
      BY <1>7, <3>1, <3>2 DEF BigramsCommit, Return, histVars, Known, Has, IInv,
         CallTypes
  <2>2. (files \cup Queued(Channels))' \subseteq files \cup Queued(Channels)
    BY <1>7 DEF BigramsCommit, chanVars, Queued
  <2> QED
    BY <2>1, <2>2, OwnersKept DEF IInv
<1>8. ASSUME NEW p \in Pages, SaveDocument(p) PROVE OwnersInv'
  <2>1. \A q \in Pages : Known(q) => Known(q)'
    <3>1. Set({docKey(p)}) /\ (Return(p) \/ UNCHANGED sent) /\ UNCHANGED halfway
      BY <1>8 DEF SaveDocument, AfterSave, histVars
    <3>2. store'.keys = store.keys \cup {docKey(p)}
      BY <3>1, KeysWritten, SetFacts DEF IInv
    <3> QED
      BY <3>1, <3>2 DEF Return, Known, Has, IInv, CallTypes
  <2>2. (files \cup Queued(Channels))' \subseteq files \cup Queued(Channels)
    BY <1>8 DEF SaveDocument, chanVars, Queued
  <2> QED
    BY <2>1, <2>2, OwnersKept DEF IInv
<1>9. ASSUME NEW p \in Pages, IndexWord(p) PROVE OwnersInv'
  <2>1. \A q \in Pages : Known(q) => Known(q)'
    <3>1. PICK x \in todo[p] : Set({riKey(x, p)}) /\ (Return(p) \/ UNCHANGED sent)
      BY <1>9 DEF IndexWord
    <3>2. store'.keys = store.keys \cup {riKey(x, p)}
      BY <3>1, KeysWritten, SetFacts DEF IInv, CallTypes
    <3>3. Has(docKey(p)) /\ UNCHANGED halfway
      BY <1>9 DEF IndexWord, IInv, CallInv, histVars
    <3> QED
      BY <3>1, <3>2, <3>3 DEF Return, Known, Has, IInv, CallTypes
  <2>2. (files \cup Queued(Channels))' \subseteq files \cup Queued(Channels)
    BY <1>9 DEF IndexWord, chanVars, Queued
  <2> QED
    BY <2>1, <2>2, OwnersKept DEF IInv
<1>10. ASSUME NEW p \in Pages, CallFails(p) PROVE OwnersInv'
  <2>1. \A q \in Pages : Known(q) => Known(q)'
    <3>1. Return(p) /\ halfway' = halfway \cup (Half \cap {p}) /\ UNCHANGED store
      BY <1>10 DEF CallFails, storeVars
    <3>2. sent[p] > 0 => p \in Half \/ Has(docKey(p))
      BY <1>10 DEF CallFails, IInv, CallInv, CallTypes, Labels, Half
    <3> QED
      BY <3>1, <3>2 DEF Return, Known, Has, IInv, CallTypes
  <2>2. (files \cup Queued(Channels))' \subseteq files \cup Queued(Channels)
    BY <1>10 DEF CallFails, chanVars, Queued
  <2> QED
    BY <2>1, <2>2, OwnersKept DEF IInv
<1>11. ASSUME NEW f \in Channels, WriteShingle(f) PROVE OwnersInv'
  <2>1. /\ queue[f] # <<>> /\ queue' = [queue EXCEPT ![f] = Tail(@)]
        /\ files' = files \cup {Head(queue[f])}
        /\ UNCHANGED <<sent, store, halfway>>
    BY <1>11 DEF WriteShingle, callVars, storeVars, histVars
  <2>2. (files \cup Queued(Channels))' = files \cup Queued(Channels)
    BY <2>1, QueuedLess DEF IInv, ChanTypes
  <2>3. \A q \in Pages : Known(q) => Known(q)'
    BY <2>1 DEF Known, Has
  <2> QED
    BY <2>2, <2>3, OwnersKept DEF IInv
<1>12. ASSUME NEW f \in Channels, WriteFails(f) PROVE OwnersInv'
  <2>1. /\ queue[f] # <<>> /\ queue' = [queue EXCEPT ![f] = Tail(@)]
        /\ UNCHANGED <<files, sent, store, halfway>>
    BY <1>12 DEF WriteFails, callVars, storeVars
  <2>2. (files \cup Queued(Channels))' \subseteq files \cup Queued(Channels)
    BY <2>1, QueuedLess DEF IInv, ChanTypes
  <2>3. \A q \in Pages : Known(q) => Known(q)'
    BY <2>1 DEF Known, Has
  <2> QED
    BY <2>2, <2>3, OwnersKept DEF IInv
<1>13. CASE Cancel
  BY <1>13 DEF Cancel, OwnersInv, IInv, Known, Has, Queued, callVars, storeVars,
     histVars, chanVars
<1>14. CASE StopClose
  BY <1>14 DEF StopClose, OwnersInv, IInv, Known, Has, Queued, callVars, storeVars,
     histVars, chanVars
<1>15. CASE StopWait
  BY <1>15 DEF StopWait, OwnersInv, IInv, Known, Has, Queued, callVars, storeVars,
     histVars, chanVars
<1>16. CASE LoseTail
  BY <1>16 DEF LoseTail, OwnersInv, IInv, Known, Has, Queued, callVars, storeVars,
     histVars, chanVars
<1>17. CASE StartSession
  BY <1>17 DEF StartSession, OwnersInv, IInv, Known, Has, Queued, callVars, storeVars,
     histVars, chanVars
<1>18. CASE SaveVisitedUrls
  <2>1. \A q \in Pages : Known(q) => Known(q)'
    <3>1. {visitedKey(p) : p \in visited} \in SUBSET Keys
      BY KeysWritten DEF IInv, ProcTypes
    <3>2. Set({visitedKey(p) : p \in visited}) /\ UNCHANGED <<sent, halfway>>
      BY <1>18 DEF SaveVisitedUrls, callVars, histVars
    <3> QED
      BY <3>1, <3>2, SetFacts DEF IInv, Known, Has
  <2>2. (files \cup Queued(Channels))' \subseteq files \cup Queued(Channels)
    BY <1>18 DEF SaveVisitedUrls, chanVars, Queued
  <2> QED
    BY <2>1, <2>2, OwnersKept DEF IInv
<1>19. CASE WriteSalt
  BY <1>19 DEF WriteSalt, OwnersInv, IInv, Known, Has, Queued, callVars, storeVars,
     histVars, chanVars
<1>20. CASE Exit
  <2>1. \A q \in Pages : Known(q) => Known(q)'
    <3>1. /\ halfway' = halfway \cup Half \cup {p \in Pages : docKey(p) \in store.keys \ kept.keys}
          /\ store' = kept
      BY <1>20 DEF Exit, Restart
    <3>2. ASSUME NEW q \in Pages, sent[q] > 0 PROVE q \in Half \/ Has(docKey(q))
      BY <3>2 DEF IInv, CallInv, CallTypes, Labels, Half
    <3> QED
      BY <3>1, <3>2 DEF Known, Has
  <2>2. (files \cup Queued(Channels))' \subseteq files \cup Queued(Channels)
    <3>1. queue' = NoEntries /\ files' = files
      BY <1>20 DEF Exit, Restart
    <3>2. Queued(Channels)' = {}
      BY <3>1 DEF Queued, NoEntries, Range
    <3> QED
      BY <3>1, <3>2
  <2> QED
    BY <2>1, <2>2, OwnersKept DEF IInv
<1>21. CASE Crash
  <2>1. \A q \in Pages : Known(q) => Known(q)'
    <3>1. /\ halfway' = halfway \cup Half \cup {p \in Pages : docKey(p) \in store.keys \ kept.keys}
          /\ store' = kept
      BY <1>21 DEF Crash, Restart
    <3>2. ASSUME NEW q \in Pages, sent[q] > 0 PROVE q \in Half \/ Has(docKey(q))
      BY <3>2 DEF IInv, CallInv, CallTypes, Labels, Half
    <3> QED
      BY <3>1, <3>2 DEF Known, Has
  <2>2. (files \cup Queued(Channels))' \subseteq files \cup Queued(Channels)
    <3>1. queue' = NoEntries /\ files' = files
      BY <1>21 DEF Crash, Restart
    <3>2. Queued(Channels)' = {}
      BY <3>1 DEF Queued, NoEntries, Range
    <3> QED
      BY <3>1, <3>2
  <2> QED
    BY <2>1, <2>2, OwnersKept DEF IInv
<1>22. CASE UNCHANGED vars
  BY <1>22 DEF vars, procVars, sessVars, chanVars, callVars, storeVars, histVars,
     boundVars, IInv, Known, Has, Queued, OwnersInv
<1> QED
  BY <1>1, <1>2, <1>3, <1>4, <1>5, <1>6, <1>7, <1>8, <1>9, <1>10, <1>11, <1>12, <1>13,
     <1>14, <1>15, <1>16, <1>17, <1>18, <1>19, <1>20, <1>21, <1>22 DEF Next, CallStep,
     WriterStep, StopStep

\* what was sent before stays found, unless the page counts as cut
LEMMA WrittenKept ==
    ASSUME WrittenInv, cut \subseteq cut',
           \A q \in Pages \ cut' : \A k \in 1 .. Chunks(q) :
               HasSignature(q) /\ Sent(q, k)' =>
                   /\ Sent(q, k)
                   /\ Shingle(q, k) \in files \cup Queued(Channels) =>
                        Shingle(q, k) \in (files \cup Queued(Channels))'
    PROVE  WrittenInv'
  BY DEF WrittenInv, HasSignature, Chunks, Shingle, Chunk

\* Every step keeps what has been sent in a file or a channel.
LEMMA WrittenInvStep ==
    ASSUME IInv, [Next]_vars
    PROVE  WrittenInv'
<1>1. ASSUME NEW p \in Pages, Begin(p) PROVE WrittenInv'
  <2>1. \A q \in Pages \ cut' : \A k \in 1 .. Chunks(q) :
          HasSignature(q) /\ Sent(q, k)' => Sent(q, k)
    BY <1>1 DEF Begin, Goto, callVars, storeVars, histVars, Sent, Has, IInv, CallTypes
  <2>2. files \cup Queued(Channels) = (files \cup Queued(Channels))' /\ cut \subseteq cut'
    BY <1>1 DEF Begin, chanVars, histVars, Queued
  <2> QED
    BY <2>1, <2>2, WrittenKept DEF IInv
<1>2. ASSUME NEW p \in Pages, Look(p) PROVE WrittenInv'
  <2>1. \A q \in Pages \ cut' : \A k \in 1 .. Chunks(q) :
          HasSignature(q) /\ Sent(q, k)' => Sent(q, k)
    <3>1. sent[p] = 0 /\ pc[p] = "look" /\ UNCHANGED store
      BY <1>2 DEF Look, IInv, CallInv, CallTypes, storeVars
    <3>2. \/ ~HasSignature(p) /\ Goto(p, "bigrams") /\ UNCHANGED sent
          \/ Return(p)
          \/ Goto(p, "send") /\ UNCHANGED sent
      BY <1>2 DEF Look
    <3> QED
      BY <3>1, <3>2 DEF Goto, Return, Sent, Has, IInv, CallTypes
  <2>2. files \cup Queued(Channels) = (files \cup Queued(Channels))' /\ cut \subseteq cut'
    BY <1>2 DEF Look, chanVars, histVars, Queued
  <2> QED
    BY <2>1, <2>2, WrittenKept DEF IInv
<1>3. ASSUME NEW p \in Pages, Send(p) PROVE WrittenInv'
  <2> DEFINE e == Shingle(p, sent[p] + 1)
  <2>1. /\ pc[p] = "send" /\ SendNext(p) /\ UNCHANGED <<store, files, cut>>
        /\ queue' = [queue EXCEPT ![Channel(p, sent[p] + 1)] = Append(@, e)]
    BY <1>3 DEF Send, storeVars, histVars
  <2>2. sent[p] + 1 \in 1 .. Chunks(p) /\ sent[p] \in Nat /\ Chunks(p) \in Nat
    BY <1>3, ChunkFacts DEF Send, IInv, CallInv, CallTypes
  <2>3. Queued(Channels)' = Queued(Channels) \cup {e}
    <3>1. Channel(p, sent[p] + 1) \in Channels /\ e \in Entries
      BY <2>2, ChunkFacts
    <3> HIDE DEF e
    <3> QED
      BY <2>1, <3>1, QueuedMore DEF IInv, ChanTypes
  <2> HIDE DEF e
  <2>4. ASSUME NEW q \in Pages, NEW k \in 1 .. Chunks(q), Sent(q, k)'
        PROVE  Sent(q, k) \/ (q = p /\ k = sent[p] + 1)
    <3>1. CASE q = p
      <4>1. pc' = [pc EXCEPT ![p] = IF sent[p] + 1 = Chunks(p) THEN "bigrams" ELSE "send"]
            /\ sent' = [sent EXCEPT ![p] = sent[p] + 1]
        BY <2>1 DEF SendNext, Goto
      <4>2. sent'[p] = sent[p] + 1
        BY <4>1 DEF IInv, CallTypes
      <4>3. CASE sent[p] + 1 = Chunks(p)
        BY <2>1, <2>2, <3>1, <4>3 DEF Sent
      <4>4. CASE sent[p] + 1 # Chunks(p)
        <5>1. pc'[p] = "send"
          BY <4>1, <4>4 DEF IInv, CallTypes
        <5>2. Has(docKey(q))' => Has(docKey(q))
          BY <2>1 DEF Has
        <5>3. Has(docKey(q)) \/ k <= sent[p] + 1
          BY <2>4, <3>1, <4>2, <5>1, <5>2 DEF Sent
        <5> QED
          BY <2>1, <2>2, <3>1, <5>3 DEF Sent
      <4> QED
        BY <4>3, <4>4
    <3>2. CASE q # p
      BY <2>1, <2>4, <3>2 DEF SendNext, Goto, Sent, Has, IInv, CallTypes
    <3> QED
      BY <3>1, <3>2
  <2> QED
    BY <2>1, <2>3, <2>4 DEF IInv, WrittenInv, e, HasSignature, Chunks, Shingle, Chunk
<1>4. ASSUME NEW p \in Pages, SendOnClosed(p) PROVE WrittenInv'
  BY <1>4 DEF SendOnClosed, WrittenInv, IInv, Sent, Has, Queued, HasSignature, Chunks,
     Shingle, Chunk, callVars, storeVars, histVars, chanVars
<1>5. ASSUME NEW p \in Pages, SendCancelled(p) PROVE WrittenInv'
  <2>1. \A q \in Pages \ cut' : \A k \in 1 .. Chunks(q) :
          HasSignature(q) /\ Sent(q, k)' => Sent(q, k)
    BY <1>5 DEF SendCancelled, Goto, callVars, storeVars, histVars, Sent, Has, IInv,
       CallTypes
  <2>2. files \cup Queued(Channels) = (files \cup Queued(Channels))' /\ cut \subseteq cut'
    BY <1>5 DEF SendCancelled, chanVars, histVars, Queued
  <2> QED
    BY <2>1, <2>2, WrittenKept DEF IInv
<1>6. ASSUME NEW p \in Pages, BigramsRead(p) PROVE WrittenInv'
  <2>1. \A q \in Pages \ cut' : \A k \in 1 .. Chunks(q) :
          HasSignature(q) /\ Sent(q, k)' => Sent(q, k)
    BY <1>6 DEF BigramsRead, Goto, callVars, storeVars, histVars, Sent, Has, IInv,
       CallTypes
  <2>2. files \cup Queued(Channels) = (files \cup Queued(Channels))' /\ cut \subseteq cut'
    BY <1>6 DEF BigramsRead, chanVars, histVars, Queued
  <2> QED
    BY <2>1, <2>2, WrittenKept DEF IInv
<1>7. ASSUME NEW p \in Pages, BigramsCommit(p) PROVE WrittenInv'
  <2>1. \A q \in Pages \ cut' : \A k \in 1 .. Chunks(q) :
          HasSignature(q) /\ Sent(q, k)' => Sent(q, k)
    <3>1. store'.keys = store.keys
      BY <1>7 DEF BigramsCommit, Write, IInv, StoreTypes, Stores
    <3>2. pc[p] = "commit" /\ (Return(p) \/ (Goto(p, "save") /\ UNCHANGED sent))
      BY <1>7 DEF BigramsCommit
    <3> QED
      BY <3>1, <3>2 DEF Return, Goto, Sent, Has, IInv, CallTypes
  <2>2. files \cup Queued(Channels) = (files \cup Queued(Channels))' /\ cut \subseteq cut'
    BY <1>7 DEF BigramsCommit, chanVars, histVars, Queued
  <2> QED
    BY <2>1, <2>2, WrittenKept DEF IInv
<1>8. ASSUME NEW p \in Pages, SaveDocument(p) PROVE WrittenInv'
  <2>1. \A q \in Pages \ cut' : \A k \in 1 .. Chunks(q) :
          HasSignature(q) /\ Sent(q, k)' => Sent(q, k)
    <3>1. Set({docKey(p)}) /\ pc[p] = "save"
          /\ (Return(p) \/ (Goto(p, "words") /\ UNCHANGED sent))
      BY <1>8 DEF SaveDocument, AfterSave
    <3>2. store'.keys = store.keys \cup {docKey(p)}
      BY <3>1, KeysWritten, SetFacts DEF IInv
    <3>3. \A q \in Pages : docKey(q) = docKey(p) => q = p
      BY KeysDiffer
    <3> QED
      BY <3>1, <3>2, <3>3 DEF Return, Goto, Sent, Has, IInv, CallTypes
  <2>2. files \cup Queued(Channels) = (files \cup Queued(Channels))' /\ cut \subseteq cut'
    BY <1>8 DEF SaveDocument, chanVars, histVars, Queued
  <2> QED
    BY <2>1, <2>2, WrittenKept DEF IInv
<1>9. ASSUME NEW p \in Pages, IndexWord(p) PROVE WrittenInv'
  <2>1. \A q \in Pages \ cut' : \A k \in 1 .. Chunks(q) :
          HasSignature(q) /\ Sent(q, k)' => Sent(q, k)
    <3>1. PICK x \in todo[p] : Set({riKey(x, p)}) /\ (Return(p) \/ UNCHANGED <<pc, sent>>)
      BY <1>9 DEF IndexWord
    <3>2. store'.keys = store.keys \cup {riKey(x, p)}
      BY <3>1, KeysWritten, SetFacts DEF IInv, CallTypes
    <3>3. \A q \in Pages : docKey(q) # riKey(x, p)
      BY KeysDiffer
    <3> QED
      BY <3>1, <3>2, <3>3 DEF Return, Goto, Sent, Has, IInv, CallTypes
  <2>2. files \cup Queued(Channels) = (files \cup Queued(Channels))' /\ cut \subseteq cut'
    BY <1>9 DEF IndexWord, chanVars, histVars, Queued
  <2> QED
    BY <2>1, <2>2, WrittenKept DEF IInv
<1>10. ASSUME NEW p \in Pages, CallFails(p) PROVE WrittenInv'
  <2>1. \A q \in Pages \ cut' : \A k \in 1 .. Chunks(q) :
          HasSignature(q) /\ Sent(q, k)' => Sent(q, k)
    <3>1. Return(p) /\ UNCHANGED store
      BY <1>10 DEF CallFails, storeVars
    <3> QED
      BY <3>1 DEF Return, Goto, Sent, Has, IInv, CallTypes
  <2>2. files \cup Queued(Channels) = (files \cup Queued(Channels))' /\ cut \subseteq cut'
    BY <1>10 DEF CallFails, chanVars, histVars, Queued
  <2> QED
    BY <2>1, <2>2, WrittenKept DEF IInv
<1>11. ASSUME NEW f \in Channels, WriteShingle(f) PROVE WrittenInv'
  <2>1. /\ queue[f] # <<>> /\ queue' = [queue EXCEPT ![f] = Tail(@)]
        /\ files' = files \cup {Head(queue[f])}
        /\ UNCHANGED <<pc, sent, store, cut>>
    BY <1>11 DEF WriteShingle, callVars, storeVars, histVars
  <2>2. (files \cup Queued(Channels))' = files \cup Queued(Channels)
    BY <2>1, QueuedLess DEF IInv, ChanTypes
  <2>3. \A q \in Pages : \A k \in 1 .. Chunks(q) : Sent(q, k)' => Sent(q, k)
    BY <2>1 DEF Sent, Has
  <2> QED
    BY <2>1, <2>2, <2>3, WrittenKept DEF IInv
<1>12. ASSUME NEW f \in Channels, WriteFails(f) PROVE WrittenInv'
  <2>1. /\ queue[f] # <<>> /\ queue' = [queue EXCEPT ![f] = Tail(@)]
        /\ cut' = cut \cup Owners({Head(queue[f])})
        /\ UNCHANGED <<files, pc, sent, store>>
    BY <1>12 DEF WriteFails, callVars, storeVars
  <2>2. Queued(Channels)' \cup {Head(queue[f])} = Queued(Channels)
    BY <2>1, QueuedLess DEF IInv, ChanTypes
  <2>3. \A q \in Pages : \A k \in 1 .. Chunks(q) : Sent(q, k)' => Sent(q, k)
    BY <2>1 DEF Sent, Has
  <2>4. \A q \in Pages \ cut' : \A k \in 1 .. Chunks(q) : Shingle(q, k) # Head(queue[f])
    BY <2>1 DEF Owners, Shingle
  <2> QED
    BY <2>1, <2>2, <2>3, <2>4, WrittenKept DEF IInv
<1>13. CASE Cancel
  BY <1>13 DEF Cancel, WrittenInv, IInv, Sent, Has, Queued, HasSignature, Chunks,
     Shingle, Chunk, callVars, storeVars, histVars, chanVars
<1>14. CASE StopClose
  BY <1>14 DEF StopClose, WrittenInv, IInv, Sent, Has, Queued, HasSignature, Chunks,
     Shingle, Chunk, callVars, storeVars, histVars, chanVars
<1>15. CASE StopWait
  BY <1>15 DEF StopWait, WrittenInv, IInv, Sent, Has, Queued, HasSignature, Chunks,
     Shingle, Chunk, callVars, storeVars, histVars, chanVars
<1>16. CASE LoseTail
  BY <1>16 DEF LoseTail, WrittenInv, IInv, Sent, Has, Queued, HasSignature, Chunks,
     Shingle, Chunk, callVars, storeVars, histVars, chanVars
<1>17. CASE StartSession
  BY <1>17 DEF StartSession, WrittenInv, IInv, Sent, Has, Queued, HasSignature,
     Chunks, Shingle, Chunk, callVars, storeVars, histVars, chanVars
<1>18. CASE SaveVisitedUrls
  <2>1. \A q \in Pages \ cut' : \A k \in 1 .. Chunks(q) :
          HasSignature(q) /\ Sent(q, k)' => Sent(q, k)
    <3>1. {visitedKey(p) : p \in visited} \in SUBSET Keys
      BY KeysWritten DEF IInv, ProcTypes
    <3>2. Set({visitedKey(p) : p \in visited}) /\ UNCHANGED <<sent, pc>>
      BY <1>18 DEF SaveVisitedUrls, callVars
    <3>3. \A q \in Pages : docKey(q) \notin {visitedKey(p) : p \in visited}
      BY KeysDiffer
    <3> QED
      BY <3>1, <3>2, <3>3, SetFacts DEF IInv, Sent, Has
  <2>2. files \cup Queued(Channels) = (files \cup Queued(Channels))' /\ cut \subseteq cut'
    BY <1>18 DEF SaveVisitedUrls, chanVars, histVars, Queued
  <2> QED
    BY <2>1, <2>2, WrittenKept DEF IInv
<1>19. CASE WriteSalt
  BY <1>19 DEF WriteSalt, WrittenInv, IInv, Sent, Has, Queued, HasSignature, Chunks,
     Shingle, Chunk, callVars, storeVars, histVars, chanVars
<1>20. CASE Exit
  <2>1. /\ store' = kept /\ pc' = Idle /\ files' = files
        /\ cut' = cut \cup Owners(Queued({f \in Channels : writer[f] = "dead"}))
    BY <1>20 DEF Exit, Restart
  <2>2. ASSUME NEW q \in Pages \ cut', NEW k \in 1 .. Chunks(q), HasSignature(q), Sent(q, k)'
        PROVE  Shingle(q, k) \in files
    <3>1. Sent(q, k)
      BY <2>1, <2>2, FreshCalls DEF Sent, Has, IInv, StoreTypes
    <3>2. Shingle(q, k) \in files \cup Queued(Channels) /\ q \notin cut
      BY <2>1, <2>2, <3>1 DEF IInv, WrittenInv
    <3>3. ASSUME NEW e \in Queued(Channels) PROVE e.sign # Sign[q]
      <4>1. stopped
        BY <1>20 DEF Exit
      <4>2. PICK f \in Channels : e \in Range(queue[f])
        BY DEF Queued
      <4>3. queue[f] # <<>>
        BY <4>2 DEF Range
      <4>4. writer[f] = "dead"
        BY <4>1, <4>3 DEF IInv, StopInv
      <4>5. e \in Queued({g \in Channels : writer[g] = "dead"})
        BY <4>2, <4>4 DEF Queued
      <4> QED
        BY <2>1, <2>2, <4>5 DEF Owners
    <3> QED
      BY <3>2, <3>3 DEF Shingle
  <2> QED
    BY <2>1, <2>2 DEF WrittenInv, HasSignature, Chunks, Shingle, Chunk
<1>21. CASE Crash
  <2>1. /\ store' = kept /\ pc' = Idle /\ files' = files
        /\ cut' = cut \cup Owners(Queued(Channels))
    BY <1>21 DEF Crash, Restart
  <2>2. ASSUME NEW q \in Pages \ cut', NEW k \in 1 .. Chunks(q), HasSignature(q), Sent(q, k)'
        PROVE  Shingle(q, k) \in files
    <3>1. Sent(q, k)
      BY <2>1, <2>2, FreshCalls DEF Sent, Has, IInv, StoreTypes
    <3>2. Shingle(q, k) \in files \cup Queued(Channels) /\ q \notin cut
      BY <2>1, <2>2, <3>1 DEF IInv, WrittenInv
    <3>3. ASSUME NEW e \in Queued(Channels) PROVE e.sign # Sign[q]
      BY <2>1, <2>2 DEF Owners
    <3> QED
      BY <3>2, <3>3 DEF Shingle
  <2> QED
    BY <2>1, <2>2 DEF WrittenInv, HasSignature, Chunks, Shingle, Chunk
<1>22. CASE UNCHANGED vars
  BY <1>22 DEF vars, procVars, sessVars, chanVars, callVars, storeVars, histVars,
     boundVars, IInv, Sent, Has, Queued, HasSignature, Chunks, Shingle, Chunk,
     WrittenInv
<1> QED
  BY <1>1, <1>2, <1>3, <1>4, <1>5, <1>6, <1>7, <1>8, <1>9, <1>10, <1>11, <1>12, <1>13,
     <1>14, <1>15, <1>16, <1>17, <1>18, <1>19, <1>20, <1>21, <1>22 DEF Next, CallStep,
     WriterStep, StopStep

-----------------------------------------------------------------------------
(* The end of a process                                                    *)

\* Every step keeps the channels empty once the writers have been waited for.
LEMMA StopInvStep ==
    ASSUME IInv, [Next]_vars
    PROVE  StopInv'
<1>1. ASSUME NEW p \in Pages, Begin(p) PROVE StopInv'
  BY <1>1 DEF Begin, StopInv, IInv, chanVars
<1>2. ASSUME NEW p \in Pages, Look(p) PROVE StopInv'
  BY <1>2 DEF Look, StopInv, IInv, chanVars
<1>3. ASSUME NEW p \in Pages, Send(p) PROVE StopInv'
  BY <1>3 DEF Send, IInv, StopInv
<1>4. ASSUME NEW p \in Pages, SendOnClosed(p) PROVE StopInv'
  BY <1>4 DEF SendOnClosed, StopInv, IInv, chanVars
<1>5. ASSUME NEW p \in Pages, SendCancelled(p) PROVE StopInv'
  BY <1>5 DEF SendCancelled, StopInv, IInv, chanVars
<1>6. ASSUME NEW p \in Pages, BigramsRead(p) PROVE StopInv'
  BY <1>6 DEF BigramsRead, StopInv, IInv, chanVars
<1>7. ASSUME NEW p \in Pages, BigramsCommit(p) PROVE StopInv'
  BY <1>7 DEF BigramsCommit, StopInv, IInv, chanVars
<1>8. ASSUME NEW p \in Pages, SaveDocument(p) PROVE StopInv'
  BY <1>8 DEF SaveDocument, StopInv, IInv, chanVars
<1>9. ASSUME NEW p \in Pages, IndexWord(p) PROVE StopInv'
  BY <1>9 DEF IndexWord, StopInv, IInv, chanVars
<1>10. ASSUME NEW p \in Pages, CallFails(p) PROVE StopInv'
  BY <1>10 DEF CallFails, StopInv, IInv, chanVars
<1>11. ASSUME NEW f \in Channels, WriteShingle(f) PROVE StopInv'
  BY <1>11 DEF WriteShingle, IInv, ChanTypes, StopInv
<1>12. ASSUME NEW f \in Channels, WriteFails(f) PROVE StopInv'
  BY <1>12 DEF WriteFails, IInv, ChanTypes, StopInv
<1>13. CASE Cancel
  BY <1>13 DEF Cancel, StopInv, IInv, chanVars
<1>14. CASE StopClose
  BY <1>14 DEF StopClose, IInv, StopInv
<1>15. CASE StopWait
  BY <1>15 DEF StopWait, IInv, StopInv
<1>16. CASE LoseTail
  BY <1>16 DEF LoseTail, StopInv, IInv, chanVars
<1>17. CASE StartSession
  BY <1>17 DEF StartSession, StopInv, IInv, chanVars
<1>18. CASE SaveVisitedUrls
  BY <1>18 DEF SaveVisitedUrls, StopInv, IInv, chanVars
<1>19. CASE WriteSalt
  BY <1>19 DEF WriteSalt, StopInv, IInv, chanVars
<1>20. CASE Exit
  BY <1>20 DEF Exit, Restart, StopInv
<1>21. CASE Crash
  BY <1>21 DEF Crash, Restart, StopInv
<1>22. CASE UNCHANGED vars
  BY <1>22 DEF vars, procVars, sessVars, chanVars, callVars, storeVars, histVars,
     boundVars, IInv, StopInv
<1> QED
  BY <1>1, <1>2, <1>3, <1>4, <1>5, <1>6, <1>7, <1>8, <1>9, <1>10, <1>11, <1>12, <1>13,
     <1>14, <1>15, <1>16, <1>17, <1>18, <1>19, <1>20, <1>21, <1>22 DEF Next, CallStep,
     WriterStep, StopStep

\* Every step keeps salt.bin in step with the session and the documents.
LEMMA SaltInvStep ==
    ASSUME IInv, [Next]_vars
    PROVE  SaltInv'
<1>1. ASSUME NEW p \in Pages, Begin(p) PROVE SaltInv'
  BY <1>1 DEF Begin, procVars, IInv, Running, SaltInv
<1>2. ASSUME NEW p \in Pages, Look(p) PROVE SaltInv'
  <2>1. pc[p] # "idle" /\ Running /\ UNCHANGED <<refused, lastEnd, salt, session>>
    BY <1>2 DEF Look, procVars, sessVars
  <2>2. ~(session = "none" /\ salt = "none")
    BY <2>1, FreshCalls DEF IInv, SaltInv, Running
  <2> QED
    BY <2>1, <2>2 DEF IInv, SaltInv, Running
<1>3. ASSUME NEW p \in Pages, Send(p) PROVE SaltInv'
  <2>1. pc[p] # "idle" /\ Running /\ UNCHANGED <<refused, lastEnd, salt, session>>
    BY <1>3 DEF Send, procVars, sessVars
  <2>2. ~(session = "none" /\ salt = "none")
    BY <2>1, FreshCalls DEF IInv, SaltInv, Running
  <2> QED
    BY <2>1, <2>2 DEF IInv, SaltInv, Running
<1>4. ASSUME NEW p \in Pages, SendOnClosed(p) PROVE SaltInv'
  <2>1. pc[p] # "idle" /\ Running /\ UNCHANGED <<refused, lastEnd, salt, session>>
    BY <1>4 DEF SendOnClosed, procVars, sessVars
  <2>2. ~(session = "none" /\ salt = "none")
    BY <2>1, FreshCalls DEF IInv, SaltInv, Running
  <2> QED
    BY <2>1, <2>2 DEF IInv, SaltInv, Running
<1>5. ASSUME NEW p \in Pages, SendCancelled(p) PROVE SaltInv'
  <2>1. pc[p] # "idle" /\ Running /\ UNCHANGED <<refused, lastEnd, salt, session>>
    BY <1>5 DEF SendCancelled, procVars, sessVars
  <2>2. ~(session = "none" /\ salt = "none")
    BY <2>1, FreshCalls DEF IInv, SaltInv, Running
  <2> QED
    BY <2>1, <2>2 DEF IInv, SaltInv, Running
<1>6. ASSUME NEW p \in Pages, BigramsRead(p) PROVE SaltInv'
  <2>1. pc[p] # "idle" /\ Running /\ UNCHANGED <<refused, lastEnd, salt, session>>
    BY <1>6 DEF BigramsRead, procVars, sessVars
  <2>2. ~(session = "none" /\ salt = "none")
    BY <2>1, FreshCalls DEF IInv, SaltInv, Running
  <2> QED
    BY <2>1, <2>2 DEF IInv, SaltInv, Running
<1>7. ASSUME NEW p \in Pages, BigramsCommit(p) PROVE SaltInv'
  <2>1. pc[p] # "idle" /\ Running /\ UNCHANGED <<refused, lastEnd, salt, session>>
    BY <1>7 DEF BigramsCommit, procVars, sessVars
  <2>2. ~(session = "none" /\ salt = "none")
    BY <2>1, FreshCalls DEF IInv, SaltInv, Running
  <2> QED
    BY <2>1, <2>2 DEF IInv, SaltInv, Running
<1>8. ASSUME NEW p \in Pages, SaveDocument(p) PROVE SaltInv'
  <2>1. pc[p] # "idle" /\ Running /\ UNCHANGED <<refused, lastEnd, salt, session>>
    BY <1>8 DEF SaveDocument, procVars, sessVars
  <2>2. ~(session = "none" /\ salt = "none")
    BY <2>1, FreshCalls DEF IInv, SaltInv, Running
  <2> QED
    BY <2>1, <2>2 DEF IInv, SaltInv, Running
<1>9. ASSUME NEW p \in Pages, IndexWord(p) PROVE SaltInv'
  <2>1. pc[p] # "idle" /\ Running /\ UNCHANGED <<refused, lastEnd, salt, session>>
    BY <1>9 DEF IndexWord, procVars, sessVars
  <2>2. ~(session = "none" /\ salt = "none")
    BY <2>1, FreshCalls DEF IInv, SaltInv, Running
  <2> QED
    BY <2>1, <2>2 DEF IInv, SaltInv, Running
<1>10. ASSUME NEW p \in Pages, CallFails(p) PROVE SaltInv'
  <2>1. pc[p] # "idle" /\ Running /\ UNCHANGED <<refused, lastEnd, salt, session>>
    BY <1>10 DEF CallFails, procVars, sessVars
  <2>2. ~(session = "none" /\ salt = "none")
    BY <2>1, FreshCalls DEF IInv, SaltInv, Running
  <2> QED
    BY <2>1, <2>2 DEF IInv, SaltInv, Running
<1>11. ASSUME NEW f \in Channels, WriteShingle(f) PROVE SaltInv'
  BY <1>11 DEF WriteShingle, SaltInv, IInv, procVars, sessVars, callVars, storeVars, Has
<1>12. ASSUME NEW f \in Channels, WriteFails(f) PROVE SaltInv'
  BY <1>12 DEF WriteFails, SaltInv, IInv, procVars, sessVars, callVars, storeVars, Has
<1>13. CASE Cancel
  BY <1>13 DEF Cancel, SaltInv, IInv, procVars, sessVars, callVars, storeVars, Has
<1>14. CASE StopClose
  BY <1>14 DEF StopClose, SaltInv, IInv, procVars, sessVars, callVars, storeVars, Has
<1>15. CASE StopWait
  BY <1>15 DEF StopWait, SaltInv, IInv, procVars, sessVars, callVars, storeVars, Has
<1>16. CASE LoseTail
  BY <1>16 DEF LoseTail, SaltInv, IInv, procVars, sessVars, callVars, storeVars, Has
<1>17. CASE StartSession
  BY <1>17 DEF StartSession, procVars, IInv, Running, SaltInv
<1>18. CASE SaveVisitedUrls
  BY <1>18 DEF SaveVisitedUrls, procVars, IInv, Running, SaltInv
<1>19. CASE WriteSalt
  BY <1>19 DEF WriteSalt, procVars, IInv, Running, SaltInv
<1>20. CASE Exit
  <2>1. /\ store' = kept /\ refused' = RefusesStart /\ session' = "none" /\ pc' = Idle
        /\ ~refused /\ lastEnd' = "exit" /\ UNCHANGED salt
    BY <1>20 DEF Exit, Restart, Running
  <2>2. ~refused' => salt # "empty" /\ (salt = "none" => \A p \in Pages : ~Has(docKey(p))')
    BY <2>1 DEF RefusesStart, Has
  <2>3. ~refused'
    <3>1. session \in {"none", "ended"}
      BY <1>20 DEF Exit
    <3>2. salt # "empty" /\ (salt = "none" => \A p \in Pages : ~Has(docKey(p)))
      BY <2>1, <3>1 DEF IInv, SaltInv
    <3>3. kept.keys \subseteq store.keys
      BY DEF IInv, StoreTypes
    <3> QED
      BY <2>1, <3>2, <3>3 DEF RefusesStart, Has
  <2> QED
    BY <2>1, <2>2, <2>3 DEF SaltInv
<1>21. CASE Crash
  <2>1. /\ store' = kept /\ refused' = RefusesStart /\ session' = "none" /\ pc' = Idle
        /\ ~refused /\ lastEnd' = "crash" /\ UNCHANGED salt
    BY <1>21 DEF Crash, Restart, Running
  <2>2. ~refused' => salt # "empty" /\ (salt = "none" => \A p \in Pages : ~Has(docKey(p))')
    BY <2>1 DEF RefusesStart, Has
  <2>3. lastEnd' = "crash"
    BY <2>1
  <2> QED
    BY <2>1, <2>2, <2>3 DEF SaltInv
<1>22. CASE UNCHANGED vars
  BY <1>22 DEF vars, procVars, sessVars, chanVars, callVars, storeVars, histVars,
     boundVars, IInv, Has, SaltInv
<1> QED
  BY <1>1, <1>2, <1>3, <1>4, <1>5, <1>6, <1>7, <1>8, <1>9, <1>10, <1>11, <1>12, <1>13,
     <1>14, <1>15, <1>16, <1>17, <1>18, <1>19, <1>20, <1>21, <1>22 DEF Next, CallStep,
     WriterStep, StopStep

-----------------------------------------------------------------------------
(* What a search finds                                                     *)

\* a prefix agrees with the sequence in every place
LEMMA PrefixPlaces ==
    ASSUME NEW S, NEW s \in Seq(S), NEW t \in Seq(S)
    PROVE  IsPrefix(s, t) <=> Len(s) <= Len(t) /\ \A ix \in 1 .. Len(s) : s[ix] = t[ix]
<1>1. Len(s) \in Nat /\ Len(t) \in Nat
  BY LenProperties
<1>2. SubSeq(s, 1, Len(s)) = s
  BY SubSeqFull
<1>3. ASSUME Len(s) <= Len(t)
      PROVE  /\ SubSeq(t, 1, Len(s)) \in Seq(S) /\ Len(SubSeq(t, 1, Len(s))) = Len(s)
             /\ \A ix \in 1 .. Len(s) : SubSeq(t, 1, Len(s))[ix] = t[ix]
  <2> DEFINE n == Len(s)
  <2>1. n \in Nat /\ 1 \in Int /\ n \in Int /\ n - 1 + 1 = n
    BY <1>1
  <2>2. \A ix \in 1 .. n : t[ix] \in S
    BY <1>1, <1>3, ElementOfSeq
  <2> HIDE DEF n
  <2>3. /\ SubSeq(t, 1, n) \in Seq(S)
        /\ Len(SubSeq(t, 1, n)) = IF 1 <= n THEN n - 1 + 1 ELSE 0
        /\ \A ix \in 1 .. n - 1 + 1 : SubSeq(t, 1, n)[ix] = t[1 + ix - 1]
    BY <2>1, <2>2, SubSeqProperties
  <2>4. /\ SubSeq(t, 1, n) \in Seq(S) /\ Len(SubSeq(t, 1, n)) = n
        /\ \A ix \in 1 .. n : SubSeq(t, 1, n)[ix] = t[ix]
    BY <2>1, <2>3
  <2> QED
    BY <2>4 DEF n
<1>4. ASSUME Len(s) <= Len(t)
      PROVE  s = SubSeq(t, 1, Len(s)) <=> \A ix \in 1 .. Len(s) : s[ix] = t[ix]
  <2>1. (\A ix \in 1 .. Len(s) : s[ix] = t[ix]) => s = SubSeq(t, 1, Len(s))
    BY <1>3, <1>4, SeqEqual
  <2> QED
    BY <1>3, <1>4, <2>1
<1> QED
  BY <1>2, <1>4 DEF IsPrefix

\* a posting's key, place by place
LEMMA RiPlaces ==
    ASSUME NEW y \in Seq(Letters), NEW q \in Pages
    PROVE  /\ riKey(y, q).str \in Seq(Letters)
           /\ Len(riKey(y, q).str) = Len(y) + 2
           /\ \A ix \in 1 .. Len(y) : riKey(y, q).str[ix] = y[ix]
           /\ riKey(y, q).str[Len(y) + 1] = "_" /\ riKey(y, q).str[Len(y) + 2] = q
           /\ riKey(y, q).kind = "ri"
<1> DEFINE b == <<"_", q>>
<1>1. b \in Seq(Letters) /\ Len(b) = 2
  <2>1. "_" \in Letters /\ q \in Letters
    BY DEF Letters
  <2> QED
    BY <2>1, PairIsSeq
<1>2. b[1] = "_" /\ b[2] = q
  OBVIOUS
<1>3. riKey(y, q).str = y \o b /\ riKey(y, q).kind = "ri"
  BY DEF riKey
<1> HIDE DEF b
<1>4. Len(y) \in Nat
  BY LenProperties
<1>5. /\ y \o b \in Seq(Letters) /\ Len(y \o b) = Len(y) + Len(b)
      /\ \A ix \in 1 .. Len(y) + Len(b) :
           (y \o b)[ix] = IF ix <= Len(y) THEN y[ix] ELSE b[ix - Len(y)]
  BY <1>1, ConcatProperties
<1>6. /\ Len(y) + Len(b) = Len(y) + 2 /\ Len(y) + 1 - Len(y) = 1 /\ Len(y) + 2 - Len(y) = 2
      /\ \A ix \in 1 .. Len(y) : (y \o b)[ix] = y[ix]
      /\ (y \o b)[Len(y) + 1] = b[1] /\ (y \o b)[Len(y) + 2] = b[2]
  BY <1>1, <1>4, <1>5
<1> QED
  BY <1>2, <1>3, <1>5, <1>6

\* the prefix of a word's postings, place by place
LEMMA WPrefixPlaces ==
    ASSUME NEW x \in Seq(Letters)
    PROVE  /\ wprefix(x) \in Seq(Letters) /\ wprefix(x) = Append(x, "_")
           /\ Len(wprefix(x)) = Len(x) + 1
           /\ \A ix \in 1 .. Len(x) : wprefix(x)[ix] = x[ix]
           /\ wprefix(x)[Len(x) + 1] = "_"
<1>1. "_" \in Letters
  BY DEF Letters
<1>2. wprefix(x) = Append(x, "_")
  BY <1>1, AppendIsConcat DEF wprefix
<1>3. Append(x, "_") \in Seq(Letters) /\ Len(Append(x, "_")) = Len(x) + 1
  BY Zenon, <1>1, AppendProperties
<1>4. \A ix \in 1 .. Len(x) : Append(x, "_")[ix] = x[ix]
  <2>1. \A e \in Letters : \A ix \in 1 .. Len(x) : Append(x, e)[ix] = x[ix]
    BY AppendProperties
  <2> QED
    BY Zenon, <1>1, <2>1
<1>5. Append(x, "_")[Len(x) + 1] = "_"
  BY Zenon, <1>1, AppendProperties
<1> QED
  BY Zenon, <1>2, <1>3, <1>4, <1>5

\* what follows the prefix in the key of a posting
LEMMA LastPart ==
    ASSUME NEW x \in Seq(Letters), NEW p \in Pages
    PROVE  SubSeq(riKey(x, p).str, Len(wprefix(x)) + 1, Len(riKey(x, p).str)) = <<p>>
<1> DEFINE t == riKey(x, p).str
           n == Len(x) + 2
<1>1. Len(x) \in Nat /\ t \in Seq(Letters) /\ Len(t) = n /\ t[n] = p
  BY RiPlaces, LenProperties
<1>2. Len(wprefix(x)) + 1 = n /\ n \in Nat /\ n - n + 1 = 1
  <2>1. Len(wprefix(x)) = Len(x) + 1
    BY Zenon, WPrefixPlaces
  <2> QED
    BY <1>1, <2>1
<1> HIDE DEF t, n
<1>3. p \in Letters
  BY DEF Letters
<1>4. n \in Int /\ \A ix \in n .. n : t[ix] \in Letters
  BY <1>1, <1>2, <1>3
<1>5. SubSeq(t, n, n) \in Seq(Letters) /\ Len(SubSeq(t, n, n)) = 1 /\ SubSeq(t, n, n)[1] = t[n]
  <2>1. /\ SubSeq(t, n, n) \in Seq(Letters)
        /\ Len(SubSeq(t, n, n)) = IF n <= n THEN n - n + 1 ELSE 0
        /\ \A ix \in 1 .. n - n + 1 : SubSeq(t, n, n)[ix] = t[n + ix - 1]
    BY <1>4, SubSeqProperties
  <2>2. n <= n /\ n + 1 - 1 = n /\ 1 \in 1 .. 1
    BY <1>2
  <2> QED
    BY <1>2, <2>1, <2>2
<1>6. SubSeq(t, n, n) = <<p>>
  <2>1. <<p>> \in Seq(Letters) /\ Len(<<p>>) = 1 /\ <<p>>[1] = p
    BY <1>3
  <2>2. \A ix \in 1 .. 1 : SubSeq(t, n, n)[ix] = <<p>>[ix]
    BY <1>1, <1>5, <2>1
  <2> QED
    BY <1>5, <2>1, <2>2, SeqEqual
<1> QED
  BY <1>1, <1>2, <1>6 DEF t

\* another stored word continues this one with the separator
Continued(x) ==
    \E p \in Pages : \E y \in WordsOf[p] :
        Has(riKey(y, p)) /\ Len(y) > Len(x) /\ IsPrefix(Append(x, "_"), y)

\* every part that a search reads is the id of a page with a posting of the word
LEMMA PartsAreIds ==
    ASSUME NEW w \in Pages, NEW x \in WordsOf[w], StoreTypes,
           ~Continued(x),
           NEW part \in KeyParts(x)
    PROVE  \E p \in Pages : part = <<p>> /\ Has(riKey(x, p))
<1>1. x \in Seq(Letters) /\ Len(x) \in Nat
  BY WordsAreSeqs, LenProperties
<1>2. PICK k \in store.keys : /\ k.kind = "ri" /\ IsPrefix(wprefix(x), k.str)
                              /\ part = SubSeq(k.str, Len(wprefix(x)) + 1, Len(k.str))
  BY DEF KeyParts
<1>3. PICK q \in Pages : \E y \in WordsOf[q] : k = riKey(y, q)
  <2>1. k \in Keys
    BY <1>2 DEF StoreTypes, Stores
  <2>2. \A q \in Pages : docKey(q).kind # "ri" /\ visitedKey(q).kind # "ri"
    BY DEF docKey, visitedKey
  <2> QED
    BY <1>2, <2>1, <2>2 DEF Keys
<1>4. PICK y \in WordsOf[q] : k = riKey(y, q)
  BY <1>3
<1>5. y \in Seq(Letters) /\ Len(y) \in Nat
  BY WordsAreSeqs, LenProperties
<1>6. /\ Len(x) + 1 <= Len(y) + 2
      /\ \A ix \in 1 .. Len(x) + 1 : wprefix(x)[ix] = riKey(y, q).str[ix]
  <2>1. wprefix(x) \in Seq(Letters) /\ Len(wprefix(x)) = Len(x) + 1
    BY <1>1, WPrefixPlaces
  <2>2. riKey(y, q).str \in Seq(Letters) /\ Len(riKey(y, q).str) = Len(y) + 2
    BY <1>5, RiPlaces
  <2> QED
    BY <1>2, <1>4, <2>1, <2>2, PrefixPlaces
<1>7. ~(Len(y) > Len(x))
  <2> SUFFICES ASSUME Len(y) > Len(x) PROVE IsPrefix(Append(x, "_"), y)
    BY <1>2, <1>4 DEF Continued, Has
  <2>1. Append(x, "_") \in Seq(Letters) /\ Len(Append(x, "_")) = Len(x) + 1
    BY <1>1, WPrefixPlaces
  <2>2. Len(x) + 1 <= Len(y) /\ \A ix \in 1 .. Len(x) + 1 : ix \in 1 .. Len(y)
    BY <1>1, <1>5
  <2>3. \A ix \in 1 .. Len(x) + 1 : Append(x, "_")[ix] = y[ix]
    <3>1. wprefix(x) = Append(x, "_")
      BY Zenon, <1>1, WPrefixPlaces
    <3>2. \A ix \in 1 .. Len(y) : riKey(y, q).str[ix] = y[ix]
      BY Zenon, <1>5, RiPlaces
    <3> QED
      BY Zenon, <1>6, <2>2, <3>1, <3>2
  <2> QED
    BY <1>5, <2>1, <2>2, <2>3, PrefixPlaces
<1>8. ~(Len(y) < Len(x))
  <2> SUFFICES ASSUME Len(y) < Len(x) PROVE FALSE
    OBVIOUS
  <2>1. Len(x) + 1 = Len(y) + 2
    BY <1>1, <1>5, <1>6
  <2>2. wprefix(x)[Len(x) + 1] = "_"
    BY <1>1, WPrefixPlaces
  <2>3. riKey(y, q).str[Len(x) + 1] = q
    <3>1. riKey(y, q).str[Len(y) + 2] = q
      BY Zenon, <1>5, RiPlaces
    <3> QED
      BY <2>1, <3>1
  <2>4. Len(x) + 1 \in 1 .. Len(x) + 1
    BY <1>1
  <2>5. q # "_"
    BY DocumentIndexAssumption DEF DocumentIndexAssumption
  <2> QED
    BY <1>6, <2>2, <2>3, <2>4, <2>5
<1>9. Len(x) = Len(y)
  BY <1>1, <1>5, <1>7, <1>8
<1>10. y = x
  <2>1. \A ix \in 1 .. Len(x) : y[ix] = riKey(y, q).str[ix]
    <3>1. \A ix \in 1 .. Len(y) : riKey(y, q).str[ix] = y[ix]
      BY Zenon, <1>5, RiPlaces
    <3> QED
      BY <1>9, <3>1
  <2>2. \A ix \in 1 .. Len(x) : wprefix(x)[ix] = x[ix] /\ ix \in 1 .. Len(x) + 1
    <3>1. \A ix \in 1 .. Len(x) : wprefix(x)[ix] = x[ix]
      BY Zenon, <1>1, WPrefixPlaces
    <3>2. \A ix \in 1 .. Len(x) : ix \in 1 .. Len(x) + 1
      BY <1>1
    <3> QED
      BY Zenon, <3>1, <3>2
  <2>3. \A ix \in 1 .. Len(x) : x[ix] = y[ix]
    BY <1>6, <2>1, <2>2
  <2> QED
    BY <1>1, <1>5, <1>9, <2>3, SeqEqual
<1>11. part = <<q>>
  BY <1>1, <1>2, <1>4, <1>10, LastPart
<1> QED
  BY <1>2, <1>4, <1>10, <1>11 DEF Has

\* A search finds exactly the pages with a posting, unless another stored word
\* continues this one with the separator.
LEMMA SearchFinds ==
    ASSUME IInv
    PROVE  SearchExact
<1> SUFFICES ASSUME NEW w \in Pages, NEW x \in WordsOf[w],
                    ~Continued(x)
             PROVE  Search(x) = {p \in Pages : Has(riKey(x, p))}
  BY DEF SearchExact, Continued
<1> DEFINE hit == {p \in Pages : Has(riKey(x, p))}
<1>1. x \in Seq(Letters) /\ Len(x) \in Nat
  BY WordsAreSeqs, LenProperties
<1>2. \A part \in KeyParts(x) : \E p \in Pages : part = <<p>> /\ Has(riKey(x, p))
  BY PartsAreIds DEF IInv
<1>3. ASSUME NEW p \in hit PROVE <<p>> \in KeyParts(x)
  <2>1. IsPrefix(wprefix(x), riKey(x, p).str)
    <3>1. wprefix(x) \in Seq(Letters) /\ riKey(x, p).str \in Seq(Letters)
      BY <1>1, RiPlaces, WPrefixPlaces
    <3>2. Len(wprefix(x)) = Len(x) + 1 /\ Len(riKey(x, p).str) = Len(x) + 2
      BY <1>1, RiPlaces, WPrefixPlaces
    <3>3. \A ix \in 1 .. Len(x) : wprefix(x)[ix] = riKey(x, p).str[ix]
      <4>1. \A ix \in 1 .. Len(x) : wprefix(x)[ix] = x[ix]
        BY Zenon, <1>1, WPrefixPlaces
      <4>2. \A ix \in 1 .. Len(x) : riKey(x, p).str[ix] = x[ix]
        BY Zenon, <1>1, RiPlaces
      <4> QED
        BY Zenon, <4>1, <4>2
    <3>4. wprefix(x)[Len(x) + 1] = riKey(x, p).str[Len(x) + 1]
      BY <1>1, RiPlaces, WPrefixPlaces
    <3>5. \A ix \in 1 .. Len(x) + 1 : ix \in 1 .. Len(x) \/ ix = Len(x) + 1
      BY <1>1
    <3> QED
      BY <1>1, <3>1, <3>2, <3>3, <3>4, <3>5, PrefixPlaces
  <2>2. riKey(x, p).kind = "ri" /\ riKey(x, p) \in store.keys
    BY <1>1, RiPlaces DEF Has
  <2> QED
    BY <1>1, <2>1, <2>2, LastPart DEF KeyParts
<1>4. \A part \in KeyParts(x) : Len(part) = 1 /\ part[1] \in hit /\ part[1] \in Pages
  BY <1>2
<1>5. ~DecodeFails(x)
  BY <1>4 DEF DecodeFails
<1>6. GetDocumentsByWord(x) = hit
  <2>1. {part[1] : part \in KeyParts(x)} = hit
    <3>1. \A p \in hit : \E part \in KeyParts(x) : p = part[1]
      BY <1>3
    <3> HIDE DEF hit
    <3> QED
      BY <1>4, <3>1
  <2> QED
    BY <1>5, <2>1 DEF GetDocumentsByWord
<1>7. hit # Failed
  BY DocumentIndexAssumption DEF DocumentIndexAssumption, Failed
<1>8. ASSUME NEW p \in hit PROVE Has(docKey(p))
  <2>1. PICK q \in Pages : \E y \in WordsOf[q] : riKey(x, p) = riKey(y, q)
    <3>1. riKey(x, p) \in Keys
      BY DEF IInv, StoreTypes, Stores, Has
    <3>2. \A q \in Pages : docKey(q) # riKey(x, p) /\ visitedKey(q) # riKey(x, p)
      BY KeysDiffer
    <3> QED
      BY <3>1, <3>2 DEF Keys
  <2>2. x \in WordsOf[p]
    BY <1>1, <2>1, WordsAreSeqs, RiKeyInjective
  <2> QED
    BY <2>2 DEF IInv, PostingsHaveDocs, Has
<1> QED
  BY <1>6, <1>7, <1>8 DEF Search

-----------------------------------------------------------------------------
(* The theorems                                                            *)

\* the invariant holds at the start
LEMMA InitIInv ==
    ASSUME Init
    PROVE  IInv
<1>1. /\ EmptyStore \in Stores /\ EmptyStore.keys = {} /\ EmptyStore.bigram = 0
      /\ EmptyStore.updates = 0
  BY DEF EmptyStore, Stores
<1>2. ProcTypes /\ StoreTypes /\ BigramsExact /\ PostingsHaveDocs
  BY <1>1 DEF Init, ProcTypes, StoreTypes, BigramsExact, PostingsHaveDocs
<1>3. CallTypes /\ CallInv
  BY FreshCalls DEF Init, CallTypes, CallInv
<1>4. ChanTypes /\ StopInv
  <2>1. WorkersCount \in Nat
    BY Zenon, DocumentIndexAssumption DEF DocumentIndexAssumption
  <2>2. closed = FALSE /\ stopped = FALSE /\ queue = NoEntries /\ writer = AllRun /\ cut = {}
    BY DEF Init
  <2>3. \A f \in Channels : Len(queue[f]) <= WorkersCount
    BY <2>1, <2>2, FreshChannels
  <2> QED
    BY <2>2, <2>3, FreshChannels DEF ChanTypes, StopInv
<1>5. OwnersInv
  BY NothingQueued DEF Init, OwnersInv
<1>6. WrittenInv
  BY <1>1, FreshCalls DEF Init, WrittenInv, Sent, Has
<1>7. SaltInv
  BY <1>1 DEF Init, SaltInv, Has
<1> QED
  BY <1>2, <1>3, <1>4, <1>5, <1>6, <1>7 DEF IInv

\* The inductive invariant: what the calls have done at their labels, where each
\* signature is, what is kept of the store, and salt.bin against the session.
THEOREM Invariance == Spec => []IInv
<1>1. Init => IInv
  BY InitIInv
<1>2. IInv /\ [Next]_vars => IInv'
  <2> SUFFICES ASSUME IInv, [Next]_vars PROVE IInv'
    OBVIOUS
  <2>1. ProcTypes' /\ ChanTypes' /\ CallTypes' /\ StoreTypes' /\ CallInv'
    BY ProcTypesStep, ChanTypesStep, CallTypesStep, StoreTypesStep, CallInvStep
  <2>2. PostingsHaveDocs' /\ BigramsExact'
    BY PostingsHaveDocsStep, BigramsExactStep
  <2>3. OwnersInv' /\ WrittenInv' /\ StopInv' /\ SaltInv'
    BY OwnersInvStep, WrittenInvStep, StopInvStep, SaltInvStep
  <2> QED
    BY <2>1, <2>2, <2>3 DEF IInv
<1> QED
  BY <1>1, <1>2, PTL DEF Spec

\* The types hold: channels stay within their capacity, ir.mu is held exactly
\* inside UpdateBiFreq, and the store is what is kept while no tail is lost.
THEOREM TypeCorrect == Spec => []TypeOK
<1>1. IInv => TypeOK
  <2> SUFFICES ASSUME IInv PROVE TypeOK
    OBVIOUS
  <2>1. \A p \in Pages : mu = p <=> pc[p] = "commit"
    BY DEF IInv, CallInv
  <2>2. mu = Free \/ mu \in Pages
    BY DEF IInv, CallTypes
  <2>3. \A p \in Pages : /\ pc[p] \in {"idle", "look", "send", "bigrams", "commit", "save", "words"}
                         /\ sent[p] \in Nat /\ freq[p] \in Nat
    BY DEF IInv, CallTypes, Labels
  <2>4. \A f \in Channels : Len(queue[f]) <= WorkersCount /\ writer[f] \in {"run", "dead"}
    BY DEF IInv, ChanTypes
  <2>5. /\ {cancelled, panicked, refused, stopped} \subseteq BOOLEAN
        /\ closed \in BOOLEAN /\ (closed => cancelled)
    BY DEF IInv, ProcTypes, ChanTypes
  <2>6. /\ lastEnd \in {"exit", "crash"}
        /\ session \in {"none", "live", "salt", "ended"}
        /\ salt \in {"none", "empty", "saved"} /\ visited \subseteq Pages
    BY DEF IInv, ProcTypes
  <2>7. /\ kept.keys \subseteq store.keys /\ (~losing => kept = store)
        /\ halfway \subseteq Pages /\ cut \subseteq Pages
    BY DEF IInv, StoreTypes, CallTypes, ChanTypes
  <2> QED
    BY <2>1, <2>2, <2>3, <2>4, <2>5, <2>6, <2>7 DEF TypeOK
<1> QED
  BY <1>1, Invariance, PTL

\* Every posting leads to a document, in what the process reads and in what a
\* process after it would find.
THEOREM PostingsLead == Spec => []PostingsHaveDocs
<1>1. IInv => PostingsHaveDocs
  BY DEF IInv
<1> QED
  BY <1>1, Invariance, PTL

\* A search finds exactly the pages with a posting of the word, whatever the
\* words are, unless a stored word continues it with the separator.
THEOREM SearchIsExact == Spec => []SearchExact
<1>1. IInv => SearchExact
  BY SearchFinds
<1> QED
  BY <1>1, Invariance, PTL

\* A signature in a file or a channel belongs to a page that is indexed, being
\* indexed, or was left between its two writes.
THEOREM SignaturesBelong == Spec => []SignaturesHaveDocs
<1>1. IInv => SignaturesHaveDocs
  <2> SUFFICES ASSUME IInv PROVE SignaturesHaveDocs
    OBVIOUS
  <2>1. \A p \in Pages : Known(p) => Has(docKey(p)) \/ pc[p] # "idle" \/ p \in halfway
    BY DEF Known, IInv, CallInv
  <2> QED
    BY <2>1 DEF IInv, OwnersInv, SignaturesHaveDocs
<1> QED
  BY <1>1, Invariance, PTL

\* All chunks of the signature of an indexed page are in the files or on the way
\* to them, through full channels, failed writers and an orderly shutdown.
THEOREM SignaturesFound == Spec => []SignaturesComplete
<1>1. IInv => SignaturesComplete
  BY DEF IInv, WrittenInv, Sent, SignaturesComplete
<1> QED
  BY <1>1, Invariance, PTL

\* No update of the bigram is lost, by workers that interleave or by a process
\* that ends.
THEOREM CounterExact == Spec => []BigramsExact
<1>1. IInv => BigramsExact
  BY DEF IInv
<1> QED
  BY <1>1, Invariance, PTL

\* NewIndexer refuses to start only after a crash.
THEOREM CleanRestart == Spec => []OrderlyExitRestarts
<1>1. IInv => OrderlyExitRestarts
  BY DEF IInv, SaltInv, OrderlyExitRestarts
<1> QED
  BY <1>1, Invariance, PTL

-----------------------------------------------------------------------------
(* Queries: HandleTextQuery and the algorithms behind a search, as         *)
(* TextQuery has them, for any constants that its assumptions allow        *)

IsWord(t) == t.type = "WORD"

Tokens == {Number} \cup {Word(w) : w \in QueryWords}

\* how many of the tokens from..to are words
WordsIn(ts, from, to) == Cardinality({m \in from .. to : IsWord(ts[m])})

\* The words from pos on begin with the originals of the word tokens from token from on.
Aligned(ts, ws, from, pos) ==
    \A j \in from .. Len(ts) :
        IsWord(ts[j]) => /\ pos + WordsIn(ts, from, j - 1) \in 1 .. Len(ws)
                         /\ ws[pos + WordsIn(ts, from, j - 1)] = ts[j].orig

\* Counting words, from either end.
LEMMA WordsCount ==
    ASSUME NEW ts, NEW from \in Int, NEW to \in Int
    PROVE  /\ WordsIn(ts, from, to) \in Nat
           /\ to < from => WordsIn(ts, from, to) = 0
           /\ from <= to => WordsIn(ts, from, to) =
                  IF IsWord(ts[from]) THEN WordsIn(ts, from + 1, to) + 1
                                      ELSE WordsIn(ts, from + 1, to)
           /\ from <= to => WordsIn(ts, from, to) =
                  IF IsWord(ts[to]) THEN WordsIn(ts, from, to - 1) + 1
                                    ELSE WordsIn(ts, from, to - 1)
<1> DEFINE W(a, b) == {m \in a .. b : IsWord(ts[m])}
<1>1. ASSUME NEW a \in Int, NEW b \in Int PROVE IsFiniteSet(W(a, b))
  <2>1. IsFiniteSet(a .. b) /\ W(a, b) \subseteq a .. b
    BY FS_Interval
  <2> QED
    BY <2>1, FS_Subset
<1>2. WordsIn(ts, from, to) \in Nat
  BY <1>1, FS_CardinalityType DEF WordsIn
<1>3. ASSUME to < from PROVE WordsIn(ts, from, to) = 0
  <2>1. W(from, to) = {}
    BY <1>3
  <2> QED
    BY <2>1, FS_EmptySet DEF WordsIn
<1>4. ASSUME from <= to
      PROVE  WordsIn(ts, from, to) = IF IsWord(ts[from]) THEN WordsIn(ts, from + 1, to) + 1
                                                         ELSE WordsIn(ts, from + 1, to)
  <2>1. W(from, to) = IF IsWord(ts[from]) THEN W(from + 1, to) \cup {from} ELSE W(from + 1, to)
    BY <1>4
  <2>2. from \notin W(from + 1, to) /\ IsFiniteSet(W(from + 1, to))
    BY <1>1
  <2> HIDE DEF W
  <2>3. Cardinality(W(from, to)) = IF IsWord(ts[from]) THEN Cardinality(W(from + 1, to)) + 1
                                                       ELSE Cardinality(W(from + 1, to))
    BY <2>1, <2>2, FS_AddElement
  <2> QED
    BY <2>3 DEF WordsIn, W
<1>5. ASSUME from <= to
      PROVE  WordsIn(ts, from, to) = IF IsWord(ts[to]) THEN WordsIn(ts, from, to - 1) + 1
                                                       ELSE WordsIn(ts, from, to - 1)
  <2>1. W(from, to) = IF IsWord(ts[to]) THEN W(from, to - 1) \cup {to} ELSE W(from, to - 1)
    BY <1>5
  <2>2. to \notin W(from, to - 1) /\ IsFiniteSet(W(from, to - 1))
    BY <1>1
  <2> HIDE DEF W
  <2>3. Cardinality(W(from, to)) = IF IsWord(ts[to]) THEN Cardinality(W(from, to - 1)) + 1
                                                     ELSE Cardinality(W(from, to - 1))
    BY <2>1, <2>2, FS_AddElement
  <2> QED
    BY <2>3 DEF WordsIn, W
<1> QED
  BY <1>2, <1>3, <1>4, <1>5

\* the tokens collected up to each place
IsCollected(ts, c) ==
    c = [k \in 0 .. Len(ts) |->
            IF k = 0 THEN <<>>
            ELSE IF ts[k].type = "WORD" THEN Append(c[k - 1], ts[k].orig)
            ELSE c[k - 1]]

Collected(ts) == CHOOSE c : IsCollected(ts, c)

\* what is to be known of them
Collects(ts) ==
    LET c == Collected(ts)
    IN  /\ c \in [0 .. Len(ts) -> Seq(QueryWords)]
        /\ c[0] = <<>>
        /\ \A k \in 1 .. Len(ts) :
              c[k] = IF IsWord(ts[k]) THEN Append(c[k - 1], ts[k].orig) ELSE c[k - 1]
        /\ Originals(ts) = c[Len(ts)]

\* The tokens of a query.
LEMMA TokenIs ==
    ASSUME NEW t \in Tokens
    PROVE  IsWord(t) => t.orig \in QueryWords
BY DEF Tokens, IsWord, Number, Word

\* The loop over the tokens runs.
LEMMA CollectRuns ==
    ASSUME NEW ts \in Seq(Tokens)
    PROVE  Collects(ts)
<1> DEFINE n == Len(ts)
           X == Seq(QueryWords)
           next(k) == [s \in X |-> IF IsWord(ts[k]) THEN Append(s, ts[k].orig) ELSE s]
           step == [k \in 1 .. n |-> next(k)]
<1>1. n \in Nat /\ <<>> \in X /\ \A k \in 1 .. n : ts[k] \in Tokens
  OBVIOUS
<1>2. ASSUME NEW k \in 1 .. n PROVE next(k) \in [X -> X]
  <2>1. IsWord(ts[k]) => ts[k].orig \in QueryWords
    BY <1>1, TokenIs
  <2> QED
    BY <2>1
<1>3. step \in [1 .. n -> [X -> X]]
  BY <1>2
<1>4. PICK c : c \in Results(X, n, <<>>, step)
  <2> HIDE DEF X, step, n
  <2> QED
    BY <1>1, <1>3, Iterates, SMTT(30)
<1>5. /\ c \in [0 .. n -> X] /\ c[0] = <<>>
      /\ \A k \in 1 .. n : c[k] = step[k][c[k - 1]]
  BY <1>4 DEF Results
<1>6. \A k \in 1 .. n : c[k] = IF IsWord(ts[k]) THEN Append(c[k - 1], ts[k].orig) ELSE c[k - 1]
  <2> TAKE k \in 1 .. n
  <2>1. k - 1 \in 0 .. n
    BY <1>1
  <2>2. c[k - 1] \in X
    BY <1>5, <2>1
  <2> QED
    BY <1>5, <2>2
<1>7. IsCollected(ts, c)
  <2> DEFINE d == [k \in 0 .. n |-> IF k = 0 THEN <<>>
                                   ELSE IF ts[k].type = "WORD" THEN Append(c[k - 1], ts[k].orig)
                                   ELSE c[k - 1]]
  <2>1. ASSUME NEW k \in 0 .. n PROVE c[k] = d[k]
    <3>1. CASE k = 0
      BY <1>5, <3>1
    <3>2. CASE k # 0
      <4>1. k \in 1 .. n
        BY <1>1, <3>2
      <4> QED
        BY <1>6, <3>2, <4>1 DEF IsWord
    <3> QED
      BY <3>1, <3>2
  <2>2. c = d
    BY <1>5, <2>1
  <2> QED
    BY <2>2 DEF IsCollected
<1>8. IsCollected(ts, Collected(ts))
  BY <1>7 DEF Collected
<1>9. Collected(ts) = c
  <2> DEFINE d == Collected(ts)
             Good == {k \in 0 .. n : d[k] = c[k]}
             count == [k \in 0 .. n |-> k]
  <2>1. d = [k \in 0 .. n |->
               IF k = 0 THEN <<>>
               ELSE IF ts[k].type = "WORD" THEN Append(d[k - 1], ts[k].orig)
               ELSE d[k - 1]]
    BY <1>8 DEF IsCollected
  <2> HIDE DEF d
  <2>2. count[0] \in Good
    BY <1>1, <1>5, <2>1
  <2>3. ASSUME NEW k \in 1 .. n, count[k - 1] \in Good PROVE count[k] \in Good
    <3>1. k - 1 \in 0 .. n /\ k \in 0 .. n /\ k # 0
      BY <1>1
    <3>2. d[k - 1] = c[k - 1]
      BY <2>3, <3>1
    <3>3. d[k] = IF IsWord(ts[k]) THEN Append(d[k - 1], ts[k].orig) ELSE d[k - 1]
      BY <2>1, <3>1 DEF IsWord
    <3>4. d[k] = c[k]
      BY <1>6, <3>2, <3>3
    <3> QED
      BY <3>1, <3>4
  <2>4. \A k \in 0 .. n : count[k] \in Good
    <3> HIDE DEF count, Good, n
    <3> QED
      BY <1>1, <2>2, <2>3, AllAlong
  <2>5. \A k \in 0 .. n : d[k] = c[k]
    BY <2>4
  <2> QED
    BY <1>5, <2>1, <2>5 DEF d
<1>10. Originals(ts) = c[n]
  BY <1>9 DEF Originals, Collected, IsCollected
<1> QED
  BY <1>5, <1>6, <1>9, <1>10 DEF Collects

\* The words that are collected from a query are those of its word tokens, in their order.
LEMMA OriginalsAligned ==
    ASSUME NEW ts \in Seq(Tokens)
    PROVE  /\ Originals(ts) \in Seq(QueryWords)
           /\ Aligned(ts, Originals(ts), 1, 1)
<1> DEFINE n == Len(ts)
           c == Collected(ts)
           Right(k) == /\ Len(c[k]) = WordsIn(ts, 1, k)
                       /\ \A j \in 1 .. k :
                             IsWord(ts[j]) => /\ 1 + WordsIn(ts, 1, j - 1) \in 1 .. Len(c[k])
                                              /\ c[k][1 + WordsIn(ts, 1, j - 1)] = ts[j].orig
           Good == {k \in 0 .. n : Right(k)}
           count == [k \in 0 .. n |-> k]
<1>1. /\ n \in Nat
      /\ \A k \in 0 .. n : c[k] \in Seq(QueryWords)
      /\ c[0] = <<>>
      /\ \A k \in 1 .. n : c[k] = IF IsWord(ts[k]) THEN Append(c[k - 1], ts[k].orig) ELSE c[k - 1]
      /\ Originals(ts) = c[n]
  BY CollectRuns DEF Collects
<1> HIDE DEF c
<1>2. count[0] \in Good
  <2>1. WordsIn(ts, 1, 0) = 0
    BY WordsCount
  <2> QED
    BY <1>1, <2>1
<1>3. ASSUME NEW k \in 1 .. n, count[k - 1] \in Good PROVE count[k] \in Good
  <2>1. k - 1 \in 0 .. n /\ k \in 0 .. n /\ k \in Nat /\ ts[k] \in Tokens
    BY <1>1
  <2>2. Right(k - 1)
    BY <1>3, <2>1
  <2>3. c[k - 1] \in Seq(QueryWords) /\ Len(c[k - 1]) \in Nat
    BY <1>1, <2>1
  <2>4. WordsIn(ts, 1, k) = IF IsWord(ts[k]) THEN WordsIn(ts, 1, k - 1) + 1 ELSE WordsIn(ts, 1, k - 1)
    BY <2>1, WordsCount
  <2>5. CASE ~IsWord(ts[k])
    <3>1. c[k] = c[k - 1]
      BY <1>1, <2>5
    <3>2. \A j \in 1 .. k : IsWord(ts[j]) => j \in 1 .. k - 1
      BY <2>1, <2>5
    <3>3. Right(k)
      BY <2>2, <2>4, <2>5, <3>1, <3>2
    <3> QED
      BY <2>1, <3>3
  <2>6. CASE IsWord(ts[k])
    <3> DEFINE s == c[k - 1]
               x == ts[k].orig
               l == Len(s)
    <3>1. c[k] = Append(s, x) /\ x \in QueryWords
      BY <1>1, <2>1, <2>6, TokenIs
    <3>2. /\ Len(c[k]) = l + 1 /\ c[k][l + 1] = x
          /\ \A m \in 1 .. l : c[k][m] = s[m]
      BY <2>3, <3>1, AppendProperties
    <3>3. l = WordsIn(ts, 1, k - 1) /\ l \in Nat
      BY <2>2, <2>3
    <3>4. ASSUME NEW j \in 1 .. k, IsWord(ts[j])
          PROVE  /\ 1 + WordsIn(ts, 1, j - 1) \in 1 .. Len(c[k])
                 /\ c[k][1 + WordsIn(ts, 1, j - 1)] = ts[j].orig
      <4>1. CASE j = k
        BY <3>2, <3>3, <4>1
      <4>2. CASE j # k
        <5>1. j \in 1 .. k - 1
          BY <2>1, <4>2
        <5>2. 1 + WordsIn(ts, 1, j - 1) \in 1 .. l /\ s[1 + WordsIn(ts, 1, j - 1)] = ts[j].orig
          BY <2>2, <3>4, <5>1
        <5> QED
          BY <3>2, <3>3, <5>2
      <4> QED
        BY <4>1, <4>2
    <3>5. Right(k)
      BY <2>4, <2>6, <3>2, <3>3, <3>4
    <3> QED
      BY <2>1, <3>5
  <2> QED
    BY <2>5, <2>6
<1>4. \A k \in 0 .. n : count[k] \in Good
  <2> HIDE DEF count, Good, n
  <2> QED
    BY <1>1, <1>2, <1>3, AllAlong
<1>5. Right(n) /\ n \in 0 .. n
  BY <1>1, <1>4
<1> QED
  BY <1>1, <1>5 DEF Aligned

\* What HandleTextQuery keeps while it goes through the tokens.
QueryInv ==
    /\ stemmed \in Seq(Tokens)
    /\ i \in 1 .. Len(stemmed) + 1
    /\ wordPos \in Nat \ {0}
    /\ words \in Seq(Range(words))
    /\ found \in Seq(Range(found))
    /\ lenWords = Len(words)
    /\ Len(found) = i - 1
    /\ Aligned(stemmed, words, i, wordPos)

\* Sequences are sequences of their own elements.
LEMMA OwnElements ==
    ASSUME NEW S, NEW s \in Seq(S)
    PROVE  s \in Seq(Range(s))
<1>1. DOMAIN s = 1 .. Len(s) /\ Len(s) \in Nat /\ s = [k \in 1 .. Len(s) |-> s[k]]
  OBVIOUS
<1>2. \A k \in 1 .. Len(s) : s[k] \in Range(s)
  BY <1>1 DEF Range
<1>3. s \in [1 .. Len(s) -> Range(s)]
  BY <1>1, <1>2
<1> QED
  BY <1>1, <1>3

\* The words that replace one: a candidate, two, or the word itself.
LEMMA ReplacementIs ==
    ASSUME NEW w, NEW cs, NEW sc, NEW by, by = BestReplacement(w, cs, sc, maxTypo)
    PROVE  by \in Seq(Range(by)) /\ Len(by) \in {1, 2}
<1>1. (\E x : by = <<x>>) \/ (\E x, y : by = <<x, y>>)
  BY Zenon DEF BestReplacement
<1>2. ASSUME NEW x, by = <<x>> PROVE by \in Seq({x}) /\ Len(by) = 1
  BY <1>2
<1>3. ASSUME NEW x, NEW y, by = <<x, y>> PROVE by \in Seq({x, y}) /\ Len(by) = 2
  BY <1>3
<1> QED
  BY <1>1, <1>2, <1>3, OwnElements, Zenon

\* the words with those at p replaced by others
Replaced(ws, p, by) == SubSeq(ws, 1, p - 1) \o by \o SubSeq(ws, p + 1, Len(ws))

\* What stands behind them moves by the difference.
LEMMA ReplacedAt ==
    ASSUME NEW S, NEW ws \in Seq(S), NEW by \in Seq(S), NEW p \in 1 .. Len(ws)
    PROVE  /\ Replaced(ws, p, by) \in Seq(S)
           /\ Len(Replaced(ws, p, by)) = Len(ws) + Len(by) - 1
           /\ \A m \in p + 1 .. Len(ws) : Replaced(ws, p, by)[m + Len(by) - 1] = ws[m]
<1> DEFINE a == SubSeq(ws, 1, p - 1)
           z == SubSeq(ws, p + 1, Len(ws))
           n == Len(ws)
           l == Len(by)
<1>1. n \in Nat /\ l \in Nat /\ p \in Nat \ {0} /\ p <= n
  OBVIOUS
<1>2. a \in Seq(S) /\ Len(a) = p - 1
  <2>1. \A k \in 1 .. p - 1 : k \in 1 .. Len(ws)
    BY <1>1
  <2>2. a \in Seq(S) /\ Len(a) = IF 1 <= p - 1 THEN p - 1 - 1 + 1 ELSE 0
    BY <1>1, <2>1, SubSeqProperties
  <2> HIDE DEF a
  <2> QED
    BY <1>1, <2>2
<1>3. z \in Seq(S) /\ Len(z) = n - p /\ \A k \in 1 .. n - p : z[k] = ws[p + k]
  <2>1. \A k \in p + 1 .. n : k \in 1 .. Len(ws)
    BY <1>1
  <2>2. /\ z \in Seq(S) /\ Len(z) = IF p + 1 <= n THEN n - (p + 1) + 1 ELSE 0
        /\ \A k \in 1 .. n - (p + 1) + 1 : z[k] = ws[p + 1 + k - 1]
    BY <1>1, <2>1, SubSeqProperties
  <2> HIDE DEF z, n
  <2>3. Len(z) = n - p
    BY <1>1, <2>2
  <2>4. ASSUME NEW k \in 1 .. n - p PROVE z[k] = ws[p + k]
    <3>1. k \in 1 .. n - (p + 1) + 1 /\ p + 1 + k - 1 = p + k
      BY <1>1
    <3> QED
      BY <2>2, <3>1
  <2> QED
    BY <2>2, <2>3, <2>4
<1>4. Replaced(ws, p, by) = (a \o by) \o z
  BY DEF Replaced
<1> HIDE DEF a, z
<1> DEFINE b == a \o by
<1>5. b \in Seq(S) /\ Len(b) = p - 1 + l
  BY <1>2, ConcatProperties
<1> HIDE DEF b
<1> DEFINE r == b \o z
<1>6. r \in Seq(S) /\ Len(r) = Len(b) + Len(z)
      /\ \A k \in 1 .. Len(b) + Len(z) : r[k] = IF k <= Len(b) THEN b[k] ELSE z[k - Len(b)]
  <2>1. b \in Seq(S) /\ z \in Seq(S)
    BY <1>3, <1>5
  <2> QED
    BY <2>1, ConcatProperties
<1> HIDE DEF r, n, l
<1>7. r \in Seq(S) /\ Len(r) = n + l - 1
  BY <1>1, <1>3, <1>5, <1>6
<1>8. ASSUME NEW m \in p + 1 .. n PROVE r[m + l - 1] = ws[m]
  <2> DEFINE k == m + l - 1
  <2>1. k \in 1 .. Len(b) + Len(z) /\ ~(k <= Len(b)) /\ k - Len(b) = m - p /\ m - p \in 1 .. n - p
        /\ p + (m - p) = m
    <3>1. m \in Nat /\ p + 1 <= m /\ m <= n /\ p \in Nat /\ n \in Nat /\ l \in Nat
      BY <1>1
    <3> DEFINE x == Len(b)
               y == Len(z)
    <3>2. x = p - 1 + l /\ y = n - p
      BY <1>3, <1>5
    <3> HIDE DEF x, y
    <3>3. k \in 1 .. x + y /\ ~(k <= x)
      BY <3>1, <3>2
    <3>4. k - x = m - p /\ m - p \in 1 .. n - p /\ p + (m - p) = m
      BY <3>1, <3>2
    <3> QED
      BY <3>3, <3>4 DEF x, y
  <2>2. r[k] = z[m - p]
    BY <1>6, <2>1
  <2> QED
    BY <1>3, <2>1, <2>2
<1> QED
  BY <1>4, <1>7, <1>8 DEF r, b, n, l

\* The first token and its word stand opposite each other.
LEMMA AlignedHere ==
    ASSUME NEW ts, NEW ws, NEW from \in Nat \ {0}, NEW pos \in Nat \ {0}, Aligned(ts, ws, from, pos),
           from \in 1 .. Len(ts), IsWord(ts[from])
    PROVE  pos \in 1 .. Len(ws) /\ ws[pos] = ts[from].orig
<1>1. WordsIn(ts, from, from - 1) = 0
  BY WordsCount
<1>2. from \in from .. Len(ts) /\ pos + 0 = pos
  OBVIOUS
<1> QED
  BY <1>1, <1>2 DEF Aligned

\* The next token, past a token that is not a word.
LEMMA AlignedPast ==
    ASSUME NEW ts, NEW ws, NEW from \in Nat \ {0}, NEW pos \in Nat \ {0}, Aligned(ts, ws, from, pos),
           Len(ts) \in Nat, from \in 1 .. Len(ts), ~IsWord(ts[from])
    PROVE  Aligned(ts, ws, from + 1, pos)
<1> SUFFICES ASSUME NEW j \in from + 1 .. Len(ts), IsWord(ts[j])
             PROVE  /\ pos + WordsIn(ts, from + 1, j - 1) \in 1 .. Len(ws)
                    /\ ws[pos + WordsIn(ts, from + 1, j - 1)] = ts[j].orig
  BY DEF Aligned
<1>1. j \in from .. Len(ts) /\ from <= j - 1 /\ j - 1 \in Int
  OBVIOUS
<1>2. WordsIn(ts, from, j - 1) = WordsIn(ts, from + 1, j - 1)
  BY <1>1, WordsCount
<1> QED
  BY <1>1, <1>2 DEF Aligned

\* The next token, past a word for which l words stand now.
LEMMA AlignedAfter ==
    ASSUME NEW ts, NEW ws, NEW from \in Nat \ {0}, NEW pos \in Nat \ {0}, Aligned(ts, ws, from, pos),
           Len(ts) \in Nat, Len(ws) \in Nat, from \in 1 .. Len(ts), IsWord(ts[from]),
           NEW new, NEW l \in Nat \ {0}, Len(new) = Len(ws) + l - 1,
           \A m \in pos + 1 .. Len(ws) : new[m + l - 1] = ws[m]
    PROVE  Aligned(ts, new, from + 1, pos + l)
<1> SUFFICES ASSUME NEW j \in from + 1 .. Len(ts), IsWord(ts[j])
             PROVE  /\ pos + l + WordsIn(ts, from + 1, j - 1) \in 1 .. Len(new)
                    /\ new[pos + l + WordsIn(ts, from + 1, j - 1)] = ts[j].orig
  BY DEF Aligned
<1> DEFINE c == WordsIn(ts, from + 1, j - 1)
           m == pos + 1 + c
<1>1. j \in from .. Len(ts) /\ from <= j - 1 /\ j - 1 \in Int
  OBVIOUS
<1>2. WordsIn(ts, from, j - 1) = c + 1 /\ c \in Nat
  BY <1>1, WordsCount
<1>3. pos + (c + 1) \in 1 .. Len(ws) /\ ws[pos + (c + 1)] = ts[j].orig
  BY <1>1, <1>2 DEF Aligned
<1> DEFINE n == Len(ws)
<1> HIDE DEF c, n
<1>4. m \in pos + 1 .. n /\ m = pos + (c + 1) /\ m + l - 1 = pos + l + c
      /\ pos + l + c \in 1 .. n + l - 1
  <2>1. n \in Nat /\ pos + (c + 1) <= n
    BY <1>2, <1>3 DEF n
  <2>2. c \in Nat /\ pos \in Nat /\ l \in Nat /\ pos >= 1 /\ l >= 1
    BY <1>2
  <2> QED
    BY <2>1, <2>2
<1>5. new[m + l - 1] = ws[m]
  BY <1>4 DEF n
<1> HIDE DEF m
<1> QED
  BY <1>3, <1>4, <1>5 DEF c, n

\* A query is taken up.
LEMMA AskKeeps ==
    ASSUME QueryInv, Ask
    PROVE  QueryInv'
<1>1. PICK n \in 1 .. MaxTokens : \E ts \in [1 .. n -> Tokens] :
         /\ stemmed' = ts /\ words' = Originals(ts) /\ lenWords' = Len(Originals(ts))
  BY DEF Ask, Tokens
<1>2. PICK ts \in [1 .. n -> Tokens] :
         /\ stemmed' = ts /\ words' = Originals(ts) /\ lenWords' = Len(Originals(ts))
  BY <1>1
<1>3. i' = 1 /\ wordPos' = 1 /\ found' = <<>>
  BY DEF Ask
<1>4. n \in Nat
  BY QueryAssumption
<1>5. ts \in Seq(Tokens) /\ Len(ts) \in Nat
  BY <1>4
<1> DEFINE ws == Originals(ts)
<1>6. ws \in Seq(Range(ws)) /\ Aligned(ts, ws, 1, 1)
  BY <1>5, OriginalsAligned, OwnElements
<1> HIDE DEF ws
<1>7. stemmed' \in Seq(Tokens) /\ i' \in 1 .. Len(stemmed') + 1 /\ wordPos' \in Nat \ {0}
  BY <1>2, <1>3, <1>5
<1>8. words' \in Seq(Range(words')) /\ lenWords' = Len(words')
  BY <1>2, <1>6 DEF ws
<1>9. found' \in Seq(Range(found')) /\ Len(found') = i' - 1
  BY <1>3
<1>10. Aligned(stemmed', words', i', wordPos')
  BY <1>2, <1>3, <1>6 DEF ws
<1> QED
  BY <1>7, <1>8, <1>9, <1>10 DEF QueryInv, Range, Aligned, WordsIn, IsWord

\* What the invariant says of the token at hand.
LEMMA TokenAtHand ==
    ASSUME QueryInv, HasToken
    PROVE  /\ i \in Nat \ {0} /\ i \in 1 .. Len(stemmed) /\ Len(stemmed) \in Nat
           /\ Len(words) \in Nat /\ stemmed[i] \in Tokens
           /\ IsWord(stemmed[i]) => /\ wordPos \in 1 .. Len(words)
                                         /\ words[wordPos] = stemmed[i].orig
                                         /\ stemmed[i].orig \in QueryWords
<1>1. stemmed \in Seq(Tokens) /\ i \in 1 .. Len(stemmed) + 1 /\ i <= Len(stemmed)
      /\ words \in Seq(Range(words)) /\ wordPos \in Nat \ {0}
      /\ Aligned(stemmed, words, i, wordPos)
  BY DEF QueryInv, HasToken
<1>2. i \in Nat \ {0} /\ i \in 1 .. Len(stemmed) /\ Len(stemmed) \in Nat
  BY <1>1
<1>3. Len(words) \in Nat
  BY <1>1
<1>4. stemmed[i] \in Tokens
  BY <1>1, <1>2
<1>5. ASSUME IsWord(stemmed[i])
      PROVE  /\ wordPos \in 1 .. Len(words) /\ words[wordPos] = stemmed[i].orig
             /\ stemmed[i].orig \in QueryWords
  BY <1>1, <1>2, <1>4, <1>5, AlignedHere, TokenIs
<1> QED
  BY <1>2, <1>3, <1>4, <1>5

\* One more answer.
LEMMA AnswersGrow ==
    ASSUME NEW x, found \in Seq(Range(found))
    PROVE  /\ Append(found, x) \in Seq(Range(Append(found, x)))
           /\ Len(Append(found, x)) = Len(found) + 1
<1> DEFINE S == Range(found) \cup {x}
<1>1. found \in Seq(S) /\ x \in S
  <2>1. found \in Seq(S)
    <3> HIDE DEF S
    <3>1. Range(found) \subseteq S
      BY DEF S
    <3> QED
      BY <3>1, SeqMonotonic
  <2> QED
    BY <2>1
<1> HIDE DEF S
<1>2. Append(found, x) \in Seq(S) /\ Len(Append(found, x)) = Len(found) + 1
  BY <1>1, AppendProperties
<1> QED
  BY <1>2, OwnElements

\* A token that needs no correction.
LEMMA KeepKeeps ==
    ASSUME QueryInv, Keep
    PROVE  QueryInv'
<1> DEFINE t == stemmed[i]
<1>1. PICK x : found' = Append(found, x)
  BY DEF Keep
<1>2. /\ wordPos' = (IF IsWord(t) THEN wordPos + 1 ELSE wordPos)
      /\ i' = i + 1 /\ stemmed' = stemmed /\ words' = words /\ lenWords' = lenWords
      /\ HasToken
  BY DEF Keep, IsWord
<1>3. /\ stemmed \in Seq(Tokens) /\ wordPos \in Nat \ {0} /\ words \in Seq(Range(words))
      /\ found \in Seq(Range(found)) /\ lenWords = Len(words) /\ Len(found) = i - 1
      /\ Aligned(stemmed, words, i, wordPos)
  BY DEF QueryInv
<1>4. /\ i \in Nat \ {0} /\ i \in 1 .. Len(stemmed) /\ Len(stemmed) \in Nat
      /\ Len(words) \in Nat
  BY <1>2, TokenAtHand
<1>5. Aligned(stemmed, words, i', wordPos')
  <2>1. CASE IsWord(t)
    <3>1. \A m \in wordPos + 1 .. Len(words) : words[m + 1 - 1] = words[m]
      OBVIOUS
    <3>2. Len(words) = Len(words) + 1 - 1 /\ 1 \in Nat \ {0}
      BY <1>4
    <3>3. Aligned(stemmed, words, i + 1, wordPos + 1)
      BY <1>3, <1>4, <2>1, <3>1, <3>2, AlignedAfter
    <3> QED
      BY <1>2, <2>1, <3>3
  <2>2. CASE ~IsWord(t)
    <3>1. Aligned(stemmed, words, i + 1, wordPos)
      BY <1>3, <1>4, <2>2, AlignedPast
    <3> QED
      BY <1>2, <2>2, <3>1
  <2> QED
    BY <2>1, <2>2
<1>6. i' \in 1 .. Len(stemmed) + 1 /\ wordPos' \in Nat \ {0}
  BY <1>2, <1>3, <1>4
<1>7. found' \in Seq(Range(found')) /\ Len(found') = i' - 1
  BY <1>1, <1>2, <1>3, <1>4, AnswersGrow
<1> QED
  BY <1>2, <1>3, <1>5, <1>6, <1>7 DEF QueryInv, Range, Aligned, WordsIn, IsWord

\* A correction, by one word or by two.
LEMMA CorrectKeeps ==
    ASSUME QueryInv, Correct
    PROVE  QueryInv'
<1> DEFINE t == stemmed[i]
<1>1. HasToken /\ IsWord(t)
  BY DEF Correct, Wrong, IsWord
<1>2. PICK by \in Replacements[words[wordPos]] :
         /\ words' = Replaced(words, wordPos, by)
         /\ lenWords' = lenWords + Len(by) - 1
         /\ \E x : found' = Append(found, x)
         /\ wordPos' = wordPos + Len(by)
  BY DEF Correct, Replaced
<1>3. i' = i + 1 /\ stemmed' = stemmed
  BY DEF Correct
<1>4. /\ stemmed \in Seq(Tokens) /\ wordPos \in Nat \ {0} /\ words \in Seq(Range(words))
      /\ found \in Seq(Range(found)) /\ lenWords = Len(words) /\ Len(found) = i - 1
      /\ Aligned(stemmed, words, i, wordPos)
  BY DEF QueryInv
<1>5. /\ i \in Nat \ {0} /\ i \in 1 .. Len(stemmed) /\ Len(stemmed) \in Nat
      /\ Len(words) \in Nat /\ wordPos \in 1 .. Len(words)
      /\ words[wordPos] \in QueryWords
  BY <1>1, TokenAtHand
<1>6. by \in Seq(Range(by)) /\ Len(by) \in {1, 2}
  <2>1. \E w, cs, sc : by = BestReplacement(w, cs, sc, maxTypo)
    BY <1>5 DEF Replacements
  <2> QED
    BY <2>1, ReplacementIs
<1> DEFINE S == Range(words) \cup Range(by)
           ws == Replaced(words, wordPos, by)
           l == Len(by)
<1>7. words \in Seq(S) /\ by \in Seq(S)
  <2>1. Range(words) \subseteq S /\ Range(by) \subseteq S
    OBVIOUS
  <2> HIDE DEF S
  <2> QED
    BY <1>4, <1>6, <2>1, SeqMonotonic
<1> HIDE DEF S
<1>8. /\ ws \in Seq(S) /\ Len(ws) = Len(words) + l - 1
      /\ \A m \in wordPos + 1 .. Len(words) : ws[m + l - 1] = words[m]
  <2> HIDE DEF ws, l
  <2>1. /\ Replaced(words, wordPos, by) \in Seq(S)
        /\ Len(Replaced(words, wordPos, by)) = Len(words) + Len(by) - 1
        /\ \A m \in wordPos + 1 .. Len(words) :
              Replaced(words, wordPos, by)[m + Len(by) - 1] = words[m]
    <3>1. words \in Seq(S) /\ by \in Seq(S) /\ wordPos \in 1 .. Len(words)
      BY <1>5, <1>7
    <3> QED
      BY <3>1, ReplacedAt
  <2> QED
    BY <2>1 DEF ws, l
<1> HIDE DEF ws
<1> HIDE DEF l
<1>9. l \in Nat \ {0}
  <2>1. l = 1 \/ l = 2
    BY <1>6 DEF l
  <2> QED
    BY <2>1
<1>10. Aligned(stemmed, ws, i + 1, wordPos + l)
  BY <1>1, <1>4, <1>5, <1>8, <1>9, AlignedAfter
<1>11. words' = ws /\ lenWords' = Len(ws) /\ wordPos' = wordPos + l
  BY <1>2, <1>4, <1>8 DEF ws, l
<1>12. ws \in Seq(Range(ws))
  BY <1>8, OwnElements
<1>13. i' \in 1 .. Len(stemmed) + 1 /\ wordPos' \in Nat \ {0}
  BY <1>3, <1>4, <1>5, <1>9, <1>11
<1>14. found' \in Seq(Range(found')) /\ Len(found') = i' - 1
  BY <1>2, <1>3, <1>4, <1>5, AnswersGrow
<1> QED
  BY <1>3, <1>4, <1>10, <1>11, <1>12, <1>13, <1>14
     DEF QueryInv, Range, Aligned, WordsIn, IsWord

\* Whatever is asked and corrected, the two walks stay together.
LEMMA QueryInvariance ==
    ASSUME QueryInv, [QueryNext]_queryVars
    PROVE  QueryInv'
<1>1. CASE Ask
  BY <1>1, AskKeeps
<1>2. CASE Keep
  BY <1>2, KeepKeeps
<1>3. CASE Correct
  BY <1>3, CorrectKeeps
<1>4. CASE Answer
  <2>1. /\ stemmed' = <<>> /\ words' = <<>> /\ lenWords' = 0 /\ i' = 1 /\ wordPos' = 1
        /\ found' = <<>>
    BY <1>4 DEF Answer
  <2> QED
    BY <2>1 DEF QueryInv, Aligned
<1>5. CASE UNCHANGED <<stemmed, words, lenWords, i, wordPos, found>>
  BY <1>5 DEF QueryInv, Range, Aligned, WordsIn, IsWord
<1>6. Compare \/ Replace \/ Rank \/ Find \/ ReadBack \/ Tokenize
      \/ ReadRobots \/ CallReturns \/ UNCHANGED queryVars
      => UNCHANGED <<stemmed, words, lenWords, i, wordPos, found>>
  BY DEF Compare, Replace, Rank, Find, ReadBack, Tokenize,
         ReadRobots, CallReturns, Call, queryVars
<1> QED
  BY <1>1, <1>2, <1>3, <1>4, <1>5, <1>6 DEF QueryNext

\* The words and the tokens of a query, one of which may be replaced by two, are gone through
\* together: wordPos is at the word of the token, lenWords is the number of words
\* (wordHandling.go:104-215).
THEOREM QueriesAligned == QuerySpec => []QueryAligned
<1>1. QueryInit => QueryInv
  <2> SUFFICES ASSUME QueryInit PROVE QueryInv
    OBVIOUS
  <2>1. /\ stemmed = <<>> /\ words = <<>> /\ lenWords = 0 /\ i = 1 /\ wordPos = 1
        /\ found = <<>>
    BY DEF QueryInit
  <2> QED
    BY <2>1 DEF QueryInv, Aligned
<1>2. QueryInv /\ [QueryNext]_queryVars => QueryInv'
  BY QueryInvariance
<1>3. QueryInv => QueryAligned
  <2> SUFFICES ASSUME QueryInv PROVE QueryAligned
    OBVIOUS
  <2>1. lenWords = Len(words) /\ Len(found) = i - 1
    BY DEF QueryInv
  <2>2. ASSUME HasToken, IsWord(stemmed[i])
        PROVE  wordPos <= lenWords /\ words[wordPos] = stemmed[i].orig
    BY <2>1, <2>2, TokenAtHand
  <2> QED
    BY <2>1, <2>2 DEF QueryAligned, IsWord
<1> QED
  BY <1>1, <1>2, <1>3, PTL DEF QuerySpec

\* A step that is no step of a query calls one of the algorithms, or returns.
LEMMA CallsApart ==
    ASSUME [QueryNext]_queryVars
    PROVE  /\ ReadBack \/ UNCHANGED call \/ call'.op # "entry"
           /\ Find \/ UNCHANGED call \/ call'.op # "find"
           /\ ReadRobots \/ UNCHANGED call \/ call'.op # "robots"
           /\ Compare \/ UNCHANGED call \/ call'.op # "distance"
           /\ Replace \/ UNCHANGED call \/ call'.op # "replace"
           /\ Rank \/ UNCHANGED call \/ call'.op # "proximity"
           /\ Tokenize \/ UNCHANGED call \/ call'.op # "tokenize"
<1> DEFINE ops == {"entry", "find", "robots", "distance", "replace", "proximity", "tokenize"}
           ApartFrom(op) == call'.op \notin ops \ {op}
<1>1. Ask \/ Keep \/ Correct \/ Answer \/ UNCHANGED queryVars
      => UNCHANGED call
  BY DEF queryVars, Ask, Keep, Correct, Answer
<1>2. Compare => ApartFrom("distance")
  BY DEF Compare, Call
<1>3. Replace => ApartFrom("replace")
  BY DEF Replace, Call
<1>4. Rank => ApartFrom("proximity")
  BY DEF Rank, Call
<1>5. Find => ApartFrom("find")
  BY DEF Find, Call
<1>6. ReadBack => ApartFrom("entry")
  BY DEF ReadBack, Call
<1>7. Tokenize => ApartFrom("tokenize")
  BY DEF Tokenize, Call
<1>8. ReadRobots => ApartFrom("robots")
  BY DEF ReadRobots, Call
<1>9. CallReturns => ApartFrom("none")
  BY DEF CallReturns, NoCall
<1> QED
  BY <1>1, <1>2, <1>3, <1>4, <1>5, <1>6, <1>7, <1>8, <1>9 DEF QueryNext

-----------------------------------------------------------------------------
(* The entries of the inverted index                                       *)

\* what there is to know of the stored places of a word
IsPlaces(o) ==
    /\ o \in Seq(Range(o))
    /\ \A k \in DOMAIN o : /\ o[k] = [type |-> o[k].type, i |-> o[k].i]
                           /\ o[k].type \in {0, 1} /\ o[k].i \in Nat
                           /\ 2 * o[k].i + 1 < WordRange

\* the entry that is read back
ReadEntry(o) == unmarshalWCP(StoredEntry(o))

\* The least of two numbers.
LEMMA LeastOfTwo ==
    ASSUME NEW a \in Int, NEW b \in Int
    PROVE  Min({a, b}) = IF a <= b THEN a ELSE b
BY DEF Min

\* A number below a range, as it is stored, and the remainder of any number.
LEMMA Stored ==
    ASSUME NEW n \in Nat, NEW r \in Nat \ {0}
    PROVE  /\ n % r \in Nat /\ n % r <= n /\ n % r < r
           /\ n < r => n % r = n
OBVIOUS

\* A position and its type survive the encoding into one number.
LEMMA PositionReadBack ==
    ASSUME NEW t \in {0, 1}, NEW p \in Nat, 2 * p + 1 < WordRange
    PROVE  decPosEntry(encPosEntry(t, p)) = [type |-> t, i |-> p]
<1>1. WordRange \in Nat \ {0}
  BY TextAssumption
<1>2. 2 * p + t \in Nat /\ 2 * p + t < WordRange
  BY <1>1
<1>3. encPosEntry(t, p) = 2 * p + t
  <2> DEFINE d == 2 * p + t
  <2> HIDE DEF d
  <2>1. d % WordRange = d
    BY <1>1, <1>2, Stored DEF d
  <2> QED
    BY <2>1 DEF d, encPosEntry
<1>4. (2 * p + t) % 2 = t /\ (2 * p + t) \div 2 = p
  <2>1. CASE t = 0
    BY <2>1
  <2>2. CASE t = 1
    BY <2>2
  <2> QED
    BY <2>1, <2>2
<1> QED
  BY <1>3, <1>4 DEF decPosEntry

\* An entry has the first positions of the word, as many as the stored count says.
LEMMA EntryIs ==
    ASSUME NEW o, IsPlaces(o)
    PROVE  LET n == Len(o)
               r == ReadEntry(o)
               c == n % CountRange
           IN  /\ n \in Nat /\ c \in Nat /\ c <= n
               /\ n < CountRange => c = n
               /\ r = [count |-> c, positions |-> r.positions]
               /\ r.positions = SubSeq(o, 1, Len(r.positions))
               /\ r.positions \in Seq(Range(o))
               /\ Len(r.positions) = IF c <= MaxPositions THEN c ELSE MaxPositions
<1> DEFINE n == Len(o)
           c == n % CountRange
           stays == IF n <= MaxPositions THEN n ELSE MaxPositions
           q == IF c <= MaxPositions THEN c ELSE MaxPositions
           v == StoredEntry(o)
           r == ReadEntry(o)
<1>1. /\ CountRange \in Nat \ {0} /\ WordRange \in Nat \ {0} /\ MaxPositions \in Nat
      /\ n \in Nat /\ o \in Seq(Range(o)) /\ DOMAIN o = 1 .. n
  BY TextAssumption DEF IsPlaces
<1>2. c \in Nat /\ c <= n /\ (n < CountRange => c = n)
  <2> HIDE DEF n
  <2> QED
    BY <1>1, Stored
<1> HIDE DEF c
<1>3. stays \in Nat /\ q \in Nat /\ q <= stays /\ stays <= n
  <2> HIDE DEF n
  <2> QED
    BY <1>1, <1>2
<1>4. Min({n, MaxPositions}) = stays /\ Min({c, MaxPositions}) = q
  <2> HIDE DEF n
  <2>1. Min({n, MaxPositions}) = stays
    BY <1>1, LeastOfTwo
  <2>2. Min({c, MaxPositions}) = q
    BY <1>1, <1>2, LeastOfTwo
  <2> QED
    BY <2>1, <2>2
<1> HIDE DEF stays, q
<1> DEFINE s == SubSeq(o, 1, stays)
<1>5. /\ Len(s) = stays
      /\ \A k \in 1 .. stays : s[k] = o[k]
  <2> HIDE DEF n
  <2>1. \A k \in 1 .. stays : s[k] = o[k]
    BY <1>1, <1>3
  <2>2. Len(s) = stays
    BY <1>1, <1>3
  <2> QED
    BY <2>1, <2>2
<1> HIDE DEF s
<1>6. /\ v.count = c
      /\ \A k \in 1 .. 2 * stays :
            v.data[k] = IF k <= stays THEN encPosEntry(s[k].type, s[k].i) ELSE 0
  <2>1. v = marshalWCP([count |-> n, positions |-> s])
    BY <1>4 DEF StoredEntry, s
  <2>2. v = [count |-> n % CountRange,
             data  |-> [k \in 1 .. 2 * Len(s) |->
                          IF k <= Len(s) THEN encPosEntry(s[k].type, s[k].i) ELSE 0]]
    <3> HIDE DEF v, n
    <3> QED
      BY <2>1 DEF marshalWCP
  <2> HIDE DEF v, n
  <2> QED
    BY <1>5, <2>2 DEF c, n
<1> HIDE DEF v
<1>7. r = [count |-> c, positions |-> [k \in 1 .. q |-> decPosEntry(v.data[k])]]
  BY <1>4, <1>6 DEF ReadEntry, unmarshalWCP, v
<1> HIDE DEF r
<1> DEFINE ps == r.positions
<1>8. ASSUME NEW k \in 1 .. q PROVE ps[k] = o[k] /\ o[k] \in Range(o)
  <2>1. k \in 1 .. stays /\ k \in 1 .. 2 * stays /\ k <= stays /\ k \in 1 .. n
    <3> HIDE DEF n
    <3> QED
      BY <1>3, <1>1
  <2>2. v.data[k] = encPosEntry(o[k].type, o[k].i)
    BY <1>5, <1>6, <2>1
  <2>3. /\ o[k] = [type |-> o[k].type, i |-> o[k].i]
        /\ o[k].type \in {0, 1} /\ o[k].i \in Nat /\ 2 * o[k].i + 1 < WordRange
    BY <1>1, <2>1 DEF IsPlaces
  <2>4. decPosEntry(v.data[k]) = o[k]
    BY <2>2, <2>3, PositionReadBack
  <2> QED
    BY <1>1, <1>7, <2>1, <2>4 DEF Range
<1>9. ps = [k \in 1 .. q |-> o[k]]
  BY <1>7, <1>8
<1>10. Len(ps) = q /\ ps \in Seq(Range(o))
  BY <1>3, <1>8, <1>9
<1>11. ps = SubSeq(o, 1, Len(ps))
  <2>1. SubSeq(o, 1, q) = [k \in 1 .. q |-> o[k]]
    <3> HIDE DEF n
    <3> QED
      BY <1>1, <1>3
  <2> QED
    BY <1>9, <1>10, <2>1
<1>12. r = [count |-> c, positions |-> ps]
  BY <1>7
<1> QED
  BY <1>1, <1>2, <1>10, <1>11, <1>12 DEF c, q, r

\* Two entries that are joined hold as many positions as Search looks at.
LEMMA JoinedScan ==
    ASSUME NEW o1, NEW o2, IsPlaces(o1), IsPlaces(o2)
    PROVE  LET r == ReadEntry(o1)
               e == Joined(r, ReadEntry(o2))
           IN  /\ HeaderScan(r) \subseteq DOMAIN r.positions
               /\ HeaderScan(e) \subseteq DOMAIN e.positions
<1> DEFINE r == ReadEntry(o1)
           s == ReadEntry(o2)
           c == r.count
           d == s.count
           p == r.positions
           q == s.positions
           least(x) == IF x <= MaxPositions THEN x ELSE MaxPositions
<1>1. MaxPositions \in Nat
  BY TextAssumption
<1>2. c \in Nat /\ p \in Seq(Range(o1)) /\ Len(p) = least(c)
  BY EntryIs
<1>3. d \in Nat /\ q \in Seq(Range(o2)) /\ Len(q) = least(d)
  BY EntryIs
<1> HIDE DEF c, d, p, q
<1>4. HeaderScan(r) \subseteq DOMAIN p
  <2>1. HeaderScan(r) = 1 .. least(c)
    BY <1>1, <1>2, LeastOfTwo DEF HeaderScan, c
  <2>2. DOMAIN p = 1 .. least(c)
    BY <1>2
  <2> QED
    BY <2>1, <2>2
<1> DEFINE e == Joined(r, s)
<1>5. e.count = c + d /\ e.positions = p \o q
  BY DEF Joined, c, d, p, q
<1>6. DOMAIN (p \o q) = 1 .. least(c) + least(d)
  <2> DEFINE S == Range(o1) \cup Range(o2)
  <2>1. p \in Seq(S) /\ q \in Seq(S)
    <3>1. Range(o1) \subseteq S /\ Range(o2) \subseteq S
      OBVIOUS
    <3> HIDE DEF S
    <3> QED
      BY <1>2, <1>3, <3>1, SeqMonotonic
  <2> HIDE DEF S
  <2>2. p \o q \in Seq(S) /\ Len(p \o q) = Len(p) + Len(q)
    BY <2>1, ConcatProperties
  <2> QED
    BY <1>2, <1>3, <2>2
<1> HIDE DEF e
<1>7. HeaderScan(e) = 1 .. least(c + d)
  <2> DEFINE b == c + d
  <2>1. b \in Int /\ MaxPositions \in Int
    BY <1>1, <1>2, <1>3
  <2>2. e.count = b
    BY <1>5
  <2> HIDE DEF b
  <2>3. HeaderScan(e) = 1 .. least(b)
    BY <2>1, <2>2, LeastOfTwo DEF HeaderScan
  <2> QED
    BY <2>3 DEF b
<1>8. least(c + d) <= least(c) + least(d) /\ least(c + d) \in Nat /\ least(c) + least(d) \in Nat
  BY <1>1, <1>2, <1>3
<1> HIDE DEF least
<1>9. HeaderScan(e) \subseteq DOMAIN e.positions
  BY <1>5, <1>6, <1>7, <1>8
<1> QED
  BY <1>4, <1>9 DEF e, p

\* What is read back of a word is what was stored, and enough for what Search looks at.
LEMMA ReadBackRight ==
    ASSUME ReadBack
    PROVE  EntryReadBack'
<1>1. PICK o1 \in Occurrences, o2 \in Occurrences :
         call' = [op |-> "entry", occurrences |-> o1, result |-> ReadEntry(o1),
                     joined |-> Joined(ReadEntry(o1), ReadEntry(o2))]
  BY DEF ReadBack, Call, ReadEntry
<1>2. IsPlaces(o1) /\ IsPlaces(o2)
  BY QueryAssumption DEF IsPlaces, Range
<1> DEFINE n == Len(o1)
           r == ReadEntry(o1)
           j == Joined(r, ReadEntry(o2))
<1>3. call'.occurrences = o1 /\ call'.result = r /\ call'.joined = j
  BY <1>1
<1>4. r.positions = SubSeq(o1, 1, Len(r.positions))
  BY <1>2, EntryIs
<1>5. /\ n \in Nat /\ MaxPositions \in Nat
      /\ n < CountRange => r.count = n
      /\ Len(r.positions) = IF r.count <= MaxPositions THEN r.count ELSE MaxPositions
  <2>1. MaxPositions \in Nat
    BY TextAssumption
  <2>2. /\ n \in Nat
        /\ n < CountRange => r.count = n
        /\ Len(r.positions) = IF r.count <= MaxPositions THEN r.count ELSE MaxPositions
    BY <1>2, EntryIs
  <2> QED
    BY <2>1, <2>2
<1>6. HeaderScan(r) \subseteq DOMAIN r.positions /\ HeaderScan(j) \subseteq DOMAIN j.positions
  BY <1>2, JoinedScan
<1> HIDE DEF n, r, j
<1>7. n < CountRange => Len(r.positions) = Min({n, MaxPositions})
  BY <1>5, LeastOfTwo
<1> QED
  BY <1>3, <1>4, <1>5, <1>6, <1>7 DEF EntryReadBack, n

\* An entry of the index that is read back has the first positions of its word, and the count
\* as far as 16 bits go; Search never looks past them, also in the entries of two words that
\* HandleTextQuery joined (indexRepos.go:220-253, searcher.go:105-114).
THEOREM EntriesReadBack == QuerySpec => []EntryReadBack
<1>1. QueryInit => EntryReadBack
  BY DEF QueryInit, NoCall, EntryReadBack
<1>2. EntryReadBack /\ [QueryNext]_queryVars => EntryReadBack'
  <2> SUFFICES ASSUME EntryReadBack, [QueryNext]_queryVars
               PROVE  EntryReadBack'
    OBVIOUS
  <2>1. CASE ReadBack
    BY <2>1, ReadBackRight
  <2>2. CASE UNCHANGED call
    BY <2>2 DEF EntryReadBack, HeaderScan
  <2>3. CASE call'.op # "entry"
    BY <2>3 DEF EntryReadBack
  <2>4. ReadBack \/ UNCHANGED call \/ call'.op # "entry"
    BY CallsApart
  <2> QED
    BY <2>1, <2>2, <2>3, <2>4
<1> QED
  BY <1>1, <1>2, PTL DEF QuerySpec

-----------------------------------------------------------------------------
(* The search for a word in a URL                                          *)

\* what the loop of boyerMoorAlgorithm says at place p, if T are the places from which it
\* finds the word
FindsAt(url, word, T, p) ==
    /\ p <= Len(url)
    /\ \/ url[p] # word[Len(word)] /\ p + shift(word, url[p]) \in T
       \/ /\ url[p] = word[Len(word)]
          /\ SubSeq(url, p - Len(word) + 1, p) = word \/ p + Len(word) \in T

\* The window moves by one at least and by its length at most, and never past the last place
\* at which it could meet the letter.
LEMMA ShiftBounds ==
    ASSUME NEW S, NEW word \in Seq(S), word # <<>>, NEW x
    PROVE  /\ shift(word, x) \in 1 .. Len(word)
           /\ \A k \in 1 .. Len(word) - 1 :
                 word[k] = x => shift(word, x) <= Len(word) - k
<1> DEFINE l == Len(word)
           P == {k \in DOMAIN word : word[k] = x}
<1>1. l \in Nat \ {0} /\ DOMAIN word = 1 .. l
  OBVIOUS
<1> HIDE DEF l
<1>2. CASE P = {}
  <2>1. shift(word, x) = l
    BY <1>2 DEF shift, l
  <2> QED
    BY <1>1, <1>2, <2>1 DEF l
<1>3. CASE P # {}
  <2> DEFINE D == {l - k : k \in P}
  <2>1. D \in SUBSET Nat /\ D # {}
    BY <1>1, <1>3
  <2>2. PICK d \in D : \A e \in D : d <= e
    <3> HIDE DEF D
    <3> QED
      BY <2>1, LeastNumber
  <2>3. PICK g \in P : d = l - g
    BY <2>2
  <2>4. g \in 1 .. l /\ \A k \in P : k \in 1 .. l
    BY <1>1
  <2>5. \A k \in P : g >= k
    <3> TAKE k \in P
    <3>1. l - k \in D
      OBVIOUS
    <3>2. l - g <= l - k /\ k \in 1 .. l
      BY <2>2, <2>3, <2>4, <3>1
    <3> QED
      BY <1>1, <2>4, <3>2
  <2> DEFINE m == Max(P)
  <2>6. m \in P /\ \A k \in P : m >= k
    <3> HIDE DEF P
    <3> QED
      BY <2>3, <2>5 DEF Max
  <2> HIDE DEF m
  <2>7. m \in 1 .. l
    BY <2>4, <2>6
  <2> DEFINE b == l - m
             s == Max({1, b})
  <2>8. s = IF b >= 1 THEN b ELSE 1
    <3>1. b \in Int
      BY <1>1, <2>7
    <3> HIDE DEF b
    <3> QED
      BY <3>1 DEF Max
  <2>9. shift(word, x) = s
    BY <1>3 DEF shift, l, m
  <2> HIDE DEF s
  <2>10. s \in 1 .. l
    BY <1>1, <2>7, <2>8
  <2>11. ASSUME NEW k \in 1 .. l - 1, word[k] = x PROVE s <= l - k
    <3>1. k \in P
      BY <1>1, <2>11
    <3>2. m >= k
      BY <2>6, <3>1
    <3> QED
      BY <1>1, <2>7, <2>8, <3>2
  <2> QED
    BY <2>9, <2>10, <2>11 DEF l
<1> QED
  BY <1>2, <1>3

\* There are such places, and the loop finds the word where they say.
LEMMA ScanRuns ==
    ASSUME NEW S, NEW url \in Seq(S), NEW R, NEW word \in Seq(R), word # <<>>
    PROVE  \E F \in SUBSET (Len(word) .. Len(url) + Len(word)) :
              /\ \A p \in Len(word) .. Len(url) + Len(word) : p \in F <=> FindsAt(url, word, F, p)
              /\ boyerMoorFinds(url, word) <=> Len(word) \in F
<1> DEFINE l == Len(word)
           m == Len(url)
           n == m + l
           P == l .. n
           X == SUBSET P
           finds(T, p) == FindsAt(url, word, T, p)
           next(k) == [T \in X |-> T \cup {p \in {n - k} : finds(T, p)}]
           step == [k \in 1 .. m |-> next(k)]
<1>1. l \in Nat \ {0} /\ m \in Nat /\ n \in Nat
  OBVIOUS
<1> HIDE DEF l, m
<1>2. ASSUME NEW k \in 1 .. m PROVE next(k) \in [X -> X]
  <2>1. n - k \in P
    BY <1>1
  <2> HIDE DEF n, P, finds
  <2> QED
    BY <2>1
<1>3. step \in [1 .. m -> [X -> X]]
  BY <1>2
<1>4. PICK g : g \in Results(X, m, {}, step)
  <2> DEFINE none == {}
  <2>1. none \in X /\ m \in Nat
    BY <1>1
  <2> HIDE DEF none, X, step
  <2>2. Results(X, m, none, step) # {}
    BY <1>3, <2>1, Iterates
  <2> QED
    BY <2>2 DEF none
<1>5. /\ g \in [0 .. m -> X] /\ g[0] = {}
      /\ \A k \in 1 .. m : g[k] = g[k - 1] \cup {p \in {n - k} : finds(g[k - 1], p)}
  <2>1. /\ g \in [0 .. m -> X] /\ g[0] = {}
        /\ \A k \in 1 .. m : g[k] = step[k][g[k - 1]]
    BY <1>4 DEF Results
  <2>2. ASSUME NEW k \in 1 .. m
        PROVE  g[k] = g[k - 1] \cup {p \in {n - k} : finds(g[k - 1], p)}
    <3>1. k - 1 \in 0 .. m
      BY <1>1
    <3>2. g[k - 1] \in X
      BY <2>1, <3>1
    <3> HIDE DEF finds, X
    <3> QED
      BY <2>1, <3>2
  <2> QED
    BY <2>1, <2>2
<1> HIDE DEF finds, step
\* the places found from behind stay as they are
<1> DEFINE Agrees(k) == \A j \in 0 .. k : g[j] = {p \in g[k] : p > n - j - 1}
           Good == {k \in 0 .. m : Agrees(k)}
           count == [k \in 0 .. m |-> k]
<1> HIDE DEF n
<1>6. count[0] \in Good
  BY <1>1, <1>5
<1>7. ASSUME NEW k \in 1 .. m, count[k - 1] \in Good PROVE count[k] \in Good
  <2>1. k - 1 \in 0 .. m /\ k \in 0 .. m /\ k \in Nat /\ count[k] = k /\ count[k - 1] = k - 1
    BY <1>1
  <2>2. Agrees(k - 1)
    BY <1>7, <2>1
  <2>3. g[k] = g[k - 1] \cup {p \in {n - k} : finds(g[k - 1], p)} /\ g[k - 1] \subseteq P
        /\ g[k] \subseteq P
    BY <1>5, <2>1
  <2>4. \A p \in P : p \in Int
    BY <1>1 DEF n
  <2>5. ASSUME NEW j \in 0 .. k PROVE g[j] = {p \in g[k] : p > n - j - 1}
    <3>1. CASE j = k
      <4>1. g[k - 1] = {p \in g[k - 1] : p > n - (k - 1) - 1}
        BY <2>1, <2>2
      <4>2. ASSUME NEW p \in g[k] PROVE p > n - k - 1
        <5>1. p \in Int
          BY <2>3, <2>4
        <5>2. CASE p = n - k
          BY <5>1, <5>2, <2>1, <1>1
        <5>3. CASE p \in g[k - 1]
          BY <5>1, <5>3, <4>1, <2>1, <1>1
        <5> QED
          BY <2>3, <4>2, <5>2, <5>3
      <4> QED
        BY <3>1, <4>2
    <3>2. CASE j # k
      <4>1. j \in 0 .. k - 1
        BY <2>1, <3>2
      <4>2. g[j] = {p \in g[k - 1] : p > n - j - 1}
        BY <2>2, <4>1
      <4>3. ~(n - k > n - j - 1)
        BY <4>1, <2>1, <1>1
      <4> QED
        BY <2>3, <4>2, <4>3
    <3> QED
      BY <3>1, <3>2
  <2>6. Agrees(k)
    BY <2>5
  <2> HIDE DEF Agrees
  <2> QED
    BY <2>1, <2>6
<1>8. \A k \in 0 .. m : count[k] \in Good
  <2> HIDE DEF count, Good
  <2> QED
    BY <1>1, <1>6, <1>7, AllAlong
<1>9. Agrees(m) /\ m \in 0 .. m
  BY <1>1, <1>8
<1> DEFINE F == g[m]
<1>10. F \subseteq P /\ \A j \in 0 .. m : g[j] = {p \in F : p > n - j - 1}
  BY <1>5, <1>9
<1> HIDE DEF F
<1>11. ASSUME NEW p \in P PROVE p \in F <=> finds(F, p)
  <2>1. p \in Nat /\ l <= p /\ p <= n /\ n = m + l /\ n \in Int
    BY <1>1 DEF n
  <2>2. CASE p = n
    <3>1. ~finds(F, p)
      BY <1>1, <2>1, <2>2 DEF finds, FindsAt, m
    <3>2. p \notin F
      BY <1>1, <1>5, <1>10, <2>1, <2>2
    <3> QED
      BY <3>1, <3>2
  <2>3. CASE p # n
    <3> DEFINE k == n - p
    <3>1. k \in 1 .. m /\ k - 1 \in 0 .. m /\ k \in 0 .. m /\ n - k = p
      BY <1>1, <2>1, <2>3
    <3>2. g[k] = g[k - 1] \cup {q \in {p} : finds(g[k - 1], q)}
      BY <1>5, <3>1
    <3>3. p > n - k - 1 /\ ~(p > n - (k - 1) - 1)
      BY <2>1
    <3>4. p \in F <=> p \in g[k]
      BY <1>10, <3>1, <3>3
    <3>5. p \notin g[k - 1]
      BY <1>10, <3>1, <3>3
    <3>6. p \in F <=> finds(g[k - 1], p)
      BY <3>2, <3>4, <3>5
    <3>7. ASSUME NEW q \in Int, q > p PROVE q \in g[k - 1] <=> q \in F
      <4>1. n - (k - 1) - 1 = p
        BY <2>1
      <4> QED
        BY <1>10, <3>1, <3>7, <4>1
    <3>8. finds(g[k - 1], p) <=> finds(F, p)
      <4> DEFINE s == shift(word, url[p])
      <4>1. s \in Int /\ s >= 1
        BY <1>1, ShiftBounds
      <4> HIDE DEF s
      <4>2. /\ p + s \in g[k - 1] <=> p + s \in F
            /\ p + l \in g[k - 1] <=> p + l \in F
        BY <1>1, <2>1, <3>7, <4>1
      <4> HIDE DEF k
      <4> QED
        BY <4>2 DEF finds, FindsAt, s, l
    <3> QED
      BY <3>6, <3>8
  <2> QED
    BY <2>2, <2>3
<1> DEFINE Run(f) == [p \in P |->
                        IF p > m THEN FALSE
                        ELSE IF url[p] # word[l] THEN f[p + shift(word, url[p])]
                        ELSE SubSeq(url, p - l + 1, p) = word \/ f[p + l]]
           scan == CHOOSE f : f = Run(f)
\* as long as the URL goes on, the next place is one of P
<1>12. ASSUME NEW p \in P, ~(p > m)
       PROVE  p + shift(word, url[p]) \in P /\ p + l \in P
  <2> DEFINE s == shift(word, url[p])
  <2>1. s \in 1 .. l
    BY ShiftBounds DEF l
  <2> HIDE DEF s
  <2>2. p + s \in P /\ p + l \in P
    BY <1>1, <1>12, <2>1 DEF n
  <2> QED
    BY <2>2 DEF s
<1>13. boyerMoorFinds(url, word) = scan[l] /\ P = l .. m + l
  BY DEF boyerMoorFinds, l, m, n
<1> DEFINE here(p) == SubSeq(url, p - l + 1, p) = word
           far(p) == p + shift(word, url[p])
<1>14. ASSUME NEW T \in SUBSET P, NEW p \in P
       PROVE  finds(T, p) <=> IF p > m THEN FALSE
                              ELSE IF url[p] # word[l] THEN far(p) \in T
                              ELSE here(p) \/ p + l \in T
  <2>1. p \in Int
    BY <1>1
  <2> QED
    BY <1>1, <2>1 DEF finds, FindsAt, l, m
<1> HIDE DEF here, far, finds, P
<1>15. \E f : f = Run(f)
  <2> DEFINE f == [p \in P |-> IF p \in F THEN TRUE ELSE FALSE]
             r == Run(f)
  <2>1. ASSUME NEW p \in P PROVE (p \in F => f[p] = TRUE) /\ (p \notin F => f[p] = FALSE)
    OBVIOUS
  <2>2. ASSUME NEW p \in P
        PROVE  r[p] = IF p > m THEN FALSE
                      ELSE IF url[p] # word[l] THEN f[far(p)]
                      ELSE here(p) \/ f[p + l]
    BY DEF far, here
  <2>3. DOMAIN r = P /\ f = [p \in P |-> f[p]] /\ r = [p \in P |-> r[p]]
    OBVIOUS
  <2> HIDE DEF f, r
  <2>4. ASSUME NEW p \in P PROVE f[p] = r[p]
    <3>1. CASE p > m
      <4>1. r[p] = FALSE
        BY <2>2, <3>1
      <4>2. p \notin F
        BY <1>10, <1>11, <1>14, <3>1
      <4> QED
        BY <2>1, <4>1, <4>2
    <3>2. CASE ~(p > m) /\ url[p] # word[l]
      <4>1. r[p] = f[far(p)]
        BY <2>2, <3>2
      <4>2. far(p) \in P
        BY <1>12, <3>2 DEF far
      <4>3. p \in F <=> far(p) \in F
        BY <1>10, <1>11, <1>14, <3>2
      <4> QED
        BY <2>1, <4>1, <4>2, <4>3
    <3>3. CASE ~(p > m) /\ url[p] = word[l] /\ here(p)
      <4>1. r[p] = (TRUE \/ f[p + l])
        BY <2>2, <3>3
      <4>2. p \in F
        BY <1>10, <1>11, <1>14, <3>3
      <4> QED
        BY <2>1, <4>1, <4>2
    <3>4. CASE ~(p > m) /\ url[p] = word[l] /\ ~here(p)
      <4>1. r[p] = (here(p) \/ f[p + l])
        BY <2>2, <3>4
      <4>2. p \in F <=> p + l \in F
        BY <1>10, <1>11, <1>14, <3>4
      <4>3. p + l \in P
        BY <1>12, <3>4
      <4> QED
        BY <2>1, <3>4, <4>1, <4>2, <4>3
    <3> QED
      BY <3>1, <3>2, <3>3, <3>4
  <2>5. f = r
    BY <2>3, <2>4
  <2> QED
    BY <2>5 DEF r
<1>16. scan = Run(scan)
  BY <1>15
<1> HIDE DEF scan
<1> DEFINE G == {p \in P : scan[p] = TRUE}
           r == Run(scan)
<1>17. ASSUME NEW p \in P
       PROVE  scan[p] = IF p > m THEN FALSE
                        ELSE IF url[p] # word[l] THEN scan[far(p)]
                        ELSE here(p) \/ scan[p + l]
  <2>1. r[p] = IF p > m THEN FALSE
               ELSE IF url[p] # word[l] THEN scan[far(p)]
               ELSE here(p) \/ scan[p + l]
    BY DEF far, here
  <2> HIDE DEF r
  <2> QED
    BY <1>16, <2>1 DEF r
<1>18. \A p \in P : p \in G <=> scan[p]
  OBVIOUS
<1>19. ASSUME NEW p \in P PROVE p \in G <=> finds(G, p)
  <2>1. G \in SUBSET P
    OBVIOUS
  <2>2. finds(G, p) <=> IF p > m THEN FALSE
                        ELSE IF url[p] # word[l] THEN far(p) \in G
                        ELSE here(p) \/ p + l \in G
    BY <1>14, <2>1
  <2>3. ~(p > m) => far(p) \in P /\ p + l \in P
    BY <1>12 DEF far
  <2> HIDE DEF G
  <2>4. CASE p > m
    BY <1>17, <1>18, <2>2, <2>4
  <2>5. CASE ~(p > m) /\ url[p] # word[l]
    BY <1>17, <1>18, <2>2, <2>3, <2>5
  <2>6. CASE ~(p > m) /\ url[p] = word[l]
    BY <1>17, <1>18, <2>2, <2>3, <2>6
  <2> QED
    BY <2>4, <2>5, <2>6
<1>20. G \in SUBSET P /\ (scan[l] <=> l \in G)
  <2>1. l \in P
    BY <1>1 DEF P, n
  <2> QED
    BY <1>18, <2>1
<1> HIDE DEF G
<1> QED
  BY <1>13, <1>19, <1>20 DEF finds, l, m

\* A word that is found is in the URL.
LEMMA FoundIsThere ==
    ASSUME NEW S, NEW url \in Seq(S), NEW R, NEW word \in Seq(R), word # <<>>,
           boyerMoorFinds(url, word)
    PROVE  OccursIn(word, url)
<1> DEFINE l == Len(word)
           m == Len(url)
           n == m + l
<1>1. l \in Nat \ {0} /\ m \in Nat /\ n \in Nat
  OBVIOUS
<1>2. PICK F \in SUBSET (l .. n) :
         /\ \A p \in l .. n : p \in F <=> FindsAt(url, word, F, p)
         /\ l \in F
  BY ScanRuns
<1> HIDE DEF l, m, n
<1>3. ASSUME ~OccursIn(word, url) PROVE \A k \in 0 .. m : n - k \notin F
  <2> DEFINE Good == {k \in 0 .. m : n - k \notin F}
  <2>1. ASSUME NEW k \in 0 .. m, \A j \in 0 .. k - 1 : j \in Good PROVE k \in Good
    <3> DEFINE p == n - k
    <3>1. p \in l .. n /\ p \in Int
      BY <1>1 DEF n
    <3>2. ASSUME NEW q \in Int, q > p PROVE q \notin F
      <4>1. CASE q \in l .. n
        <5>1. n - q \in 0 .. k - 1 /\ n - (n - q) = q
          BY <1>1, <3>1, <3>2, <4>1
        <5> QED
          BY <2>1, <5>1
      <4>2. CASE q \notin l .. n
        BY <1>2, <4>2
      <4> QED
        BY <4>1, <4>2
    <3> DEFINE s == shift(word, url[p])
    <3>3. s \in 1 .. l
      BY ShiftBounds DEF l
    <3>4. ASSUME p <= m, SubSeq(url, p - l + 1, p) = word PROVE FALSE
      <4>1. p - l \in 0 .. m - l /\ p - l + l = p
        BY <1>1, <3>1, <3>4
      <4> QED
        BY <1>3, <3>4, <4>1 DEF OccursIn, l, m
    <3> HIDE DEF s, p
    <3>5. p + s \notin F /\ p + l \notin F
      BY <1>1, <3>1, <3>2, <3>3
    <3>6. ~FindsAt(url, word, F, p)
      BY <3>4, <3>5 DEF FindsAt, s, l, m
    <3> QED
      BY <1>2, <3>1, <3>6 DEF p
  <2>2. \A k \in 0 .. m : k \in Good
    <3> HIDE DEF Good
    <3> QED
      BY <1>1, <2>1, FromSmaller
  <2> QED
    BY <2>2
<1>4. m \in 0 .. m /\ n - m = l
  BY <1>1 DEF n
<1> QED
  BY <1>2, <1>3, <1>4

\* A word whose last letter occurs once in it is not missed.
LEMMA ThereIsFound ==
    ASSUME NEW S, NEW url \in Seq(S), NEW R, NEW word \in Seq(R), word # <<>>,
           OccursIn(word, url), \A k \in 1 .. Len(word) - 1 : word[k] # word[Len(word)]
    PROVE  boyerMoorFinds(url, word)
<1> DEFINE l == Len(word)
           m == Len(url)
           n == m + l
<1>1. l \in Nat \ {0} /\ m \in Nat /\ n \in Nat
  OBVIOUS
<1>2. PICK F \in SUBSET (l .. n) :
         /\ \A p \in l .. n : p \in F <=> FindsAt(url, word, F, p)
         /\ boyerMoorFinds(url, word) <=> l \in F
  BY ScanRuns
<1>3. PICK k \in 0 .. m - l : SubSeq(url, k + 1, k + l) = word
  BY DEF OccursIn
<1> DEFINE e == k + l
<1>4. e \in l .. m /\ e \in Nat /\ k \in Nat
  BY <1>1
<1>5. \A j \in 1 .. l : url[k + j] = word[j]
  <2>1. \A j \in k + 1 .. e : j \in 1 .. m
    BY <1>1
  <2>2. \A j \in 1 .. e - (k + 1) + 1 : SubSeq(url, k + 1, e)[j] = url[k + 1 + j - 1]
    <3>1. \A j \in k + 1 .. e : url[j] \in S
      BY <2>1
    <3>2. k + 1 \in Int /\ e \in Int
      BY <1>4
    <3> HIDE DEF e, l, m
    <3> QED
      BY <3>1, <3>2, SubSeqProperties, SMTT(20)
  <2> TAKE j \in 1 .. l
  <2>3. j \in 1 .. e - (k + 1) + 1 /\ k + 1 + j - 1 = k + j
    BY <1>1, <1>4
  <2> QED
    BY <1>3, <2>2, <2>3
<1>6. \A j \in 1 .. l - 1 : word[j] # word[l]
  OBVIOUS
<1> HIDE DEF l, m, n, e
<1>7. \A d \in 0 .. k : e - d \in F
  <2> DEFINE Good == {d \in 0 .. k : e - d \in F}
  <2>1. ASSUME NEW d \in 0 .. k, \A j \in 0 .. d - 1 : j \in Good PROVE d \in Good
    <3> DEFINE p == e - d
               s == shift(word, url[p])
    <3>1. p \in l .. n /\ p \in Int /\ p <= m /\ d \in Nat /\ d <= k
      BY <1>1, <1>4 DEF n, e
    <3>2. ASSUME NEW j \in Int, 1 <= j, j <= d PROVE p + j \in F
      <4>1. d - j \in 0 .. d - 1 /\ e - (d - j) = p + j
        BY <1>4, <3>1, <3>2
      <4>2. d - j \in Good
        BY <2>1, <4>1
      <4> QED
        BY <4>1, <4>2
    \* what stands at p, if the window at p overlaps the word
    <3>3. ASSUME d < l PROVE url[p] = word[l - d] /\ l - d \in 1 .. l
      <4>1. l - d \in 1 .. l /\ k + (l - d) = p
        BY <1>1, <1>4, <3>1, <3>3 DEF e
      <4> QED
        BY <1>5, <4>1
    <3>4. s \in 1 .. l /\ \A j \in 1 .. l - 1 : word[j] = url[p] => s <= l - j
      BY ShiftBounds DEF l
    <3>5. p - l + 1 = k + 1 - d
      BY <1>1, <1>4, <3>1 DEF e
    <3> HIDE DEF s, p
    <3>6. CASE d = 0
      <4>1. p = e /\ p - l + 1 = k + 1 /\ url[p] = word[l]
        <5>1. d < l /\ l - d = l
          BY <1>1, <3>6
        <5> QED
          BY <1>4, <3>3, <3>5, <3>6, <5>1 DEF p
      <4>2. FindsAt(url, word, F, p)
        BY <1>3, <3>1, <4>1 DEF FindsAt, e, l, m
      <4> QED
        BY <1>2, <3>1, <4>2 DEF p
    <3>7. CASE d # 0 /\ url[p] # word[l]
      <4>1. s <= d
        <5>1. CASE d < l
          <6>1. l - d \in 1 .. l - 1 /\ l - (l - d) = d
            BY <1>1, <3>1, <3>3, <3>7, <5>1
          <6> QED
            BY <3>3, <3>4, <5>1, <6>1
        <5>2. CASE ~(d < l)
          BY <1>1, <3>1, <3>4, <5>2
        <5> QED
          BY <5>1, <5>2
      <4>2. p + s \in F
        BY <3>2, <3>4, <4>1
      <4>3. FindsAt(url, word, F, p)
        BY <3>1, <3>7, <4>2 DEF FindsAt, s, l, m
      <4> QED
        BY <1>2, <3>1, <4>3 DEF p
    <3>8. CASE d # 0 /\ url[p] = word[l]
      <4>1. ~(d < l)
        <5> SUFFICES ASSUME d < l PROVE FALSE
          OBVIOUS
        <5>1. l - d \in 1 .. l - 1
          BY <1>1, <3>1, <3>8
        <5> QED
          BY <1>6, <3>3, <3>8, <5>1
      <4>2. p + l \in F
        BY <1>1, <3>1, <3>2, <4>1
      <4>3. FindsAt(url, word, F, p)
        BY <3>1, <3>8, <4>2 DEF FindsAt, l, m
      <4> QED
        BY <1>2, <3>1, <4>3 DEF p
    <3> QED
      BY <3>6, <3>7, <3>8
  <2>2. \A d \in 0 .. k : d \in Good
    <3> HIDE DEF Good
    <3> QED
      BY <1>4, <2>1, FromSmaller
  <2> QED
    BY <2>2
<1>8. k \in 0 .. k /\ e - k = l
  BY <1>1, <1>4 DEF e
<1> QED
  BY <1>2, <1>7, <1>8

\* The search for a word in a URL, whose window moves by more than one letter, finds only what
\* is there, and whatever is there if the last letter of the word occurs once in it
\* (preprocessingFeatures.go:64-102).
THEOREM FoundInUrl == QuerySpec => []FindRight
<1>1. QueryInit => FindRight
  BY DEF QueryInit, NoCall, FindRight
<1>2. FindRight /\ [QueryNext]_queryVars => FindRight'
  <2> SUFFICES ASSUME FindRight, [QueryNext]_queryVars
               PROVE  FindRight'
    OBVIOUS
  <2>1. CASE Find
    <3>1. PICK url \in Urls, word \in Words \ {<<>>} :
             call' = [op |-> "find", url |-> url, word |-> word,
                         result |-> boyerMoorFinds(url, word)]
      BY <2>1 DEF Find, Call
    <3>2. url \in Seq(Range(url)) /\ word \in Seq(Range(word)) /\ word # <<>>
      BY QueryAssumption DEF Range
    <3>3. call'.word = word /\ call'.url = url
          /\ call'.result = boyerMoorFinds(url, word)
      BY <3>1
    <3>4. boyerMoorFinds(url, word) => OccursIn(word, url)
      BY <3>2, FoundIsThere
    <3>5. OccursIn(word, url) /\ (\A k \in 1 .. Len(word) - 1 : word[k] # word[Len(word)])
          => boyerMoorFinds(url, word)
      BY <3>2, ThereIsFound
    <3> QED
      BY <3>3, <3>4, <3>5 DEF FindRight, Last, OccursIn
  <2>2. CASE UNCHANGED call
    BY <2>2 DEF FindRight, OccursIn, Last
  <2>3. CASE call'.op # "find"
    BY <2>3 DEF FindRight
  <2>4. Find \/ UNCHANGED call \/ call'.op # "find"
    BY CallsApart
  <2> QED
    BY <2>1, <2>2, <2>3, <2>4
<1> QED
  BY <1>1, <1>2, PTL DEF QuerySpec

-----------------------------------------------------------------------------
(* The parser of robots.txt                                                *)

\* one more line, as Values takes it
TakeLine(vs, l, directive) == IF l.directive = directive THEN Append(vs, l.value) ELSE vs

\* the values taken up to each line
IsTaken(lines, directive, c) ==
    c = [k \in 0 .. Len(lines) |->
            IF k = 0 THEN <<>>
            ELSE IF lines[k].directive = directive THEN Append(c[k - 1], lines[k].value)
            ELSE c[k - 1]]

\* The values of lines are taken one by one: there is such a function.
LEMMA TakenExists ==
    ASSUME NEW S, NEW lines \in Seq(S), NEW directive
    PROVE  \E c : IsTaken(lines, directive, c)
<1> DEFINE n == Len(lines)
           V == {lines[k].value : k \in 1 .. n}
           X == Seq(V)
           next(k) == [s \in X |-> TakeLine(s, lines[k], directive)]
           step == [k \in 1 .. n |-> next(k)]
<1>1. n \in Nat /\ <<>> \in X
  OBVIOUS
<1>2. ASSUME NEW k \in 1 .. n PROVE next(k) \in [X -> X]
  BY DEF TakeLine
<1>3. step \in [1 .. n -> [X -> X]]
  BY <1>2
<1>4. PICK c : c \in Results(X, n, <<>>, step)
  <2> HIDE DEF X, step, n
  <2> QED
    BY <1>1, <1>3, Iterates
<1>5. /\ c \in [0 .. n -> X] /\ c[0] = <<>>
      /\ \A k \in 1 .. n : c[k] = step[k][c[k - 1]]
  BY <1>4 DEF Results
<1>6. ASSUME NEW k \in 1 .. n
      PROVE  c[k] = IF lines[k].directive = directive THEN Append(c[k - 1], lines[k].value)
                    ELSE c[k - 1]
  <2>1. k - 1 \in 0 .. n
    BY <1>1
  <2>2. c[k - 1] \in X
    BY <1>5, <2>1
  <2> QED
    BY <1>5, <2>2 DEF TakeLine
<1> DEFINE d == [k \in 0 .. n |->
                   IF k = 0 THEN <<>>
                   ELSE IF lines[k].directive = directive THEN Append(c[k - 1], lines[k].value)
                   ELSE c[k - 1]]
<1>7. ASSUME NEW k \in 0 .. n PROVE c[k] = d[k]
  <2>1. k = 0 \/ k \in 1 .. n
    BY <1>1
  <2> QED
    BY <1>5, <1>6, <2>1
<1>8. c = d
  BY <1>5, <1>7
<1> QED
  BY <1>8 DEF IsTaken

\* What comes before a line does not depend on those from it on.
LEMMA TakenAgree ==
    ASSUME NEW s, NEW t, NEW directive, NEW c, NEW d, NEW m \in Nat,
           Len(s) \in Nat, Len(t) \in Nat, m <= Len(s), m <= Len(t),
           IsTaken(s, directive, c), IsTaken(t, directive, d),
           \A k \in 1 .. m : s[k] = t[k]
    PROVE  \A k \in 0 .. m : c[k] = d[k]
<1> DEFINE Good == {k \in 0 .. m : c[k] = d[k]}
           count == [k \in 0 .. m |-> k]
<1>1. /\ c[0] = <<>> /\ d[0] = <<>>
      /\ \A k \in 1 .. m :
           /\ c[k] = TakeLine(c[k - 1], s[k], directive)
           /\ d[k] = TakeLine(d[k - 1], t[k], directive)
  <2>1. c[0] = <<>> /\ d[0] = <<>>
    BY DEF IsTaken
  <2>2. ASSUME NEW k \in 1 .. m PROVE c[k] = TakeLine(c[k - 1], s[k], directive)
    <3>1. k \in 0 .. Len(s) /\ k # 0
      OBVIOUS
    <3> QED
      BY <3>1 DEF IsTaken, TakeLine
  <2>3. ASSUME NEW k \in 1 .. m PROVE d[k] = TakeLine(d[k - 1], t[k], directive)
    <3>1. k \in 0 .. Len(t) /\ k # 0
      OBVIOUS
    <3> QED
      BY <3>1 DEF IsTaken, TakeLine
  <2> QED
    BY <2>1, <2>2, <2>3
<1>2. count[0] \in Good
  BY <1>1
<1>3. ASSUME NEW k \in 1 .. m, count[k - 1] \in Good PROVE count[k] \in Good
  BY <1>1, <1>3
<1>4. \A k \in 0 .. m : count[k] \in Good
  <2> HIDE DEF count, Good
  <2> QED
    BY <1>2, <1>3, AllAlong
<1> QED
  BY <1>4

\* The values of no line, and of one line more.
LEMMA ValuesGrow ==
    ASSUME NEW S, NEW s \in Seq(S), NEW l \in S, NEW directive
    PROVE  /\ Values(<<>>, directive) = <<>>
           /\ Values(Append(s, l), directive) = TakeLine(Values(s, directive), l, directive)
<1> DEFINE n == Len(s)
           t == Append(s, l)
           c == CHOOSE f : IsTaken(s, directive, f)
           d == CHOOSE f : IsTaken(t, directive, f)
           e == CHOOSE f : IsTaken(<<>>, directive, f)
<1>1. t \in Seq(S) /\ Len(t) = n + 1 /\ t[n + 1] = l /\ n \in Nat /\ \A k \in 1 .. n : t[k] = s[k]
  BY AppendProperties
<1> HIDE DEF t
<1>2. IsTaken(s, directive, c) /\ IsTaken(t, directive, d)
  <2>1. \E f : IsTaken(s, directive, f)
    BY TakenExists
  <2>2. \E f : IsTaken(t, directive, f)
    BY <1>1, TakenExists
  <2> QED
    BY <2>1, <2>2
<1>3. IsTaken(<<>>, directive, e)
  <2>1. <<>> \in Seq(S)
    OBVIOUS
  <2>2. \E f : IsTaken(<<>>, directive, f)
    BY <2>1, TakenExists
  <2> QED
    BY <2>2
<1>4. Values(s, directive) = c[n] /\ Values(t, directive) = d[n + 1] /\ Values(<<>>, directive) = e[0]
  <2>1. Values(s, directive) = c[n]
    BY DEF Values, IsTaken
  <2>2. Values(t, directive) = d[Len(t)]
    BY DEF Values, IsTaken
  <2>3. Values(<<>>, directive) = e[Len(<<>>)] /\ Len(<<>>) = 0
    BY DEF Values, IsTaken
  <2> QED
    BY <1>1, <2>1, <2>2, <2>3
<1> HIDE DEF c, d, e
<1>5. e[0] = <<>>
  BY <1>3 DEF IsTaken
<1>6. c[n] = d[n]
  <2> HIDE DEF n
  <2>1. \A k \in 0 .. n : c[k] = d[k]
    BY <1>1, <1>2, TakenAgree DEF n
  <2> QED
    BY <1>1, <2>1
<1>7. d[n + 1] = TakeLine(d[n], l, directive)
  <2> DEFINE k == n + 1
  <2>1. k \in 0 .. Len(t) /\ k # 0 /\ k - 1 = n
    BY <1>1
  <2> HIDE DEF k
  <2>2. d[k] = TakeLine(d[k - 1], t[k], directive)
    BY <1>2, <2>1 DEF IsTaken, TakeLine
  <2> QED
    BY <1>1, <2>1, <2>2 DEF k
<1> QED
  BY <1>4, <1>5, <1>6, <1>7 DEF t

\* what stands in the lines with a directive
ValuesIn(s, directive, k) == {s[j].value : j \in {m \in 1 .. k : s[m].directive = directive}}

\* The values that are taken are those of the lines with the directive.
LEMMA ValuesAre ==
    ASSUME NEW S, NEW s \in Seq(S), NEW directive
    PROVE  LET vs == Values(s, directive)
           IN  vs \in Seq(Range(vs)) /\ Range(vs) = ValuesIn(s, directive, Len(s))
<1> DEFINE n == Len(s)
           c == CHOOSE f : IsTaken(s, directive, f)
           Right(k) == c[k] \in Seq(ValuesIn(s, directive, k))
                       /\ Range(c[k]) = ValuesIn(s, directive, k)
           Good == {k \in 0 .. n : Right(k)}
           count == [k \in 0 .. n |-> k]
<1>1. n \in Nat
  OBVIOUS
<1>2. IsTaken(s, directive, c)
  <2>1. \E f : IsTaken(s, directive, f)
    BY TakenExists
  <2> QED
    BY <2>1
<1>3. Values(s, directive) = c[n]
  BY DEF Values, IsTaken
<1> HIDE DEF c, n
<1>4. count[0] \in Good
  <2>1. c[0] = <<>> /\ ValuesIn(s, directive, 0) = {}
    BY <1>2 DEF IsTaken, ValuesIn
  <2>2. Right(0)
    BY <2>1 DEF Range
  <2> QED
    BY <1>1, <2>2
<1>5. ASSUME NEW k \in 1 .. n, count[k - 1] \in Good PROVE count[k] \in Good
  <2> DEFINE v == s[k].value
             U == ValuesIn(s, directive, k - 1)
             W == ValuesIn(s, directive, k)
             e == c[k - 1]
  <2>1. k - 1 \in 0 .. n /\ k \in 0 .. n /\ k # 0 /\ k \in Nat
    BY <1>1
  <2>2. c[k] = TakeLine(e, s[k], directive)
    BY <1>2, <2>1 DEF IsTaken, TakeLine, n
  <2>3. e \in Seq(U) /\ Range(e) = U
    BY <1>5, <2>1
  <2>4. W = IF s[k].directive = directive THEN U \cup {v} ELSE U
    <3>1. {m \in 1 .. k : s[m].directive = directive} =
            {m \in 1 .. k - 1 : s[m].directive = directive}
              \cup IF s[k].directive = directive THEN {k} ELSE {}
      BY <2>1
    <3> QED
      BY <3>1 DEF ValuesIn
  <2> HIDE DEF e, U, W
  <2>5. CASE s[k].directive = directive
    <3>1. U \subseteq W /\ v \in W /\ W = U \cup {v}
      BY <2>4, <2>5
    <3>2. e \in Seq(W)
      BY <2>3, <3>1, SeqMonotonic
    <3>3. c[k] = Append(e, v)
      BY <2>2, <2>5 DEF TakeLine
    <3>4. /\ c[k] \in Seq(W) /\ Len(c[k]) = Len(e) + 1 /\ c[k][Len(e) + 1] = v
          /\ \A j \in 1 .. Len(e) : c[k][j] = e[j]
      BY <3>1, <3>2, <3>3, AppendProperties
    <3>5. Range(c[k]) = W
      <4>1. DOMAIN c[k] = 1 .. Len(e) + 1 /\ DOMAIN e = 1 .. Len(e) /\ Len(e) \in Nat
        BY <3>2, <3>4
      <4>2. ASSUME NEW x \in W PROVE x \in Range(c[k])
        <5>1. CASE x = v
          BY <3>4, <4>1, <5>1 DEF Range
        <5>2. CASE x \in Range(e)
          <6>1. PICK j \in 1 .. Len(e) : x = e[j]
            BY <4>1, <5>2 DEF Range
          <6> QED
            BY <3>4, <4>1, <6>1, SMTT(30) DEF Range
        <5> QED
          BY <2>3, <3>1, <5>1, <5>2
      <4>3. Range(c[k]) \subseteq W
        BY <3>4, <4>1 DEF Range
      <4> QED
        BY <4>2, <4>3
    <3>6. Right(k)
      BY <3>4, <3>5 DEF W
    <3> HIDE DEF Right
    <3> QED
      BY <2>1, <3>6
  <2>6. CASE s[k].directive # directive
    <3>1. c[k] = e /\ W = U
      BY <2>2, <2>4, <2>6 DEF TakeLine
    <3>2. Right(k)
      BY <2>3, <3>1 DEF W
    <3> HIDE DEF Right
    <3> QED
      BY <2>1, <3>2
  <2> QED
    BY <2>5, <2>6
<1>6. \A k \in 0 .. n : count[k] \in Good
  <2> HIDE DEF count, Good
  <2> QED
    BY <1>1, <1>4, <1>5, AllAlong
<1>7. Right(n)
  BY <1>1, <1>6
<1>8. c[n] \in Seq(Range(c[n]))
  BY <1>7, OwnElements
<1> QED
  BY <1>3, <1>7, <1>8 DEF n

\* the rule that lines make, if all of them reach it
RuleOf(s) ==
    [allow |-> Values(s, "allow"), disallow |-> Values(s, "disallow"),
     delay |-> IF Values(s, "delay") = <<>> THEN 0 ELSE Last(Values(s, "delay"))]

\* A line more changes the rule as AddLine does, unless it names an agent.
LEMMA RuleGrows ==
    ASSUME NEW s \in Seq(RobotsLines), NEW l \in RobotsLines
    PROVE  /\ RuleOf(<<>>) = NoRule
           /\ l.directive = "agent" => RuleOf(Append(s, l)) = RuleOf(s)
           /\ l.directive # "agent" => RuleOf(Append(s, l)) = AddLine(RuleOf(s), l)
<1> DEFINE d == l.directive
           v == l.value
           t == Append(s, l)
<1>1. \A x : Values(<<>>, x) = <<>> /\ Values(t, x) = IF d = x THEN Append(Values(s, x), v)
                                                            ELSE Values(s, x)
  <2> TAKE x
  <2>1. Values(<<>>, x) = <<>> /\ Values(t, x) = TakeLine(Values(s, x), l, x)
    BY ValuesGrow
  <2> QED
    BY <2>1 DEF TakeLine
<1>2. d \in {"agent", "allow", "disallow", "delay"}
  BY QueryAssumption
<1>3. Append(Values(s, "delay"), v) # <<>> /\ Last(Append(Values(s, "delay"), v)) = v
  <2> DEFINE e == Values(s, "delay")
             W == Range(e) \cup {v}
  <2>1. e \in Seq(W) /\ v \in W
    <3>1. e \in Seq(Range(e)) /\ Range(e) \subseteq W
      BY ValuesAre
    <3> HIDE DEF e, W
    <3>2. e \in Seq(W)
      BY <3>1, SeqMonotonic
    <3> QED
      BY <3>2 DEF W
  <2> HIDE DEF e, W
  <2>2. /\ Append(e, v) \in Seq(W) /\ Len(Append(e, v)) = Len(e) + 1 /\ Len(e) \in Nat
        /\ Append(e, v)[Len(e) + 1] = v
    BY <2>1, AppendProperties
  <2>3. Append(e, v) # <<>> /\ Last(Append(e, v)) = v
    BY <2>2 DEF Last
  <2> QED
    BY <2>3 DEF e
<1> HIDE DEF t, d, v
<1>4. RuleOf(<<>>) = NoRule
  BY <1>1 DEF RuleOf, NoRule
<1>5. CASE d = "agent"
  <2>1. RuleOf(t) = RuleOf(s)
    BY <1>1, <1>5 DEF RuleOf
  <2> QED
    BY <1>4, <1>5, <2>1 DEF t, d
<1>6. CASE d = "allow"
  <2>1. RuleOf(t) = [RuleOf(s) EXCEPT !.allow = Append(@, v)]
    BY <1>1, <1>6, SMTT(30) DEF RuleOf
  <2>2. AddLine(RuleOf(s), l) = [RuleOf(s) EXCEPT !.allow = Append(@, v)]
    BY <1>6 DEF AddLine, d, v
  <2> QED
    BY <1>4, <1>6, <2>1, <2>2 DEF t, d
<1>7. CASE d = "disallow"
  <2>1. RuleOf(t) = [RuleOf(s) EXCEPT !.disallow = Append(@, v)]
    BY <1>1, <1>7, SMTT(30) DEF RuleOf
  <2>2. AddLine(RuleOf(s), l) = [RuleOf(s) EXCEPT !.disallow = Append(@, v)]
    BY <1>7 DEF AddLine, d, v
  <2> QED
    BY <1>4, <1>7, <2>1, <2>2 DEF t, d
<1>8. CASE d = "delay"
  <2>1. RuleOf(t) = [RuleOf(s) EXCEPT !.delay = v]
    <3>1. Values(t, "delay") = Append(Values(s, "delay"), v)
      BY <1>1, <1>8
    <3>2. Values(t, "delay") # <<>> /\ Last(Values(t, "delay")) = v
      BY <1>3, <3>1
    <3>3. Values(t, "allow") = Values(s, "allow") /\ Values(t, "disallow") = Values(s, "disallow")
      BY <1>1, <1>8
    <3> QED
      BY <3>2, <3>3 DEF RuleOf
  <2>2. AddLine(RuleOf(s), l) = [RuleOf(s) EXCEPT !.delay = v]
    BY <1>8 DEF AddLine, d, v
  <2> QED
    BY <1>4, <1>8, <2>1, <2>2 DEF t, d
<1> QED
  BY <1>2, <1>5, <1>6, <1>7, <1>8

\* what the parser has in hand, for lines with these values
RobotsRules(V) == [allow : Seq(V), disallow : Seq(V), delay : V \cup {0}]

RobotsStates(V) ==
    [rule : RobotsRules(V), rules : UNION {[A -> RobotsRules(V)] : A \in SUBSET V}]

\* It keeps its type.
LEMMA ReadLineTypes ==
    ASSUME NEW V, NEW st \in RobotsStates(V), NEW l \in RobotsLines, l.value \in V
    PROVE  ReadLine(st, l) \in RobotsStates(V)
<1> DEFINE R == RobotsRules(V)
           v == l.value
<1>1. PICK A \in SUBSET V : st.rules \in [A -> R]
  BY DEF RobotsStates
<1>2. st.rule \in R /\ NoRule \in R /\ st = [rule |-> st.rule, rules |-> st.rules]
  <2>1. st.rule \in R /\ st = [rule |-> st.rule, rules |-> st.rules]
    BY DEF RobotsStates
  <2>2. NoRule \in R
    BY DEF NoRule, RobotsRules
  <2> QED
    BY <2>1, <2>2
<1>3. ASSUME NEW r \in R, NEW B \in SUBSET V, NEW f \in [B -> R]
      PROVE  [rule |-> r, rules |-> f] \in RobotsStates(V)
  BY DEF RobotsStates
<1>4. CASE l.directive = "agent"
  <2> DEFINE cur == IF v \in DOMAIN st.rules THEN st.rule ELSE NoRule
  <2>1. cur \in R
    BY <1>2
  <2> HIDE DEF cur, R
  <2>2. Store(st.rules, v, cur) \in [A \cup {v} -> R]
    BY <1>1, <2>1 DEF Store
  <2>3. ReadLine(st, l) = [rule |-> cur, rules |-> Store(st.rules, v, cur)]
    BY <1>4 DEF ReadLine, cur
  <2> QED
    BY <1>3, <2>1, <2>2, <2>3
<1>5. CASE l.directive # "agent" /\ st.rules = <<>>
  BY <1>5 DEF ReadLine
<1>6. CASE l.directive # "agent" /\ st.rules # <<>>
  <2> DEFINE r == st.rule
  <2>1. ReadLine(st, l) = [st EXCEPT !.rule = AddLine(r, l)]
    BY <1>6 DEF ReadLine
  <2>2. r = [allow |-> r.allow, disallow |-> r.disallow, delay |-> r.delay]
        /\ r.allow \in Seq(V) /\ r.disallow \in Seq(V) /\ r.delay \in V \cup {0}
    BY <1>2 DEF RobotsRules
  <2> HIDE DEF r
  <2>3. AddLine(r, l) \in R
    <3>1. l.directive \in {"allow", "disallow", "delay"}
      BY <1>6, QueryAssumption
    <3>2. Append(r.allow, v) \in Seq(V) /\ Append(r.disallow, v) \in Seq(V)
      BY <2>2
    <3>3. CASE l.directive = "allow"
      BY <2>2, <3>2, <3>3 DEF AddLine, RobotsRules
    <3>4. CASE l.directive = "disallow"
      BY <2>2, <3>2, <3>4 DEF AddLine, RobotsRules
    <3>5. CASE l.directive = "delay"
      BY <2>2, <3>5 DEF AddLine, RobotsRules
    <3> QED
      BY <3>1, <3>3, <3>4, <3>5
  <2>4. [st EXCEPT !.rule = AddLine(r, l)] = [rule |-> AddLine(r, l), rules |-> st.rules]
    BY <1>2
  <2> QED
    BY <1>1, <1>3, <2>1, <2>3, <2>4
<1> QED
  BY <1>4, <1>5, <1>6

\* A part of the lines, and one line more.
LEMMA PartGrows ==
    ASSUME NEW S, NEW s \in Seq(S), NEW k \in 1 .. Len(s), NEW f \in 1 .. k
    PROVE  /\ SubSeq(s, f, k - 1) \in Seq(S)
           /\ SubSeq(s, f, k) = Append(SubSeq(s, f, k - 1), s[k])
           /\ f = k => SubSeq(s, f, k - 1) = <<>>
<1> DEFINE a == SubSeq(s, f, k - 1)
           b == SubSeq(s, f, k)
           n == Len(s)
<1>1. n \in Nat /\ k \in Nat /\ f \in Nat /\ 1 <= f /\ f <= k /\ k <= n
      /\ \A j \in 1 .. n : s[j] \in S
  OBVIOUS
<1> HIDE DEF n
<1>2. a \in Seq(S) /\ Len(a) = k - f /\ \A j \in 1 .. k - f : a[j] = s[f + j - 1]
  <2>1. \A j \in f .. k - 1 : s[j] \in S
    BY <1>1
  <2>2. k - 1 \in Int /\ f \in Int
    BY <1>1
  <2>3. /\ a \in Seq(S) /\ Len(a) = IF f <= k - 1 THEN k - 1 - f + 1 ELSE 0
        /\ \A j \in 1 .. k - 1 - f + 1 : a[j] = s[f + j - 1]
    BY <2>1, <2>2, SubSeqProperties
  <2>4. k - 1 - f + 1 = k - f /\ (f <= k - 1 \/ k - f = 0)
    BY <1>1
  <2> HIDE DEF a
  <2> QED
    BY <1>1, <2>3, <2>4
<1>3. b \in Seq(S) /\ Len(b) = k - f + 1 /\ \A j \in 1 .. k - f + 1 : b[j] = s[f + j - 1]
  <2>1. \A j \in f .. k : s[j] \in S
    BY <1>1
  <2>2. /\ b \in Seq(S) /\ Len(b) = IF f <= k THEN k - f + 1 ELSE 0
        /\ \A j \in 1 .. k - f + 1 : b[j] = s[f + j - 1]
    BY <1>1, <2>1, SubSeqProperties
  <2> HIDE DEF b
  <2> QED
    BY <1>1, <2>2
<1>4. f = k => a = <<>>
  BY <1>1, SubSeqEmpty
<1> HIDE DEF a, b
<1> DEFINE c == Append(a, s[k])
           m == k - f
<1>5. c \in Seq(S) /\ Len(c) = m + 1 /\ c[m + 1] = s[k] /\ \A j \in 1 .. m : c[j] = a[j]
  BY <1>1, <1>2, AppendProperties
<1> HIDE DEF c
<1>6. ASSUME NEW j \in 1 .. m + 1 PROVE b[j] = c[j]
  <2>1. CASE j = m + 1
    <3>1. f + j - 1 = k
      BY <1>1, <2>1
    <3> QED
      BY <1>3, <1>5, <2>1, <3>1
  <2>2. CASE j # m + 1
    <3>1. j \in 1 .. m
      BY <1>1, <2>2
    <3> QED
      BY <1>2, <1>3, <1>5, <3>1
  <2> QED
    BY <2>1, <2>2
<1>7. b = c
  <2>1. b = [j \in 1 .. m + 1 |-> b[j]] /\ c = [j \in 1 .. m + 1 |-> c[j]]
    BY <1>3, <1>5
  <2> QED
    BY <1>6, <2>1
<1> QED
  BY <1>2, <1>4, <1>7 DEF a, b, c

\* the states of the parser after each line
IsRead(lines, r) ==
    r = [k \in 0 .. Len(lines) |-> IF k = 0 THEN NothingRead ELSE ReadLine(r[k - 1], lines[k])]

\* There are such states.
LEMMA ReadExists ==
    ASSUME NEW lines \in Seq(RobotsLines)
    PROVE  \E r : IsRead(lines, r)
<1> DEFINE n == Len(lines)
           V == {lines[k].value : k \in 1 .. n}
           X == RobotsStates(V)
           next(k) == [st \in X |-> ReadLine(st, lines[k])]
           step == [k \in 1 .. n |-> next(k)]
<1>1. n \in Nat /\ \A k \in 1 .. n : lines[k] \in RobotsLines /\ lines[k].value \in V
  OBVIOUS
<1>2. NothingRead \in X
  <2>1. NoRule \in RobotsRules(V)
    BY DEF NoRule, RobotsRules
  <2>2. <<>> \in [{} -> RobotsRules(V)] /\ {} \in SUBSET V
    OBVIOUS
  <2> HIDE DEF V
  <2> QED
    BY <2>1, <2>2 DEF NothingRead, RobotsStates
<1>3. ASSUME NEW k \in 1 .. n PROVE next(k) \in [X -> X]
  <2> HIDE DEF n, V
  <2>1. \A st \in X : ReadLine(st, lines[k]) \in X
    BY <1>1, ReadLineTypes
  <2> HIDE DEF X
  <2> QED
    BY <2>1
<1>4. step \in [1 .. n -> [X -> X]]
  <2> HIDE DEF X
  <2> QED
    BY <1>3
<1>5. PICK r : r \in Results(X, n, NothingRead, step)
  <2> HIDE DEF X, step, n
  <2> QED
    BY <1>1, <1>2, <1>4, Iterates, SMTT(30)
<1>6. /\ r \in [0 .. n -> X] /\ r[0] = NothingRead
      /\ \A k \in 1 .. n : r[k] = step[k][r[k - 1]]
  BY <1>5 DEF Results
<1> HIDE DEF X
<1>7. ASSUME NEW k \in 1 .. n PROVE r[k] = ReadLine(r[k - 1], lines[k])
  <2>1. k - 1 \in 0 .. n
    BY <1>1
  <2>2. r[k - 1] \in X
    BY <1>6, <2>1
  <2> QED
    BY <1>6, <2>2
<1> DEFINE d == [k \in 0 .. n |-> IF k = 0 THEN NothingRead ELSE ReadLine(r[k - 1], lines[k])]
<1>8. ASSUME NEW k \in 0 .. n PROVE r[k] = d[k]
  <2>1. k = 0 \/ k \in 1 .. n
    BY <1>1
  <2> QED
    BY <1>6, <1>7, <2>1
<1>9. r = d
  BY <1>6, <1>8
<1> QED
  BY <1>9 DEF IsRead

NamesAgent(lines, k, g) == lines[k].directive = "agent" /\ lines[k].value = g

\* a line that names an agent for the first time
IsNew(lines, k) ==
    /\ lines[k].directive = "agent"
    /\ \A m \in 1 .. k - 1 : ~NamesAgent(lines, m, lines[k].value)

\* f is the latest such line up to k
BeginsGroup(lines, f, k) ==
    f \in 1 .. k /\ IsNew(lines, f) /\ \A m \in f + 1 .. k : ~IsNew(lines, m)

\* m is the last line up to k that names the agent
NamedLast(lines, g, m, k) ==
    m \in 1 .. k /\ NamesAgent(lines, m, g) /\ \A j \in m + 1 .. k : ~NamesAgent(lines, j, g)

AgentsIn(lines, k) == ValuesIn(lines, "agent", k)

\* What the parser has after k lines: the rule being read has the lines since the latest new
\* agent; that of an agent those up to the line that named it last.
ReadRight(lines, st, k) ==
    /\ st = [rule |-> st.rule, rules |-> st.rules]
    /\ st.rules = [g \in AgentsIn(lines, k) |-> st.rules[g]]
    /\ AgentsIn(lines, k) # {} =>
         \E f : BeginsGroup(lines, f, k) /\ st.rule = RuleOf(SubSeq(lines, f, k))
    /\ \A g \in AgentsIn(lines, k) :
         \E m, f : /\ NamedLast(lines, g, m, k) /\ BeginsGroup(lines, f, m)
                   /\ st.rules[g] = RuleOf(SubSeq(lines, f, m))

\* The agents after one line more.
LEMMA AgentsGrow ==
    ASSUME NEW lines, NEW k \in Nat \ {0}
    PROVE  AgentsIn(lines, k) = IF lines[k].directive = "agent"
                                THEN AgentsIn(lines, k - 1) \cup {lines[k].value}
                                ELSE AgentsIn(lines, k - 1)
<1>1. {m \in 1 .. k : lines[m].directive = "agent"} =
        {m \in 1 .. k - 1 : lines[m].directive = "agent"}
          \cup IF lines[k].directive = "agent" THEN {k} ELSE {}
  OBVIOUS
<1> QED
  BY <1>1 DEF AgentsIn, ValuesIn

\* A line that is no new agent leaves the group as it is.
LEMMA GroupGoesOn ==
    ASSUME NEW lines, NEW k \in Nat \ {0}, NEW f, BeginsGroup(lines, f, k - 1), ~IsNew(lines, k)
    PROVE  BeginsGroup(lines, f, k)
<1>1. f \in 1 .. k - 1 /\ IsNew(lines, f) /\ \A m \in f + 1 .. k - 1 : ~IsNew(lines, m)
  BY DEF BeginsGroup
<1>2. \A m \in f + 1 .. k : m = k \/ m \in f + 1 .. k - 1
  BY <1>1
<1>3. f \in 1 .. k
  BY <1>1
<1> QED
  BY <1>1, <1>2, <1>3 DEF BeginsGroup

\* A line of another kind, or of another agent, does not name the agent.
LEMMA NamedBefore ==
    ASSUME NEW lines, NEW k \in Nat \ {0}, NEW g, NEW m, NamedLast(lines, g, m, k - 1),
           ~NamesAgent(lines, k, g)
    PROVE  NamedLast(lines, g, m, k)
<1>1. m \in 1 .. k - 1 /\ NamesAgent(lines, m, g)
      /\ \A j \in m + 1 .. k - 1 : ~NamesAgent(lines, j, g)
  BY DEF NamedLast
<1>2. \A j \in m + 1 .. k : j = k \/ j \in m + 1 .. k - 1
  BY <1>1
<1>3. m \in 1 .. k
  BY <1>1
<1> QED
  BY <1>1, <1>2, <1>3 DEF NamedLast

\* What the other agents have stays right.
LEMMA OthersStay ==
    ASSUME NEW lines, NEW k \in Nat \ {0}, NEW st, ReadRight(lines, st, k - 1),
           NEW g \in AgentsIn(lines, k - 1), ~NamesAgent(lines, k, g)
    PROVE  \E m, f : /\ NamedLast(lines, g, m, k) /\ BeginsGroup(lines, f, m)
                     /\ st.rules[g] = RuleOf(SubSeq(lines, f, m))
<1>1. PICK m, f : /\ NamedLast(lines, g, m, k - 1) /\ BeginsGroup(lines, f, m)
                  /\ st.rules[g] = RuleOf(SubSeq(lines, f, m))
  BY DEF ReadRight
<1>2. NamedLast(lines, g, m, k)
  BY <1>1, NamedBefore
<1> QED
  BY <1>1, <1>2

\* A line that names an agent.
LEMMA AgentRead ==
    ASSUME NEW lines \in Seq(RobotsLines), NEW k \in 1 .. Len(lines), NEW st,
           ReadRight(lines, st, k - 1), lines[k].directive = "agent"
    PROVE  ReadRight(lines, ReadLine(st, lines[k]), k)
<1> DEFINE l == lines[k]
           g == l.value
           A == AgentsIn(lines, k - 1)
           cur == IF g \in DOMAIN st.rules THEN st.rule ELSE NoRule
           rules == Store(st.rules, g, cur)
           new == [rule |-> cur, rules |-> rules]
<1>1. k \in Nat \ {0} /\ k - 1 \in Nat /\ l \in RobotsLines
  OBVIOUS
<1>2. ReadLine(st, l) = new
  BY DEF ReadLine
<1>3. DOMAIN st.rules = A /\ st.rules = [h \in A |-> st.rules[h]]
  BY DEF ReadRight
<1>4. AgentsIn(lines, k) = A \cup {g}
  BY <1>1, AgentsGrow
<1>5. A = {lines[m].value : m \in {j \in 1 .. k - 1 : lines[j].directive = "agent"}}
  BY DEF AgentsIn, ValuesIn
<1>6. PICK f : BeginsGroup(lines, f, k) /\ cur = RuleOf(SubSeq(lines, f, k))
  <2>1. CASE g \in A
    <3>1. cur = st.rule
      BY <1>3, <2>1
    <3>2. PICK f : BeginsGroup(lines, f, k - 1) /\ st.rule = RuleOf(SubSeq(lines, f, k - 1))
      BY <2>1 DEF ReadRight
    <3>3. ~IsNew(lines, k)
      BY <1>5, <2>1 DEF IsNew, NamesAgent
    <3>4. BeginsGroup(lines, f, k)
      BY <1>1, <3>2, <3>3, GroupGoesOn
    <3>5. f \in 1 .. k
      BY <3>4 DEF BeginsGroup
    <3>6. SubSeq(lines, f, k) = Append(SubSeq(lines, f, k - 1), l)
          /\ SubSeq(lines, f, k - 1) \in Seq(RobotsLines)
      BY <3>5, PartGrows
    <3>7. RuleOf(SubSeq(lines, f, k)) = RuleOf(SubSeq(lines, f, k - 1))
      BY <1>1, <3>6, RuleGrows
    <3> QED
      BY <3>1, <3>2, <3>4, <3>7
  <2>2. CASE g \notin A
    <3>1. cur = NoRule
      BY <1>3, <2>2
    <3>2. IsNew(lines, k)
      BY <1>5, <2>2 DEF IsNew, NamesAgent
    <3>3. BeginsGroup(lines, k, k)
      <4>1. k \in 1 .. k /\ k + 1 .. k = {}
        BY <1>1
      <4> QED
        BY <3>2, <4>1 DEF BeginsGroup
    <3>4. SubSeq(lines, k, k) = Append(<<>>, l)
      <4>1. k \in 1 .. k
        BY <1>1
      <4> QED
        BY <4>1, PartGrows
    <3>5. RuleOf(SubSeq(lines, k, k)) = NoRule
      <4>1. <<>> \in Seq(RobotsLines)
        OBVIOUS
      <4> QED
        BY <1>1, <3>4, <4>1, RuleGrows
    <3> QED
      BY <3>1, <3>3, <3>5
  <2> QED
    BY <2>1, <2>2
<1>7. NamedLast(lines, g, k, k)
  <2>1. k \in 1 .. k /\ k + 1 .. k = {}
    BY <1>1
  <2> QED
    BY <2>1 DEF NamedLast, NamesAgent
<1>8. rules = [h \in A \cup {g} |-> IF h = g THEN cur ELSE st.rules[h]]
  BY <1>3 DEF Store
<1>9. ASSUME NEW h \in A \cup {g}
      PROVE  \E m, e : /\ NamedLast(lines, h, m, k) /\ BeginsGroup(lines, e, m)
                       /\ rules[h] = RuleOf(SubSeq(lines, e, m))
  <2>1. CASE h = g
    <3>1. rules[h] = cur
      BY <1>8, <2>1
    <3> QED
      BY <1>6, <1>7, <2>1, <3>1
  <2>2. CASE h # g
    <3>1. rules[h] = st.rules[h] /\ h \in A /\ ~NamesAgent(lines, k, h)
      BY <1>8, <2>2 DEF NamesAgent
    <3> HIDE DEF rules, A
    <3>2. h \in AgentsIn(lines, k - 1)
      BY <3>1 DEF A
    <3> QED
      BY <1>1, <3>1, <3>2, OthersStay
  <2> QED
    BY <2>1, <2>2
<1>10. rules = [h \in A \cup {g} |-> rules[h]]
  BY <1>8
<1> HIDE DEF cur, rules, A
<1>11. new.rule = cur /\ new.rules = rules /\ new = [rule |-> new.rule, rules |-> new.rules]
  OBVIOUS
<1>12. \E e : BeginsGroup(lines, e, k) /\ new.rule = RuleOf(SubSeq(lines, e, k))
  BY <1>6, <1>11
<1>13. ASSUME NEW h \in AgentsIn(lines, k)
       PROVE  \E m, e : /\ NamedLast(lines, h, m, k) /\ BeginsGroup(lines, e, m)
                        /\ new.rules[h] = RuleOf(SubSeq(lines, e, m))
  BY <1>4, <1>9, <1>11
<1>14. new.rules = [h \in AgentsIn(lines, k) |-> new.rules[h]]
  BY <1>4, <1>10, <1>11
<1> HIDE DEF new
<1> QED
  BY <1>2, <1>11, <1>12, <1>13, <1>14 DEF ReadRight

\* A line of another kind.
LEMMA OtherRead ==
    ASSUME NEW lines \in Seq(RobotsLines), NEW k \in 1 .. Len(lines), NEW st,
           ReadRight(lines, st, k - 1), lines[k].directive # "agent"
    PROVE  ReadRight(lines, ReadLine(st, lines[k]), k)
<1> DEFINE l == lines[k]
           A == AgentsIn(lines, k - 1)
           new == ReadLine(st, l)
<1>1. k \in Nat \ {0} /\ k - 1 \in Nat /\ l \in RobotsLines
  OBVIOUS
<1>2. st = [rule |-> st.rule, rules |-> st.rules] /\ st.rules = [h \in A |-> st.rules[h]]
  BY DEF ReadRight
<1>3. AgentsIn(lines, k) = A
  BY <1>1, AgentsGrow
<1>4. ~IsNew(lines, k) /\ \A h : ~NamesAgent(lines, k, h)
  BY DEF IsNew, NamesAgent
<1>5. st.rules = <<>> <=> A = {}
  <2>1. st.rules = <<>> => A = {}
    BY <1>2
  <2>2. A = {} => st.rules = <<>>
    BY <1>2
  <2> QED
    BY <2>1, <2>2
<1>6. ASSUME NEW h \in A
      PROVE  \E m, f : /\ NamedLast(lines, h, m, k) /\ BeginsGroup(lines, f, m)
                       /\ st.rules[h] = RuleOf(SubSeq(lines, f, m))
  <2>1. h \in AgentsIn(lines, k - 1) /\ ~NamesAgent(lines, k, h)
    BY <1>4
  <2>2. ReadRight(lines, st, k - 1)
    OBVIOUS
  <2>3. k \in Nat \ {0}
    BY <1>1
  <2> HIDE DEF A, l
  <2>4. PICK m, f : /\ NamedLast(lines, h, m, k - 1) /\ BeginsGroup(lines, f, m)
                    /\ st.rules[h] = RuleOf(SubSeq(lines, f, m))
    BY <2>1, <2>2 DEF ReadRight
  <2>5. NamedLast(lines, h, m, k)
    BY <2>1, <2>3, <2>4, NamedBefore
  <2> QED
    BY <2>4, <2>5
<1>7. CASE A = {}
  <2>1. new = st
    BY <1>5, <1>7 DEF ReadLine
  <2> HIDE DEF new, A
  <2> QED
    BY <1>2, <1>3, <1>7, <2>1 DEF ReadRight, new, l
<1>8. CASE A # {}
  <2>1. new = [rule |-> AddLine(st.rule, l), rules |-> st.rules]
    <3>1. new = [st EXCEPT !.rule = AddLine(st.rule, l)]
      BY <1>5, <1>8 DEF ReadLine
    <3> HIDE DEF new
    <3> QED
      BY <1>2, <3>1
  <2>2. PICK f : BeginsGroup(lines, f, k - 1) /\ st.rule = RuleOf(SubSeq(lines, f, k - 1))
    BY <1>8 DEF ReadRight
  <2>3. BeginsGroup(lines, f, k)
    BY <1>1, <1>4, <2>2, GroupGoesOn
  <2>4. f \in 1 .. k
    BY <2>3 DEF BeginsGroup
  <2>5. SubSeq(lines, f, k) = Append(SubSeq(lines, f, k - 1), l)
        /\ SubSeq(lines, f, k - 1) \in Seq(RobotsLines)
    BY <2>4, PartGrows
  <2>6. RuleOf(SubSeq(lines, f, k)) = AddLine(st.rule, l)
    BY <1>1, <2>2, <2>5, RuleGrows
  <2> HIDE DEF new, A
  <2>7. new.rule = RuleOf(SubSeq(lines, f, k)) /\ new.rules = st.rules
        /\ new = [rule |-> new.rule, rules |-> new.rules]
    BY <2>1, <2>6
  <2>8. ReadRight(lines, new, k)
    BY <1>2, <1>3, <1>6, <2>3, <2>7 DEF ReadRight
  <2> QED
    BY <2>8 DEF new
<1> QED
  BY <1>7, <1>8

\* After each line the parser has what it should have.
LEMMA AllRead ==
    ASSUME NEW lines \in Seq(RobotsLines), NEW r, IsRead(lines, r)
    PROVE  ReadRight(lines, r[Len(lines)], Len(lines))
<1> DEFINE n == Len(lines)
           Good == {k \in 0 .. n : ReadRight(lines, r[k], k)}
           count == [k \in 0 .. n |-> k]
<1>1. n \in Nat
  OBVIOUS
<1>2. count[0] \in Good
  <2> DEFINE st == r[0]
  <2>1. st = NothingRead
    BY DEF IsRead
  <2>2. st = [rule |-> st.rule, rules |-> st.rules] /\ st.rules = <<>>
    BY <2>1 DEF NothingRead
  <2>3. AgentsIn(lines, 0) = {}
    BY DEF AgentsIn, ValuesIn
  <2> HIDE DEF st
  <2>4. st.rules = [g \in {} |-> st.rules[g]]
    BY <2>2
  <2>5. ReadRight(lines, st, 0)
    BY <2>2, <2>3, <2>4 DEF ReadRight
  <2> QED
    BY <1>1, <2>5 DEF st
<1>3. ASSUME NEW k \in 1 .. n, count[k - 1] \in Good PROVE count[k] \in Good
  <2>1. k - 1 \in 0 .. n /\ k \in 0 .. n /\ k # 0 /\ k \in 1 .. Len(lines)
    BY <1>1
  <2>2. ReadRight(lines, r[k - 1], k - 1)
    BY <1>3, <2>1
  <2>3. r[k] = ReadLine(r[k - 1], lines[k])
    BY <2>1 DEF IsRead
  <2> DEFINE st == r[k - 1]
  <2> HIDE DEF st
  <2>4. ReadRight(lines, st, k - 1)
    BY <2>2 DEF st
  <2>5. ReadRight(lines, ReadLine(st, lines[k]), k)
    <3>1. CASE lines[k].directive = "agent"
      BY <2>1, <2>4, <3>1, AgentRead
    <3>2. CASE lines[k].directive # "agent"
      BY <2>1, <2>4, <3>2, OtherRead
    <3> QED
      BY <3>1, <3>2
  <2>6. ReadRight(lines, r[k], k)
    BY <2>3, <2>5 DEF st
  <2> QED
    BY <2>1, <2>6
<1>4. \A k \in 0 .. n : count[k] \in Good
  <2> HIDE DEF count, Good, n
  <2> QED
    BY <1>1, <1>2, <1>3, AllAlong
<1>5. n \in 0 .. n
  BY <1>1
<1> QED
  BY <1>4, <1>5

\* So it has at the end, and what it returns are the rules.
LEMMA ParseIsRead ==
    ASSUME NEW lines \in Seq(RobotsLines)
    PROVE  \E st : ReadRight(lines, st, Len(lines)) /\ ParseRobotsTxt(lines) = st.rules
<1> DEFINE r == CHOOSE f : IsRead(lines, f)
<1>1. IsRead(lines, r)
  <2>1. \E f : IsRead(lines, f)
    BY ReadExists
  <2> QED
    BY <2>1
<1>2. ParseRobotsTxt(lines) = r[Len(lines)].rules
  BY DEF ParseRobotsTxt, IsRead
<1> HIDE DEF r
<1> QED
  BY <1>1, <1>2, AllRead

\* The greatest element of a set, where it is known.
LEMMA GreatestIs ==
    ASSUME NEW T, T \in SUBSET Int, NEW m \in T, \A k \in T : k <= m
    PROVE  Max(T) = m
<1>1. \A x \in T : (\A y \in T : x >= y) => x = m
  <2> SUFFICES ASSUME NEW x \in T, \A y \in T : x >= y PROVE x = m
    OBVIOUS
  <2>1. x \in Int /\ m \in Int /\ x >= m /\ x <= m
    OBVIOUS
  <2> QED
    BY <2>1
<1>2. \A y \in T : m >= y
  <2> TAKE y \in T
  <2>1. y \in Int /\ m \in Int /\ y <= m
    OBVIOUS
  <2> QED
    BY <2>1
<1>3. Max(T) \in T /\ \A y \in T : Max(T) >= y
  BY <1>2 DEF Max
<1> QED
  BY <1>1, <1>3

\* The lines kept for an agent, where the last that names it and the new agent before are known.
LEMMA KeptAre ==
    ASSUME NEW lines \in Seq(RobotsLines), NEW g, NEW m, NEW f,
           NamedLast(lines, g, m, Len(lines)), BeginsGroup(lines, f, m)
    PROVE  KeptLines(lines, g) = SubSeq(lines, f, m)
<1> DEFINE n == Len(lines)
           T == {k \in DOMAIN lines : NamesAgent(lines, k, g)}
           New(b) == {k \in 1 .. b : IsNew(lines, k)}
<1>1. n \in Nat /\ DOMAIN lines = 1 .. n
  OBVIOUS
<1>2. m \in 1 .. n /\ NamesAgent(lines, m, g) /\ \A j \in m + 1 .. n : ~NamesAgent(lines, j, g)
  BY DEF NamedLast
<1>3. f \in 1 .. m /\ IsNew(lines, f) /\ \A j \in f + 1 .. m : ~IsNew(lines, j)
  BY DEF BeginsGroup
<1> HIDE DEF n
<1>4. Max(T) = m
  <2>1. T \in SUBSET Int /\ m \in T
    BY <1>1, <1>2
  <2>2. ASSUME NEW k \in T PROVE k <= m
    <3>1. k \in 1 .. n /\ NamesAgent(lines, k, g)
      BY <1>1
    <3>2. k \notin m + 1 .. n
      BY <1>2, <3>1
    <3> QED
      BY <1>1, <1>2, <3>1, <3>2
  <2> HIDE DEF T
  <2> QED
    BY <2>1, <2>2, GreatestIs
<1>5. Max(New(m)) = f
  <2> DEFINE U == New(m)
  <2>1. U \in SUBSET Int /\ f \in U
    BY <1>2, <1>3
  <2>2. ASSUME NEW k \in U PROVE k <= f
    <3>1. k \in 1 .. m /\ IsNew(lines, k) /\ m \in Int
      BY <1>2
    <3>2. k \notin f + 1 .. m
      BY <1>3, <3>1
    <3> QED
      BY <1>3, <3>1, <3>2
  <2> HIDE DEF U
  <2>3. Max(U) = f
    BY <2>1, <2>2, GreatestIs
  <2> QED
    BY <2>3 DEF U
<1>6. KeptLines(lines, g) = SubSeq(lines, Max(New(Max(T))), Max(T))
  BY DEF KeptLines, NamesAgent, IsNew
<1> HIDE DEF T, New
<1> QED
  BY <1>4, <1>5, <1>6

\* What is returned of a file is what KeptLines says of it.
LEMMA RulesAreKept ==
    ASSUME NEW lines \in Seq(RobotsLines)
    PROVE  LET rules == ParseRobotsTxt(lines)
           IN  /\ DOMAIN rules = Range(Values(lines, "agent"))
               /\ \A g \in DOMAIN rules : rules[g] = RuleOf(KeptLines(lines, g))
<1> DEFINE rules == ParseRobotsTxt(lines)
           n == Len(lines)
<1>1. PICK st : ReadRight(lines, st, n) /\ rules = st.rules
  BY ParseIsRead
<1>2. DOMAIN rules = AgentsIn(lines, n)
  BY <1>1 DEF ReadRight
<1>3. AgentsIn(lines, n) = Range(Values(lines, "agent"))
  BY ValuesAre DEF AgentsIn
<1>4. ASSUME NEW g \in DOMAIN rules PROVE rules[g] = RuleOf(KeptLines(lines, g))
  <2>1. PICK m, f : /\ NamedLast(lines, g, m, n) /\ BeginsGroup(lines, f, m)
                    /\ rules[g] = RuleOf(SubSeq(lines, f, m))
    <3> HIDE DEF rules
    <3> QED
      BY <1>1, <1>2 DEF ReadRight
  <2>2. KeptLines(lines, g) = SubSeq(lines, f, m)
    BY <2>1, KeptAre
  <2> QED
    BY <2>1, <2>2
<1> QED
  BY <1>2, <1>3, <1>4

\* A reading of robots.txt keeps of it what it should.
LEMMA RobotsRight ==
    ASSUME ReadRobots
    PROVE  RobotsKept'
<1>1. PICK lines \in UNION {[1 .. n -> RobotsLines] : n \in 0 .. MaxLines} :
         call' = [op |-> "robots", lines |-> lines, result |-> ParseRobotsTxt(lines),
                  forbidden |-> {path \in Urls : ~IsAllowed(ParseRobotsTxt(lines), "*", path)}]
  BY DEF ReadRobots, Call
<1> DEFINE rules == ParseRobotsTxt(lines)
           agents == Range(Values(lines, "agent"))
           forbidden == {path \in Urls : ~IsAllowed(rules, "*", path)}
<1>2. lines \in Seq(RobotsLines)
  <2>1. PICK n \in 0 .. MaxLines : lines \in [1 .. n -> RobotsLines]
    OBVIOUS
  <2>2. n \in Nat
    BY QueryAssumption
  <2> QED
    BY <2>1, <2>2
<1>3. call'.lines = lines /\ call'.result = rules /\ call'.forbidden = forbidden
  BY <1>1
<1>4. /\ DOMAIN rules = agents
      /\ \A g \in agents : rules[g] = RuleOf(KeptLines(lines, g))
  BY <1>2, RulesAreKept
<1> HIDE DEF rules
<1>5. ASSUME NEW g \in agents
      PROVE  LET group == KeptLines(lines, g)
             IN  /\ rules[g].allow = Values(group, "allow")
                 /\ rules[g].disallow = Values(group, "disallow")
                 /\ rules[g].delay = IF Values(group, "delay") = <<>> THEN 0
                                     ELSE Last(Values(group, "delay"))
  BY <1>4 DEF RuleOf
<1>6. forbidden = IF "*" \notin agents THEN {}
                  ELSE {path \in Urls :
                          \E d \in Range(Values(KeptLines(lines, "*"), "disallow")) :
                             IsPrefix(d, path)}
  <2> DEFINE vs == Values(KeptLines(lines, "*"), "disallow")
  <2>1. CASE "*" \notin agents
    BY <1>4, <2>1 DEF IsAllowed
  <2>2. CASE "*" \in agents
    <3>1. rules["*"].disallow = vs
      BY <1>5, <2>2
    <3> HIDE DEF vs
    <3>2. \A path : ~IsAllowed(rules, "*", path) <=> \E k \in DOMAIN vs : IsPrefix(vs[k], path)
      BY <1>4, <2>2, <3>1 DEF IsAllowed
    <3>3. forbidden = {path \in Urls : \E d \in Range(vs) : IsPrefix(d, path)}
      BY <3>2 DEF Range
    <3> QED
      BY <2>2, <3>3 DEF vs
  <2> QED
    BY <2>1, <2>2
<1> HIDE DEF agents, forbidden
<1> QED
  BY <1>3, <1>4, <1>5, <1>6 DEF RobotsKept, agents

\* ParseRobotsTxt keeps for each agent the allowed and the disallowed paths and the delay of
\* the lines from the new agent before its last line up to that line, and refuses by them
\* (robotsTXT.go:23-95).
THEOREM RobotsRead == QuerySpec => []RobotsKept
<1>1. QueryInit => RobotsKept
  BY DEF QueryInit, NoCall, RobotsKept
<1>2. RobotsKept /\ [QueryNext]_queryVars => RobotsKept'
  <2> SUFFICES ASSUME RobotsKept, [QueryNext]_queryVars
               PROVE  RobotsKept'
    OBVIOUS
  <2>1. CASE ReadRobots
    BY <2>1, RobotsRight
  <2>2. CASE UNCHANGED call
    BY <2>2 DEF RobotsKept
  <2>3. CASE call'.op # "robots"
    BY <2>3 DEF RobotsKept
  <2>4. ReadRobots \/ UNCHANGED call \/ call'.op # "robots"
    BY CallsApart
  <2> QED
    BY <2>1, <2>2, <2>3, <2>4
<1> QED
  BY <1>1, <1>2, PTL DEF QuerySpec

-----------------------------------------------------------------------------
(* The edit distance                                                       *)

\* the places of u whose letter faces another one in v
Differ(u, v, f) == {k \in DOMAIN f : u[k] # v[f[k]]}

\* what an alignment costs, of n letters of u and m of v
Cost(u, v, n, m, f) == n + m - 2 * Cardinality(DOMAIN f) + Cardinality(Differ(u, v, f))

Costs(u, v, n, m) == {Cost(u, v, n, m, f) : f \in Alignments(n, m)}

IsDistance(u, v, n, m, d) ==
    /\ d \in Nat
    /\ \E f \in Alignments(n, m) : Cost(u, v, n, m, f) = d
    /\ \A f \in Alignments(n, m) : d <= Cost(u, v, n, m, f)

\* the alignment without what faces one place of it
Without(f, k) == [x \in DOMAIN f \ {k} |-> f[x]]

\* What an alignment is.
LEMMA AlignmentIs ==
    ASSUME NEW n \in Nat, NEW m \in Nat, NEW f
    PROVE  f \in Alignments(n, m) <=>
              /\ f = [x \in DOMAIN f |-> f[x]]
              /\ DOMAIN f \subseteq 1 .. n
              /\ \A x \in DOMAIN f : f[x] \in 1 .. m
              /\ \A x, y \in DOMAIN f : x < y => f[x] < f[y]
<1>1. ASSUME f \in Alignments(n, m)
      PROVE  /\ f = [x \in DOMAIN f |-> f[x]]
             /\ DOMAIN f \subseteq 1 .. n
             /\ \A x \in DOMAIN f : f[x] \in 1 .. m
             /\ \A x, y \in DOMAIN f : x < y => f[x] < f[y]
  <2>1. PICK A \in SUBSET (1 .. n) : f \in [A -> 1 .. m]
    BY <1>1 DEF Alignments
  <2> QED
    BY <1>1, <2>1 DEF Alignments
<1>2. ASSUME f = [x \in DOMAIN f |-> f[x]],
             DOMAIN f \subseteq 1 .. n,
             \A x \in DOMAIN f : f[x] \in 1 .. m,
             \A x, y \in DOMAIN f : x < y => f[x] < f[y]
      PROVE  f \in Alignments(n, m)
  <2>1. DOMAIN f \in SUBSET (1 .. n) /\ f \in [DOMAIN f -> 1 .. m]
    BY <1>2
  <2>2. f \in UNION {[A -> 1 .. m] : A \in SUBSET (1 .. n)}
    BY <2>1
  <2> QED
    BY <1>2, <2>2 DEF Alignments
<1> QED
  BY <1>1, <1>2

\* Its sizes are numbers.
LEMMA AlignmentSizes ==
    ASSUME NEW u, NEW v, NEW n \in Nat, NEW m \in Nat, NEW f \in Alignments(n, m)
    PROVE  /\ IsFiniteSet(DOMAIN f) /\ Cardinality(DOMAIN f) \in Nat
           /\ Cardinality(DOMAIN f) <= n
           /\ IsFiniteSet(Differ(u, v, f)) /\ Cardinality(Differ(u, v, f)) \in Nat
           /\ Cost(u, v, n, m, f) \in Int
<1>1. DOMAIN f \subseteq 1 .. n
  BY AlignmentIs
<1>2. IsFiniteSet(1 .. n) /\ Cardinality(1 .. n) = n
  <2>1. IsFiniteSet(1 .. n) /\ Cardinality(1 .. n) = IF 1 > n THEN 0 ELSE n - 1 + 1
    BY FS_Interval
  <2> QED
    BY <2>1
<1>3. IsFiniteSet(DOMAIN f) /\ Cardinality(DOMAIN f) <= n
  BY <1>1, <1>2, FS_Subset
<1>4. IsFiniteSet(Differ(u, v, f))
  <2>1. Differ(u, v, f) \in SUBSET DOMAIN f
    BY DEF Differ
  <2> QED
    BY <1>3, <2>1, FS_Subset
<1>5. Cardinality(DOMAIN f) \in Nat /\ Cardinality(Differ(u, v, f)) \in Nat
  BY <1>3, <1>4, FS_CardinalityType
<1> QED
  BY <1>3, <1>4, <1>5 DEF Cost

\* An alignment is one of more places too.
LEMMA MorePlaces ==
    ASSUME NEW n \in Nat, NEW m \in Nat, NEW p \in Nat, NEW q \in Nat,
           n <= p, m <= q, NEW f \in Alignments(n, m)
    PROVE  f \in Alignments(p, q)
<1>1. /\ f = [x \in DOMAIN f |-> f[x]]
      /\ DOMAIN f \subseteq 1 .. n
      /\ \A x \in DOMAIN f : f[x] \in 1 .. m
      /\ \A x, y \in DOMAIN f : x < y => f[x] < f[y]
  BY AlignmentIs
<1>2. DOMAIN f \subseteq 1 .. p /\ \A x \in DOMAIN f : f[x] \in 1 .. q
  BY <1>1
<1> QED
  BY <1>1, <1>2, AlignmentIs

\* A letter more that faces nothing costs 1.
LEMMA LetterMore ==
    ASSUME NEW u, NEW v, NEW n \in Nat, NEW m \in Nat, NEW f \in Alignments(n, m)
    PROVE  /\ f \in Alignments(n + 1, m) /\ f \in Alignments(n, m + 1)
           /\ Cost(u, v, n + 1, m, f) = Cost(u, v, n, m, f) + 1
           /\ Cost(u, v, n, m + 1, f) = Cost(u, v, n, m, f) + 1
<1>1. f \in Alignments(n + 1, m) /\ f \in Alignments(n, m + 1)
  <2> DEFINE p == n + 1
             q == m + 1
  <2>1. p \in Nat /\ q \in Nat /\ n <= p /\ m <= q /\ n <= n /\ m <= m
    OBVIOUS
  <2> HIDE DEF p, q
  <2>2. f \in Alignments(p, m) /\ f \in Alignments(n, q)
    BY <2>1, MorePlaces
  <2> QED
    BY <2>2 DEF p, q
<1>2. Cardinality(DOMAIN f) \in Nat /\ Cardinality(Differ(u, v, f)) \in Nat
  BY AlignmentSizes
<1> QED
  BY <1>1, <1>2 DEF Cost

\* It is one of fewer places, if it does not use the others.
LEMMA FewerPlaces ==
    ASSUME NEW n \in Nat, NEW m \in Nat, NEW p \in Nat, NEW q \in Nat,
           NEW f \in Alignments(n, m),
           \A x \in DOMAIN f : x <= p /\ f[x] <= q
    PROVE  f \in Alignments(p, q)
<1>1. /\ f = [x \in DOMAIN f |-> f[x]]
      /\ DOMAIN f \subseteq 1 .. n
      /\ \A x \in DOMAIN f : f[x] \in 1 .. m
      /\ \A x, y \in DOMAIN f : x < y => f[x] < f[y]
  BY AlignmentIs
<1>2. DOMAIN f \subseteq 1 .. p /\ \A x \in DOMAIN f : f[x] \in 1 .. q
  BY <1>1
<1> QED
  BY <1>1, <1>2, AlignmentIs

\* g is f without its pair at k
IsWithout(u, v, n, m, f, k, g) ==
    /\ g \in Alignments(n, m)
    /\ DOMAIN g = DOMAIN f \ {k}
    /\ \A x \in DOMAIN g : g[x] = f[x]
    /\ Cardinality(DOMAIN g) = Cardinality(DOMAIN f) - 1
    /\ Cardinality(Differ(u, v, g)) =
         Cardinality(Differ(u, v, f)) - IF u[k] = v[f[k]] THEN 0 ELSE 1

\* Where a pair is taken away.
LEMMA PairTaken ==
    ASSUME NEW u, NEW v, NEW n \in Nat, NEW m \in Nat, NEW f \in Alignments(n, m),
           NEW k \in DOMAIN f
    PROVE  IsWithout(u, v, n, m, f, k, Without(f, k))
<1> DEFINE g == Without(f, k)
<1>1. /\ DOMAIN f \subseteq 1 .. n
      /\ \A x \in DOMAIN f : f[x] \in 1 .. m
      /\ \A x, y \in DOMAIN f : x < y => f[x] < f[y]
  BY AlignmentIs
<1>2. /\ DOMAIN g = DOMAIN f \ {k} /\ (\A x \in DOMAIN g : g[x] = f[x])
      /\ g = [x \in DOMAIN g |-> g[x]]
  BY DEF Without
<1> HIDE DEF g
<1>3. /\ DOMAIN g \subseteq 1 .. n
      /\ \A x \in DOMAIN g : g[x] \in 1 .. m
      /\ \A x, y \in DOMAIN g : x < y => g[x] < g[y]
  BY <1>1, <1>2
<1>4. g \in Alignments(n, m)
  BY <1>2, <1>3, AlignmentIs
<1>5. IsFiniteSet(DOMAIN f) /\ IsFiniteSet(Differ(u, v, f))
      /\ Cardinality(Differ(u, v, f)) \in Nat
  BY AlignmentSizes
<1>6. Cardinality(DOMAIN g) = Cardinality(DOMAIN f) - 1
  BY <1>2, <1>5, FS_RemoveElement
<1>7. Differ(u, v, g) = Differ(u, v, f) \ {k}
  BY <1>2 DEF Differ
<1>8. k \in Differ(u, v, f) <=> u[k] # v[f[k]]
  BY DEF Differ
<1>9. Cardinality(Differ(u, v, g)) =
        Cardinality(Differ(u, v, f)) - IF u[k] = v[f[k]] THEN 0 ELSE 1
  <2>1. Cardinality(Differ(u, v, g)) = IF k \in Differ(u, v, f)
                                       THEN Cardinality(Differ(u, v, f)) - 1
                                       ELSE Cardinality(Differ(u, v, f))
    BY <1>5, <1>7, FS_RemoveElement
  <2> QED
    BY <1>5, <1>8, <2>1
<1> QED
  BY <1>2, <1>4, <1>6, <1>9 DEF g, IsWithout

\* g is f without the pair at the end of u
IsCut(u, v, n, m, f, g) ==
    /\ f[n] \in 1 .. m /\ g \in Alignments(n - 1, f[n] - 1)
    /\ Cost(u, v, n, m, f) = Cost(u, v, n - 1, f[n] - 1, g) + (m - f[n])
                               + IF u[n] = v[f[n]] THEN 0 ELSE 1

\* Without the pair at the end of u it is an alignment of what is before.
LEMMA CutAt ==
    ASSUME NEW u, NEW v, NEW n \in Nat \ {0}, NEW m \in Nat, NEW f \in Alignments(n, m),
           n \in DOMAIN f
    PROVE  IsCut(u, v, n, m, f, Without(f, n))
<1> DEFINE g == Without(f, n)
           q == f[n]
           c == Cardinality(DOMAIN f)
           d == Cardinality(Differ(u, v, f))
           e == IF u[n] = v[q] THEN 0 ELSE 1
<1>1. /\ DOMAIN f \subseteq 1 .. n
      /\ \A x \in DOMAIN f : f[x] \in 1 .. m
      /\ \A x, y \in DOMAIN f : x < y => f[x] < f[y]
  BY AlignmentIs
<1>2. /\ g \in Alignments(n, m)
      /\ DOMAIN g = DOMAIN f \ {n}
      /\ \A x \in DOMAIN g : g[x] = f[x]
      /\ Cardinality(DOMAIN g) = c - 1
      /\ Cardinality(Differ(u, v, g)) = d - e
  <2>1. n \in Nat
    OBVIOUS
  <2>2. IsWithout(u, v, n, m, f, n, g)
    BY <2>1, PairTaken
  <2> QED
    BY <2>2 DEF IsWithout
<1>3. c \in Nat /\ d \in Nat
  BY AlignmentSizes
<1> HIDE DEF g, c, d
<1>4. q \in 1 .. m
  BY <1>1
<1>5. \A x \in DOMAIN g : x <= n - 1 /\ g[x] <= q - 1
  <2> TAKE x \in DOMAIN g
  <2>1. x \in DOMAIN f /\ x # n /\ g[x] = f[x]
    BY <1>2
  <2>2. x \in 1 .. n /\ f[x] \in 1 .. m
    BY <1>1, <2>1
  <2>3. x < n
    BY <2>1, <2>2
  <2>4. f[x] < q
    BY <1>1, <2>1, <2>3
  <2> QED
    BY <1>4, <2>1, <2>2, <2>3, <2>4
<1>6. g \in Alignments(n - 1, q - 1)
  <2> DEFINE a == n - 1
             b == q - 1
  <2>1. a \in Nat /\ b \in Nat /\ n \in Nat
    BY <1>4
  <2>2. \A x \in DOMAIN g : x <= a /\ g[x] <= b
    BY <1>5
  <2> HIDE DEF a, b, q
  <2>3. g \in Alignments(a, b)
    BY <1>2, <2>1, <2>2, FewerPlaces
  <2> QED
    BY <2>3 DEF a, b
<1>7. Cost(u, v, n, m, f) = n + m - 2 * c + d
  BY DEF Cost, c, d
<1>8. Cost(u, v, n - 1, q - 1, g) = n - 1 + (q - 1) - 2 * (c - 1) + (d - e)
  BY <1>2 DEF Cost
<1>9. e \in {0, 1}
  OBVIOUS
<1> HIDE DEF e, q
<1>10. Cost(u, v, n, m, f) = Cost(u, v, n - 1, q - 1, g) + (m - q) + e
  BY <1>3, <1>4, <1>7, <1>8, <1>9
<1> QED
  BY <1>4, <1>6, <1>10 DEF g, e, q, IsCut

\* The empty alignment, and what it costs.
LEMMA NothingFaced ==
    ASSUME NEW u, NEW v, NEW n \in Nat, NEW m \in Nat
    PROVE  /\ \E f \in Alignments(n, m) : Cost(u, v, n, m, f) = n + m
           /\ \A f \in Alignments(n, m) : DOMAIN f = {} => Cost(u, v, n, m, f) = n + m
<1>1. ASSUME NEW f, DOMAIN f = {} PROVE Cost(u, v, n, m, f) = n + m
  <2>1. Differ(u, v, f) = {}
    BY <1>1 DEF Differ
  <2>2. Cardinality(DOMAIN f) = 0 /\ Cardinality(Differ(u, v, f)) = 0
    BY <1>1, <2>1, FS_EmptySet
  <2> QED
    BY <2>2 DEF Cost
<1> DEFINE e == [x \in {} |-> x]
<1>2. e \in Alignments(n, m) /\ DOMAIN e = {}
  BY AlignmentIs
<1> HIDE DEF e
<1> QED
  BY <1>1, <1>2

\* It is the only one where there is no letter.
LEMMA OnlyNothing ==
    ASSUME NEW u, NEW v, NEW n \in Nat, NEW m \in Nat,
           \A f \in Alignments(n, m) : DOMAIN f = {}
    PROVE  IsDistance(u, v, n, m, n + m)
<1>1. \A f \in Alignments(n, m) : n + m <= Cost(u, v, n, m, f)
  BY NothingFaced
<1>2. \E f \in Alignments(n, m) : Cost(u, v, n, m, f) = n + m
  BY NothingFaced
<1> QED
  BY <1>1, <1>2 DEF IsDistance

\* The distance from no letter.
LEMMA FromNothing ==
    ASSUME NEW u, NEW v, NEW n \in Nat, NEW m \in Nat, n = 0 \/ m = 0
    PROVE  IsDistance(u, v, n, m, n + m)
<1>1. ASSUME NEW f \in Alignments(n, m) PROVE DOMAIN f = {}
  <2>1. DOMAIN f \subseteq 1 .. n /\ \A x \in DOMAIN f : f[x] \in 1 .. m
    BY AlignmentIs
  <2>2. 1 .. n = {} \/ 1 .. m = {}
    OBVIOUS
  <2> QED
    BY <2>1, <2>2
<1> QED
  BY <1>1, OnlyNothing

\* A pair of last letters more.
LEMMA PairAdded ==
    ASSUME NEW u, NEW v, NEW n \in Nat \ {0}, NEW m \in Nat \ {0},
           NEW g \in Alignments(n - 1, m - 1)
    PROVE  \E f \in Alignments(n, m) :
              Cost(u, v, n, m, f) =
                Cost(u, v, n - 1, m - 1, g) + IF u[n] = v[m] THEN 0 ELSE 1
<1> DEFINE f == [x \in DOMAIN g \cup {n} |-> IF x = n THEN m ELSE g[x]]
<1>0. n - 1 \in Nat /\ m - 1 \in Nat /\ n \in Nat /\ m \in Nat
  OBVIOUS
<1>1. /\ g = [x \in DOMAIN g |-> g[x]]
      /\ DOMAIN g \subseteq 1 .. n - 1
      /\ \A x \in DOMAIN g : g[x] \in 1 .. m - 1
      /\ \A x, y \in DOMAIN g : x < y => g[x] < g[y]
  BY <1>0, AlignmentIs
<1>2. /\ DOMAIN f = DOMAIN g \cup {n} /\ n \notin DOMAIN g /\ f[n] = m
      /\ \A x \in DOMAIN g : f[x] = g[x]
      /\ f = [x \in DOMAIN f |-> f[x]]
  BY <1>1
<1> HIDE DEF f
<1>3. DOMAIN f \subseteq 1 .. n
  BY <1>0, <1>1, <1>2
<1>4. ASSUME NEW x \in DOMAIN f PROVE f[x] \in 1 .. m
  <2>1. CASE x = n
    BY <1>2, <2>1
  <2>2. CASE x # n
    BY <1>1, <1>2, <2>2
  <2> QED
    BY <2>1, <2>2
<1>5. ASSUME NEW x \in DOMAIN f, NEW y \in DOMAIN f, x < y PROVE f[x] < f[y]
  <2>1. x \in 1 .. n /\ y \in 1 .. n
    BY <1>3
  <2>2. x # n /\ x \in DOMAIN g /\ f[x] = g[x] /\ g[x] \in 1 .. m - 1
    BY <1>1, <1>2, <1>5, <2>1
  <2>3. CASE y = n
    BY <1>2, <2>2, <2>3
  <2>4. CASE y # n
    BY <1>1, <1>2, <1>5, <2>2, <2>4
  <2> QED
    BY <2>3, <2>4
<1>6. f \in Alignments(n, m)
  BY <1>0, <1>2, <1>3, <1>4, <1>5, AlignmentIs
<1> DEFINE h == Without(f, n)
<1>7. h = g
  <2>1. h = [x \in DOMAIN g |-> f[x]]
    BY <1>2 DEF Without
  <2> QED
    BY <1>1, <1>2, <2>1
<1>8. n \in DOMAIN f
  BY <1>2
<1>9. Cost(u, v, n, m, f) = Cost(u, v, n - 1, f[n] - 1, h) + (m - f[n])
                              + IF u[n] = v[f[n]] THEN 0 ELSE 1
  <2>1. IsCut(u, v, n, m, f, h)
    BY <1>0, <1>6, <1>8, CutAt
  <2> QED
    BY <2>1 DEF IsCut
<1>10. Cost(u, v, n - 1, m - 1, g) \in Int
  BY <1>0, AlignmentSizes
<1>11. Cost(u, v, n, m, f) = Cost(u, v, n - 1, m - 1, g) + IF u[n] = v[m] THEN 0 ELSE 1
  BY <1>2, <1>7, <1>9, <1>10
<1> QED
  BY <1>6, <1>11

\* A pair less, or a letter less of either word: with neither of the last letters the
\* alignment costs no more.
LEMMA PairLess ==
    ASSUME NEW u, NEW v, NEW n \in Nat \ {0}, NEW m \in Nat \ {0}, NEW f \in Alignments(n, m)
    PROVE  \E g \in Alignments(n - 1, m - 1) :
              /\ Cost(u, v, n - 1, m - 1, g) <= Cost(u, v, n, m, f)
              /\ n \in DOMAIN f /\ f[n] = m /\ u[n] # v[m]
                   => Cost(u, v, n - 1, m - 1, g) + 1 <= Cost(u, v, n, m, f)
<1> DEFINE c == Cardinality(DOMAIN f)
           d == Cardinality(Differ(u, v, f))
           a == n - 1
           b == m - 1
<1>0. a \in Nat /\ b \in Nat /\ n \in Nat /\ m \in Nat /\ n = a + 1 /\ m = b + 1
  OBVIOUS
<1>1. /\ f = [x \in DOMAIN f |-> f[x]]
      /\ DOMAIN f \subseteq 1 .. n
      /\ \A x \in DOMAIN f : f[x] \in 1 .. m
      /\ \A x, y \in DOMAIN f : x < y => f[x] < f[y]
  BY <1>0, AlignmentIs
<1>2. c \in Nat /\ d \in Nat /\ Cost(u, v, n, m, f) = n + m - 2 * c + d
  <2>1. c \in Nat /\ d \in Nat
    BY <1>0, AlignmentSizes
  <2> QED
    BY <2>1 DEF Cost
<1> HIDE DEF a, b, c, d
<1>3. CASE \A x \in DOMAIN f : x # n /\ f[x] # m
  <2>1. \A x \in DOMAIN f : x <= a /\ f[x] <= b
    BY <1>0, <1>1, <1>3
  <2>2. f \in Alignments(a, b)
    BY <1>0, <2>1, FewerPlaces
  <2>3. Cost(u, v, a, b, f) = a + b - 2 * c + d
    BY DEF Cost, c, d
  <2>4. Cost(u, v, a, b, f) <= Cost(u, v, n, m, f) /\ n \notin DOMAIN f
    BY <1>0, <1>2, <1>3, <2>3
  <2> QED
    BY <2>2, <2>4 DEF a, b
<1>4. CASE \E x \in DOMAIN f : x = n \/ f[x] = m
  <2>1. PICK k \in DOMAIN f : k = n \/ f[k] = m
    BY <1>4
  <2> DEFINE g == Without(f, k)
             e == IF u[k] = v[f[k]] THEN 0 ELSE 1
  <2>2. IsWithout(u, v, n, m, f, k, g)
    BY <1>0, PairTaken
  <2> HIDE DEF g
  <2>3. /\ g \in Alignments(n, m)
        /\ DOMAIN g = DOMAIN f \ {k}
        /\ \A x \in DOMAIN g : g[x] = f[x]
        /\ Cardinality(DOMAIN g) = c - 1
        /\ Cardinality(Differ(u, v, g)) = d - e
    BY <2>2 DEF IsWithout, c, d
  <2>4. ASSUME NEW x \in DOMAIN g PROVE x <= a /\ g[x] <= b
    <3>1. x \in DOMAIN f /\ x # k /\ g[x] = f[x]
      BY <2>3
    <3>2. x \in 1 .. n /\ k \in 1 .. n /\ f[x] \in 1 .. m /\ f[k] \in 1 .. m
      BY <1>1, <3>1
    <3>3. (x < k => f[x] < f[k]) /\ (k < x => f[k] < f[x])
      BY <1>1, <3>1
    <3>4. x < k \/ k < x
      BY <3>1, <3>2
    <3>5. x < k /\ f[x] < f[k]
      BY <2>1, <3>2, <3>3, <3>4
    <3> QED
      BY <1>0, <3>1, <3>2, <3>5
  <2>5. g \in Alignments(a, b)
    BY <1>0, <2>3, <2>4, FewerPlaces
  <2>6. Cost(u, v, a, b, g) = a + b - 2 * (c - 1) + (d - e)
    BY <2>3 DEF Cost
  <2>7. e \in {0, 1}
    OBVIOUS
  <2>8. n \in DOMAIN f /\ f[n] = m => k = n
    <3> SUFFICES ASSUME n \in DOMAIN f, f[n] = m, k # n PROVE FALSE
      OBVIOUS
    <3>1. k \in 1 .. n /\ f[k] = m
      BY <1>1, <2>1
    <3>2. k < n
      BY <3>1
    <3>3. f[k] < f[n]
      BY <1>1, <3>2
    <3> QED
      BY <1>0, <3>1, <3>3
  <2>9. n \in DOMAIN f /\ f[n] = m /\ u[n] # v[m] => e = 1
    BY <2>8
  <2> HIDE DEF e
  <2>10. Cost(u, v, a, b, g) = Cost(u, v, n, m, f) - e
    BY <1>0, <1>2, <2>6, <2>7
  <2>11. Cost(u, v, n, m, f) \in Int
    BY <1>0, <1>2
  <2>12. /\ Cost(u, v, a, b, g) <= Cost(u, v, n, m, f)
         /\ n \in DOMAIN f /\ f[n] = m /\ u[n] # v[m]
              => Cost(u, v, a, b, g) + 1 <= Cost(u, v, n, m, f)
    BY <2>7, <2>9, <2>10, <2>11
  <2> QED
    BY <2>5, <2>12 DEF a, b
<1> QED
  BY <1>3, <1>4

\* d is the distance that follows from those without the last letters
Follows(u, v, n, m, a, b, c, d) ==
    IF u[n] = v[m] THEN d = c
    ELSE /\ d - 1 <= a /\ d - 1 <= b /\ d - 1 <= c
         /\ d - 1 = a \/ d - 1 = b \/ d - 1 = c

\* The distance of words from the distances without their last letters.
LEMMA NextDistance ==
    ASSUME NEW u, NEW v, NEW n \in Nat \ {0}, NEW m \in Nat \ {0}, NEW a, NEW b, NEW c,
           IsDistance(u, v, n - 1, m, a), IsDistance(u, v, n, m - 1, b),
           IsDistance(u, v, n - 1, m - 1, c),
           NEW d \in Nat, Follows(u, v, n, m, a, b, c, d)
    PROVE  IsDistance(u, v, n, m, d)
<1> DEFINE p == n - 1
           q == m - 1
<1>1. p \in Nat /\ q \in Nat /\ n \in Nat /\ m \in Nat /\ n = p + 1 /\ m = q + 1
  OBVIOUS
<1>2. /\ a \in Nat /\ \E f \in Alignments(p, m) : Cost(u, v, p, m, f) = a
      /\ \A f \in Alignments(p, m) : a <= Cost(u, v, p, m, f)
  BY DEF IsDistance
<1>3. /\ b \in Nat /\ \E f \in Alignments(n, q) : Cost(u, v, n, q, f) = b
      /\ \A f \in Alignments(n, q) : b <= Cost(u, v, n, q, f)
  BY DEF IsDistance
<1>4. /\ c \in Nat /\ \E f \in Alignments(p, q) : Cost(u, v, p, q, f) = c
      /\ \A f \in Alignments(p, q) : c <= Cost(u, v, p, q, f)
  BY DEF IsDistance
<1>5. PICK h \in Alignments(p, q) : Cost(u, v, p, q, h) = c
  BY <1>4
<1>6. PICK g \in Alignments(n, m) : Cost(u, v, n, m, g) = c + IF u[n] = v[m] THEN 0 ELSE 1
  BY <1>5, PairAdded
<1> HIDE DEF p, q
<1>7. \E f \in Alignments(n, m) : Cost(u, v, n, m, f) = d
  <2>1. CASE u[n] = v[m] \/ d - 1 = c
    <3>1. Cost(u, v, n, m, g) = d
      BY <1>4, <1>6, <2>1 DEF Follows
    <3> QED
      BY <3>1
  <2>2. CASE u[n] # v[m] /\ d - 1 = a
    <3>1. PICK f \in Alignments(p, m) : Cost(u, v, p, m, f) = a
      BY <1>2
    <3>2. f \in Alignments(p + 1, m) /\ Cost(u, v, p + 1, m, f) = Cost(u, v, p, m, f) + 1
      BY <1>1, <3>1, LetterMore
    <3>3. f \in Alignments(n, m) /\ Cost(u, v, n, m, f) = d
      BY <1>1, <1>2, <2>2, <3>1, <3>2
    <3> QED
      BY <3>3
  <2>3. CASE u[n] # v[m] /\ d - 1 = b
    <3>1. PICK f \in Alignments(n, q) : Cost(u, v, n, q, f) = b
      BY <1>3
    <3>2. f \in Alignments(n, q + 1) /\ Cost(u, v, n, q + 1, f) = Cost(u, v, n, q, f) + 1
      BY <1>1, <3>1, LetterMore
    <3>3. f \in Alignments(n, m) /\ Cost(u, v, n, m, f) = d
      BY <1>1, <1>3, <2>3, <3>1, <3>2
    <3> QED
      BY <3>3
  <2> QED
    BY <2>1, <2>2, <2>3 DEF Follows
<1>8. ASSUME NEW f \in Alignments(n, m) PROVE d <= Cost(u, v, n, m, f)
  <2> DEFINE x == Cost(u, v, n, m, f)
  <2>1. x \in Int
    BY <1>1, AlignmentSizes
  <2>2. /\ DOMAIN f \subseteq 1 .. n
        /\ \A y \in DOMAIN f : f[y] \in 1 .. m
        /\ \A y, z \in DOMAIN f : y < z => f[y] < f[z]
    BY <1>1, AlignmentIs
  <2>3. PICK e \in Alignments(p, q) :
           /\ Cost(u, v, p, q, e) <= x
           /\ n \in DOMAIN f /\ f[n] = m /\ u[n] # v[m] => Cost(u, v, p, q, e) + 1 <= x
    BY PairLess DEF p, q
  <2>4. c <= Cost(u, v, p, q, e) /\ Cost(u, v, p, q, e) \in Int
    BY <1>1, <1>4, AlignmentSizes
  <2>5. c <= x /\ (n \in DOMAIN f /\ f[n] = m /\ u[n] # v[m] => c + 1 <= x)
    <3> HIDE DEF x
    <3> QED
      BY <1>4, <2>1, <2>3, <2>4
  <2>6. CASE u[n] = v[m]
    BY <2>5, <2>6 DEF Follows
  <2>7. CASE u[n] # v[m] /\ n \notin DOMAIN f
    <3>1. \A y \in DOMAIN f : y <= p /\ f[y] <= m
      BY <1>1, <2>2, <2>7
    <3>2. f \in Alignments(p, m)
      BY <1>1, <3>1, FewerPlaces
    <3>3. x = Cost(u, v, p, m, f) + 1
      <4>1. Cost(u, v, p + 1, m, f) = Cost(u, v, p, m, f) + 1
        BY <1>1, <3>2, LetterMore
      <4> QED
        BY <1>1, <4>1
    <3>4. a <= Cost(u, v, p, m, f) /\ Cost(u, v, p, m, f) \in Int
      BY <1>1, <1>2, <3>2, AlignmentSizes
    <3> HIDE DEF x
    <3>5. d <= x
      BY <1>1, <1>2, <2>7, <3>3, <3>4 DEF Follows
    <3> QED
      BY <3>5 DEF x
  <2>8. CASE u[n] # v[m] /\ \A y \in DOMAIN f : f[y] # m
    <3>1. \A y \in DOMAIN f : y <= n /\ f[y] <= q
      BY <1>1, <2>2, <2>8
    <3>2. f \in Alignments(n, q)
      BY <1>1, <3>1, FewerPlaces
    <3>3. x = Cost(u, v, n, q, f) + 1
      <4>1. Cost(u, v, n, q + 1, f) = Cost(u, v, n, q, f) + 1
        BY <1>1, <3>2, LetterMore
      <4> QED
        BY <1>1, <4>1
    <3>4. b <= Cost(u, v, n, q, f) /\ Cost(u, v, n, q, f) \in Int
      BY <1>1, <1>3, <3>2, AlignmentSizes
    <3> HIDE DEF x
    <3>5. d <= x
      BY <1>1, <1>3, <2>8, <3>3, <3>4 DEF Follows
    <3> QED
      BY <3>5 DEF x
  <2>9. CASE u[n] # v[m] /\ n \in DOMAIN f /\ \E y \in DOMAIN f : f[y] = m
    <3>1. PICK y \in DOMAIN f : f[y] = m
      BY <2>9
    <3>2. y \in 1 .. n /\ f[n] \in 1 .. m /\ (y < n => f[y] < f[n])
      BY <2>2, <2>9
    <3>3. f[n] = m
      <4>1. CASE y < n
        BY <1>1, <3>1, <3>2, <4>1
      <4>2. CASE ~(y < n)
        <5>1. y = n
          BY <1>1, <3>2, <4>2
        <5> QED
          BY <3>1, <5>1
      <4> QED
        BY <4>1, <4>2
    <3>4. c + 1 <= x
      BY <2>5, <2>9, <3>3
    <3> HIDE DEF x
    <3>5. d <= x
      BY <1>4, <2>1, <2>9, <3>4 DEF Follows
    <3> QED
      BY <3>5 DEF x
  <2> QED
    BY <2>6, <2>7, <2>8, <2>9
<1> QED
  BY <1>7, <1>8 DEF IsDistance

\* the first n letters of u are more than t away from the beginnings of v
IsOver(u, v, n, m, t) ==
    \A q \in 0 .. m : \A f \in Alignments(n, q) : Cost(u, v, n, q, f) > t

\* They stay away with a letter more.
LEMMA StaysOver ==
    ASSUME NEW u, NEW v, NEW n \in Nat \ {0}, NEW m \in Nat, NEW t \in Nat,
           IsOver(u, v, n - 1, m, t)
    PROVE  IsOver(u, v, n, m, t)
<1> SUFFICES ASSUME NEW q \in 0 .. m, NEW f \in Alignments(n, q)
             PROVE  Cost(u, v, n, q, f) > t
  BY DEF IsOver
<1> DEFINE p == n - 1
           x == Cost(u, v, n, q, f)
<1>1. p \in Nat /\ n \in Nat /\ q \in Nat /\ n = p + 1 /\ x \in Int
  <2>1. p \in Nat /\ n \in Nat /\ q \in Nat /\ n = p + 1
    OBVIOUS
  <2> QED
    BY <2>1, AlignmentSizes
<1>2. /\ DOMAIN f \subseteq 1 .. n
      /\ \A y \in DOMAIN f : f[y] \in 1 .. q
  BY <1>1, AlignmentIs
<1>3. \A r \in 0 .. m : \A g \in Alignments(p, r) : Cost(u, v, p, r, g) > t
  BY DEF IsOver
<1> HIDE DEF p
<1>4. CASE n \notin DOMAIN f
  <2>1. \A y \in DOMAIN f : y <= p /\ f[y] <= q
    BY <1>1, <1>2, <1>4
  <2>2. f \in Alignments(p, q)
    BY <1>1, <2>1, FewerPlaces
  <2>3. Cost(u, v, p + 1, q, f) = Cost(u, v, p, q, f) + 1
    BY <1>1, <2>2, LetterMore
  <2>4. Cost(u, v, p, q, f) > t /\ Cost(u, v, p, q, f) \in Int
    BY <1>1, <1>3, <2>2, AlignmentSizes
  <2> QED
    BY <1>1, <2>3, <2>4
<1>5. CASE n \in DOMAIN f
  <2> DEFINE g == Without(f, n)
             e == IF u[n] = v[f[n]] THEN 0 ELSE 1
             r == f[n] - 1
  <2>1. f[n] \in 1 .. q /\ g \in Alignments(p, r)
        /\ x = Cost(u, v, p, r, g) + (q - f[n]) + e
    <3>1. IsCut(u, v, n, q, f, g)
      BY <1>1, <1>5, CutAt
    <3> HIDE DEF g
    <3> QED
      BY <3>1 DEF IsCut, p
  <2>2. r \in 0 .. m /\ r \in Nat /\ e \in {0, 1} /\ q - f[n] \in Nat
    BY <1>1, <2>1
  <2> HIDE DEF g, e, x, r
  <2>3. Cost(u, v, p, r, g) > t /\ Cost(u, v, p, r, g) \in Int
    BY <1>1, <1>3, <2>1, <2>2, AlignmentSizes
  <2>4. x > t
    BY <2>1, <2>2, <2>3
  <2> QED
    BY <2>4 DEF x
<1> QED
  BY <1>4, <1>5

\* The least of three numbers.
LEMMA LeastOfThree ==
    ASSUME NEW x \in Nat, NEW y \in Nat, NEW z \in Nat
    PROVE  LET d == Min({x, y, z})
           IN  d \in Nat /\ d <= x /\ d <= y /\ d <= z /\ (d = x \/ d = y \/ d = z)
<1> DEFINE T == {x, y, z}
<1>1. \E d \in T : \A w \in T : d <= w
  <2>1. T \in SUBSET Nat /\ T # {}
    OBVIOUS
  <2> HIDE DEF T
  <2> QED
    BY <2>1, LeastNumber
<1>2. Min(T) \in T /\ \A w \in T : Min(T) <= w
  <2> HIDE DEF T
  <2> QED
    BY <1>1 DEF Min
<1> QED
  BY <1>2

\* the cell above and to the left
UpLeft(n, dp, q) == IF q = 1 THEN n - 1 ELSE dp[q - 1]

\* a cell, where the one to the left is x
Cell(u, v, n, dp, q, x) ==
    IF u[n] = v[q] THEN UpLeft(n, dp, q) ELSE Min({x, UpLeft(n, dp, q), dp[q]}) + 1

IsRow(u, v, n, dp, cell) ==
    cell = [q \in 0 .. Len(v) |->
              IF q = 0 THEN n - 1
              ELSE IF u[n] = v[q]
              THEN IF q = 1 THEN n - 1 ELSE dp[q - 1]
              ELSE Min({cell[q - 1], IF q = 1 THEN n - 1 ELSE dp[q - 1], dp[q]}) + 1]

\* There is such a row.
LEMMA RowExists ==
    ASSUME NEW u, NEW V, NEW v \in Seq(V), NEW n \in Nat \ {0},
           NEW dp \in [0 .. Len(v) -> Nat]
    PROVE  \E cell \in [0 .. Len(v) -> Nat] : IsRow(u, v, n, dp, cell)
<1> DEFINE m == Len(v)
           next(q) == [x \in Nat |-> Cell(u, v, n, dp, q, x)]
           step == [q \in 1 .. m |-> next(q)]
<1>1. m \in Nat /\ n - 1 \in Nat /\ dp \in [0 .. m -> Nat]
  OBVIOUS
<1> HIDE DEF m
<1>2. ASSUME NEW q \in 1 .. m PROVE UpLeft(n, dp, q) \in Nat /\ dp[q] \in Nat
  <2>1. q \in 0 .. m /\ q - 1 \in 0 .. m
    BY <1>1
  <2> QED
    BY <1>1, <2>1 DEF UpLeft
<1>3. ASSUME NEW q \in 1 .. m PROVE next(q) \in [Nat -> Nat]
  <2>1. ASSUME NEW x \in Nat PROVE Cell(u, v, n, dp, q, x) \in Nat
    <3>1. Min({x, UpLeft(n, dp, q), dp[q]}) \in Nat
      BY <1>2, LeastOfThree
    <3> QED
      BY <1>2, <3>1 DEF Cell
  <2> QED
    BY <2>1
<1>4. step \in [1 .. m -> [Nat -> Nat]]
  BY <1>3
<1>5. PICK cell : cell \in Results(Nat, m, n - 1, step)
  <2> DEFINE a == n - 1
  <2> HIDE DEF step, a
  <2>1. Results(Nat, m, a, step) # {}
    BY <1>1, <1>4, Iterates DEF a
  <2> QED
    BY <2>1 DEF a
<1>6. /\ cell \in [0 .. m -> Nat] /\ cell[0] = n - 1
      /\ \A q \in 1 .. m : cell[q] = step[q][cell[q - 1]]
  BY <1>5 DEF Results
<1>7. ASSUME NEW q \in 1 .. m PROVE cell[q] = Cell(u, v, n, dp, q, cell[q - 1])
  <2>1. q - 1 \in 0 .. m
    BY <1>1
  <2>2. cell[q - 1] \in Nat
    BY <1>6, <2>1
  <2> QED
    BY <1>6, <2>2
<1> DEFINE d == [q \in 0 .. m |->
                   IF q = 0 THEN n - 1
                   ELSE IF u[n] = v[q]
                   THEN IF q = 1 THEN n - 1 ELSE dp[q - 1]
                   ELSE Min({cell[q - 1], IF q = 1 THEN n - 1 ELSE dp[q - 1], dp[q]}) + 1]
<1>8. ASSUME NEW q \in 0 .. m PROVE cell[q] = d[q]
  <2>1. q = 0 \/ q \in 1 .. m
    BY <1>1
  <2> QED
    BY <1>6, <1>7, <2>1 DEF Cell, UpLeft
<1>9. cell = d
  <2>1. cell = [q \in 0 .. m |-> cell[q]]
    BY <1>6
  <2> HIDE DEF d
  <2>2. d = [q \in 0 .. m |-> d[q]]
    BY DEF d
  <2> QED
    BY <1>8, <2>1, <2>2
<1> QED
  BY <1>6, <1>9 DEF IsRow, m

\* dp has the distances of n letters of u from the beginnings of v; its cell 0 stays one behind
RowRight(u, v, n, dp) ==
    /\ dp \in [0 .. Len(v) -> Nat]
    /\ dp[0] = IF n = 0 THEN 0 ELSE n - 1
    /\ \A q \in 1 .. Len(v) : IsDistance(u, v, n, q, dp[q])

\* A cell is right if those around it are.
LEMMA CellRight ==
    ASSUME NEW u, NEW v, NEW n \in Nat \ {0}, NEW q \in Nat \ {0}, NEW a, NEW b, NEW c,
           IsDistance(u, v, n - 1, q, a), IsDistance(u, v, n - 1, q - 1, c),
           NEW x \in Nat,
           IF q = 1 THEN x = n - 1 /\ c = n - 1 ELSE x = b /\ IsDistance(u, v, n, q - 1, b),
           NEW d, d = IF u[n] = v[q] THEN c ELSE Min({x, c, a}) + 1
    PROVE  IsDistance(u, v, n, q, d)
<1>1. a \in Nat /\ c \in Nat
  BY DEF IsDistance
<1> DEFINE y == Min({x, c, a})
<1>2. y \in Nat /\ y <= x /\ y <= c /\ y <= a /\ (y = x \/ y = c \/ y = a)
  BY <1>1, LeastOfThree
<1> HIDE DEF y
<1>3. d \in Nat
  BY <1>1, <1>2 DEF y
<1>4. CASE q = 1
  <2>1. n \in Nat /\ 0 \in Nat
    OBVIOUS
  <2>2. IsDistance(u, v, n, 0, n + 0)
    BY <2>1, FromNothing
  <2>3. q - 1 = 0 /\ n + 0 = n /\ x = c /\ c = n - 1
    BY <1>4
  <2>4. IsDistance(u, v, n, q - 1, n)
    BY <2>2, <2>3
  <2>5. Follows(u, v, n, q, a, n, c, d)
    <3>1. CASE u[n] = v[q]
      BY <3>1 DEF Follows
    <3>2. CASE u[n] # v[q]
      <4>1. d = y + 1 /\ d - 1 = y
        BY <1>2, <3>2 DEF y
      <4> QED
        BY <1>1, <1>2, <2>3, <3>2, <4>1 DEF Follows
    <3> QED
      BY <3>1, <3>2
  <2> QED
    BY <1>3, <2>4, <2>5, NextDistance
<1>5. CASE q # 1
  <2>1. x = b /\ IsDistance(u, v, n, q - 1, b)
    BY <1>5
  <2>2. Follows(u, v, n, q, a, b, c, d)
    <3>1. CASE u[n] = v[q]
      BY <3>1 DEF Follows
    <3>2. CASE u[n] # v[q]
      <4>1. d = y + 1 /\ d - 1 = y
        BY <1>2, <3>2 DEF y
      <4> QED
        BY <1>1, <1>2, <2>1, <3>2, <4>1 DEF Follows
    <3> QED
      BY <3>1, <3>2
  <2> QED
    BY <1>3, <2>1, <2>2, NextDistance
<1> QED
  BY <1>4, <1>5

\* The cells of the next row.
RowCells(u, v, n, dp, cell) ==
    /\ cell = [q \in 0 .. Len(v) |-> cell[q]] /\ cell[0] = n - 1
    /\ \A q \in 1 .. Len(v) : cell[q] = Cell(u, v, n, dp, q, cell[q - 1])

\* The next row has them.
LEMMA NextRowCells ==
    ASSUME NEW u, NEW V, NEW v \in Seq(V), NEW n \in Nat \ {0},
           NEW dp \in [0 .. Len(v) -> Nat]
    PROVE  RowCells(u, v, n, dp, NextRow(u, v, n, dp))
<1> DEFINE m == Len(v)
           p == n - 1
           cell == NextRow(u, v, n, dp)
<1>1. m \in Nat
  OBVIOUS
<1>2. IsRow(u, v, n, dp, cell)
  <2>1. \E x : IsRow(u, v, n, dp, x)
    BY RowExists
  <2>2. cell = CHOOSE x : IsRow(u, v, n, dp, x)
    BY DEF NextRow, IsRow
  <2> HIDE DEF cell
  <2> QED
    BY <2>1, <2>2
<1> HIDE DEF cell, m, p
<1> DEFINE d == [q \in 0 .. m |->
                   IF q = 0 THEN p
                   ELSE IF u[n] = v[q]
                   THEN IF q = 1 THEN p ELSE dp[q - 1]
                   ELSE Min({cell[q - 1], IF q = 1 THEN p ELSE dp[q - 1], dp[q]}) + 1]
<1>3. cell = d
  BY <1>2 DEF IsRow, m, p
<1>4. d = [q \in 0 .. m |-> d[q]]
  OBVIOUS
<1>5. d[0] = p
  BY <1>1
<1>6. ASSUME NEW q \in 1 .. m
      PROVE  d[q] = Cell(u, v, n, dp, q, cell[q - 1])
  <2>1. q \in 0 .. m /\ q # 0
    BY <1>1
  <2> QED
    BY <2>1 DEF Cell, UpLeft, p
<1> HIDE DEF d
<1> QED
  BY <1>3, <1>4, <1>5, <1>6 DEF RowCells, cell, m, p

\* They are numbers.
LEMMA RowNumbers ==
    ASSUME NEW u, NEW V, NEW v \in Seq(V), NEW n \in Nat \ {0},
           NEW dp \in [0 .. Len(v) -> Nat]
    PROVE  /\ NextRow(u, v, n, dp) \in [0 .. Len(v) -> Nat]
           /\ NextRow(u, v, n, dp)[0] = n - 1
<1> DEFINE m == Len(v)
           cell == NextRow(u, v, n, dp)
<1>1. m \in Nat /\ n - 1 \in Nat /\ dp \in [0 .. m -> Nat]
  OBVIOUS
<1>2. /\ cell = [q \in 0 .. m |-> cell[q]] /\ cell[0] = n - 1
      /\ \A q \in 1 .. m : cell[q] = Cell(u, v, n, dp, q, cell[q - 1])
  BY NextRowCells DEF RowCells
<1> HIDE DEF cell, m
<1>3. ASSUME NEW q \in 1 .. m, cell[q - 1] \in Nat PROVE cell[q] \in Nat
  <2>1. UpLeft(n, dp, q) \in Nat /\ dp[q] \in Nat
    <3>1. q \in 0 .. m /\ q - 1 \in 0 .. m
      BY <1>1
    <3> QED
      BY <1>1, <3>1 DEF UpLeft
  <2>2. Min({cell[q - 1], UpLeft(n, dp, q), dp[q]}) \in Nat
    BY <1>3, <2>1, LeastOfThree
  <2> QED
    BY <1>2, <2>1, <2>2 DEF Cell
<1>4. cell[0] \in Nat
  BY <1>1, <1>2
<1>5. \A q \in 0 .. m : cell[q] \in Nat
  BY <1>1, <1>3, <1>4, AllAlong
<1>6. cell \in [0 .. m -> Nat]
  BY <1>2, <1>5
<1> QED
  BY <1>2, <1>6 DEF cell, m

\* Each row follows from the one before.
LEMMA RowNext ==
    ASSUME NEW u, NEW V, NEW v \in Seq(V), NEW n \in Nat \ {0}, NEW dp,
           RowRight(u, v, n - 1, dp)
    PROVE  RowRight(u, v, n, NextRow(u, v, n, dp))
<1> DEFINE m == Len(v)
           p == n - 1
           cell == NextRow(u, v, n, dp)
<1>1. m \in Nat /\ n \in Nat /\ p \in Nat /\ n = p + 1
  OBVIOUS
<1>2. /\ dp \in [0 .. m -> Nat]
      /\ \A q \in 1 .. m : IsDistance(u, v, p, q, dp[q])
  BY DEF RowRight
<1>3. /\ cell = [q \in 0 .. m |-> cell[q]] /\ cell[0] = p
      /\ \A q \in 1 .. m :
            cell[q] = IF u[n] = v[q] THEN UpLeft(n, dp, q)
                      ELSE Min({cell[q - 1], UpLeft(n, dp, q), dp[q]}) + 1
  <2>1. RowCells(u, v, n, dp, cell)
    BY <1>2, NextRowCells
  <2> HIDE DEF cell
  <2> QED
    BY <2>1 DEF RowCells, Cell
<1> HIDE DEF cell, m, p
<1> DEFINE Good == {q \in 0 .. m : q = 0 \/ IsDistance(u, v, n, q, cell[q])}
           f == [q \in 0 .. m |-> q]
<1>4. ASSUME NEW q \in 1 .. m, q - 1 \in Good PROVE q \in Good
  <2>1. q \in Nat \ {0} /\ q - 1 \in Nat /\ q \in 0 .. m
    BY <1>1
  <2>2. cell[q - 1] \in Nat
    BY <1>1, <1>3, <1>4 DEF IsDistance
  <2>3. IsDistance(u, v, p, q, dp[q])
    BY <1>2
  <2>4. IsDistance(u, v, p, q - 1, UpLeft(n, dp, q))
    <3>1. CASE q = 1
      <4>1. IsDistance(u, v, p, 0, p + 0)
        BY <1>1, FromNothing
      <4>2. q - 1 = 0 /\ p + 0 = p /\ UpLeft(n, dp, q) = p
        BY <1>1, <3>1 DEF UpLeft, p
      <4> QED
        BY <4>1, <4>2
    <3>2. CASE q # 1
      <4>1. q - 1 \in 1 .. m
        BY <1>1, <3>2
      <4> QED
        BY <1>2, <3>2, <4>1 DEF UpLeft
    <3> QED
      BY <3>1, <3>2
  <2>5. IF q = 1 THEN cell[q - 1] = n - 1 /\ UpLeft(n, dp, q) = n - 1
        ELSE cell[q - 1] = cell[q - 1] /\ IsDistance(u, v, n, q - 1, cell[q - 1])
    BY <1>3, <1>4, <2>1 DEF UpLeft, p
  <2>6. IsDistance(u, v, n, q, cell[q])
    <3>1. cell[q] = IF u[n] = v[q] THEN UpLeft(n, dp, q)
                    ELSE Min({cell[q - 1], UpLeft(n, dp, q), dp[q]}) + 1
      BY <1>3
    <3>2. IsDistance(u, v, n - 1, q, dp[q]) /\ IsDistance(u, v, n - 1, q - 1, UpLeft(n, dp, q))
      BY <2>3, <2>4 DEF p
    <3> QED
      BY <2>1, <2>2, <2>5, <3>1, <3>2, CellRight
  <2> QED
    BY <2>1, <2>6
<1>5. \A q \in 0 .. m : q \in Good
  <2>1. f[0] \in Good /\ \A q \in 1 .. m : f[q - 1] \in Good => f[q] \in Good
    <3>1. 0 \in Good /\ f[0] = 0
      BY <1>1
    <3>2. ASSUME NEW q \in 1 .. m PROVE f[q - 1] = q - 1 /\ f[q] = q
      BY <1>1
    <3> HIDE DEF Good, f
    <3> QED
      BY <1>4, <3>1, <3>2
  <2> HIDE DEF Good, f
  <2>2. \A q \in 0 .. m : f[q] \in Good
    BY <1>1, <2>1, AllAlong
  <2> QED
    BY <2>2 DEF f
<1>6. \A q \in 1 .. m : IsDistance(u, v, n, q, cell[q])
  BY <1>1, <1>5
<1>7. cell \in [0 .. m -> Nat]
  BY <1>2, RowNumbers DEF cell, m
<1> QED
  BY <1>1, <1>3, <1>6, <1>7 DEF RowRight, m, p, cell

\* what is known of dp after n letters of u
StateRight(u, v, n, t, st) ==
    /\ st \in [dp : [0 .. Len(v) -> Nat], over : BOOLEAN]
    /\ IF st.over THEN IsOver(u, v, n, Len(v), t) ELSE RowRight(u, v, n, st.dp)

\* The least cell of a row.
LEMMA LeastCell ==
    ASSUME NEW m \in Nat, NEW row \in [0 .. m -> Nat]
    PROVE  /\ Min(Range(row)) \in Nat
           /\ \A q \in 0 .. m : Min(Range(row)) <= row[q]
<1> DEFINE T == {row[q] : q \in 0 .. m}
<1>1. Range(row) = T
  BY DEF Range
<1>2. \E d \in T : \A w \in T : d <= w
  <2>1. T \in SUBSET Nat
    OBVIOUS
  <2>2. row[0] \in T
    OBVIOUS
  <2> HIDE DEF T
  <2> QED
    BY <2>1, <2>2, LeastNumber
<1>3. Min(T) \in T /\ \A w \in T : Min(T) <= w
  <2> HIDE DEF T
  <2> QED
    BY <1>2 DEF Min
<1> QED
  BY <1>1, <1>3

\* A row that is over the limit everywhere stays there.
LEMMA RowOver ==
    ASSUME NEW u, NEW v, Len(v) \in Nat, NEW n \in Nat \ {0}, NEW t \in Nat, NEW dp,
           RowRight(u, v, n, dp), Min(Range(dp)) > t
    PROVE  IsOver(u, v, n, Len(v), t)
<1> DEFINE m == Len(v)
<1>1. /\ dp \in [0 .. m -> Nat] /\ dp[0] = n - 1 /\ m \in Nat
      /\ \A q \in 1 .. m : IsDistance(u, v, n, q, dp[q])
  BY DEF RowRight
<1> HIDE DEF m
<1>2. \A q \in 0 .. m : dp[q] \in Nat /\ dp[q] > t
  BY <1>1, LeastCell, SMTT(30)
<1>3. ASSUME NEW q \in 0 .. m, NEW f \in Alignments(n, q)
      PROVE  Cost(u, v, n, q, f) > t
  <2>1. Cost(u, v, n, q, f) \in Int
    <3>1. n \in Nat /\ q \in Nat
      BY <1>1
    <3> QED
      BY <3>1, AlignmentSizes
  <2>2. CASE q = 0
    <3>1. n \in Nat /\ 0 \in Nat /\ n + 0 = n
      OBVIOUS
    <3>2. IsDistance(u, v, n, 0, n)
      <4>1. IsDistance(u, v, n, 0, n + 0)
        BY <3>1, FromNothing
      <4> QED
        BY <3>1, <4>1
    <3>3. n <= Cost(u, v, n, q, f)
      BY <2>2, <3>2 DEF IsDistance
    <3>4. n - 1 > t
      <4>1. 0 \in 0 .. m
        BY <1>1
      <4> QED
        BY <1>1, <1>2, <4>1
    <3> QED
      BY <2>1, <3>3, <3>4
  <2>3. CASE q # 0
    <3>1. q \in 1 .. m
      BY <2>3
    <3>2. dp[q] <= Cost(u, v, n, q, f)
      BY <1>1, <3>1 DEF IsDistance
    <3> QED
      BY <1>2, <2>1, <3>2
  <2> QED
    BY <2>2, <2>3
<1> QED
  BY <1>3 DEF IsOver, m

\* One more letter of u.
LEMMA LetterRead ==
    ASSUME NEW u, NEW V, NEW v \in Seq(V), NEW n \in Nat \ {0}, NEW t \in Nat, NEW st,
           StateRight(u, v, n - 1, t, st)
    PROVE  StateRight(u, v, n, t, ReadLetter(u, v, t, n, st))
<1> DEFINE row == NextRow(u, v, n, st.dp)
<1>1. st \in [dp : [0 .. Len(v) -> Nat], over : BOOLEAN] /\ Len(v) \in Nat
  BY DEF StateRight
<1>2. CASE st.over
  <2>1. ReadLetter(u, v, t, n, st) = st
    BY <1>2 DEF ReadLetter
  <2>2. IsOver(u, v, n, Len(v), t)
    <3>1. IsOver(u, v, n - 1, Len(v), t)
      BY <1>2 DEF StateRight
    <3> QED
      BY <1>1, <3>1, StaysOver
  <2> QED
    BY <1>1, <1>2, <2>1, <2>2 DEF StateRight
<1>3. CASE ~st.over
  <2>1. ReadLetter(u, v, t, n, st) = [dp |-> row, over |-> Min(Range(row)) > t]
    BY <1>3 DEF ReadLetter
  <2>2. RowRight(u, v, n, row)
    <3>1. RowRight(u, v, n - 1, st.dp)
      BY <1>3 DEF StateRight
    <3> QED
      BY <3>1, RowNext
  <2>3. row \in [0 .. Len(v) -> Nat]
    BY <2>2 DEF RowRight
  <2> HIDE DEF row
  <2>4. Min(Range(row)) > t => IsOver(u, v, n, Len(v), t)
    BY <1>1, <2>2, RowOver
  <2>5. Min(Range(row)) \in Nat
    BY <1>1, <2>3, LeastCell
  <2>6. (Min(Range(row)) > t) \in BOOLEAN
    BY <2>5
  <2> DEFINE s == [dp |-> row, over |-> Min(Range(row)) > t]
  <2>7. /\ s \in [dp : [0 .. Len(v) -> Nat], over : BOOLEAN]
        /\ s.dp = row /\ (s.over <=> Min(Range(row)) > t)
    BY <2>3, <2>6
  <2> HIDE DEF s
  <2>8. StateRight(u, v, n, t, s)
    BY <2>2, <2>4, <2>7 DEF StateRight
  <2> QED
    BY <2>1, <2>8 DEF s
<1> QED
  BY <1>2, <1>3

\* Some alignment there always is.
LEMMA SomeCost ==
    ASSUME NEW u, NEW v, NEW n \in Nat, NEW m \in Nat
    PROVE  Costs(u, v, n, m) # {}
<1> DEFINE e == [x \in {} |-> x]
<1>1. e \in Alignments(n, m)
  BY AlignmentIs
<1> QED
  BY <1>1 DEF Costs

\* The edit distance is the least of the costs.
LEMMA LeastCost ==
    ASSUME NEW u, NEW v, Len(u) \in Nat, Len(v) \in Nat
    PROVE  /\ \A d : IsDistance(u, v, Len(u), Len(v), d) => EditDistance(u, v) = d
           /\ \A t \in Nat : IsOver(u, v, Len(u), Len(v), t)
                => EditDistance(u, v) \in Nat /\ EditDistance(u, v) > t
<1> DEFINE n == Len(u)
           m == Len(v)
           S == Costs(u, v, n, m)
<1>1. EditDistance(u, v) = Min(S)
  BY DEF EditDistance, Costs, Cost, Differ
<1>2. n \in Nat /\ m \in Nat
  OBVIOUS
<1> HIDE DEF n, m
<1>3. S \in SUBSET Int
  BY <1>2, AlignmentSizes DEF Costs
<1>4. ASSUME NEW d, IsDistance(u, v, n, m, d) PROVE Min(S) = d
  <2>1. d \in S /\ \A x \in S : d <= x
    BY <1>4 DEF IsDistance, Costs
  <2> HIDE DEF S
  <2>2. Min(S) \in S /\ \A x \in S : Min(S) <= x
    BY <2>1 DEF Min
  <2>3. d \in Int /\ Min(S) \in Int /\ d <= Min(S) /\ Min(S) <= d
    BY <1>3, <2>1, <2>2
  <2> QED
    BY <2>3
<1>5. S # {}
  BY <1>2, SomeCost
<1>6. ASSUME NEW t \in Nat, IsOver(u, v, n, m, t)
      PROVE  Min(S) \in Nat /\ Min(S) > t
  <2>1. \A x \in S : x > t
    <3>1. m \in 0 .. m
      BY <1>2
    <3> QED
      BY <1>6, <3>1 DEF IsOver, Costs
  <2> HIDE DEF S
  <2>2. S \in SUBSET Nat
    BY <1>3, <2>1
  <2>3. \E d \in S : \A x \in S : d <= x
    BY <1>5, <2>2, LeastNumber
  <2>4. Min(S) \in S
    BY <2>3 DEF Min
  <2> QED
    BY <2>1, <2>2, <2>4
<1> QED
  BY <1>1, <1>4, <1>6 DEF n, m

\* what levenshteinDistance has before the first letter
NoLetter(v) == [dp |-> [q \in 0 .. Len(v) |-> q], over |-> FALSE]

IsAfter(u, v, t, f) ==
    f = [k \in 0 .. Len(u) |-> IF k = 0 THEN NoLetter(v) ELSE ReadLetter(u, v, t, k, f[k - 1])]

\* There is a function of what levenshteinDistance has after each letter.
LEMMA AfterExists ==
    ASSUME NEW u, NEW V, NEW v \in Seq(V), Len(u) \in Nat, NEW t \in Nat
    PROVE  \E f : IsAfter(u, v, t, f)
<1> DEFINE X == [dp : [0 .. Len(v) -> Nat], over : BOOLEAN]
           n == Len(u)
           next(k) == [st \in X |-> ReadLetter(u, v, t, k, st)]
           step == [k \in 1 .. n |-> next(k)]
<1>1. n \in Nat /\ Len(v) \in Nat
  OBVIOUS
<1>2. ASSUME NEW k \in 1 .. n, NEW st \in X PROVE ReadLetter(u, v, t, k, st) \in X
  <2> DEFINE row == NextRow(u, v, k, st.dp)
  <2>1. row \in [0 .. Len(v) -> Nat]
    <3>1. k \in Nat \ {0} /\ st.dp \in [0 .. Len(v) -> Nat]
      BY <1>1
    <3> QED
      BY <3>1, RowNumbers
  <2> HIDE DEF row
  <2>2. Min(Range(row)) \in Nat
    BY <1>1, <2>1, LeastCell
  <2>3. (Min(Range(row)) > t) \in BOOLEAN
    BY <2>2
  <2>4. [dp |-> row, over |-> Min(Range(row)) > t] \in X
    BY <2>1, <2>3
  <2>5. ReadLetter(u, v, t, k, st) =
          IF st.over THEN st ELSE [dp |-> row, over |-> Min(Range(row)) > t]
    BY DEF ReadLetter, row
  <2> HIDE DEF X
  <2> QED
    BY <2>4, <2>5
<1>3. NoLetter(v) \in X
  BY <1>1 DEF NoLetter
<1> HIDE DEF X, n
<1>4. step \in [1 .. n -> [X -> X]]
  BY <1>2
<1>5. PICK f : f \in Results(X, n, NoLetter(v), step)
  <2> HIDE DEF step
  <2>1. Results(X, n, NoLetter(v), step) # {}
    BY <1>1, <1>3, <1>4, Iterates
  <2> QED
    BY <2>1
<1>6. /\ f \in [0 .. n -> X] /\ f[0] = NoLetter(v)
      /\ \A k \in 1 .. n : f[k] = step[k][f[k - 1]]
  BY <1>5 DEF Results
<1>7. ASSUME NEW k \in 1 .. n PROVE f[k] = ReadLetter(u, v, t, k, f[k - 1])
  <2>1. k - 1 \in 0 .. n
    BY <1>1
  <2>2. f[k - 1] \in X
    BY <1>6, <2>1
  <2> QED
    BY <1>6, <2>2
<1> DEFINE d == [k \in 0 .. n |->
                   IF k = 0 THEN NoLetter(v) ELSE ReadLetter(u, v, t, k, f[k - 1])]
<1>8. ASSUME NEW k \in 0 .. n PROVE f[k] = d[k]
  <2>1. k = 0 \/ k \in 1 .. n
    BY <1>1
  <2> QED
    BY <1>6, <1>7, <2>1
<1>9. f = d
  <2>1. f = [k \in 0 .. n |-> f[k]]
    BY <1>6
  <2> HIDE DEF d
  <2>2. d = [k \in 0 .. n |-> d[k]]
    BY DEF d
  <2> QED
    BY <1>8, <2>1, <2>2
<1> QED
  BY <1>9 DEF IsAfter, n

\* levenshteinDistance gives the edit distance up to the limit, and more beyond it.
LEMMA DistanceRight ==
    ASSUME NEW U, NEW u \in Seq(U), NEW V, NEW v \in Seq(V), NEW t \in Nat
    PROVE  LET d == EditDistance(u, v)
               r == levenshteinDistance(u, v, t)
           IN  d \in Nat /\ r \in Nat /\ IF d <= t THEN r = d ELSE r > t
<1> DEFINE n == Len(u)
           m == Len(v)
           d == EditDistance(u, v)
           r == levenshteinDistance(u, v, t)
           after == CHOOSE f : IsAfter(u, v, t, f)
<1>1. n \in Nat /\ m \in Nat
  OBVIOUS
<1>2. r = IF n = 0 THEN m ELSE IF m = 0 THEN n
          ELSE IF after[n].over THEN t + 1 ELSE after[n].dp[m]
  BY DEF levenshteinDistance, IsAfter, NoLetter
<1>3. IsAfter(u, v, t, after)
  <2>1. \E f : IsAfter(u, v, t, f)
    BY <1>1, AfterExists
  <2> QED
    BY <2>1
<1> HIDE DEF after
<1>4. /\ after[0] = NoLetter(v)
      /\ \A k \in 1 .. n : after[k] = ReadLetter(u, v, t, k, after[k - 1])
  <2>1. 0 \in 0 .. n /\ \A k \in 1 .. n : k \in 0 .. n /\ k # 0
    BY <1>1
  <2> HIDE DEF n
  <2>2. after = [k \in 0 .. n |->
                   IF k = 0 THEN NoLetter(v) ELSE ReadLetter(u, v, t, k, after[k - 1])]
    BY <1>3 DEF IsAfter, n
  <2> QED
    BY <2>1, <2>2
<1> DEFINE Good == {k \in 0 .. n : StateRight(u, v, k, t, after[k])}
           f == [k \in 0 .. n |-> k]
<1>5. 0 \in Good
  <2>1. NoLetter(v) \in [dp : [0 .. m -> Nat], over : BOOLEAN]
    BY <1>1 DEF NoLetter
  <2>2. NoLetter(v).over = FALSE /\ NoLetter(v).dp = [q \in 0 .. m |-> q]
    BY DEF NoLetter
  <2>3. ASSUME NEW q \in 1 .. m PROVE IsDistance(u, v, 0, q, q)
    <3>1. q \in Nat /\ 0 \in Nat /\ 0 + q = q
      BY <1>1
    <3>2. IsDistance(u, v, 0, q, 0 + q)
      BY <3>1, FromNothing
    <3> QED
      BY <3>1, <3>2
  <2>4. RowRight(u, v, 0, [q \in 0 .. m |-> q])
    BY <1>1, <2>3 DEF RowRight
  <2>5. StateRight(u, v, 0, t, NoLetter(v))
    BY <2>1, <2>2, <2>4 DEF StateRight
  <2> QED
    BY <1>1, <1>4, <2>5
<1>6. ASSUME NEW k \in 1 .. n, k - 1 \in Good PROVE k \in Good
  <2>1. k \in Nat \ {0} /\ k \in 0 .. n
    BY <1>1
  <2>2. StateRight(u, v, k - 1, t, after[k - 1])
    BY <1>6
  <2>3. StateRight(u, v, k, t, ReadLetter(u, v, t, k, after[k - 1]))
    BY <2>1, <2>2, LetterRead
  <2> QED
    BY <1>4, <2>1, <2>3
<1>7. StateRight(u, v, n, t, after[n])
  <2>1. f[0] \in Good /\ \A k \in 1 .. n : f[k - 1] \in Good => f[k] \in Good
    <3>1. f[0] = 0
      BY <1>1
    <3>2. ASSUME NEW k \in 1 .. n PROVE f[k - 1] = k - 1 /\ f[k] = k
      BY <1>1
    <3> HIDE DEF Good, f
    <3> QED
      BY <1>5, <1>6, <3>1, <3>2
  <2> HIDE DEF Good, f
  <2>2. \A k \in 0 .. n : f[k] \in Good
    BY <1>1, <2>1, AllAlong
  <2>3. n \in 0 .. n /\ f[n] = n
    BY <1>1 DEF f
  <2>4. n \in Good
    BY <2>2, <2>3
  <2> QED
    BY <2>4 DEF Good
<1> HIDE DEF Good, f
<1>8. ASSUME NEW x, IsDistance(u, v, n, m, x) PROVE d = x /\ x \in Nat
  BY <1>1, <1>8, LeastCost DEF IsDistance
<1>9. CASE n = 0 \/ m = 0
  <2>1. IsDistance(u, v, n, m, n + m)
    BY <1>1, <1>9, FromNothing
  <2>2. d = n + m
    BY <1>8, <2>1
  <2>3. r = n + m
    BY <1>1, <1>2, <1>9
  <2> HIDE DEF d, r, n, m
  <2>4. d \in Nat /\ r \in Nat /\ IF d <= t THEN r = d ELSE r > t
    BY <1>1, <2>2, <2>3
  <2> QED
    BY <2>4 DEF d, r
<1>10. CASE n # 0 /\ m # 0 /\ after[n].over
  <2>1. IsOver(u, v, n, m, t)
    BY <1>7, <1>10 DEF StateRight
  <2>2. d \in Nat /\ d > t
    BY <1>1, <2>1, LeastCost
  <2>3. r = t + 1
    BY <1>2, <1>10
  <2> HIDE DEF d, r
  <2>4. d \in Nat /\ r \in Nat /\ IF d <= t THEN r = d ELSE r > t
    BY <2>2, <2>3
  <2> QED
    BY <2>4 DEF d, r
<1>11. CASE n # 0 /\ m # 0 /\ ~after[n].over
  <2>1. IsDistance(u, v, n, m, after[n].dp[m])
    <3>1. RowRight(u, v, n, after[n].dp) /\ m \in 1 .. m
      BY <1>1, <1>7, <1>11 DEF StateRight
    <3> QED
      BY <3>1 DEF RowRight
  <2>2. r = after[n].dp[m]
    BY <1>2, <1>11
  <2>3. d = r /\ r \in Nat
    BY <1>8, <2>1, <2>2
  <2> HIDE DEF d, r, n, m
  <2>4. d \in Nat /\ r \in Nat /\ IF d <= t THEN r = d ELSE r > t
    BY <2>3
  <2> QED
    BY <2>4 DEF d, r
<1> QED
  BY <1>9, <1>10, <1>11

\* levenshteinDistance, with one row whose first cell lags behind and with its early end, gives
\* the least cost of an alignment of the two words as long as that is at most maxTypo, and more
\* than maxTypo otherwise (spellChecker.go:74-106).
THEOREM DistancesExact == QuerySpec => []DistanceExact
<1>1. QueryInit => DistanceExact
  BY DEF QueryInit, NoCall, DistanceExact
<1>2. DistanceExact /\ [QueryNext]_queryVars => DistanceExact'
  <2> SUFFICES ASSUME DistanceExact, [QueryNext]_queryVars
               PROVE  DistanceExact'
    OBVIOUS
  <2>1. CASE Compare
    <3>1. PICK w1 \in Words, w2 \in Words :
             call' = [op |-> "distance", word1 |-> w1, word2 |-> w2,
                      result |-> levenshteinDistance(w1, w2, maxTypo)]
      BY <2>1 DEF Compare, Call
    <3>2. w1 \in Seq(Range(w1)) /\ w2 \in Seq(Range(w2)) /\ maxTypo \in Nat
      BY QueryAssumption
    <3>3. IF EditDistance(w1, w2) <= maxTypo
          THEN levenshteinDistance(w1, w2, maxTypo) = EditDistance(w1, w2)
          ELSE levenshteinDistance(w1, w2, maxTypo) > maxTypo
      BY <3>2, DistanceRight
    <3>4. /\ call'.word1 = w1 /\ call'.word2 = w2
          /\ call'.result = levenshteinDistance(w1, w2, maxTypo)
      BY <3>1
    <3> QED
      BY <3>3, <3>4 DEF DistanceExact
  <2>2. CASE UNCHANGED call
    BY <2>2 DEF DistanceExact
  <2>3. CASE call'.op # "distance"
    BY <2>3 DEF DistanceExact
  <2>4. Compare \/ UNCHANGED call \/ call'.op # "distance"
    BY CallsApart
  <2> QED
    BY <2>1, <2>2, <2>3, <2>4
<1> QED
  BY <1>1, <1>2, PTL DEF QuerySpec

-----------------------------------------------------------------------------
(* The choice of a correction                                              *)

\* Numbers at places up to n are bounded.
LEMMA Bounded ==
    ASSUME NEW n \in Nat, NEW S \in SUBSET (1 .. n), NEW g \in [S -> Nat]
    PROVE  \E b \in Nat : \A x \in S : g[x] <= b
<1> DEFINE Good == {k \in 0 .. n : \E b \in Nat : \A x \in S : x <= k => g[x] <= b}
           f == [k \in 0 .. n |-> k]
<1>1. 0 \in Good
  <2>1. \A x \in S : ~(x <= 0)
    OBVIOUS
  <2> QED
    BY <2>1
<1>2. ASSUME NEW k \in 1 .. n, k - 1 \in Good PROVE k \in Good
  <2>1. PICK b \in Nat : \A x \in S : x <= k - 1 => g[x] <= b
    BY <1>2
  <2> DEFINE e == IF k \in S THEN b + g[k] ELSE b
  <2>2. e \in Nat /\ b <= e /\ (k \in S => g[k] <= e)
    OBVIOUS
  <2> HIDE DEF e
  <2>3. ASSUME NEW x \in S, x <= k PROVE g[x] <= e
    <3>1. g[x] \in Nat /\ x \in Nat
      OBVIOUS
    <3>2. CASE x = k
      BY <2>2, <3>2
    <3>3. CASE x # k
      <4>1. x <= k - 1
        BY <2>3, <3>1, <3>3
      <4>2. g[x] <= b
        BY <2>1, <4>1
      <4> QED
        BY <2>2, <3>1, <4>2
    <3> QED
      BY <3>2, <3>3
  <2> QED
    BY <2>2, <2>3
<1>3. f[0] \in Good /\ \A k \in 1 .. n : f[k - 1] \in Good => f[k] \in Good
  <2>1. f[0] = 0
    OBVIOUS
  <2>2. ASSUME NEW k \in 1 .. n PROVE f[k - 1] = k - 1 /\ f[k] = k
    OBVIOUS
  <2> HIDE DEF Good, f
  <2> QED
    BY <1>1, <1>2, <2>1, <2>2
<1>4. n \in Good
  <2>1. n \in 0 .. n /\ f[n] = n
    OBVIOUS
  <2> HIDE DEF Good, f
  <2>2. \A k \in 0 .. n : f[k] \in Good
    BY <1>3, AllAlong
  <2> QED
    BY <2>1, <2>2
<1> QED
  BY <1>4

\* i is the first of the best places of S
IsFirstBest(S, g, k) ==
    /\ k \in S
    /\ \A x \in S : g[x] <= g[k]
    /\ \A x \in S : g[x] = g[k] => k <= x

\* There is a first of the best.
LEMMA FirstBestExists ==
    ASSUME NEW n \in Nat, NEW S \in SUBSET (1 .. n), S # {}, NEW g \in [S -> Nat]
    PROVE  \E k \in S : IsFirstBest(S, g, k)
<1> DEFINE T == {b \in Nat : \A x \in S : g[x] <= b}
<1>1. PICK b \in T : \A c \in T : b <= c
  <2>1. T \in SUBSET Nat
    OBVIOUS
  <2>2. T # {}
    BY Bounded
  <2> HIDE DEF T
  <2> QED
    BY <2>1, <2>2, LeastNumber
<1>2. b \in Nat /\ \A x \in S : g[x] <= b
  BY <1>1
<1> DEFINE M == {x \in S : g[x] = b}
<1>3. M # {}
  <2> SUFFICES ASSUME \A x \in S : g[x] # b PROVE FALSE
    OBVIOUS
  <2>1. \A x \in S : g[x] + 1 <= b
    BY <1>2
  <2>2. b - 1 \in Nat
    <3>1. PICK x \in S : TRUE
      OBVIOUS
    <3>2. g[x] \in Nat /\ g[x] + 1 <= b
      BY <2>1
    <3> QED
      BY <1>2, <3>2
  <2>3. \A x \in S : g[x] <= b - 1
    BY <1>2, <2>1
  <2>4. b - 1 \in T
    BY <2>2, <2>3
  <2>5. ~(b <= b - 1)
    BY <1>2
  <2> HIDE DEF T
  <2> QED
    BY <1>1, <2>4, <2>5
<1>4. PICK k \in M : \A x \in M : k <= x
  <2>1. M \in SUBSET Nat
    <3>1. S \in SUBSET Nat
      OBVIOUS
    <3> QED
      BY <3>1
  <2> HIDE DEF M
  <2> QED
    BY <1>3, <2>1, LeastNumber
<1>5. k \in S /\ g[k] = b
  BY <1>4
<1> QED
  BY <1>2, <1>4, <1>5 DEF IsFirstBest

\* A power of two is a number.
LEMMA NearnessNat ==
    ASSUME NEW t \in Nat, NEW d \in Nat, d <= t
    PROVE  Nearness(d, t) \in Nat
<1> DEFINE Is(f) == f = [k \in 0 .. (t + 1) |-> IF k = 0 THEN 1 ELSE 2 * f[k - 1]]
           m == t + 1
           next == [x \in Nat |-> 2 * x]
           step == [k \in 1 .. m |-> next]
           power == CHOOSE f : Is(f)
<1>1. m \in Nat /\ step \in [1 .. m -> [Nat -> Nat]] /\ 1 \in Nat
  OBVIOUS
<1>2. PICK f : f \in Results(Nat, m, 1, step)
  <2> HIDE DEF step, m
  <2>1. Results(Nat, m, 1, step) # {}
    BY <1>1, Iterates
  <2> QED
    BY <2>1
<1>3. /\ f \in [0 .. m -> Nat] /\ f[0] = 1
      /\ \A k \in 1 .. m : f[k] = step[k][f[k - 1]]
  BY <1>2 DEF Results
<1>4. ASSUME NEW k \in 1 .. m PROVE f[k] = 2 * f[k - 1]
  <2>1. k - 1 \in 0 .. m
    BY <1>1
  <2>2. f[k - 1] \in Nat
    BY <1>3, <2>1
  <2> QED
    BY <1>3, <2>2
<1>5. Is(f)
  <2> DEFINE g == [k \in 0 .. (t + 1) |-> IF k = 0 THEN 1 ELSE 2 * f[k - 1]]
  <2>1. ASSUME NEW k \in 0 .. m PROVE f[k] = g[k]
    <3>1. k = 0 \/ k \in 1 .. m
      BY <1>1
    <3> QED
      BY <1>3, <1>4, <3>1
  <2>2. f = [k \in 0 .. m |-> f[k]]
    BY <1>3
  <2>3. g = [k \in 0 .. m |-> g[k]]
    OBVIOUS
  <2> HIDE DEF g
  <2>4. f = g
    BY <2>1, <2>2, <2>3
  <2> QED
    BY <2>4 DEF g
<1>6. Is(power)
  <2> HIDE DEF Is
  <2> QED
    BY <1>5
<1>7. Nearness(d, t) = power[t + 1 - d]
  BY DEF Nearness
<1> HIDE DEF power, step
<1>8. power[0] = 1 /\ \A k \in 1 .. m : power[k] = 2 * power[k - 1]
  <2>1. 0 \in 0 .. (t + 1) /\ \A k \in 1 .. m : k \in 0 .. (t + 1) /\ k # 0
    OBVIOUS
  <2> QED
    BY <1>6, <2>1
<1>9. \A k \in 0 .. m : power[k] \in Nat
  <2>1. power[0] \in Nat
    BY <1>8
  <2>2. ASSUME NEW k \in 1 .. m, power[k - 1] \in Nat PROVE power[k] \in Nat
    BY <1>8, <2>2
  <2> HIDE DEF m, Is
  <2> QED
    BY <1>1, <2>1, <2>2, AllAlong
<1>10. t + 1 - d \in 0 .. m
  OBVIOUS
<1> QED
  BY <1>7, <1>9, <1>10

\* The score of a context is a number.
LEMMA ContextNat ==
    ASSUME NEW a \in Nat, NEW b \in Nat
    PROVE  Context(a, b) \in Nat
<1> DEFINE c == 100 * (2 * a + 3 * b)
<1>1. c \in Nat
  OBVIOUS
<1> HIDE DEF c
<1>2. Max({c, 1}) = IF c >= 1 THEN c ELSE 1
  BY <1>1 DEF Max
<1> QED
  BY <1>1, <1>2 DEF Context, c

\* what there is to know of a list of candidates and their scores
AreCandidates(cs, sc) ==
    /\ Len(cs) \in Nat /\ DOMAIN cs = 1 .. Len(cs)
    /\ \A k \in DOMAIN cs : cs[k] \in Seq(Range(cs[k]))
    /\ sc \in [DOMAIN cs -> Nat \X Nat]

\* The score of a candidate.
ScoreOf(orig, cs, sc, k) == noisyChannelScore(orig, cs[k], sc[k], maxTypo).score

\* A candidate that counts as a typo, and its score.
LEMMA NearRight ==
    ASSUME NEW orig, orig \in Seq(Range(orig)), NEW cs, NEW sc, AreCandidates(cs, sc),
           NEW k \in DOMAIN cs
    PROVE  /\ k \in Near(orig, cs, maxTypo) <=> EditDistance(orig, cs[k]) < maxTypo
           /\ k \in Near(orig, cs, maxTypo) =>
                /\ ScoreOf(orig, cs, sc, k) \in Nat
                /\ ScoreOf(orig, cs, sc, k) =
                     Nearness(EditDistance(orig, cs[k]), maxTypo) * Context(sc[k][1], sc[k][2])
<1> DEFINE d == EditDistance(orig, cs[k])
           r == levenshteinDistance(orig, cs[k], maxTypo)
<1>1. maxTypo \in Nat
  BY QueryAssumption
<1>2. d \in Nat /\ r \in Nat /\ IF d <= maxTypo THEN r = d ELSE r > maxTypo
  <2>1. cs[k] \in Seq(Range(cs[k]))
    BY DEF AreCandidates
  <2> QED
    BY <1>1, <2>1, DistanceRight
<1> HIDE DEF d, r
<1>3. r < maxTypo <=> d < maxTypo
  BY <1>1, <1>2
<1>4. k \in Near(orig, cs, maxTypo) <=> r < maxTypo
  BY DEF Near, r
<1>5. CASE k \in Near(orig, cs, maxTypo)
  <2>1. d < maxTypo /\ r = d /\ d <= maxTypo /\ ~(r > maxTypo)
    BY <1>1, <1>2, <1>3, <1>4, <1>5
  <2>2. ScoreOf(orig, cs, sc, k) = Nearness(r, maxTypo) * Context(sc[k][1], sc[k][2])
    BY <2>1 DEF ScoreOf, noisyChannelScore, r
  <2>3. sc[k][1] \in Nat /\ sc[k][2] \in Nat
    BY DEF AreCandidates
  <2>4. Nearness(d, maxTypo) \in Nat
    BY <1>1, <1>2, <2>1, NearnessNat
  <2>5. Context(sc[k][1], sc[k][2]) \in Nat
    BY <2>3, ContextNat
  <2> QED
    BY <1>3, <1>4, <2>1, <2>2, <2>4, <2>5 DEF d
<1> QED
  BY <1>3, <1>4, <1>5 DEF d

\* Where candidates are near, the best of them is taken.
LEMMA BestTaken ==
    ASSUME NEW orig, orig \in Seq(Range(orig)), NEW cs, NEW sc, AreCandidates(cs, sc),
           Near(orig, cs, maxTypo) # {}
    PROVE  \E k \in Near(orig, cs, maxTypo) :
              /\ BestReplacement(orig, cs, sc, maxTypo) = <<cs[k]>>
              /\ \A x \in Near(orig, cs, maxTypo) :
                    ScoreOf(orig, cs, sc, x) <= ScoreOf(orig, cs, sc, k)
<1> DEFINE S == Near(orig, cs, maxTypo)
           g == [x \in S |-> ScoreOf(orig, cs, sc, x)]
           Best(k) == /\ \A x \in S : ScoreOf(orig, cs, sc, x) <= ScoreOf(orig, cs, sc, k)
                      /\ \A x \in S : ScoreOf(orig, cs, sc, x) = ScoreOf(orig, cs, sc, k)
                                        => k <= x
           best == CHOOSE k \in S : Best(k)
<1>1. Len(cs) \in Nat /\ S \in SUBSET (1 .. Len(cs)) /\ S # {}
  BY DEF Near, AreCandidates
<1>2. g \in [S -> Nat]
  <2>1. ASSUME NEW x \in S PROVE ScoreOf(orig, cs, sc, x) \in Nat
    <3>1. x \in DOMAIN cs
      BY DEF Near
    <3> QED
      BY <3>1, NearRight
  <2> QED
    BY <2>1
<1>3. BestReplacement(orig, cs, sc, maxTypo) = <<cs[best]>>
  BY DEF BestReplacement, FirstBest, ScoreOf
<1> HIDE DEF S
<1>4. \E k \in S : Best(k)
  <2>1. PICK k \in S : IsFirstBest(S, g, k)
    <3> HIDE DEF g
    <3> QED
      BY <1>1, <1>2, FirstBestExists
  <2> QED
    BY <2>1 DEF IsFirstBest
<1>5. best \in S /\ Best(best)
  <2> HIDE DEF Best
  <2> QED
    BY <1>4
<1> QED
  BY <1>3, <1>5 DEF S

\* Where none is near, the word is split, or stays as it is.
LEMMA SplitOrKept ==
    ASSUME NEW orig, orig \in Seq(Range(orig)), NEW cs, NEW sc, AreCandidates(cs, sc),
           Near(orig, cs, maxTypo) = {}
    PROVE  LET r == BestReplacement(orig, cs, sc, maxTypo)
           IN  IF Splits(orig, cs) = {} THEN Len(r) # 2 /\ r = <<orig>>
               ELSE /\ Len(r) = 2
                    /\ r[1] \o r[2] = orig
                    /\ Range(r) \subseteq Range(cs)
<1> DEFINE S == Splits(orig, cs)
           r == BestReplacement(orig, cs, sc, maxTypo)
           n == Len(orig)
           place(w) == CHOOSE k \in DOMAIN cs : cs[k] = w
           part1(k) == SubSeq(orig, 1, k)
           part2(k) == SubSeq(orig, k + 1, n)
           score(k) == Context(sc[place(part1(k))][1], sc[place(part2(k))][2])
           Best(k) == /\ \A x \in S : score(x) <= score(k)
                      /\ \A x \in S : score(x) = score(k) => k <= x
           at == CHOOSE k \in S : Best(k)
           g == [x \in S |-> score(x)]
<1>1. r = IF S # {} THEN <<part1(at), part2(at)>> ELSE <<orig>>
  BY DEF BestReplacement, FirstBest
<1>2. n \in Nat
  OBVIOUS
<1>3. ASSUME NEW k \in S
      PROVE  /\ k \in 3 .. n - 3
             /\ part1(k) \in Range(cs) /\ part2(k) \in Range(cs)
  BY DEF Splits
<1>4. ASSUME NEW w \in Range(cs) PROVE place(w) \in DOMAIN cs
  <2>1. \E k \in DOMAIN cs : cs[k] = w
    BY DEF Range
  <2> QED
    BY <2>1
<1>5. ASSUME NEW k \in S PROVE score(k) \in Nat
  <2>1. place(part1(k)) \in DOMAIN cs /\ place(part2(k)) \in DOMAIN cs
    <3> HIDE DEF place, part1, part2, S
    <3> QED
      BY <1>3, <1>4
  <2> DEFINE a == sc[place(part1(k))]
             b == sc[place(part2(k))]
  <2>2. a \in Nat \X Nat /\ b \in Nat \X Nat
    <3> HIDE DEF place, part1, part2, S
    <3> QED
      BY <2>1 DEF AreCandidates
  <2> HIDE DEF a, b
  <2>3. Context(a[1], b[2]) \in Nat
    BY <2>2, ContextNat
  <2> QED
    BY <2>3 DEF a, b
<1> HIDE DEF S, score
<1>6. CASE S # {}
  <2>1. S \in SUBSET (1 .. n)
    BY <1>2, <1>3
  <2>2. g \in [S -> Nat]
    BY <1>5
  <2>3. \E k \in S : Best(k)
    <3>1. PICK k \in S : IsFirstBest(S, g, k)
      <4> HIDE DEF g
      <4> QED
        BY <1>2, <1>6, <2>1, <2>2, FirstBestExists
    <3> QED
      BY <3>1 DEF IsFirstBest
  <2>4. at \in S
    <3> HIDE DEF Best
    <3> QED
      BY <2>3
  <2> HIDE DEF at
  <2>5. r = <<part1(at), part2(at)>>
    BY <1>1, <1>6 DEF at
  <2>6. at \in 3 .. n - 3 /\ part1(at) \in Range(cs) /\ part2(at) \in Range(cs)
    BY <1>3, <2>4
  <2>7. part1(at) \o part2(at) = orig
    <3>1. /\ orig \in Seq(Range(orig)) /\ at \in 0 .. n /\ at \in 1 - 1 .. Len(orig)
          /\ n \in at .. Len(orig) /\ 1 \in 1 .. Len(orig) + 1
      BY <1>2, <2>6
    <3>2. SubSeq(orig, 1, at) \o SubSeq(orig, at + 1, n) = SubSeq(orig, 1, n)
      BY <3>1, ConcatAdjacentSubSeq
    <3>3. SubSeq(orig, 1, n) = orig
      BY <3>1, SubSeqFull
    <3> QED
      BY <3>2, <3>3
  <2> HIDE DEF r, part1, part2
  <2>8. /\ Len(r) = 2
        /\ r[1] \o r[2] = orig
        /\ Range(r) \subseteq Range(cs)
    BY <2>5, <2>6, <2>7 DEF Range
  <2> QED
    BY <1>6, <2>8 DEF r, S
<1>7. CASE S = {}
  <2>1. r = <<orig>>
    BY <1>1, <1>7
  <2> HIDE DEF r
  <2>2. Len(r) # 2
    BY <2>1
  <2> QED
    BY <1>7, <2>1, <2>2 DEF r, S
<1> QED
  BY <1>6, <1>7

\* A list of candidates of the index.
LEMMA CandidatesAre ==
    ASSUME NEW cs \in CandidateLists, NEW sc \in [DOMAIN cs -> Scores]
    PROVE  AreCandidates(cs, sc)
<1>1. PICK C \in SUBSET (DOMAIN Docs) : cs \in SetToSeqs(C)
  BY DEF CandidateLists
<1>2. Cardinality(C) \in Nat
  <2>1. IsFiniteSet(C)
    BY QueryAssumption, FS_Subset
  <2> QED
    BY <2>1, FS_CardinalityType
<1>3. cs \in [1 .. Cardinality(C) -> C]
  BY <1>1 DEF SetToSeqs
<1>4. Len(cs) = Cardinality(C) /\ DOMAIN cs = 1 .. Len(cs)
  BY <1>2, <1>3
<1>5. \A w \in DOMAIN Docs : w \in Seq(Range(w))
  BY QueryAssumption
<1>6. \A k \in DOMAIN cs : cs[k] \in Seq(Range(cs[k]))
  BY <1>3, <1>5
<1>7. sc \in [DOMAIN cs -> Nat \X Nat]
  BY QueryAssumption
<1> QED
  BY <1>2, <1>4, <1>6, <1>7 DEF AreCandidates

\* what ReplacementBest says of a call
BestOf(orig, cs, sc, r) ==
    LET near == {k \in DOMAIN cs : EditDistance(orig, cs[k]) < maxTypo}
        score(k) == Nearness(EditDistance(orig, cs[k]), maxTypo) * Context(sc[k][1], sc[k][2])
    IN  IF near # {} THEN \E k \in near : /\ r = <<cs[k]>>
                                          /\ \A m \in near : score(m) <= score(k)
        ELSE IF Len(r) = 2 THEN /\ r[1] \o r[2] = orig
                                /\ Range(r) \subseteq Range(cs)
        ELSE r = <<orig>> /\ Splits(orig, cs) = {}

\* BestReplacement does as it says.
LEMMA ReplacementRight ==
    ASSUME NEW orig, orig \in Seq(Range(orig)), NEW cs, NEW sc, AreCandidates(cs, sc)
    PROVE  BestOf(orig, cs, sc, BestReplacement(orig, cs, sc, maxTypo))
<1> DEFINE near == {k \in DOMAIN cs : EditDistance(orig, cs[k]) < maxTypo}
           score(k) == Nearness(EditDistance(orig, cs[k]), maxTypo) * Context(sc[k][1], sc[k][2])
           r == BestReplacement(orig, cs, sc, maxTypo)
<1>1. near = Near(orig, cs, maxTypo)
  <2>1. ASSUME NEW k \in DOMAIN cs
        PROVE  k \in Near(orig, cs, maxTypo) <=> EditDistance(orig, cs[k]) < maxTypo
    BY NearRight
  <2>2. Near(orig, cs, maxTypo) \subseteq DOMAIN cs
    BY DEF Near
  <2> QED
    BY <2>1, <2>2
<1>2. ASSUME NEW k \in near PROVE ScoreOf(orig, cs, sc, k) = score(k)
  <2>1. k \in DOMAIN cs /\ k \in Near(orig, cs, maxTypo)
    BY <1>1
  <2> QED
    BY <2>1, NearRight
<1>3. CASE near # {}
  <2>1. PICK k \in near : /\ r = <<cs[k]>>
                          /\ \A x \in near : ScoreOf(orig, cs, sc, x) <= ScoreOf(orig, cs, sc, k)
    BY <1>1, <1>3, BestTaken
  <2> HIDE DEF near, score, r
  <2>2. \A x \in near : score(x) <= score(k)
    BY <1>2, <2>1
  <2>3. near # {} /\ \E x \in near : r = <<cs[x]>> /\ \A m \in near : score(m) <= score(x)
    BY <2>1, <2>2
  <2> QED
    BY <2>3 DEF BestOf, near, score, r
<1>4. CASE near = {}
  <2>1. IF Splits(orig, cs) = {} THEN Len(r) # 2 /\ r = <<orig>>
        ELSE /\ Len(r) = 2
             /\ r[1] \o r[2] = orig
             /\ Range(r) \subseteq Range(cs)
    BY <1>1, <1>4, SplitOrKept
  <2> HIDE DEF r
  <2>2. \A k \in DOMAIN cs : ~(EditDistance(orig, cs[k]) < maxTypo)
    BY <1>4
  <2>3. IF Len(r) = 2 THEN /\ r[1] \o r[2] = orig
                          /\ Range(r) \subseteq Range(cs)
        ELSE r = <<orig>> /\ Splits(orig, cs) = {}
    BY <2>1, Zenon
  <2>4. BestOf(orig, cs, sc, r)
    <3> HIDE DEF near, score
    <3> QED
      BY <1>4, <2>3 DEF BestOf, near
  <2> QED
    BY <2>4 DEF r
<1> QED
  BY <1>3, <1>4

\* BestReplacement takes a best of the candidates at a distance below maxTypo; only where there
\* is none it splits the word into two candidates, and only where that cannot be done either it
\* leaves the word alone (spellChecker.go:24-67).
THEOREM ReplacementsBest == QuerySpec => []ReplacementBest
<1>1. QueryInit => ReplacementBest
  BY DEF QueryInit, NoCall, ReplacementBest
<1>2. ReplacementBest /\ [QueryNext]_queryVars => ReplacementBest'
  <2> SUFFICES ASSUME ReplacementBest, [QueryNext]_queryVars
               PROVE  ReplacementBest'
    OBVIOUS
  <2>1. CASE Replace
    <3>1. PICK w \in QueryWords : \E cs \in CandidateLists : \E sc \in [DOMAIN cs -> Scores] :
             call' = [op |-> "replace", orig |-> w, candidates |-> cs, scores |-> sc,
                      result |-> BestReplacement(w, cs, sc, maxTypo)]
      BY <2>1 DEF Replace, Call
    <3>2. PICK cs \in CandidateLists : \E sc \in [DOMAIN cs -> Scores] :
             call' = [op |-> "replace", orig |-> w, candidates |-> cs, scores |-> sc,
                      result |-> BestReplacement(w, cs, sc, maxTypo)]
      BY <3>1
    <3>3. PICK sc \in [DOMAIN cs -> Scores] :
             call' = [op |-> "replace", orig |-> w, candidates |-> cs, scores |-> sc,
                      result |-> BestReplacement(w, cs, sc, maxTypo)]
      BY <3>2
    <3>4. BestOf(w, cs, sc, BestReplacement(w, cs, sc, maxTypo))
      <4>1. AreCandidates(cs, sc)
        BY CandidatesAre
      <4>2. w \in Seq(Range(w))
        BY QueryAssumption
      <4> QED
        BY <4>1, <4>2, ReplacementRight
    <3>5. /\ call'.orig = w /\ call'.candidates = cs /\ call'.scores = sc
          /\ call'.result = BestReplacement(w, cs, sc, maxTypo)
      BY <3>3
    <3> QED
      BY <3>4, <3>5 DEF ReplacementBest, BestOf
  <2>2. CASE UNCHANGED call
    BY <2>2 DEF ReplacementBest
  <2>3. CASE call'.op # "replace"
    BY <2>3 DEF ReplacementBest
  <2>4. Replace \/ UNCHANGED call \/ call'.op # "replace"
    BY CallsApart
  <2> QED
    BY <2>1, <2>2, <2>3, <2>4
<1> QED
  BY <1>1, <1>2, PTL DEF QuerySpec

-----------------------------------------------------------------------------
(* The proximity of the words of a query                                   *)

\* An increasing list increases over any distance.
LEMMA IncreasingFar ==
    ASSUME NEW q \in Seq(Nat), Increasing(q)
    PROVE  \A a, b \in DOMAIN q : a <= b => q[a] <= q[b]
<1> DEFINE n == Len(q)
           Good == {k \in 0 .. n : \A a \in 1 .. k : q[a] <= q[k]}
           f == [k \in 0 .. n |-> k]
<1>1. n \in Nat /\ DOMAIN q = 1 .. n /\ \A k \in 1 .. n : q[k] \in Nat
  OBVIOUS
<1>2. \A k \in 1 .. n - 1 : q[k] < q[k + 1]
  BY DEF Increasing
<1> HIDE DEF n
<1>3. 0 \in Good
  BY <1>1
<1>4. ASSUME NEW k \in 1 .. n, k - 1 \in Good PROVE k \in Good
  <2>1. k \in 0 .. n
    BY <1>1
  <2>2. ASSUME NEW a \in 1 .. k PROVE q[a] <= q[k]
    <3>1. CASE a = k
      BY <1>1, <3>1
    <3>2. CASE a # k
      <4> DEFINE p == k - 1
      <4>1. p \in 1 .. n - 1 /\ p + 1 = k /\ a \in 1 .. p /\ a \in 1 .. n /\ p \in 1 .. n
        BY <1>1, <3>2
      <4>2. \A x \in 1 .. p : q[x] <= q[p]
        BY <1>4
      <4>3. q[a] <= q[p]
        BY <4>1, <4>2
      <4> HIDE DEF p
      <4>4. q[p] < q[k]
        BY <1>2, <4>1
      <4> QED
        BY <1>1, <4>1, <4>3, <4>4
    <3> QED
      BY <3>1, <3>2
  <2> QED
    BY <2>1, <2>2
<1>5. \A k \in 0 .. n : k \in Good
  <2>1. f[0] \in Good /\ \A k \in 1 .. n : f[k - 1] \in Good => f[k] \in Good
    <3>1. f[0] = 0
      BY <1>1
    <3>2. ASSUME NEW k \in 1 .. n PROVE f[k - 1] = k - 1 /\ f[k] = k
      BY <1>1
    <3> HIDE DEF Good, f
    <3> QED
      BY <1>3, <1>4, <3>1, <3>2
  <2> HIDE DEF Good, f
  <2>2. \A k \in 0 .. n : f[k] \in Good
    BY <1>1, <2>1, AllAlong
  <2> QED
    BY <2>2 DEF f
<1>6. ASSUME NEW a \in 1 .. n, NEW b \in 1 .. n, a <= b PROVE q[a] <= q[b]
  <2>1. b \in 0 .. n /\ a \in 1 .. b
    BY <1>1, <1>6
  <2> QED
    BY <1>5, <2>1
<1> QED
  BY <1>1, <1>6

\* What the bisection has after k passes.
HalvesTo(arr, target, k, st) ==
    LET n == Len(arr)
    IN  /\ st \in [l : 1 .. n + 1, r : 1 .. n + 1]
        /\ st.l <= st.r /\ st.r - st.l <= n - k
        /\ st.r <= n => arr[st.r] > target
        /\ Increasing(arr) => \A x \in 1 .. st.l - 1 : arr[x] <= target

\* One pass more.
LEMMA HalveRight ==
    ASSUME NEW arr \in Seq(Nat), NEW target \in Nat, NEW k \in 1 .. Len(arr), NEW st,
           HalvesTo(arr, target, k - 1, st)
    PROVE  HalvesTo(arr, target, k, Halve(arr, target, st))
<1> DEFINE n == Len(arr)
           l == st.l
           r == st.r
           m == (l + r) \div 2
           t == Halve(arr, target, st)
<1>1. /\ st = [l |-> l, r |-> r] /\ l \in 1 .. n + 1 /\ r \in 1 .. n + 1
      /\ l <= r /\ r - l <= n - (k - 1)
      /\ r <= n => arr[r] > target
      /\ Increasing(arr) => \A x \in 1 .. l - 1 : arr[x] <= target
  BY DEF HalvesTo
<1>2. n \in Nat /\ \A x \in 1 .. n : arr[x] \in Nat
  OBVIOUS
<1>3. k \in Nat /\ k >= 1 /\ k <= n
  OBVIOUS
<1> HIDE DEF n
<1>4. CASE l >= r
  <2>1. t = st
    BY <1>4 DEF Halve
  <2>2. r - l <= n - k
    BY <1>1, <1>2, <1>3, <1>4
  <2> QED
    BY <1>1, <2>1, <2>2 DEF HalvesTo, n
<1>5. CASE ~(l >= r)
  <2>1. l \in Nat /\ r \in Nat /\ 1 <= l /\ l < r /\ r <= n + 1
    BY <1>1, <1>2, <1>5
  <2>2. m \in Nat /\ l <= m /\ m < r
    <3> HIDE DEF l, r
    <3> QED
      BY <2>1
  <2>3. m \in 1 .. n /\ m + 1 \in 1 .. n + 1
    <3> HIDE DEF m, l, r
    <3> QED
      BY <1>2, <2>1, <2>2
  <2>4. CASE arr[m] <= target
    <3>1. t = [l |-> m + 1, r |-> r]
      BY <1>5, <2>4 DEF Halve
    <3>2. m + 1 <= r /\ r - (m + 1) <= n - k
      <4>1. r - l <= n - (k - 1)
        BY <1>1
      <4> HIDE DEF m, l, r
      <4>2. m + 1 <= r /\ r - (m + 1) <= (r - l) - 1
        BY <2>1, <2>2
      <4>3. (r - l) - 1 <= n - k /\ r - l \in Nat
        BY <1>2, <1>3, <2>1, <4>1
      <4> QED
        BY <1>2, <1>3, <2>1, <2>2, <4>2, <4>3
    <3>3. ASSUME Increasing(arr), NEW x \in 1 .. m PROVE arr[x] <= target
      <4>1. x \in 1 .. n /\ x <= m /\ DOMAIN arr = 1 .. n
        BY <1>2, <2>3 DEF n
      <4>2. arr[x] <= arr[m]
        BY <2>3, <3>3, <4>1, IncreasingFar
      <4>3. arr[x] \in Nat /\ arr[m] \in Nat
        BY <1>2, <2>3, <4>1
      <4> HIDE DEF m
      <4> QED
        BY <2>4, <4>2, <4>3
    <3>4. 1 .. (m + 1) - 1 = 1 .. m
      BY <2>2
    <3> HIDE DEF m, l, r, t
    <3>5. /\ t \in [l : 1 .. n + 1, r : 1 .. n + 1] /\ t.l = m + 1 /\ t.r = r
      BY <1>1, <2>3, <3>1
    <3> QED
      BY <1>1, <3>2, <3>3, <3>4, <3>5 DEF HalvesTo, n, t
  <2>5. CASE ~(arr[m] <= target)
    <3>1. t = [l |-> l, r |-> m]
      BY <1>5, <2>5 DEF Halve
    <3>2. l <= m /\ m - l <= n - k
      <4>1. r - l <= n - (k - 1)
        BY <1>1
      <4> HIDE DEF m, l, r
      <4> QED
        BY <1>2, <1>3, <2>1, <2>2, <4>1
    <3>3. arr[m] > target
      <4>1. arr[m] \in Nat
        BY <1>2, <2>3
      <4> DEFINE a == arr[m]
      <4> HIDE DEF a
      <4>2. a \in Nat /\ ~(a <= target)
        BY <2>5, <4>1 DEF a
      <4>3. a > target
        BY <4>2
      <4> QED
        BY <4>3 DEF a
    <3> HIDE DEF m, l, r, t
    <3>4. /\ t \in [l : 1 .. n + 1, r : 1 .. n + 1] /\ t.l = l /\ t.r = m
      BY <1>1, <1>2, <2>3, <3>1
    <3> QED
      BY <1>1, <3>2, <3>3, <3>4 DEF HalvesTo, n, t
  <2> QED
    BY <2>4, <2>5
<1> QED
  BY <1>4, <1>5

IsLeft(arr, target, f) ==
    f = [k \in 0 .. Len(arr) |->
           IF k = 0 THEN [l |-> 1, r |-> Len(arr) + 1] ELSE Halve(arr, target, f[k - 1])]

\* There is a function of what is left after each pass.
LEMMA LeftExists ==
    ASSUME NEW arr \in Seq(Nat), NEW target \in Nat
    PROVE  \E f : IsLeft(arr, target, f)
<1> DEFINE X == [l : Nat, r : Nat]
           n == Len(arr)
           a == [l |-> 1, r |-> n + 1]
           next == [st \in X |-> Halve(arr, target, st)]
           step == [k \in 1 .. n |-> next]
<1>1. n \in Nat /\ a \in X
  OBVIOUS
<1>2. ASSUME NEW st \in X PROVE Halve(arr, target, st) \in X
  <2> DEFINE m == (st.l + st.r) \div 2
  <2>1. m \in Nat /\ m + 1 \in Nat
    OBVIOUS
  <2> HIDE DEF m
  <2>2. Halve(arr, target, st) = IF st.l >= st.r THEN st
                                 ELSE IF arr[m] <= target THEN [l |-> m + 1, r |-> st.r]
                                 ELSE [l |-> st.l, r |-> m]
    BY DEF Halve, m
  <2> QED
    BY <2>1, <2>2
<1> HIDE DEF X, n, a
<1>3. step \in [1 .. n -> [X -> X]]
  BY <1>2
<1>4. PICK f : f \in Results(X, n, a, step)
  <2> HIDE DEF step
  <2>1. Results(X, n, a, step) # {}
    BY <1>1, <1>3, Iterates
  <2> QED
    BY <2>1
<1>5. /\ f \in [0 .. n -> X] /\ f[0] = a
      /\ \A k \in 1 .. n : f[k] = step[k][f[k - 1]]
  BY <1>4 DEF Results
<1>6. ASSUME NEW k \in 1 .. n PROVE f[k] = Halve(arr, target, f[k - 1])
  <2>1. k - 1 \in 0 .. n
    BY <1>1
  <2>2. f[k - 1] \in X
    BY <1>5, <2>1
  <2> QED
    BY <1>5, <2>2
<1> DEFINE d == [k \in 0 .. n |-> IF k = 0 THEN a ELSE Halve(arr, target, f[k - 1])]
<1>7. ASSUME NEW k \in 0 .. n PROVE f[k] = d[k]
  <2>1. k = 0 \/ k \in 1 .. n
    BY <1>1
  <2> QED
    BY <1>5, <1>6, <2>1
<1>8. f = d
  <2>1. f = [k \in 0 .. n |-> f[k]]
    BY <1>5
  <2> HIDE DEF d
  <2>2. d = [k \in 0 .. n |-> d[k]]
    BY DEF d
  <2> QED
    BY <1>7, <2>1, <2>2
<1> QED
  BY <1>8 DEF IsLeft, n, a

\* p is the first place of arr after target, or the one behind its end
IsAfterTarget(arr, target, p) ==
    /\ p \in 1 .. Len(arr) + 1
    /\ p <= Len(arr) => arr[p] > target
    /\ Increasing(arr) => \A x \in 1 .. p - 1 : arr[x] <= target

\* The search finds a later position, the first one if the list increases.
LEMMA SearchRight ==
    ASSUME NEW arr \in Seq(Nat), NEW target \in Nat
    PROVE  IsAfterTarget(arr, target, bs(arr, target))
<1> DEFINE n == Len(arr)
           left == CHOOSE f : IsLeft(arr, target, f)
           Good == {k \in 0 .. n : HalvesTo(arr, target, k, left[k])}
           f == [k \in 0 .. n |-> k]
<1>1. n \in Nat
  OBVIOUS
<1>2. bs(arr, target) = left[n].l
  BY DEF bs, IsLeft
<1>3. IsLeft(arr, target, left)
  <2>1. \E x : IsLeft(arr, target, x)
    BY LeftExists
  <2> QED
    BY <2>1
<1> HIDE DEF left
<1>4. /\ left[0] = [l |-> 1, r |-> n + 1]
      /\ \A k \in 1 .. n : left[k] = Halve(arr, target, left[k - 1])
  <2>1. 0 \in 0 .. n /\ \A k \in 1 .. n : k \in 0 .. n /\ k # 0
    BY <1>1
  <2> HIDE DEF n
  <2>2. left = [k \in 0 .. n |->
                  IF k = 0 THEN [l |-> 1, r |-> n + 1] ELSE Halve(arr, target, left[k - 1])]
    BY <1>3 DEF IsLeft, n
  <2> QED
    BY <2>1, <2>2
<1>5. 0 \in Good
  <2>1. HalvesTo(arr, target, 0, [l |-> 1, r |-> n + 1])
    BY <1>1 DEF HalvesTo
  <2> QED
    BY <1>1, <1>4, <2>1
<1>6. ASSUME NEW k \in 1 .. n, k - 1 \in Good PROVE k \in Good
  <2>1. HalvesTo(arr, target, k - 1, left[k - 1])
    BY <1>6
  <2>2. HalvesTo(arr, target, k, Halve(arr, target, left[k - 1]))
    BY <2>1, HalveRight
  <2>3. k \in 0 .. n
    BY <1>1
  <2> QED
    BY <1>4, <2>2, <2>3
<1>7. HalvesTo(arr, target, n, left[n])
  <2>1. f[0] \in Good /\ \A k \in 1 .. n : f[k - 1] \in Good => f[k] \in Good
    <3>1. f[0] = 0
      BY <1>1
    <3>2. ASSUME NEW k \in 1 .. n PROVE f[k - 1] = k - 1 /\ f[k] = k
      BY <1>1
    <3> HIDE DEF Good, f
    <3> QED
      BY <1>5, <1>6, <3>1, <3>2
  <2> HIDE DEF Good, f
  <2>2. \A k \in 0 .. n : f[k] \in Good
    BY <1>1, <2>1, AllAlong
  <2>3. n \in 0 .. n /\ f[n] = n
    BY <1>1 DEF f
  <2>4. n \in Good
    BY <2>2, <2>3
  <2> QED
    BY <2>4 DEF Good
<1> HIDE DEF Good, f
<1>8. left[n].l = left[n].r
  BY <1>1, <1>7 DEF HalvesTo
<1> QED
  BY <1>2, <1>7, <1>8 DEF HalvesTo, IsAfterTarget

\* f is a chain of increasing positions of the words a..b
IsChain(ps, a, b, f) ==
    /\ f = [x \in a .. b |-> f[x]]
    /\ \A j \in a .. b : f[j] \in Range(ps[j])
    /\ \A j \in a .. (b - 1) : f[j] < f[j + 1]

\* what there is to know of the lists of positions
AreLists(ps) == /\ Len(ps) \in Nat
                /\ \A j \in 1 .. Len(ps) : ps[j] \in Seq(Nat)

\* all positions of each word increase
AllIncrease(ps) == \A j \in 1 .. Len(ps) : Increasing(ps[j])

\* A position of a chain is one of the list of its word.
LEMMA ChainPosition ==
    ASSUME NEW ps, AreLists(ps), NEW a \in 1 .. Len(ps), NEW b \in a .. Len(ps),
           NEW f, IsChain(ps, a, b, f), NEW j \in a .. b
    PROVE  /\ ps[j] # <<>> /\ f[j] \in Nat
           /\ \E x \in DOMAIN ps[j] : f[j] = ps[j][x]
<1>1. f[j] \in Range(ps[j])
  BY DEF IsChain
<1>2. \E x \in DOMAIN ps[j] : f[j] = ps[j][x]
  BY <1>1 DEF Range
<1>3. ps[j] \in Seq(Nat)
  BY DEF AreLists
<1> DEFINE q == ps[j]
<1> HIDE DEF q
<1>4. q # <<>> /\ f[j] \in Nat
  <2>1. \E x \in DOMAIN q : f[j] = q[x]
    BY <1>2 DEF q
  <2>2. q \in Seq(Nat)
    BY <1>3 DEF q
  <2> QED
    BY <2>1, <2>2
<1> QED
  BY <1>2, <1>4 DEF q

\* g is what f is up to word b
IsBegin(ps, a, b, f, g) == IsChain(ps, a, b, g) /\ \A j \in a .. b : g[j] = f[j]

\* The first words of a chain are a chain.
LEMMA ChainCut ==
    ASSUME NEW ps, NEW a \in Nat, NEW b \in Nat, NEW c \in a .. b,
           NEW f, IsChain(ps, a, b, f)
    PROVE  \E g : IsBegin(ps, a, c, f, g)
<1> DEFINE g == [x \in a .. c |-> f[x]]
<1>1. c \in Nat /\ \A j \in a .. c : j \in a .. b
  OBVIOUS
<1>2. \A j \in a .. (c - 1) : j \in a .. (b - 1) /\ j \in a .. c /\ j + 1 \in a .. c
  BY <1>1
<1>3. \A j \in a .. c : g[j] = f[j]
  OBVIOUS
<1>4. g = [x \in a .. c |-> g[x]]
  OBVIOUS
<1> HIDE DEF g
<1>5. IsChain(ps, a, c, g)
  BY <1>1, <1>2, <1>3, <1>4 DEF IsChain
<1> QED
  BY <1>3, <1>5 DEF IsBegin

\* A chain goes on with a later position of the next word.
LEMMA ChainMore ==
    ASSUME NEW ps, NEW a \in Nat, NEW b \in Nat, a <= b, NEW f, IsChain(ps, a, b, f),
           NEW p \in Range(ps[b + 1]), f[b] < p
    PROVE  \E g : /\ IsChain(ps, a, b + 1, g)
                  /\ g[b + 1] = p /\ g[a] = f[a]
<1> DEFINE g == [x \in a .. (b + 1) |-> IF x = b + 1 THEN p ELSE f[x]]
<1>1. \A j \in a .. (b + 1) : j = b + 1 \/ j \in a .. b
  OBVIOUS
<1>2. \A j \in a .. b : j # b + 1 /\ j \in a .. (b + 1) /\ g[j] = f[j]
  OBVIOUS
<1>3. b + 1 \in a .. (b + 1) /\ g[b + 1] = p /\ b \in a .. b /\ a \in a .. b
  OBVIOUS
<1>4. g = [x \in a .. (b + 1) |-> g[x]]
  OBVIOUS
<1> HIDE DEF g
<1>5. \A j \in a .. (b + 1) : g[j] \in Range(ps[j])
  BY <1>1, <1>2, <1>3 DEF IsChain
<1>6. ASSUME NEW j \in a .. (b + 1) - 1 PROVE g[j] < g[j + 1]
  <2>1. CASE j = b
    BY <1>2, <1>3, <2>1
  <2>2. CASE j # b
    <3>1. j \in a .. (b - 1) /\ j \in a .. b /\ j + 1 \in a .. b
      BY <2>2
    <3> QED
      BY <1>2, <3>1 DEF IsChain
  <2> QED
    BY <2>1, <2>2
<1>7. IsChain(ps, a, b + 1, g)
  BY <1>4, <1>5, <1>6 DEF IsChain
<1> QED
  BY <1>2, <1>3, <1>7

\* The greedy chain from start of word a has come to last at word b, and, if all positions
\* increase, no chain is earlier there.
Reached(ps, a, start, b, last) ==
    /\ \E f : IsChain(ps, a, b, f) /\ f[a] = start /\ f[b] = last
    /\ AllIncrease(ps) => \A g : IsChain(ps, a, b, g) /\ g[a] = start => last <= g[b]

\* At the first word it has.
LEMMA ReachedFirst ==
    ASSUME NEW ps, AreLists(ps), NEW a \in 1 .. Len(ps), NEW start \in Range(ps[a])
    PROVE  Reached(ps, a, start, a, start)
<1> DEFINE f == [x \in a .. a |-> start]
<1>1. Len(ps) \in Nat /\ ps[a] \in Seq(Nat)
  BY DEF AreLists
<1>2. start \in Nat
  <2> DEFINE q == ps[a]
  <2>1. \E x \in DOMAIN q : start = q[x]
    BY DEF Range
  <2> QED
    BY <1>1, <2>1
<1>3. a .. a = {a} /\ a .. (a - 1) = {}
  BY <1>1
<1>4. IsChain(ps, a, a, f) /\ f[a] = start
  BY <1>3 DEF IsChain
<1> HIDE DEF f
<1> QED
  BY <1>2, <1>4 DEF Reached

\* It goes on with the position that the search finds.
LEMMA ReachedNext ==
    ASSUME NEW ps, AreLists(ps), NEW a \in 1 .. Len(ps), NEW b \in a .. Len(ps) - 1,
           NEW start \in Nat, NEW last \in Nat, Reached(ps, a, start, b, last),
           NEW p, IsAfterTarget(ps[b + 1], last, p), p <= Len(ps[b + 1])
    PROVE  Reached(ps, a, start, b + 1, ps[b + 1][p])
<1> DEFINE q == ps[b + 1]
           c == b + 1
<1>1. /\ Len(ps) \in Nat /\ a \in Nat /\ b \in Nat /\ a <= b /\ c \in 1 .. Len(ps)
      /\ b \in 1 .. Len(ps) /\ c \in a .. Len(ps) /\ b \in a .. Len(ps)
      /\ c \in Nat /\ b \in a .. c
  BY DEF AreLists
<1>2. q \in Seq(Nat)
  BY <1>1 DEF AreLists
<1>3. p \in 1 .. Len(q) /\ p \in DOMAIN q /\ q[p] \in Nat /\ q[p] > last
  <2> HIDE DEF q
  <2>1. p \in 1 .. Len(q) + 1 /\ p <= Len(q) /\ q[p] > last
    BY DEF IsAfterTarget, q
  <2> QED
    BY <1>2, <2>1
<1>4. \E f : IsChain(ps, a, c, f) /\ f[a] = start /\ f[c] = q[p]
  <2>1. PICK f : IsChain(ps, a, b, f) /\ f[a] = start /\ f[b] = last
    BY DEF Reached
  <2>2. q[p] \in Range(ps[b + 1]) /\ f[b] < q[p]
    <3>1. q[p] \in Range(q)
      BY <1>3 DEF Range
    <3> QED
      BY <1>3, <2>1, <3>1
  <2> HIDE DEF q
  <2>3. PICK g : /\ IsChain(ps, a, b + 1, g)
                 /\ g[b + 1] = q[p] /\ g[a] = f[a]
    BY <1>1, <2>1, <2>2, ChainMore
  <2> QED
    BY <2>1, <2>3
<1>5. ASSUME AllIncrease(ps), NEW g, IsChain(ps, a, c, g), g[a] = start
      PROVE  q[p] <= g[c]
  <2>1. PICK h : IsChain(ps, a, b, h) /\ \A j \in a .. b : h[j] = g[j]
    <3>1. a \in Nat /\ c \in Nat /\ b \in a .. c /\ IsChain(ps, a, c, g)
      BY <1>1, <1>5
    <3>2. \E h : IsBegin(ps, a, b, g, h)
      <4> HIDE DEF c, q
      <4> QED
        BY <3>1, ChainCut
    <3> QED
      BY <3>2 DEF IsBegin
  <2>2. h[a] = start /\ h[b] = g[b]
    <3>1. a \in a .. b /\ b \in a .. b
      BY <1>1
    <3> QED
      BY <1>5, <2>1, <3>1
  <2>3. last <= g[b]
    BY <1>5, <2>1, <2>2 DEF Reached
  <2>4. g[b] < g[c] /\ g[b] \in Nat
    <3>1. b \in a .. (c - 1) /\ b \in a .. c
      BY <1>1
    <3>2. g[b] < g[c]
      BY <1>5, <3>1 DEF IsChain
    <3> HIDE DEF c
    <3>3. g[b] \in Nat
      BY <1>1, <1>5, <3>1, ChainPosition
    <3> QED
      BY <3>2, <3>3
  <2>5. PICK x \in DOMAIN q : g[c] = q[x]
    <3>1. c \in a .. c
      BY <1>1
    <3>2. \E x \in DOMAIN ps[c] : g[c] = ps[c][x]
      <4> HIDE DEF c
      <4> QED
        BY <1>1, <1>5, <3>1, ChainPosition
    <3> QED
      BY <3>2
  <2>6. Increasing(q)
    BY <1>1, <1>5 DEF AllIncrease
  <2> HIDE DEF q
  <2>7. q[x] \in Nat /\ q[x] > last /\ x \in 1 .. Len(q)
    <3>1. q[x] \in Nat /\ x \in 1 .. Len(q)
      BY <1>2
    <3> QED
      BY <2>3, <2>4, <2>5, <3>1
  <2>8. ~(x < p)
    <3>1. \A y \in 1 .. p - 1 : q[y] <= last
      BY <2>6 DEF IsAfterTarget, q
    <3>2. ASSUME x < p PROVE FALSE
      <4>1. x \in 1 .. p - 1
        BY <1>3, <2>7, <3>2
      <4> QED
        BY <2>7, <3>1, <4>1
    <3> QED
      BY <3>2
  <2>9. p <= x
    BY <1>3, <2>7, <2>8
  <2>10. q[p] <= q[x]
    BY <1>2, <1>3, <2>6, <2>9, IncreasingFar
  <2> QED
    BY <2>5, <2>10
<1> QED
  BY <1>4, <1>5 DEF Reached

\* If it is lost at the next word, no chain gets there.
LEMMA NoneFurther ==
    ASSUME NEW ps, AreLists(ps), NEW a \in 1 .. Len(ps), NEW b \in a .. Len(ps) - 1,
           NEW start \in Nat, NEW last \in Nat, Reached(ps, a, start, b, last),
           NEW p, IsAfterTarget(ps[b + 1], last, p), p > Len(ps[b + 1]), AllIncrease(ps),
           NEW g, IsChain(ps, a, b + 1, g), g[a] = start
    PROVE  FALSE
<1> DEFINE q == ps[b + 1]
           c == b + 1
<1>1. /\ Len(ps) \in Nat /\ a \in Nat /\ b \in Nat /\ a <= b /\ c \in 1 .. Len(ps)
      /\ b \in 1 .. Len(ps) /\ c \in a .. Len(ps) /\ b \in a .. Len(ps)
      /\ c \in Nat /\ b \in a .. c
  BY DEF AreLists
<1>2. q \in Seq(Nat)
  BY <1>1 DEF AreLists
<1>3. p = Len(q) + 1
  <2> HIDE DEF q
  <2>1. p \in 1 .. Len(q) + 1 /\ p > Len(q)
    BY DEF IsAfterTarget, q
  <2> QED
    BY <1>2, <2>1
<1>4. PICK h : IsChain(ps, a, b, h) /\ \A j \in a .. b : h[j] = g[j]
  <2>1. a \in Nat /\ c \in Nat /\ b \in a .. c /\ IsChain(ps, a, c, g)
    BY <1>1
  <2>2. \E h : IsBegin(ps, a, b, g, h)
    <3> HIDE DEF c, q
    <3> QED
      BY <2>1, ChainCut
  <2> QED
    BY <2>2 DEF IsBegin
<1>5. h[a] = start /\ h[b] = g[b]
  <2>1. a \in a .. b /\ b \in a .. b
    BY <1>1
  <2> QED
    BY <1>4, <2>1
<1>6. last <= g[b]
  BY <1>4, <1>5 DEF Reached
<1>7. g[b] < g[c] /\ g[b] \in Nat
  <2>1. b \in a .. (c - 1) /\ b \in a .. c
    BY <1>1
  <2>2. g[b] < g[c]
    BY <2>1 DEF IsChain
  <2> HIDE DEF c
  <2>3. g[b] \in Nat
    BY <1>1, <2>1, ChainPosition DEF c
  <2> QED
    BY <2>2, <2>3
<1>8. PICK x \in DOMAIN q : g[c] = q[x]
  <2>1. c \in a .. c
    BY <1>1
  <2>2. \E x \in DOMAIN ps[c] : g[c] = ps[c][x]
    BY <1>1, <2>1, ChainPosition
  <2> QED
    BY <2>2
<1>9. Increasing(q)
  BY <1>1 DEF AllIncrease
<1>10. \A y \in 1 .. p - 1 : q[y] <= last
  BY <1>9 DEF IsAfterTarget
<1> HIDE DEF q
<1>11. x \in 1 .. p - 1 /\ q[x] \in Nat
  BY <1>2, <1>3
<1>12. q[x] <= last
  BY <1>10, <1>11
<1> QED
  BY <1>6, <1>7, <1>8, <1>11, <1>12

\* the chain has come through all words up to e
GoesOn(ps, i0, start, e, st) ==
    /\ st.missing = i0 - 1
    /\ Reached(ps, i0, start, e, st.last)

\* the chain has ended after word b, before one that the document has not
EndsShort(ps, i0, start, b, st) ==
    /\ ps[b + 1] = <<>>
    /\ st.missing = Len(ps) - (b + 1 - i0)
    /\ Reached(ps, i0, start, b, st.last)

\* the chain has found nothing of the word after b
EndsLost(ps, i0, start, b) ==
    /\ ps[b + 1] # <<>>
    /\ \E l \in Nat : Reached(ps, i0, start, b, l)
    /\ AllIncrease(ps) => \A g : IsChain(ps, i0, b + 1, g) => g[i0] # start

\* what is known of the greedy chain at word e
ChainState(ps, i0, start, e, st) ==
    /\ st \in [last : Nat, missing : Nat, end : {"none", "short", "lost"}]
    /\ st.end = "none" => GoesOn(ps, i0, start, e, st)
    /\ st.end = "short" => \E b \in i0 .. e - 1 : EndsShort(ps, i0, start, b, st)
    /\ st.end = "lost" => \E b \in i0 .. e - 1 : EndsLost(ps, i0, start, b)

\* One word more.
LEMMA WordRead ==
    ASSUME NEW ps, AreLists(ps), NEW i0 \in 1 .. Len(ps), NEW start \in Nat,
           NEW k \in 1 .. Len(ps) - i0, NEW st, ChainState(ps, i0, start, i0 + (k - 1), st)
    PROVE  ChainState(ps, i0, start, i0 + k, NextWord(ps, i0, k, st))
<1> DEFINE b == i0 + (k - 1)
           c == i0 + k
           arr == ps[c]
           p == bs(arr, st.last)
           t == NextWord(ps, i0, k, st)
           n == Len(ps)
<1>1. /\ n \in Nat /\ i0 \in Nat /\ k \in Nat /\ k <= n /\ b \in Nat /\ c \in Nat /\ c = b + 1
      /\ b \in i0 .. n - 1 /\ c \in 1 .. n /\ b \in i0 .. c - 1
      /\ k = b + 1 - i0
  BY DEF AreLists
<1>2. arr \in Seq(Nat)
  BY <1>1 DEF AreLists
<1>3. /\ st \in [last : Nat, missing : Nat, end : {"none", "short", "lost"}]
      /\ st.end = "none" => GoesOn(ps, i0, start, b, st)
      /\ st.end = "short" => \E x \in i0 .. b - 1 : EndsShort(ps, i0, start, x, st)
      /\ st.end = "lost" => \E x \in i0 .. b - 1 : EndsLost(ps, i0, start, x)
  BY DEF ChainState
<1>4. t = IF st.end # "none" THEN st
          ELSE IF arr = <<>>
          THEN [last |-> st.last, missing |-> n - k, end |-> "short"]
          ELSE IF p > Len(arr) THEN [last |-> st.last, missing |-> st.missing, end |-> "lost"]
          ELSE [last |-> arr[p], missing |-> st.missing, end |-> "none"]
  BY DEF NextWord
<1>5. IsAfterTarget(arr, st.last, p)
  BY <1>2, <1>3, SearchRight
<1> HIDE DEF b, p, t, n
<1>6. CASE st.end # "none"
  <2>1. \A x \in i0 .. b - 1 : x \in i0 .. c - 1
    BY <1>1
  <2>2. t = st
    BY <1>4, <1>6
  <2> HIDE DEF c
  <2>3. ChainState(ps, i0, start, c, st)
    BY <1>3, <1>6, <2>1 DEF ChainState
  <2> QED
    BY <2>2, <2>3 DEF c, t
<1>7. CASE st.end = "none"
  <2>0. /\ st.missing = i0 - 1 /\ Reached(ps, i0, start, b, st.last)
    BY <1>3, <1>7 DEF GoesOn
  <2>1. CASE arr = <<>>
    <3>1. t = [last |-> st.last, missing |-> n - k, end |-> "short"]
      BY <1>4, <1>7, <2>1
    <3>2. /\ t \in [last : Nat, missing : Nat, end : {"none", "short", "lost"}]
          /\ t.end = "short" /\ t.missing = n - k /\ t.last = st.last
      BY <1>1, <1>3, <3>1
    <3>3. EndsShort(ps, i0, start, b, t)
      <4>1. ps[b + 1] = <<>>
        BY <1>1, <2>1
      <4> HIDE DEF c
      <4> QED
        BY <1>1, <2>0, <3>2, <4>1 DEF EndsShort, n
    <3> HIDE DEF c
    <3>4. ChainState(ps, i0, start, c, t)
      BY <1>1, <3>2, <3>3 DEF ChainState
    <3> QED
      BY <3>4 DEF c, t
  <2>2. CASE arr # <<>> /\ p > Len(arr)
    <3>1. t = [last |-> st.last, missing |-> st.missing, end |-> "lost"]
      BY <1>4, <1>7, <2>2
    <3>2. /\ t \in [last : Nat, missing : Nat, end : {"none", "short", "lost"}]
          /\ t.end = "lost"
      BY <1>3, <3>1
    <3>3. ps[b + 1] = arr
      BY <1>1
    <3>4. ASSUME AllIncrease(ps), NEW g, IsChain(ps, i0, b + 1, g), g[i0] = start
          PROVE  FALSE
      <4>1. st.last \in Nat /\ b \in i0 .. Len(ps) - 1
        BY <1>1, <1>3 DEF n
      <4>2. IsAfterTarget(ps[b + 1], st.last, p) /\ p > Len(ps[b + 1])
        BY <1>5, <2>2, <3>3
      <4> QED
        BY <2>0, <3>4, <4>1, <4>2, NoneFurther
    <3>5. EndsLost(ps, i0, start, b)
      BY <1>3, <2>0, <2>2, <3>3, <3>4 DEF EndsLost
    <3> HIDE DEF c
    <3>6. ChainState(ps, i0, start, c, t)
      BY <1>1, <3>2, <3>5 DEF ChainState
    <3> QED
      BY <3>6 DEF c, t
  <2>3. CASE arr # <<>> /\ ~(p > Len(arr))
    <3>1. t = [last |-> arr[p], missing |-> st.missing, end |-> "none"]
      BY <1>4, <1>7, <2>3
    <3>2. p <= Len(arr) /\ arr[p] \in Nat
      <4> HIDE DEF arr
      <4>1. p \in 1 .. Len(arr) + 1
        BY <1>5 DEF IsAfterTarget
      <4> QED
        BY <1>2, <2>3, <4>1
    <3>3. /\ t \in [last : Nat, missing : Nat, end : {"none", "short", "lost"}]
          /\ t.end = "none" /\ t.last = arr[p] /\ t.missing = i0 - 1
      BY <1>3, <2>0, <3>1, <3>2
    <3>4. Reached(ps, i0, start, b + 1, ps[b + 1][p])
      <4>1. st.last \in Nat /\ b \in i0 .. Len(ps) - 1
        BY <1>1, <1>3 DEF n
      <4>2. IsAfterTarget(ps[b + 1], st.last, p) /\ p <= Len(ps[b + 1])
        <5>1. ps[b + 1] = arr
          BY <1>1
        <5> QED
          BY <1>5, <3>2, <5>1
      <4> QED
        BY <2>0, <4>1, <4>2, ReachedNext
    <3>5. Reached(ps, i0, start, c, t.last)
      BY <1>1, <3>3, <3>4
    <3> HIDE DEF c
    <3>6. ChainState(ps, i0, start, c, t)
      BY <3>3, <3>5 DEF ChainState, GoesOn
    <3> QED
      BY <3>6 DEF c, t
  <2> QED
    BY <2>1, <2>2, <2>3
<1> QED
  BY <1>6, <1>7

FirstWord(i0, start) == [last |-> start, missing |-> i0 - 1, end |-> "none"]

IsWalk(ps, i0, start, f) ==
    f = [k \in 0 .. (Len(ps) - i0) |->
           IF k = 0 THEN FirstWord(i0, start) ELSE NextWord(ps, i0, k, f[k - 1])]

\* There is a function of what the chain has come to at each word.
LEMMA WalkExists ==
    ASSUME NEW ps, AreLists(ps), NEW i0 \in 1 .. Len(ps), NEW start \in Nat
    PROVE  \E f : IsWalk(ps, i0, start, f)
<1> DEFINE X == [last : Nat, missing : Nat, end : {"none", "short", "lost"}]
           n == Len(ps) - i0
           a == FirstWord(i0, start)
           next(k) == [st \in X |-> NextWord(ps, i0, k, st)]
           step == [k \in 1 .. n |-> next(k)]
<1>1. /\ Len(ps) \in Nat /\ n \in Nat /\ n <= Len(ps) /\ i0 \in Nat
      /\ \A k \in 1 .. n : i0 + k \in 1 .. Len(ps)
  BY DEF AreLists
<1>2. a \in X
  BY <1>1 DEF FirstWord
<1>3. ASSUME NEW k \in 1 .. n, NEW st \in X PROVE NextWord(ps, i0, k, st) \in X
  <2> DEFINE arr == ps[i0 + k]
             p == bs(arr, st.last)
  <2>1. arr \in Seq(Nat)
    BY <1>1 DEF AreLists
  <2>2. IsAfterTarget(arr, st.last, p)
    BY <2>1, SearchRight
  <2>3. NextWord(ps, i0, k, st) =
          IF st.end # "none" THEN st
          ELSE IF arr = <<>>
          THEN [last |-> st.last, missing |-> Len(ps) - k, end |-> "short"]
          ELSE IF p > Len(arr) THEN [last |-> st.last, missing |-> st.missing, end |-> "lost"]
          ELSE [last |-> arr[p], missing |-> st.missing, end |-> "none"]
    BY DEF NextWord
  <2> HIDE DEF arr, p
  <2>4. ~(p > Len(arr)) => arr[p] \in Nat
    BY <2>1, <2>2 DEF IsAfterTarget
  <2>5. Len(ps) - k \in Nat
    BY <1>1
  <2> QED
    BY <2>3, <2>4, <2>5
<1> HIDE DEF X, n, a
<1>4. step \in [1 .. n -> [X -> X]]
  BY <1>3
<1>5. PICK f : f \in Results(X, n, a, step)
  <2> HIDE DEF step
  <2>1. Results(X, n, a, step) # {}
    BY <1>1, <1>2, <1>4, Iterates
  <2> QED
    BY <2>1
<1>6. /\ f \in [0 .. n -> X] /\ f[0] = a
      /\ \A k \in 1 .. n : f[k] = step[k][f[k - 1]]
  BY <1>5 DEF Results
<1>7. ASSUME NEW k \in 1 .. n PROVE f[k] = NextWord(ps, i0, k, f[k - 1])
  <2>1. k - 1 \in 0 .. n
    BY <1>1
  <2>2. f[k - 1] \in X
    BY <1>6, <2>1
  <2> QED
    BY <1>6, <2>2
<1> DEFINE d == [k \in 0 .. n |-> IF k = 0 THEN a ELSE NextWord(ps, i0, k, f[k - 1])]
<1>8. ASSUME NEW k \in 0 .. n PROVE f[k] = d[k]
  <2>1. k = 0 \/ k \in 1 .. n
    BY <1>1
  <2> QED
    BY <1>6, <1>7, <2>1
<1>9. f = d
  <2>1. f = [k \in 0 .. n |-> f[k]]
    BY <1>6
  <2> HIDE DEF d
  <2>2. d = [k \in 0 .. n |-> d[k]]
    BY DEF d
  <2> QED
    BY <1>8, <2>1, <2>2
<1> QED
  BY <1>9 DEF IsWalk, n, a

\* what ChainCost makes of the end of a chain
CostAt(start, st) == IF st.end = "lost" THEN MaxInt ELSE st.missing * Penalty + st.last - start

\* What the chain has come to at the last word.
LEMMA WalkRight ==
    ASSUME NEW ps, AreLists(ps), NEW i0 \in 1 .. Len(ps), NEW start \in Range(ps[i0])
    PROVE  \E st : /\ ChainState(ps, i0, start, Len(ps), st)
                   /\ ChainCost(ps, i0, start) = CostAt(start, st)
<1> DEFINE n == Len(ps) - i0
           walk == CHOOSE f : IsWalk(ps, i0, start, f)
           Good == {k \in 0 .. n : ChainState(ps, i0, start, i0 + k, walk[k])}
           f == [k \in 0 .. n |-> k]
<1>1. /\ Len(ps) \in Nat /\ n \in Nat /\ i0 \in Nat /\ i0 + n = Len(ps) /\ i0 + 0 = i0
  BY DEF AreLists
<1>2. start \in Nat /\ Reached(ps, i0, start, i0, start)
  <2> DEFINE q == ps[i0]
  <2>1. q \in Seq(Nat)
    BY DEF AreLists
  <2>2. \E x \in DOMAIN q : start = q[x]
    BY DEF Range
  <2>3. start \in Nat
    <3> HIDE DEF q
    <3> QED
      BY <2>1, <2>2
  <2> QED
    BY <2>3, ReachedFirst
<1>3. ChainCost(ps, i0, start) = CostAt(start, walk[n])
  BY DEF ChainCost, CostAt, IsWalk, FirstWord
<1>4. IsWalk(ps, i0, start, walk)
  <2>1. \E x : IsWalk(ps, i0, start, x)
    BY <1>2, WalkExists
  <2> QED
    BY <2>1
<1> HIDE DEF walk, n
<1>5. /\ walk[0] = FirstWord(i0, start)
      /\ \A k \in 1 .. n : walk[k] = NextWord(ps, i0, k, walk[k - 1])
  <2>1. 0 \in 0 .. n /\ \A k \in 1 .. n : k \in 0 .. n /\ k # 0
    BY <1>1
  <2>2. walk = [k \in 0 .. n |->
                  IF k = 0 THEN FirstWord(i0, start) ELSE NextWord(ps, i0, k, walk[k - 1])]
    BY <1>4 DEF IsWalk, n
  <2> QED
    BY <2>1, <2>2
<1>6. 0 \in Good
  <2>1. /\ FirstWord(i0, start) \in [last : Nat, missing : Nat, end : {"none", "short", "lost"}]
        /\ FirstWord(i0, start).end = "none" /\ FirstWord(i0, start).last = start
        /\ FirstWord(i0, start).missing = i0 - 1
    BY <1>1, <1>2 DEF FirstWord
  <2>2. ChainState(ps, i0, start, i0, walk[0])
    BY <1>2, <1>5, <2>1 DEF ChainState, GoesOn
  <2>3. ChainState(ps, i0, start, i0 + 0, walk[0])
    BY <1>1, <2>2
  <2> QED
    BY <1>1, <2>3
<1>7. ASSUME NEW k \in 1 .. n, k - 1 \in Good PROVE k \in Good
  <2>1. k \in 1 .. Len(ps) - i0
    BY DEF n
  <2>2. ChainState(ps, i0, start, i0 + (k - 1), walk[k - 1])
    BY <1>7
  <2>3. ChainState(ps, i0, start, i0 + k, NextWord(ps, i0, k, walk[k - 1]))
    BY <1>2, <2>1, <2>2, WordRead
  <2>4. k \in 0 .. n
    BY <1>1
  <2> QED
    BY <1>5, <2>3, <2>4
<1>8. ChainState(ps, i0, start, i0 + n, walk[n])
  <2>1. f[0] \in Good /\ \A k \in 1 .. n : f[k - 1] \in Good => f[k] \in Good
    <3>1. f[0] = 0
      BY <1>1
    <3>2. ASSUME NEW k \in 1 .. n PROVE f[k - 1] = k - 1 /\ f[k] = k
      BY <1>1
    <3> HIDE DEF Good, f
    <3> QED
      BY <1>6, <1>7, <3>1, <3>2
  <2> HIDE DEF Good, f
  <2>2. \A k \in 0 .. n : f[k] \in Good
    BY <1>1, <2>1, AllAlong
  <2>3. n \in 0 .. n /\ f[n] = n
    BY <1>1 DEF f
  <2>4. n \in Good
    BY <2>2, <2>3
  <2> QED
    BY <2>4 DEF Good
<1> HIDE DEF Good, f
<1> QED
  BY <1>1, <1>3, <1>8

\* c is the cost of a chain that reaches the last word
WholeCost(ps, a, f, c) ==
    IsChain(ps, a, Len(ps), f) /\ c = (a - 1) * Penalty + f[Len(ps)] - f[a]

\* c is the cost of a chain up to word b, before one that the document has not
ShortCost(ps, a, b, f, c) ==
    /\ ps[b + 1] = <<>> /\ IsChain(ps, a, b, f)
    /\ c = (Len(ps) - (b + 1 - a)) * Penalty + f[b] - f[a]

\* What is a chain in the reference is one here.
LEMMA ChainIs ==
    ASSUME NEW ps, NEW a, NEW b, NEW f
    PROVE  IsChain(ps, a, b, f) <=> f \in Chains(ps, a, b)
<1>1. ASSUME IsChain(ps, a, b, f)
      PROVE  f \in [a .. b -> UNION {Range(ps[j]) : j \in a .. b}]
  <2>1. f = [x \in a .. b |-> f[x]] /\ \A j \in a .. b : f[j] \in Range(ps[j])
    BY <1>1 DEF IsChain
  <2>2. \A j \in a .. b : f[j] \in UNION {Range(ps[x]) : x \in a .. b}
    BY <2>1
  <2> QED
    BY <2>1, <2>2
<1>2. ASSUME f \in [a .. b -> UNION {Range(ps[j]) : j \in a .. b}]
      PROVE  f = [x \in a .. b |-> f[x]]
  BY <1>2
<1> QED
  BY <1>1, <1>2 DEF IsChain, Chains

\* What the reference costs are.
LEMMA CostsAre ==
    ASSUME NEW ps, Len(ps) \in Nat, NEW c
    PROVE  c \in ChainCosts(ps) <=>
              \/ \E a \in 1 .. Len(ps) : \E f : WholeCost(ps, a, f, c)
              \/ \E a \in 1 .. Len(ps) : \E b \in a .. Len(ps) - 1 :
                    \E f : ShortCost(ps, a, b, f, c)
<1> DEFINE n == Len(ps)
           Pairs == Breaks(ps)
<1>1. c \in ChainCosts(ps) <=> \/ \E a \in 1 .. n : c \in WholeCosts(ps, a)
                               \/ \E p \in Pairs : c \in ShortCosts(ps, p[1], p[2])
  <2> DEFINE Wholes == UNION {WholeCosts(ps, a) : a \in 1 .. n}
             Shorts == UNION {ShortCosts(ps, p[1], p[2]) : p \in Pairs}
  <2>1. ChainCosts(ps) = Wholes \cup Shorts
    BY DEF ChainCosts
  <2>2. c \in Wholes <=> (\E a \in 1 .. n : c \in WholeCosts(ps, a))
    OBVIOUS
  <2>3. c \in Shorts <=> (\E p \in Pairs : c \in ShortCosts(ps, p[1], p[2]))
    <3> HIDE DEF Pairs
    <3> QED
      OBVIOUS
  <2> HIDE DEF Pairs, Wholes, Shorts
  <2> QED
    BY <2>1, <2>2, <2>3
<1>2. \A a \in 1 .. n : c \in WholeCosts(ps, a) <=> \E f : WholeCost(ps, a, f, c)
  BY ChainIs DEF WholeCost, WholeCosts
<1>3. ASSUME NEW a \in 1 .. n, NEW b \in 1 .. n - 1, a <= b, ps[b + 1] = <<>>
      PROVE  c \in ShortCosts(ps, a, b) <=> \E f : ShortCost(ps, a, b, f, c)
  BY <1>3, ChainIs DEF ShortCost, ShortCosts
<1>4. ASSUME NEW p \in Pairs, c \in ShortCosts(ps, p[1], p[2])
      PROVE  \E a \in 1 .. n : \E b \in a .. n - 1 : \E f : ShortCost(ps, a, b, f, c)
  <2> DEFINE a == p[1]
             b == p[2]
  <2>1. a \in 1 .. n /\ b \in 1 .. n - 1 /\ a <= b /\ ps[b + 1] = <<>>
    BY DEF Breaks
  <2>2. b \in a .. n - 1
    BY <2>1
  <2>3. c \in ShortCosts(ps, a, b)
    BY <1>4
  <2> HIDE DEF a, b
  <2>4. \E f : ShortCost(ps, a, b, f, c)
    BY <1>3, <2>1, <2>3
  <2> QED
    BY <2>1, <2>2, <2>4
<1>5. ASSUME NEW a \in 1 .. n, NEW b \in a .. n - 1, NEW f, ShortCost(ps, a, b, f, c)
      PROVE  \E p \in Pairs : c \in ShortCosts(ps, p[1], p[2])
  <2>1. b \in 1 .. n - 1 /\ a <= b /\ ps[b + 1] = <<>>
    BY <1>5 DEF ShortCost
  <2>2. <<a, b>> \in Pairs
    BY <2>1 DEF Breaks
  <2>3. c \in ShortCosts(ps, a, b)
    BY <1>3, <1>5, <2>1
  <2> QED
    BY <2>2, <2>3
<1>6. (\E p \in Pairs : c \in ShortCosts(ps, p[1], p[2])) <=>
        \E a \in 1 .. n : \E b \in a .. n - 1 : \E f : ShortCost(ps, a, b, f, c)
  <2> HIDE DEF Pairs
  <2> QED
    BY <1>4, <1>5
<1> HIDE DEF Pairs
<1> QED
  BY <1>1, <1>2, <1>6

\* A product of natural numbers is one.
LEMMA ProductNat ==
    ASSUME NEW x \in Nat, NEW y \in Nat
    PROVE  x * y \in Nat
OBVIOUS

\* A chain does not go back.
LEMMA ChainForward ==
    ASSUME NEW ps, AreLists(ps), NEW a \in 1 .. Len(ps), NEW b \in a .. Len(ps),
           NEW f, IsChain(ps, a, b, f)
    PROVE  f[a] \in Nat /\ f[b] \in Nat /\ f[a] <= f[b]
<1> DEFINE m == b - a
           Good == {k \in 0 .. m : f[a] <= f[a + k]}
           g == [k \in 0 .. m |-> k]
<1>1. /\ Len(ps) \in Nat /\ a \in Nat /\ b \in Nat /\ m \in Nat /\ a + m = b
      /\ a \in a .. b /\ b \in a .. b /\ a + 0 = a
  BY DEF AreLists
<1>2. ASSUME NEW j \in a .. b PROVE f[j] \in Nat
  BY ChainPosition
<1>3. 0 \in Good
  BY <1>1, <1>2
<1>4. ASSUME NEW k \in 1 .. m, k - 1 \in Good PROVE k \in Good
  <2> DEFINE j == a + (k - 1)
  <2>1. j \in a .. (b - 1) /\ j + 1 = a + k /\ j \in a .. b /\ j + 1 \in a .. b /\ k \in 0 .. m
    BY <1>1
  <2>2. f[a] <= f[j]
    BY <1>4
  <2>3. f[j] < f[j + 1]
    BY <2>1 DEF IsChain
  <2>4. f[a] \in Nat /\ f[j] \in Nat /\ f[j + 1] \in Nat
    BY <1>1, <1>2, <2>1
  <2> HIDE DEF j
  <2>5. f[a] <= f[j + 1]
    BY <2>2, <2>3, <2>4
  <2> QED
    BY <2>1, <2>5
<1>5. m \in Good
  <2>1. g[0] \in Good /\ \A k \in 1 .. m : g[k - 1] \in Good => g[k] \in Good
    <3>1. g[0] = 0
      BY <1>1
    <3>2. ASSUME NEW k \in 1 .. m PROVE g[k - 1] = k - 1 /\ g[k] = k
      BY <1>1
    <3> HIDE DEF Good, g, m
    <3> QED
      BY <1>3, <1>4, <3>1, <3>2
  <2>2. m \in 0 .. m /\ g[m] = m
    BY <1>1
  <2> HIDE DEF Good, g, m
  <2>3. \A k \in 0 .. m : g[k] \in Good
    BY <1>1, <2>1, AllAlong
  <2> QED
    BY <2>2, <2>3
<1>6. f[a] <= f[a + m]
  BY <1>5
<1> HIDE DEF m
<1> QED
  BY <1>1, <1>2, <1>6

\* A greedy chain costs what some chain costs, or counts as none.
LEMMA CostIsOne ==
    ASSUME NEW ps, AreLists(ps), NEW a \in 1 .. Len(ps), NEW start \in Range(ps[a])
    PROVE  /\ ChainCost(ps, a, start) \in Nat
           /\ ChainCost(ps, a, start) \in ChainCosts(ps) \cup {MaxInt}
<1> DEFINE n == Len(ps)
           c == ChainCost(ps, a, start)
<1>0. n \in Nat /\ a \in Nat /\ Penalty \in Nat /\ MaxInt \in Nat /\ n \in a .. n
  BY TextAssumption DEF AreLists
<1>1. PICK st : ChainState(ps, a, start, n, st) /\ c = CostAt(start, st)
  BY WalkRight
<1>2. st.end \in {"none", "short", "lost"} /\ st.missing \in Nat /\ st.last \in Nat
  BY <1>1 DEF ChainState
<1> HIDE DEF c
<1>3. CASE st.end = "lost"
  BY <1>0, <1>1, <1>3 DEF CostAt, c
<1>4. ASSUME st.end # "lost", start \in Nat, start <= st.last PROVE c \in Nat
  <2>1. st.missing * Penalty \in Nat
    BY <1>0, <1>2, ProductNat
  <2>2. c = st.missing * Penalty + st.last - start
    BY <1>1, <1>4 DEF CostAt
  <2> DEFINE e == st.missing * Penalty
  <2> HIDE DEF e
  <2>3. c = e + st.last - start /\ e \in Nat
    BY <2>1, <2>2 DEF e
  <2> QED
    BY <1>2, <1>4, <2>3
<1>5. CASE st.end = "none"
  <2>1. st.missing = a - 1 /\ Reached(ps, a, start, n, st.last)
    BY <1>1, <1>5 DEF ChainState, GoesOn
  <2>2. PICK f : IsChain(ps, a, n, f) /\ f[a] = start /\ f[n] = st.last
    BY <2>1 DEF Reached
  <2>3. start \in Nat /\ start <= st.last
    BY <1>0, <2>2, ChainForward
  <2>4. c \in Nat
    BY <1>4, <1>5, <2>3
  <2>5. WholeCost(ps, a, f, c)
    BY <1>1, <1>5, <2>1, <2>2 DEF WholeCost, CostAt
  <2>6. c \in ChainCosts(ps)
    BY <1>0, <2>5, CostsAre
  <2> QED
    BY <2>4, <2>6 DEF c
<1>6. CASE st.end = "short"
  <2>1. PICK b \in a .. n - 1 : EndsShort(ps, a, start, b, st)
    BY <1>1, <1>6 DEF ChainState
  <2>2. /\ ps[b + 1] = <<>> /\ st.missing = n - (b + 1 - a)
        /\ Reached(ps, a, start, b, st.last)
    BY <2>1 DEF EndsShort
  <2>3. PICK f : IsChain(ps, a, b, f) /\ f[a] = start /\ f[b] = st.last
    BY <2>2 DEF Reached
  <2>4. start \in Nat /\ start <= st.last
    <3>1. b \in a .. n
      BY <1>0
    <3> QED
      BY <2>3, <3>1, ChainForward
  <2>5. c \in Nat
    BY <1>4, <1>6, <2>4
  <2>6. ShortCost(ps, a, b, f, c)
    BY <1>1, <1>6, <2>2, <2>3 DEF ShortCost, CostAt
  <2>7. c \in ChainCosts(ps)
    BY <1>0, <2>6, CostsAre
  <2> QED
    BY <2>5, <2>7 DEF c
<1> QED
  BY <1>2, <1>3, <1>5, <1>6

\* A chain up to word b has no word without positions.
LEMMA ChainFull ==
    ASSUME NEW ps, AreLists(ps), NEW a \in 1 .. Len(ps), NEW b \in a .. Len(ps),
           NEW f, IsChain(ps, a, b, f), NEW j \in a .. b
    PROVE  ps[j] # <<>>
BY ChainPosition

\* Of two chains from the same position, the one that ends first is the shorter.
LEMMA LessFrom ==
    ASSUME NEW k \in Nat, NEW from \in Nat, NEW x \in Nat, NEW y \in Nat, x <= y
    PROVE  k + x - from <= k + y - from
OBVIOUS

\* The greedy chain costs no more than one that reaches the last word.
LEMMA WholeNotLess ==
    ASSUME NEW ps, AreLists(ps), NEW a \in 1 .. Len(ps), NEW start \in Range(ps[a]),
           AllIncrease(ps), NEW g, NEW e, WholeCost(ps, a, g, e), g[a] = start
    PROVE  ChainCost(ps, a, start) <= e
<1> DEFINE n == Len(ps)
           c == ChainCost(ps, a, start)
<1>0. n \in Nat /\ a \in Nat /\ Penalty \in Nat /\ n \in a .. n /\ a - 1 \in Nat
  BY TextAssumption DEF AreLists
<1>1. PICK st : ChainState(ps, a, start, n, st) /\ c = CostAt(start, st)
  BY WalkRight
<1>2. st.end \in {"none", "short", "lost"} /\ st.missing \in Nat /\ st.last \in Nat
  BY <1>1 DEF ChainState
<1> HIDE DEF c
<1>3. IsChain(ps, a, n, g) /\ e = (a - 1) * Penalty + g[n] - start
  BY DEF WholeCost
<1>4. start \in Nat /\ g[n] \in Nat
  BY <1>0, <1>3, ChainForward
<1>5. CASE st.end = "none"
  <2>1. st.missing = a - 1 /\ Reached(ps, a, start, n, st.last)
    BY <1>1, <1>5 DEF ChainState, GoesOn
  <2>2. st.last <= g[n]
    BY <1>3, <2>1 DEF Reached
  <2>3. c = (a - 1) * Penalty + st.last - start
    BY <1>1, <1>5, <2>1 DEF CostAt
  <2>4. (a - 1) * Penalty \in Nat
    BY <1>0, ProductNat
  <2> DEFINE k == (a - 1) * Penalty
  <2> HIDE DEF k
  <2>5. c = k + st.last - start /\ e = k + g[n] - start /\ k \in Nat
    BY <1>3, <2>3, <2>4 DEF k
  <2>6. k + st.last - start <= k + g[n] - start
    BY <1>2, <1>4, <2>2, <2>5, LessFrom
  <2>7. c <= e
    BY <2>5, <2>6
  <2> QED
    BY <2>7 DEF c
<1>6. CASE st.end = "short"
  <2>1. PICK b \in a .. n - 1 : ps[b + 1] = <<>>
    BY <1>1, <1>6 DEF ChainState, EndsShort
  <2>2. b + 1 \in a .. n
    BY <1>0
  <2> QED
    BY <1>0, <1>3, <2>1, <2>2, ChainFull
<1>7. CASE st.end = "lost"
  <2>1. PICK b \in a .. n - 1 : EndsLost(ps, a, start, b)
    BY <1>1, <1>7 DEF ChainState
  <2>2. b + 1 \in a .. n
    BY <1>0
  <2>3. PICK h : IsBegin(ps, a, b + 1, g, h)
    <3> DEFINE d == b + 1
    <3> HIDE DEF d, n
    <3>1. d \in a .. n
      BY <2>2 DEF d
    <3>2. \E h : IsBegin(ps, a, d, g, h)
      BY <1>0, <1>3, <3>1, ChainCut
    <3> QED
      BY <3>2 DEF d
  <2>4. IsChain(ps, a, b + 1, h) /\ h[a] = start
    <3>1. a \in a .. b + 1
      BY <1>0
    <3> QED
      BY <2>3, <3>1 DEF IsBegin
  <2> QED
    BY <2>1, <2>4 DEF EndsLost
<1> QED
  BY <1>2, <1>5, <1>6, <1>7

\* Nor than one that ends before a word that the document has not.
LEMMA ShortNotLess ==
    ASSUME NEW ps, AreLists(ps), NEW a \in 1 .. Len(ps), NEW start \in Range(ps[a]),
           AllIncrease(ps), NEW d \in a .. Len(ps) - 1, NEW g, NEW e,
           ShortCost(ps, a, d, g, e), g[a] = start
    PROVE  ChainCost(ps, a, start) <= e
<1> DEFINE n == Len(ps)
           c == ChainCost(ps, a, start)
<1>0. /\ n \in Nat /\ a \in Nat /\ d \in Nat /\ Penalty \in Nat /\ n \in a .. n /\ a - 1 \in Nat
      /\ d \in a .. n /\ d + 1 \in a .. n
  BY TextAssumption DEF AreLists
<1>1. PICK st : ChainState(ps, a, start, n, st) /\ c = CostAt(start, st)
  BY WalkRight
<1>2. st.end \in {"none", "short", "lost"} /\ st.missing \in Nat /\ st.last \in Nat
  BY <1>1 DEF ChainState
<1> HIDE DEF c
<1>3. /\ IsChain(ps, a, d, g) /\ e = (n - (d + 1 - a)) * Penalty + g[d] - start
      /\ ps[d + 1] = <<>>
  BY DEF ShortCost
<1>4. start \in Nat /\ g[d] \in Nat
  BY <1>0, <1>3, ChainForward
\* a chain ends before word d + 1
<1>5. ASSUME NEW b \in a .. n, NEW l, Reached(ps, a, start, b, l) PROVE b <= d
  <2>1. PICK f : IsChain(ps, a, b, f)
    BY <1>5 DEF Reached
  <2>2. b \in Nat
    BY <1>0
  <2>3. CASE b <= d
    BY <2>3
  <2>4. CASE ~(b <= d)
    <3>1. d + 1 \in a .. b
      BY <1>0, <2>2, <2>4
    <3> QED
      BY <1>0, <1>3, <2>1, <3>1, ChainFull
  <2> QED
    BY <2>3, <2>4
<1>6. CASE st.end = "none"
  <2>1. Reached(ps, a, start, n, st.last)
    BY <1>1, <1>6 DEF ChainState, GoesOn
  <2>2. n <= d
    BY <1>0, <1>5, <2>1
  <2> QED
    BY <1>0, <2>2
<1>7. CASE st.end = "short"
  <2>1. PICK b \in a .. n - 1 : EndsShort(ps, a, start, b, st)
    BY <1>1, <1>7 DEF ChainState
  <2>2. /\ ps[b + 1] = <<>> /\ st.missing = n - (b + 1 - a)
        /\ Reached(ps, a, start, b, st.last)
    BY <2>1 DEF EndsShort
  <2>3. b \in Nat /\ b \in a .. n /\ b <= d
    <3>1. b \in Nat /\ b \in a .. n
      BY <1>0
    <3> QED
      BY <1>5, <2>2, <3>1
  <2>4. b = d
    <3>1. CASE b < d
      <4>1. b + 1 \in a .. d
        BY <1>0, <2>3, <3>1
      <4> QED
        BY <1>0, <1>3, <2>2, <4>1, ChainFull
    <3> QED
      BY <1>0, <2>3, <3>1
  <2>5. st.last <= g[d]
    BY <1>3, <2>2, <2>4 DEF Reached
  <2>6. c = (n - (d + 1 - a)) * Penalty + st.last - start
    BY <1>1, <1>7, <2>2, <2>4 DEF CostAt
  <2>7. (n - (d + 1 - a)) * Penalty \in Nat
    <3>1. n - (d + 1 - a) \in Nat
      BY <1>2, <2>2, <2>4
    <3> QED
      BY <1>0, <3>1, ProductNat
  <2> DEFINE k == (n - (d + 1 - a)) * Penalty
  <2> HIDE DEF k
  <2>8. c = k + st.last - start /\ e = k + g[d] - start /\ k \in Nat
    BY <1>3, <2>6, <2>7 DEF k
  <2>9. k + st.last - start <= k + g[d] - start
    BY <1>2, <1>4, <2>5, <2>8, LessFrom
  <2>10. c <= e
    BY <2>8, <2>9
  <2> QED
    BY <2>10 DEF c
<1>8. CASE st.end = "lost"
  <2>1. PICK b \in a .. n - 1 : EndsLost(ps, a, start, b)
    BY <1>1, <1>8 DEF ChainState
  <2>2. PICK l \in Nat : Reached(ps, a, start, b, l)
    BY <2>1 DEF EndsLost
  <2>3. b \in Nat /\ b \in a .. n /\ b <= d
    <3>1. b \in Nat /\ b \in a .. n
      BY <1>0
    <3> QED
      BY <1>5, <2>2, <3>1
  <2>4. b # d
    BY <1>3, <2>1 DEF EndsLost
  <2>5. b + 1 \in a .. d
    BY <1>0, <2>3, <2>4
  <2>6. PICK h : IsBegin(ps, a, b + 1, g, h)
    <3> DEFINE m == b + 1
    <3> HIDE DEF m
    <3>1. m \in a .. d
      BY <2>5 DEF m
    <3>2. \E h : IsBegin(ps, a, m, g, h)
      BY <1>0, <1>3, <3>1, ChainCut
    <3> QED
      BY <3>2 DEF m
  <2>7. IsChain(ps, a, b + 1, h) /\ h[a] = start
    <3>1. a \in a .. b + 1
      BY <1>0
    <3> QED
      BY <2>6, <3>1 DEF IsBegin
  <2> QED
    BY <2>1, <2>7 DEF EndsLost
<1> QED
  BY <1>2, <1>6, <1>7, <1>8

\* what getMinQueryDistInDoc takes the least of
AllChainCosts(ps) ==
    {MaxInt} \cup
      UNION {{ChainCost(ps, j, ps[j][k]) : k \in DOMAIN ps[j]} : j \in DOMAIN ps}

\* getMinQueryDistInDoc gives the cost of a chain, or MaxInt, and of increasing positions the least.
LEMMA ProximityIs ==
    ASSUME NEW ps, AreLists(ps), DOMAIN ps = 1 .. Len(ps)
    PROVE  LET costs == ChainCosts(ps) \cup {MaxInt}
               r == getMinQueryDistInDoc(ps)
           IN  /\ r \in costs
               /\ AllIncrease(ps) => r = Min(costs)
<1> DEFINE n == Len(ps)
           costs == ChainCosts(ps) \cup {MaxInt}
           r == getMinQueryDistInDoc(ps)
           S == AllChainCosts(ps)
<1>0. n \in Nat /\ MaxInt \in Nat
  BY TextAssumption DEF AreLists
<1>1. r = Min(S)
  BY DEF getMinQueryDistInDoc, AllChainCosts
<1>2. ASSUME NEW j \in 1 .. n, NEW k \in DOMAIN ps[j]
      PROVE  ChainCost(ps, j, ps[j][k]) \in Nat /\ ChainCost(ps, j, ps[j][k]) \in costs
  <2>1. ps[j][k] \in Range(ps[j])
    BY DEF Range
  <2> QED
    BY <2>1, CostIsOne
<1>3. S \in SUBSET Nat /\ S # {} /\ S \subseteq costs
  BY <1>0, <1>2 DEF AllChainCosts
<1>4. \E x \in S : \A y \in S : x <= y
  <2> HIDE DEF S
  <2> QED
    BY <1>3, LeastNumber
<1> HIDE DEF S, r, costs
<1>5. r \in S /\ \A y \in S : r <= y
  BY <1>1, <1>4 DEF Min
<1>6. ASSUME AllIncrease(ps) PROVE r = Min(costs)
  <2>1. ASSUME NEW e \in costs PROVE r <= e /\ e \in Int
    <3>1. CASE e = MaxInt
      <4>1. MaxInt \in S
        BY DEF S, AllChainCosts
      <4> QED
        BY <1>0, <1>5, <3>1, <4>1
    <3>2. ASSUME NEW a \in 1 .. n, NEW g, NEW d \in a .. n, IsChain(ps, a, d, g)
          PROVE  g[a] \in Range(ps[a]) /\ r <= ChainCost(ps, a, g[a])
                 /\ r \in Nat /\ ChainCost(ps, a, g[a]) \in Nat
      <4>1. a \in a .. d
        BY <1>0
      <4>2. g[a] \in Range(ps[a])
        BY <3>2, <4>1 DEF IsChain
      <4>3. PICK k \in DOMAIN ps[a] : g[a] = ps[a][k]
        BY <4>2 DEF Range
      <4>4. ChainCost(ps, a, g[a]) \in S
        BY <4>3 DEF S, AllChainCosts
      <4> QED
        BY <1>3, <1>5, <4>2, <4>4
    <3>3. ASSUME NEW a \in 1 .. n, NEW g, WholeCost(ps, a, g, e)
          PROVE  r <= e /\ e \in Int
      <4>1. IsChain(ps, a, n, g) /\ n \in a .. n /\ a - 1 \in Nat /\ Penalty \in Nat
        BY <1>0, <3>3, TextAssumption DEF WholeCost
      <4>2. /\ g[a] \in Range(ps[a]) /\ r <= ChainCost(ps, a, g[a])
            /\ r \in Nat /\ ChainCost(ps, a, g[a]) \in Nat
        BY <3>2, <4>1
      <4>3. ChainCost(ps, a, g[a]) <= e
        BY <1>6, <3>3, <4>2, WholeNotLess
      <4>4. e \in Int
        <5>1. g[a] \in Nat /\ g[n] \in Nat
          BY <4>1, ChainForward
        <5>2. (a - 1) * Penalty \in Nat
          BY <4>1, ProductNat
        <5>3. e = (a - 1) * Penalty + g[n] - g[a]
          BY <3>3 DEF WholeCost
        <5> QED
          BY <5>1, <5>2, <5>3
      <4> QED
        BY <4>2, <4>3, <4>4
    <3>4. ASSUME NEW a \in 1 .. n, NEW d \in a .. n - 1, NEW g, ShortCost(ps, a, d, g, e)
          PROVE  r <= e /\ e \in Int
      <4>1. /\ IsChain(ps, a, d, g) /\ d \in a .. n /\ Penalty \in Nat
            /\ n - (d + 1 - a) \in Nat
        BY <1>0, <3>4, TextAssumption DEF ShortCost
      <4>2. /\ g[a] \in Range(ps[a]) /\ r <= ChainCost(ps, a, g[a])
            /\ r \in Nat /\ ChainCost(ps, a, g[a]) \in Nat
        BY <3>2, <4>1
      <4>3. ChainCost(ps, a, g[a]) <= e
        BY <1>6, <3>4, <4>2, ShortNotLess
      <4>4. e \in Int
        <5>1. g[a] \in Nat /\ g[d] \in Nat
          BY <4>1, ChainForward
        <5>2. (n - (d + 1 - a)) * Penalty \in Nat
          BY <4>1, ProductNat
        <5>3. e = (n - (d + 1 - a)) * Penalty + g[d] - g[a]
          BY <3>4 DEF ShortCost
        <5> QED
          BY <5>1, <5>2, <5>3
      <4> QED
        BY <4>2, <4>3, <4>4
    <3>5. e = MaxInt \/ e \in ChainCosts(ps)
      BY DEF costs
    <3>6. e \in ChainCosts(ps) =>
             \/ \E a \in 1 .. n : \E f : WholeCost(ps, a, f, e)
             \/ \E a \in 1 .. n : \E b \in a .. n - 1 : \E f : ShortCost(ps, a, b, f, e)
      BY <1>0, CostsAre
    <3> QED
      BY <3>1, <3>3, <3>4, <3>5, <3>6
  <2>2. r \in costs /\ r \in Nat
    BY <1>3, <1>5
  <2>3. Min(costs) \in costs /\ \A y \in costs : Min(costs) <= y
    BY <2>1, <2>2 DEF Min
  <2>4. Min(costs) <= r /\ r <= Min(costs)
    BY <2>1, <2>2, <2>3
  <2>5. Min(costs) \in Int
    BY <2>1, <2>3
  <2> QED
    BY <2>2, <2>4, <2>5
<1>7. r \in costs
  BY <1>3, <1>5
<1> QED
  BY <1>6, <1>7 DEF r, costs

\* getMinQueryDistInDoc returns the cost of a chain of the document, or MaxInt, also of lists
\* that are not sorted; of sorted lists it returns the least cost (preprocessingFeatures.go:20-77).
THEOREM ProximitiesRight == QuerySpec => []ProximityRight
<1>1. QueryInit => ProximityRight
  BY DEF QueryInit, NoCall, ProximityRight
<1>2. ProximityRight /\ [QueryNext]_queryVars => ProximityRight'
  <2> SUFFICES ASSUME ProximityRight, [QueryNext]_queryVars
               PROVE  ProximityRight'
    OBVIOUS
  <2>1. CASE Rank
    <3>1. PICK p1 \in PositionLists : \E p2, p3 \in PositionLists :
             call' = [op |-> "proximity", positions |-> <<p1, p2, p3>>,
                      result |-> getMinQueryDistInDoc(<<p1, p2, p3>>)]
      BY <2>1 DEF Rank, Call
    <3>2. PICK p2 \in PositionLists : \E p3 \in PositionLists :
             call' = [op |-> "proximity", positions |-> <<p1, p2, p3>>,
                      result |-> getMinQueryDistInDoc(<<p1, p2, p3>>)]
      BY <3>1
    <3>3. PICK p3 \in PositionLists :
             call' = [op |-> "proximity", positions |-> <<p1, p2, p3>>,
                      result |-> getMinQueryDistInDoc(<<p1, p2, p3>>)]
      BY <3>2
    <3> DEFINE ps == <<p1, p2, p3>>
               costs == ChainCosts(ps) \cup {MaxInt}
    <3>4. p1 \in Seq(Nat) /\ p2 \in Seq(Nat) /\ p3 \in Seq(Nat)
      BY QueryAssumption
    <3>5. Len(ps) = 3 /\ DOMAIN ps = 1 .. 3 /\ ps[1] = p1 /\ ps[2] = p2 /\ ps[3] = p3
      OBVIOUS
    <3>6. call'.positions = ps /\ call'.result = getMinQueryDistInDoc(ps)
      BY <3>3
    <3> HIDE DEF ps
    <3>7. AreLists(ps) /\ DOMAIN ps = 1 .. Len(ps)
      BY <3>4, <3>5 DEF AreLists
    <3>8. (\A k \in 1 .. 3 : Increasing(ps[k])) => AllIncrease(ps)
      BY <3>5 DEF AllIncrease
    <3>9. /\ getMinQueryDistInDoc(ps) \in costs
          /\ AllIncrease(ps) => getMinQueryDistInDoc(ps) = Min(costs)
      BY <3>7, ProximityIs
    <3> QED
      BY <3>6, <3>8, <3>9 DEF ProximityRight
  <2>2. CASE UNCHANGED call
    BY <2>2 DEF ProximityRight
  <2>3. CASE call'.op # "proximity"
    BY <2>3 DEF ProximityRight
  <2>4. Rank \/ UNCHANGED call \/ call'.op # "proximity"
    BY CallsApart
  <2> QED
    BY <2>1, <2>2, <2>3, <2>4
<1> QED
  BY <1>1, <1>2, PTL DEF QuerySpec

-----------------------------------------------------------------------------
(* The tokenizer                                                           *)

\* What holds at 0, and at each number if it does at the one before, holds along the way.
LEMMA GoodAlong ==
    ASSUME NEW n \in Nat, NEW Good, 0 \in Good,
           \A k \in 1 .. n : k - 1 \in Good => k \in Good
    PROVE  \A k \in 0 .. n : k \in Good
<1> DEFINE f == [k \in 0 .. n |-> k]
<1>1. f[0] = 0 /\ \A k \in 0 .. n : f[k] = k
  OBVIOUS
<1>2. \A k \in 1 .. n : f[k - 1] = k - 1 /\ f[k] = k
  OBVIOUS
<1> HIDE DEF f
<1>3. f[0] \in Good /\ \A k \in 1 .. n : f[k - 1] \in Good => f[k] \in Good
  BY <1>1, <1>2
<1>4. \A k \in 0 .. n : f[k] \in Good
  BY <1>3, AllAlong
<1> QED
  BY <1>1, <1>4

TextTokens(text) ==
    [type : Range(text) \cup {"UNKNOWN", "ENTITY"}, start : Nat, end : Nat]

\* u may come after t
MayFollow(t, u) ==
    /\ t.end <= u.start
    /\ t.end = u.start /\ t.type = u.type => t.type = "ENTITY"

\* the rune at p is in a token of its type or in an entity, or it is white space outside
SeenIn(ts, text, p) ==
    \/ \E k \in 1 .. Len(ts) : /\ ts[k].start <= p /\ p < ts[k].end
                               /\ ts[k].type = "ENTITY" \/ ts[k].type = text[p + 1]
    \/ /\ text[p + 1] = "WHITESPACE"
       /\ \A k \in 1 .. Len(ts) : ~(ts[k].start <= p /\ p < ts[k].end)

\* ts are the tokens of the text from a to b
Tiles(ts, text, a, b) ==
    /\ ts \in Seq(TextTokens(text))
    /\ \A k \in 1 .. Len(ts) : /\ a <= ts[k].start /\ ts[k].start < ts[k].end
                               /\ ts[k].end <= b
    /\ \A k \in 1 .. Len(ts) - 1 : MayFollow(ts[k], ts[k + 1])
    /\ \A p \in a .. b - 1 : SeenIn(ts, text, p)

\* Nothing but white space has no tokens.
LEMMA TilesBlank ==
    ASSUME NEW text, NEW a \in Nat, NEW b \in Nat,
           \A p \in a .. b - 1 : text[p + 1] = "WHITESPACE"
    PROVE  Tiles(<<>>, text, a, b)
BY DEF Tiles, SeenIn

\* An entity, or runes of one type, are one token.
LEMMA TilesOne ==
    ASSUME NEW text, NEW a \in Nat, NEW b \in Nat, a < b,
           NEW type \in Range(text) \cup {"UNKNOWN", "ENTITY"},
           type = "ENTITY" \/ \A p \in a .. b - 1 : text[p + 1] = type
    PROVE  Tiles(<<token(type, a, b)>>, text, a, b)
<1> DEFINE t == token(type, a, b)
           ts == <<t>>
<1>1. t \in TextTokens(text) /\ t.type = type /\ t.start = a /\ t.end = b
  BY DEF token, TextTokens
<1> HIDE DEF t
<1>2. ts \in Seq(TextTokens(text)) /\ Len(ts) = 1 /\ ts[1] = t
  BY <1>1
<1> HIDE DEF ts
<1>3. ASSUME NEW p \in a .. b - 1 PROVE SeenIn(ts, text, p)
  BY <1>1, <1>2, <1>3 DEF SeenIn
<1>4. \A k \in 1 .. Len(ts) : a <= ts[k].start /\ ts[k].start < ts[k].end /\ ts[k].end <= b
  BY <1>1, <1>2
<1>5. 1 .. Len(ts) - 1 = {}
  BY <1>2
<1>6. Tiles(ts, text, a, b)
  BY <1>2, <1>3, <1>4, <1>5 DEF Tiles
<1> QED
  BY <1>6 DEF ts, t

\* The tokens of a part of the text and those of the next part.
LEMMA TilesJoin ==
    ASSUME NEW text, NEW a \in Nat, NEW b \in Nat, NEW c \in Nat, a <= b, b <= c,
           NEW s, Tiles(s, text, a, b), NEW t, Tiles(t, text, b, c),
           s # <<>> /\ t # <<>> => MayFollow(s[Len(s)], t[1])
    PROVE  Tiles(s \o t, text, a, c)
<1> DEFINE n == Len(s)
           m == Len(t)
           u == s \o t
           T == TextTokens(text)
<1>1. s \in Seq(T) /\ t \in Seq(T)
  BY DEF Tiles
<1>2. /\ n \in Nat /\ m \in Nat /\ u \in Seq(T) /\ Len(u) = n + m
      /\ \A k \in 1 .. n : u[k] = s[k]
      /\ \A k \in 1 .. m : u[n + k] = t[k]
  <2> HIDE DEF T
  <2> QED
    BY <1>1
<1>3. /\ n >= 1 => s # <<>>
      /\ m >= 1 => t # <<>>
  BY <1>1
<1>4. /\ \A k \in 1 .. n : s[k].start \in Nat /\ s[k].end \in Nat
      /\ \A k \in 1 .. m : t[k].start \in Nat /\ t[k].end \in Nat
  <2>1. /\ \A k \in 1 .. n : s[k] \in T
        /\ \A k \in 1 .. m : t[k] \in T
    <3> HIDE DEF T
    <3> QED
      BY <1>1
  <2> QED
    BY <2>1 DEF TextTokens
<1>5. /\ \A k \in 1 .. n : a <= s[k].start /\ s[k].start < s[k].end /\ s[k].end <= b
      /\ \A k \in 1 .. m : b <= t[k].start /\ t[k].start < t[k].end /\ t[k].end <= c
      /\ \A k \in 1 .. n - 1 : MayFollow(s[k], s[k + 1])
      /\ \A k \in 1 .. m - 1 : MayFollow(t[k], t[k + 1])
      /\ \A p \in a .. b - 1 : SeenIn(s, text, p)
      /\ \A p \in b .. c - 1 : SeenIn(t, text, p)
  BY DEF Tiles
<1>6. n >= 1 /\ m >= 1 => MayFollow(s[n], t[1])
  BY <1>3
<1> HIDE DEF n, m, u, T
<1>7. ASSUME NEW k \in 1 .. n + m
      PROVE  (k \in 1 .. n /\ u[k] = s[k]) \/ \E j \in 1 .. m : k = n + j /\ u[k] = t[j]
  <2>1. k \in 1 .. n \/ (k - n \in 1 .. m /\ k = n + (k - n))
    BY <1>2
  <2> QED
    BY <1>2, <2>1
<1>8. ASSUME NEW k \in 1 .. n + m
      PROVE  a <= u[k].start /\ u[k].start < u[k].end /\ u[k].end <= c
  <2>1. CASE k \in 1 .. n /\ u[k] = s[k]
    BY <1>4, <1>5, <2>1
  <2>2. ASSUME NEW j \in 1 .. m, u[k] = t[j]
        PROVE  a <= u[k].start /\ u[k].start < u[k].end /\ u[k].end <= c
    BY <1>4, <1>5, <2>2
  <2> QED
    BY <1>7, <2>1, <2>2
<1>9. ASSUME NEW k \in 1 .. (n + m) - 1
      PROVE  MayFollow(u[k], u[k + 1])
  <2>1. \/ k \in 1 .. n - 1 /\ k \in 1 .. n /\ k + 1 \in 1 .. n
        \/ k = n /\ n >= 1 /\ m >= 1 /\ n \in 1 .. n /\ 1 \in 1 .. m
        \/ k - n \in 1 .. m - 1 /\ k - n \in 1 .. m /\ (k - n) + 1 \in 1 .. m
           /\ k = n + (k - n) /\ k + 1 = n + ((k - n) + 1)
    BY <1>2
  <2> QED
    BY <1>2, <1>5, <1>6, <2>1
<1>10. ASSUME NEW p \in a .. c - 1
       PROVE  SeenIn(u, text, p)
  <2>1. p \in Nat
    OBVIOUS
  <2>2. CASE p < b
    <3>1. p \in a .. b - 1
      BY <2>1, <2>2
    <3>2. \A k \in 1 .. m : ~(t[k].start <= p /\ p < t[k].end)
      BY <1>4, <1>5, <2>1, <2>2
    <3>3. CASE \E k \in 1 .. n : /\ s[k].start <= p /\ p < s[k].end
                                 /\ s[k].type = "ENTITY" \/ s[k].type = text[p + 1]
      <4>1. \A k \in 1 .. n : k \in 1 .. n + m
        BY <1>2
      <4> QED
        BY <1>2, <3>3, <4>1 DEF SeenIn
    <3>4. CASE /\ text[p + 1] = "WHITESPACE"
               /\ \A k \in 1 .. n : ~(s[k].start <= p /\ p < s[k].end)
      <4>1. \A k \in 1 .. n + m : ~(u[k].start <= p /\ p < u[k].end)
        BY <1>7, <3>2, <3>4
      <4> QED
        BY <1>2, <3>4, <4>1 DEF SeenIn
    <3> QED
      BY <1>5, <3>1, <3>3, <3>4 DEF SeenIn, n
  <2>3. CASE ~(p < b)
    <3>1. p \in b .. c - 1
      BY <2>1, <2>3
    <3>2. \A k \in 1 .. n : ~(s[k].start <= p /\ p < s[k].end)
      BY <1>4, <1>5, <2>1, <2>3
    <3>3. CASE \E k \in 1 .. m : /\ t[k].start <= p /\ p < t[k].end
                                 /\ t[k].type = "ENTITY" \/ t[k].type = text[p + 1]
      <4>1. \A k \in 1 .. m : n + k \in 1 .. n + m
        BY <1>2
      <4> QED
        BY <1>2, <3>3, <4>1 DEF SeenIn
    <3>4. CASE /\ text[p + 1] = "WHITESPACE"
               /\ \A k \in 1 .. m : ~(t[k].start <= p /\ p < t[k].end)
      <4>1. \A k \in 1 .. n + m : ~(u[k].start <= p /\ p < u[k].end)
        BY <1>7, <3>2, <3>4
      <4> QED
        BY <1>2, <3>4, <4>1 DEF SeenIn
    <3> QED
      BY <1>5, <3>1, <3>3, <3>4 DEF SeenIn, m
  <2> QED
    BY <2>2, <2>3
<1>11. Tiles(u, text, a, c)
  BY <1>2, <1>8, <1>9, <1>10 DEF Tiles, T
<1> QED
  BY <1>11 DEF u

Runes(text) ==
    [tokens : Seq(TextTokens(text)), type : Range(text) \cup {"UNKNOWN"}, start : Nat, len : Nat]

\* the runes from a to b are of this type
AreOf(text, type, a, b) == \A p \in a .. b - 1 : text[p + 1] = type

\* the n-th token, if there is one, does not go on at start as a token of this type
NewType(ts, n, start, type) == n > 0 => ~(ts[n].end = start /\ ts[n].type = type)

\* fragmentTokenize after k runes from the place from: the tokens of the runes before
\* start, and len runes of one type from there
RunesRead(text, from, k, st) ==
    /\ st \in Runes(text)
    /\ from <= st.start /\ st.start + st.len = from + k
    /\ k = 0 => st.tokens = <<>>
    /\ k > 0 => st.len > 0
    /\ Tiles(st.tokens, text, from, st.start)
    /\ AreOf(text, st.type, st.start, st.start + st.len)
    /\ NewType(st.tokens, Len(st.tokens), st.start, st.type)

\* What is put out in the end.
LEMMA FlushTiles ==
    ASSUME NEW text, NEW from \in Nat, NEW k \in Nat, NEW st, RunesRead(text, from, k, st)
    PROVE  /\ Tiles(Flush(st), text, from, from + k)
           /\ LET n == Len(Flush(st))
              IN  n > 0 => Flush(st)[n].end < from + k \/ Flush(st)[n].type = st.type
<1> DEFINE s == st.tokens
           n == Len(s)
           a == st.start
           b == st.start + st.len
           t == token(st.type, a, b)
           T == TextTokens(text)
<1>1. /\ st \in Runes(text) /\ from <= a /\ b = from + k
      /\ Tiles(s, text, from, a)
      /\ AreOf(text, st.type, a, b)
      /\ NewType(s, n, a, st.type)
      /\ k = 0 => s = <<>>
      /\ k > 0 => st.len > 0
  BY DEF RunesRead
<1>2. /\ s \in Seq(T) /\ a \in Nat /\ st.len \in Nat /\ b \in Nat /\ a <= b
      /\ st.type \in Range(text) \cup {"UNKNOWN"}
  BY <1>1 DEF Runes
<1>3. n \in Nat /\ (n > 0 <=> s # <<>>)
  <2> HIDE DEF s, T
  <2> QED
    BY <1>2
<1>4. ASSUME n > 0 PROVE s[n].end <= a /\ s[n].end \in Nat
  <2>1. n \in 1 .. n
    BY <1>3, <1>4
  <2>2. s[n] \in T
    <3> HIDE DEF s, T
    <3> QED
      BY <1>2, <2>1
  <2> QED
    BY <1>1, <2>1, <2>2 DEF Tiles, TextTokens
<1>5. t.type = st.type /\ t.start = a /\ t.end = b
  BY DEF token
<1>6. CASE st.len > 0 /\ st.type # "WHITESPACE"
  <2>1. Flush(st) = Append(s, t)
    BY <1>6 DEF Flush
  <2>2. a < b
    BY <1>2, <1>6
  <2> HIDE DEF a, b
  <2>3. Tiles(<<t>>, text, a, b)
    <3>1. st.type \in Range(text) \cup {"UNKNOWN", "ENTITY"}
      BY <1>2
    <3> QED
      BY <1>1, <1>2, <2>2, <3>1, TilesOne DEF AreOf
  <2> HIDE DEF t
  <2>4. s # <<>> => MayFollow(s[n], <<t>>[1])
    BY <1>1, <1>3, <1>4, <1>5 DEF MayFollow, NewType
  <2> HIDE DEF n
  <2>5. Tiles(s \o <<t>>, text, from, b)
    BY <1>1, <1>2, <2>3, <2>4, TilesJoin DEF n
  <2>6. Flush(st) = s \o <<t>>
    <3> HIDE DEF s, T
    <3> QED
      BY <1>2, <2>1
  <2>7. Flush(st)[Len(Flush(st))] = t
    <3> HIDE DEF s, T
    <3> QED
      BY <1>2, <2>1
  <2> QED
    BY <1>1, <1>5, <2>5, <2>6, <2>7
<1>7. CASE ~(st.len > 0 /\ st.type # "WHITESPACE")
  <2>1. Flush(st) = s
    BY <1>7 DEF Flush
  <2>2. \A p \in a .. b - 1 : text[p + 1] = "WHITESPACE"
    <3>1. CASE st.type = "WHITESPACE"
      BY <1>1, <3>1 DEF AreOf
    <3>2. CASE ~(st.len > 0)
      <4>1. st.len = 0
        BY <1>2, <3>2
      <4>2. a .. b - 1 = {}
        BY <1>2, <4>1
      <4> QED
        BY <4>2
    <3> QED
      BY <1>7, <3>1, <3>2
  <2> HIDE DEF a, b
  <2>3. Tiles(<<>>, text, a, b)
    BY <1>2, <2>2, TilesBlank
  <2>4. Tiles(s \o <<>>, text, from, b)
    BY <1>1, <1>2, <2>3, TilesJoin
  <2>5. s \o <<>> = s
    <3> HIDE DEF s, T
    <3> QED
      BY <1>2
  <2>6. n > 0 => s[n].end < b \/ s[n].type = st.type
    <3>1. st.len = 0 => b = a
      BY <1>2 DEF a, b
    <3>2. st.len # 0 => a < b
      BY <1>2 DEF a, b
    <3> HIDE DEF s, n
    <3>3. CASE st.len # 0
      BY <1>2, <1>4, <3>2, <3>3
    <3>4. CASE st.len = 0
      <4>1. k = 0
        BY <1>1, <3>4
      <4>2. ~(n > 0)
        BY <1>1, <1>3, <4>1
      <4> QED
        BY <4>2
    <3> QED
      BY <3>3, <3>4
  <2> QED
    BY <1>1, <2>1, <2>4, <2>5, <2>6
<1> QED
  BY <1>6, <1>7

\* A rune more.
LEMMA RuneNext ==
    ASSUME NEW text, text \in Seq(Range(text)), NEW from \in Nat, NEW k \in Nat \ {0},
           from + k \in 1 .. Len(text), NEW st, RunesRead(text, from, k - 1, st)
    PROVE  RunesRead(text, from, k, ReadRune(text, from + k, st))
<1> DEFINE s == st.tokens
           n == Len(s)
           a == st.start
           b == st.start + st.len
           x == text[from + k]
           new == ReadRune(text, from + k, st)
           S == Seq(TextTokens(text))
<1> SUFFICES RunesRead(text, from, k, new)
  OBVIOUS
<1>1. /\ st \in Runes(text) /\ from <= a /\ b = from + (k - 1)
      /\ Tiles(s, text, from, a)
      /\ AreOf(text, st.type, a, b)
      /\ NewType(s, n, a, st.type)
      /\ k - 1 = 0 => s = <<>>
      /\ k - 1 > 0 => st.len > 0
  BY DEF RunesRead
<1>2. /\ st = [tokens |-> s, type |-> st.type, start |-> a, len |-> st.len]
      /\ s \in S /\ a \in Nat /\ st.len \in Nat /\ b \in Nat
      /\ st.type \in Range(text) \cup {"UNKNOWN"}
  BY <1>1 DEF Runes
<1>3. x \in Range(text) /\ k \in Nat /\ k - 1 \in Nat /\ k > 0 /\ b + 1 = from + k
  <2>1. x \in Range(text)
    BY DEF Range
  <2> QED
    BY <1>1, <2>1
<1> HIDE DEF S
<1>4. CASE st.len = 0
  <2>1. new = [tokens |-> s, type |-> x, start |-> a, len |-> 1]
    BY <1>2, <1>4 DEF ReadRune
  <2>2. k - 1 = 0 /\ s = <<>> /\ b = a /\ a + 1 = from + k
    BY <1>1, <1>2, <1>3, <1>4
  <2>3. AreOf(text, x, a, a + 1)
    <3>1. a .. (a + 1) - 1 = {a} /\ a + 1 = from + k
      BY <1>2, <2>2
    <3> QED
      BY <3>1 DEF AreOf
  <2>4. NewType(s, n, a, x)
    BY <2>2 DEF NewType
  <2>5. new \in Runes(text)
    BY <1>2, <1>3, <2>1 DEF Runes, S
  <2>6. new.tokens = s /\ new.type = x /\ new.start = a /\ new.len = 1
    BY <2>1
  <2> HIDE DEF new, x
  <2> QED
    BY <1>1, <1>3, <2>2, <2>3, <2>4, <2>5, <2>6 DEF RunesRead
<1>5. CASE st.len # 0 /\ st.type = x
  <2>1. new = [tokens |-> s, type |-> x, start |-> a, len |-> st.len + 1]
    BY <1>2, <1>5 DEF ReadRune
  <2>2. a + (st.len + 1) = from + k /\ a + (st.len + 1) = b + 1
    BY <1>2, <1>3
  <2>3. AreOf(text, x, a, b + 1)
    <3>1. ASSUME NEW p \in a .. (b + 1) - 1 PROVE text[p + 1] = x
      <4>1. p \in a .. b - 1 \/ p + 1 = from + k
        <5> HIDE DEF a, b
        <5>1. p \in Int /\ a \in Int /\ b \in Int /\ a <= p /\ p <= b
          BY <1>2
        <5>2. CASE p = b
          BY <1>3, <5>2
        <5>3. CASE p < b
          BY <5>1, <5>3
        <5> QED
          BY <5>1, <5>2, <5>3
      <4> QED
        BY <1>1, <1>5, <4>1 DEF AreOf
    <3> QED
      BY <3>1 DEF AreOf
  <2>4. new \in Runes(text)
    BY <1>2, <1>3, <2>1 DEF Runes, S
  <2>5. new.tokens = s /\ new.type = x /\ new.start = a /\ new.len = st.len + 1
    BY <2>1
  <2>6. st.len + 1 > 0
    BY <1>2
  <2>7. AreOf(text, x, a, a + (st.len + 1))
    BY <2>2, <2>3
  <2> HIDE DEF new, x
  <2> QED
    BY <1>1, <1>3, <1>5, <2>2, <2>4, <2>5, <2>6, <2>7 DEF RunesRead
<1>6. CASE st.len # 0 /\ st.type # x
  <2> DEFINE f == Flush(st)
             m == Len(f)
  <2>1. new = [tokens |-> f, type |-> x, start |-> b, len |-> 1]
    BY <1>2, <1>6 DEF ReadRune
  <2>2. /\ Tiles(f, text, from, b)
        /\ m > 0 => f[m].end < b \/ f[m].type = st.type
    BY <1>1, <1>3, FlushTiles
  <2>3. AreOf(text, x, b, b + 1)
    <3>1. b .. (b + 1) - 1 = {b} /\ b + 1 = from + k
      BY <1>2, <1>3
    <3> QED
      BY <3>1 DEF AreOf
  <2>4. f \in S
    BY <2>2 DEF Tiles, S
  <2>5. new \in Runes(text)
    <3>1. b \in Nat /\ x \in Range(text) \cup {"UNKNOWN"} /\ 1 \in Nat
      BY <1>2, <1>3
    <3> HIDE DEF f, b, x, new
    <3> QED
      BY <2>1, <2>4, <3>1 DEF Runes, S
  <2>6. new.tokens = f /\ new.type = x /\ new.start = b /\ new.len = 1
    BY <2>1
  <2>7. NewType(f, m, b, x)
    <3>1. b \in Nat
      BY <1>2
    <3> HIDE DEF b, x
    <3> QED
      BY <1>6, <2>2, <3>1 DEF NewType
  <2>8. from <= b
    BY <1>1, <1>2
  <2> HIDE DEF new, x, b, f
  <2> QED
    BY <1>3, <2>2, <2>3, <2>5, <2>6, <2>7, <2>8 DEF RunesRead
<1> QED
  BY <1>4, <1>5, <1>6

RuneStart(from) == [tokens |-> <<>>, type |-> "UNKNOWN", start |-> from, len |-> 0]

\* f gives what fragmentTokenize has read after each of n runes
IsReading(text, from, n, f) ==
    f = [k \in 0 .. n |->
            IF k = 0 THEN [tokens |-> <<>>, type |-> "UNKNOWN", start |-> from, len |-> 0]
            ELSE ReadRune(text, from + k, f[k - 1])]

\* Before the first rune.
LEMMA RuneFirst ==
    ASSUME NEW text, NEW from \in Nat
    PROVE  RuneStart(from) \in Runes(text) /\ RunesRead(text, from, 0, RuneStart(from))
<1> DEFINE st == RuneStart(from)
<1>1. st \in Runes(text) /\ st.tokens = <<>> /\ st.type = "UNKNOWN" /\ st.start = from /\ st.len = 0
  BY DEF Runes, RuneStart
<1>2. Tiles(<<>>, text, from, from)
  <2>1. from .. from - 1 = {}
    OBVIOUS
  <2> QED
    BY <2>1, TilesBlank
<1>3. AreOf(text, "UNKNOWN", from, from + 0)
  <2>1. from .. (from + 0) - 1 = {}
    OBVIOUS
  <2> QED
    BY <2>1 DEF AreOf
<1>4. NewType(<<>>, Len(<<>>), from, "UNKNOWN")
  BY DEF NewType
<1> HIDE DEF st
<1>5. RunesRead(text, from, 0, st)
  BY <1>1, <1>2, <1>3, <1>4 DEF RunesRead
<1> QED
  BY <1>1, <1>5 DEF st

\* The runes can be read, one after the other.
LEMMA ReadsExist ==
    ASSUME NEW text, text \in Seq(Range(text)), NEW from \in Nat, NEW n \in Nat,
           from + n <= Len(text)
    PROVE  \E f : IsReading(text, from, n, f)
<1> DEFINE X == Runes(text)
           a == RuneStart(from)
           Right(k, st) == RunesRead(text, from, k, st)
           next(k) == [st \in X |-> IF Right(k - 1, st) THEN ReadRune(text, from + k, st) ELSE a]
           step == [k \in 1 .. n |-> next(k)]
<1>1. a \in X /\ Right(0, a)
  BY RuneFirst
<1>2. ASSUME NEW k \in 1 .. n, NEW st \in X, Right(k - 1, st)
      PROVE  /\ ReadRune(text, from + k, st) \in X
             /\ Right(k, ReadRune(text, from + k, st))
  <2>1. k \in Nat \ {0} /\ from + k \in 1 .. Len(text)
    OBVIOUS
  <2>2. Right(k, ReadRune(text, from + k, st))
    BY <1>2, <2>1, RuneNext
  <2> QED
    BY <2>2 DEF RunesRead
<1> HIDE DEF X, a, Right
<1>3. step \in [1 .. n -> [X -> X]]
  BY <1>1, <1>2
<1>4. PICK f : f \in Results(X, n, a, step)
  <2> HIDE DEF step
  <2>1. Results(X, n, a, step) # {}
    BY <1>1, <1>3, Iterates
  <2> QED
    BY <2>1
<1>5. /\ f \in [0 .. n -> X] /\ f[0] = a
      /\ \A k \in 1 .. n : f[k] = step[k][f[k - 1]]
  BY <1>4 DEF Results
<1>6. ASSUME NEW k \in 1 .. n, Right(k - 1, f[k - 1])
      PROVE  f[k] = ReadRune(text, from + k, f[k - 1]) /\ Right(k, f[k])
  <2>1. k - 1 \in 0 .. n
    OBVIOUS
  <2>2. f[k - 1] \in X
    BY <1>5, <2>1
  <2>3. f[k] = ReadRune(text, from + k, f[k - 1])
    BY <1>5, <1>6, <2>2
  <2> QED
    BY <1>2, <1>6, <2>2, <2>3
<1> HIDE DEF step
<1>7. \A k \in 0 .. n : Right(k, f[k])
  <2> DEFINE Good == {k \in 0 .. n : Right(k, f[k])}
  <2>1. 0 \in Good
    BY <1>1, <1>5
  <2>2. ASSUME NEW k \in 1 .. n, k - 1 \in Good PROVE k \in Good
    BY <1>6, <2>2
  <2> HIDE DEF Good
  <2>3. \A k \in 0 .. n : k \in Good
    BY <2>1, <2>2, GoodAlong
  <2> QED
    BY <2>3 DEF Good
<1> DEFINE d == [k \in 0 .. n |-> IF k = 0 THEN a ELSE ReadRune(text, from + k, f[k - 1])]
<1>8. ASSUME NEW k \in 0 .. n PROVE f[k] = d[k]
  <2>1. k = 0 \/ (k \in 1 .. n /\ k - 1 \in 0 .. n)
    OBVIOUS
  <2> QED
    BY <1>5, <1>6, <1>7, <2>1
<1>9. f = d
  <2>1. f = [k \in 0 .. n |-> f[k]]
    BY <1>5
  <2> HIDE DEF d
  <2>2. d = [k \in 0 .. n |-> d[k]]
    BY DEF d
  <2> QED
    BY <1>8, <2>1, <2>2
<1> QED
  BY <1>9 DEF IsReading, a, RuneStart

\* fragmentTokenize cuts its part of the text into tokens.
LEMMA FragmentTiles ==
    ASSUME NEW text, text \in Seq(Range(text)), NEW from \in Nat, NEW to \in Nat,
           from <= to, to <= Len(text)
    PROVE  Tiles(fragmentTokenize(text, from, to), text, from, to)
<1> DEFINE n == to - from
           read == CHOOSE f : IsReading(text, from, n, f)
           Good == {k \in 0 .. n : RunesRead(text, from, k, read[k])}
<1>1. n \in Nat /\ from + n = to /\ from + n <= Len(text)
  OBVIOUS
<1>2. fragmentTokenize(text, from, to) = Flush(read[n])
  BY DEF fragmentTokenize, IsReading
<1> HIDE DEF n
<1>3. IsReading(text, from, n, read)
  <2>1. \E f : IsReading(text, from, n, f)
    BY <1>1, ReadsExist
  <2> QED
    BY <2>1
<1> HIDE DEF read
<1>4. /\ read[0] = RuneStart(from)
      /\ \A k \in 1 .. n : read[k] = ReadRune(text, from + k, read[k - 1])
  <2>1. 0 \in 0 .. n /\ \A k \in 1 .. n : k \in 0 .. n /\ k # 0
    BY <1>1
  <2>2. read = [k \in 0 .. n |-> IF k = 0 THEN RuneStart(from)
                                 ELSE ReadRune(text, from + k, read[k - 1])]
    BY <1>3 DEF IsReading, RuneStart
  <2> QED
    BY <2>1, <2>2
<1>5. 0 \in Good
  BY <1>1, <1>4, RuneFirst
<1>6. ASSUME NEW k \in 1 .. n, k - 1 \in Good PROVE k \in Good
  <2>1. k \in Nat \ {0} /\ from + k \in 1 .. Len(text) /\ k \in 0 .. n
    BY <1>1
  <2>2. RunesRead(text, from, k - 1, read[k - 1])
    BY <1>6
  <2>3. RunesRead(text, from, k, ReadRune(text, from + k, read[k - 1]))
    BY <2>1, <2>2, RuneNext
  <2> QED
    BY <1>4, <2>1, <2>3
<1>7. RunesRead(text, from, n, read[n])
  <2> HIDE DEF Good
  <2>1. \A k \in 0 .. n : k \in Good
    BY <1>1, <1>5, <1>6, GoodAlong
  <2>2. n \in Good
    BY <1>1, <2>1
  <2> QED
    BY <2>2 DEF Good
<1>8. Tiles(Flush(read[n]), text, from, from + n)
  BY <1>1, <1>7, FlushTiles
<1> QED
  BY <1>1, <1>2, <1>8

AllMatches == [start : Nat, end : Nat, rule : Nat]

AreMatches(ms) == /\ IsFiniteSet(ms) /\ ms \in SUBSET AllMatches
                  /\ \A m \in ms : m.start < m.end

\* Of the matches that are left, one comes first.
LEMMA FirstIs ==
    ASSUME NEW ms \in SUBSET AllMatches, ms # {}
    PROVE  FirstOf(ms) \in ms /\ \A x \in ms \ {FirstOf(ms)} : Before(FirstOf(ms), x)
<1>1. PICK a \in {m.start : m \in ms} : \A x \in ms : a <= x.start
  <2> DEFINE T == {m.start : m \in ms}
  <2>1. T \in SUBSET Nat /\ T # {} /\ \A x \in ms : x.start \in T
    BY DEF AllMatches
  <2> HIDE DEF T
  <2>2. PICK n \in T : \A x \in T : n <= x
    BY <2>1, LeastNumber
  <2> QED
    BY <2>1, <2>2 DEF T
<1> DEFINE A == {m \in ms : m.start = a}
<1>2. A \in SUBSET ms /\ A # {} /\ \A x \in A : x.start = a
  BY <1>1
<1>3. PICK b \in {m.end : m \in A} : \A x \in A : b <= x.end
  <2> DEFINE T == {m.end : m \in A}
  <2> HIDE DEF A
  <2>1. T \in SUBSET Nat /\ T # {} /\ \A x \in A : x.end \in T
    BY <1>2 DEF AllMatches
  <2> HIDE DEF T
  <2>2. PICK n \in T : \A x \in T : n <= x
    BY <2>1, LeastNumber
  <2> QED
    BY <2>1, <2>2 DEF T
<1> DEFINE B == {m \in A : m.end = b}
<1>4. B \in SUBSET A /\ B # {} /\ \A x \in B : x.end = b
  <2> HIDE DEF A
  <2> QED
    BY <1>3
<1>5. PICK c \in {m.rule : m \in B} : \A x \in B : c <= x.rule
  <2> DEFINE T == {m.rule : m \in B}
  <2> HIDE DEF A, B
  <2>1. T \in SUBSET Nat /\ T # {} /\ \A x \in B : x.rule \in T
    BY <1>2, <1>4 DEF AllMatches
  <2> HIDE DEF T
  <2>2. PICK n \in T : \A x \in T : n <= x
    BY <2>1, LeastNumber
  <2> QED
    BY <2>1, <2>2 DEF T
<1>6. PICK m \in B : m.rule = c
  <2> HIDE DEF B
  <2> QED
    BY <1>5
<1>7. m \in ms /\ m.start = a /\ m.end = b /\ m.rule = c
  BY <1>6
<1>8. ASSUME NEW x \in ms \ {m} PROVE Before(m, x)
  <2>1. /\ m = [start |-> a, end |-> b, rule |-> c]
        /\ x = [start |-> x.start, end |-> x.end, rule |-> x.rule]
    BY <1>7 DEF AllMatches
  <2>2. /\ a \in Nat /\ x.start \in Nat /\ a <= x.start
        /\ b \in Nat /\ x.end \in Nat /\ c \in Nat /\ x.rule \in Nat
    BY <1>1, <1>7 DEF AllMatches
  <2>3. x.start = a => b <= x.end
    BY <1>3
  <2>4. x.start = a /\ x.end = b => c <= x.rule
    BY <1>5
  <2>5. ~(x.start = a /\ x.end = b /\ x.rule = c)
    BY <2>1
  <2> HIDE DEF A, B
  <2>6. \/ a < x.start
        \/ a = x.start /\ b < x.end
        \/ a = x.start /\ b = x.end /\ c < x.rule
    BY <2>2, <2>3, <2>4, <2>5
  <2> QED
    BY <1>7, <2>6 DEF Before
<1>9. \E y \in ms : \A x \in ms \ {y} : Before(y, x)
  BY <1>7, <1>8
<1> QED
  BY <1>9 DEF FirstOf

\* e stands for m: it begins no later and overlaps it
StandsFor(e, m) == /\ e.start <= m.start /\ m.start < e.end
                   /\ e.start = m.start => e.end <= m.end

Selections(ms) == [left : SUBSET ms, selected : Seq(ms)]

\* the selection of entities when k matches have been looked at
Selected(ms, k, st) ==
    /\ st \in Selections(ms)
    /\ Cardinality(st.left) = Cardinality(ms) - k
    /\ \A j \in 1 .. Len(st.selected) : st.selected[j] \in ms \ st.left
    /\ \A j \in 1 .. Len(st.selected) - 1 : st.selected[j].end <= st.selected[j + 1].start
    /\ \A x \in ms \ st.left : \A m \in st.left : Before(x, m)
    /\ \A m \in ms \ st.left : \E j \in 1 .. Len(st.selected) : StandsFor(st.selected[j], m)

\* The next match is looked at.
LEMMA SelectionGrows ==
    ASSUME NEW ms, AreMatches(ms), NEW k \in 1 .. Cardinality(ms), NEW st,
           Selected(ms, k - 1, st)
    PROVE  Selected(ms, k, SelectNext(st))
<1> DEFINE L == st.left
           s == st.selected
           n == Len(s)
           m == FirstOf(L)
           new == SelectNext(st)
           size == Cardinality(ms)
<1> SUFFICES Selected(ms, k, new)
  OBVIOUS
<1>1. /\ st \in Selections(ms)
      /\ Cardinality(L) = size - (k - 1)
      /\ \A j \in 1 .. n : s[j] \in ms \ L
      /\ \A j \in 1 .. n - 1 : s[j].end <= s[j + 1].start
      /\ \A x \in ms \ L : \A y \in L : Before(x, y)
      /\ \A y \in ms \ L : \E j \in 1 .. n : StandsFor(s[j], y)
  BY DEF Selected
<1>2. L \in SUBSET ms /\ s \in Seq(ms)
  BY <1>1 DEF Selections
<1>3. /\ IsFiniteSet(ms) /\ size \in Nat /\ IsFiniteSet(L)
      /\ \A y \in ms : y.start \in Nat /\ y.end \in Nat /\ y.rule \in Nat /\ y.start < y.end
      /\ k \in Nat /\ k >= 1 /\ k <= size
  <2>1. IsFiniteSet(ms)
    BY DEF AreMatches
  <2>2. size \in Nat
    BY <2>1, FS_CardinalityType
  <2>3. IsFiniteSet(L)
    BY <1>2, <2>1, FS_Subset
  <2>4. \A y \in ms : y.start \in Nat /\ y.end \in Nat /\ y.rule \in Nat /\ y.start < y.end
    BY DEF AreMatches, AllMatches
  <2> QED
    BY <2>1, <2>2, <2>3, <2>4
<1> HIDE DEF L, s, n, size
<1>4. L # {}
  <2>1. Cardinality(L) # 0
    BY <1>1, <1>3
  <2> QED
    BY <2>1, FS_EmptySet
<1>5. m \in L /\ \A x \in L \ {m} : Before(m, x)
  <2>1. L \in SUBSET AllMatches
    BY <1>2 DEF AreMatches
  <2> QED
    BY <1>4, <2>1, FirstIs
<1>6. n \in Nat /\ DOMAIN s = 1 .. n
  BY <1>2 DEF n
<1> DEFINE R == L \ {m}
           sel == IF s = <<>> \/ m.start >= Last(s).end THEN Append(s, m) ELSE s
<1>7. new = [left |-> R, selected |-> sel]
  BY DEF SelectNext, L, s
<1> HIDE DEF m
<1>8. Cardinality(R) = size - k
  <2>1. Cardinality(R) = Cardinality(L) - 1
    BY <1>3, <1>5, FS_RemoveElement
  <2> QED
    BY <1>1, <1>3, <2>1
<1>9. ms \ R = (ms \ L) \cup {m} /\ R \in SUBSET ms /\ m \in ms
  BY <1>2, <1>5
<1>10. \A x \in ms \ R : \A y \in R : Before(x, y)
  BY <1>1, <1>5, <1>9
<1> HIDE DEF R
<1>11. CASE s = <<>> \/ m.start >= Last(s).end
  <2> DEFINE t == Append(s, m)
  <2>1. /\ t \in Seq(ms) /\ Len(t) = n + 1 /\ t[n + 1] = m
        /\ \A j \in 1 .. n : t[j] = s[j]
    BY <1>2, <1>6, <1>9 DEF n
  <2>2. new = [left |-> R, selected |-> t]
    BY <1>7, <1>11
  <2> HIDE DEF t, new, sel
  <2>3. new.left = R /\ new.selected = t /\ new \in Selections(ms)
    BY <1>9, <2>1, <2>2 DEF Selections
  <2>4. ASSUME NEW j \in 1 .. n + 1 PROVE t[j] \in ms \ R
    <3>1. j \in 1 .. n \/ j = n + 1
      BY <1>6
    <3> QED
      BY <1>1, <1>9, <2>1, <3>1
  <2>5. ASSUME NEW j \in 1 .. (n + 1) - 1 PROVE t[j].end <= t[j + 1].start
    <3>1. CASE j \in 1 .. n - 1
      <4>1. j \in 1 .. n /\ j + 1 \in 1 .. n
        BY <1>6, <3>1
      <4> QED
        BY <1>1, <2>1, <3>1, <4>1
    <3>2. CASE j = n /\ n \in 1 .. n
      <4>1. s # <<>>
        BY <1>6, <3>2 DEF n
      <4>2. m.start >= s[n].end
        BY <1>11, <4>1 DEF Last, n
      <4>3. t[j] = s[n] /\ t[j + 1] = m /\ s[n] \in ms
        BY <1>1, <2>1, <3>2
      <4> QED
        BY <1>3, <1>9, <4>2, <4>3
    <3> QED
      BY <1>6, <3>1, <3>2
  <2>6. ASSUME NEW y \in ms \ R PROVE \E j \in 1 .. n + 1 : StandsFor(t[j], y)
    <3>1. CASE y \in ms \ L
      <4>1. PICK j \in 1 .. n : StandsFor(s[j], y)
        BY <1>1, <3>1
      <4>2. j \in 1 .. n + 1 /\ t[j] = s[j]
        BY <1>6, <2>1
      <4> QED
        BY <4>1, <4>2
    <3>2. CASE y = m
      <4>1. StandsFor(m, m)
        BY <1>3, <1>9 DEF StandsFor
      <4>2. n + 1 \in 1 .. n + 1
        BY <1>6
      <4> QED
        BY <2>1, <3>2, <4>1, <4>2
    <3> QED
      BY <1>9, <3>1, <3>2
  <2> QED
    BY <1>8, <1>10, <2>1, <2>3, <2>4, <2>5, <2>6 DEF Selected, size
<1>12. CASE ~(s = <<>> \/ m.start >= Last(s).end)
  <2>1. new = [left |-> R, selected |-> s]
    BY <1>7, <1>12
  <2> HIDE DEF new, sel
  <2>2. new.left = R /\ new.selected = s /\ new \in Selections(ms)
    BY <1>2, <1>9, <2>1 DEF Selections
  <2>3. n \in 1 .. n
    <3>1. n # 0
      BY <1>2, <1>12 DEF n
    <3> QED
      BY <1>6, <3>1
  <2>4. s[n] \in ms \ L /\ ~(m.start >= s[n].end)
    BY <1>1, <1>12, <2>3 DEF Last, n
  <2>5. StandsFor(s[n], m)
    <3>1. Before(s[n], m)
      BY <1>1, <1>5, <2>4
    <3>2. /\ s[n].start \in Nat /\ s[n].end \in Nat /\ s[n].rule \in Nat
          /\ m.start \in Nat /\ m.end \in Nat /\ m.rule \in Nat
      BY <1>3, <1>9, <2>4
    <3> QED
      BY <2>4, <3>1, <3>2 DEF StandsFor, Before
  <2>6. \A y \in ms \ R : \E j \in 1 .. n : StandsFor(s[j], y)
    BY <1>1, <1>9, <2>3, <2>5
  <2>7. \A j \in 1 .. n : s[j] \in ms \ R
    BY <1>1, <1>9
  <2> QED
    BY <1>1, <1>8, <1>10, <2>2, <2>6, <2>7 DEF Selected, size, n
<1> QED
  BY <1>11, <1>12

\* f gives the selection after each number of matches
IsSelection(ms, n, f) ==
    f = [k \in 0 .. n |-> IF k = 0 THEN [left |-> ms, selected |-> <<>>] ELSE SelectNext(f[k - 1])]

SelectionStart(ms) == [left |-> ms, selected |-> <<>>]

\* Before the first match.
LEMMA SelectionFirst ==
    ASSUME NEW ms, AreMatches(ms)
    PROVE  SelectionStart(ms) \in Selections(ms) /\ Selected(ms, 0, SelectionStart(ms))
<1> DEFINE st == SelectionStart(ms)
<1>1. st \in Selections(ms) /\ st.left = ms /\ st.selected = <<>>
  BY DEF Selections, SelectionStart
<1>2. Cardinality(ms) = Cardinality(ms) - 0
  BY FS_CardinalityType DEF AreMatches
<1> HIDE DEF st
<1>3. Selected(ms, 0, st)
  BY <1>1, <1>2 DEF Selected
<1> QED
  BY <1>1, <1>3 DEF st

\* All matches can be looked at, one after the other.
LEMMA SelectionExists ==
    ASSUME NEW ms, AreMatches(ms)
    PROVE  \E f : IsSelection(ms, Cardinality(ms), f)
<1> DEFINE X == Selections(ms)
           n == Cardinality(ms)
           a == SelectionStart(ms)
           Right(k, st) == Selected(ms, k, st)
           next(k) == [st \in X |-> IF Right(k - 1, st) THEN SelectNext(st) ELSE a]
           step == [k \in 1 .. n |-> next(k)]
<1>0. n \in Nat
  BY FS_CardinalityType DEF AreMatches
<1>1. a \in X /\ Right(0, a)
  BY SelectionFirst
<1>2. ASSUME NEW k \in 1 .. n, NEW st \in X, Right(k - 1, st)
      PROVE  SelectNext(st) \in X /\ Right(k, SelectNext(st))
  <2>1. Right(k, SelectNext(st))
    BY <1>2, SelectionGrows
  <2> QED
    BY <2>1 DEF Selected
<1> HIDE DEF X, a, Right, n
<1>3. step \in [1 .. n -> [X -> X]]
  BY <1>1, <1>2
<1>4. PICK f : f \in Results(X, n, a, step)
  <2> HIDE DEF step
  <2>1. Results(X, n, a, step) # {}
    BY <1>0, <1>1, <1>3, Iterates
  <2> QED
    BY <2>1
<1>5. /\ f \in [0 .. n -> X] /\ f[0] = a
      /\ \A k \in 1 .. n : f[k] = step[k][f[k - 1]]
  BY <1>4 DEF Results
<1>6. ASSUME NEW k \in 1 .. n, Right(k - 1, f[k - 1])
      PROVE  f[k] = SelectNext(f[k - 1]) /\ Right(k, f[k])
  <2>1. k - 1 \in 0 .. n
    BY <1>0
  <2>2. f[k - 1] \in X
    BY <1>5, <2>1
  <2>3. f[k] = SelectNext(f[k - 1])
    BY <1>5, <1>6, <2>2
  <2> QED
    BY <1>2, <1>6, <2>2, <2>3
<1> HIDE DEF step
<1>7. \A k \in 0 .. n : Right(k, f[k])
  <2> DEFINE Good == {k \in 0 .. n : Right(k, f[k])}
  <2>1. 0 \in Good
    BY <1>0, <1>1, <1>5
  <2>2. ASSUME NEW k \in 1 .. n, k - 1 \in Good PROVE k \in Good
    <3>1. k \in 0 .. n
      BY <1>0
    <3> QED
      BY <1>6, <2>2, <3>1
  <2> HIDE DEF Good
  <2>3. \A k \in 0 .. n : k \in Good
    BY <1>0, <2>1, <2>2, GoodAlong
  <2> QED
    BY <2>3 DEF Good
<1> DEFINE d == [k \in 0 .. n |-> IF k = 0 THEN a ELSE SelectNext(f[k - 1])]
<1>8. ASSUME NEW k \in 0 .. n PROVE f[k] = d[k]
  <2>1. k = 0 \/ (k \in 1 .. n /\ k - 1 \in 0 .. n)
    BY <1>0
  <2> QED
    BY <1>5, <1>6, <1>7, <2>1
<1>9. f = d
  <2>1. f = [k \in 0 .. n |-> f[k]]
    BY <1>5
  <2> HIDE DEF d
  <2>2. d = [k \in 0 .. n |-> d[k]]
    BY DEF d
  <2> QED
    BY <1>8, <2>1, <2>2
<1> QED
  BY <1>9 DEF IsSelection, a, n, SelectionStart

\* es are entities in the order of the text; each match has one that stands for it
AreEntities(ms, es) ==
    /\ es \in Seq(ms)
    /\ \A j \in 1 .. Len(es) - 1 : es[j].end <= es[j + 1].start
    /\ \A m \in ms : \E j \in 1 .. Len(es) : StandsFor(es[j], m)

\* That is how the entities are selected.
LEMMA SelectionRight ==
    ASSUME NEW ms, AreMatches(ms)
    PROVE  AreEntities(ms, selectedEntityTokens(ms))
<1> DEFINE n == Cardinality(ms)
           after == CHOOSE f : IsSelection(ms, n, f)
           Good == {k \in 0 .. n : Selected(ms, k, after[k])}
<1>0. n \in Nat
  BY FS_CardinalityType DEF AreMatches
<1>1. selectedEntityTokens(ms) = after[n].selected
  BY DEF selectedEntityTokens, IsSelection
<1>2. IsSelection(ms, n, after)
  <2>1. \E f : IsSelection(ms, n, f)
    BY SelectionExists
  <2> QED
    BY <2>1
<1> HIDE DEF after, n
<1>3. /\ after[0] = SelectionStart(ms)
      /\ \A k \in 1 .. n : after[k] = SelectNext(after[k - 1])
  <2>1. 0 \in 0 .. n /\ \A k \in 1 .. n : k \in 0 .. n /\ k # 0
    BY <1>0
  <2>2. after = [k \in 0 .. n |-> IF k = 0 THEN SelectionStart(ms) ELSE SelectNext(after[k - 1])]
    BY <1>2 DEF IsSelection, SelectionStart
  <2> QED
    BY <2>1, <2>2
<1>4. 0 \in Good
  BY <1>0, <1>3, SelectionFirst
<1>5. ASSUME NEW k \in 1 .. n, k - 1 \in Good PROVE k \in Good
  <2>1. k \in 0 .. n
    BY <1>0
  <2>2. Selected(ms, k, SelectNext(after[k - 1]))
    BY <1>5, SelectionGrows DEF n
  <2> QED
    BY <1>3, <2>1, <2>2
<1>6. Selected(ms, n, after[n])
  <2> HIDE DEF Good
  <2>1. \A k \in 0 .. n : k \in Good
    BY <1>0, <1>4, <1>5, GoodAlong
  <2>2. n \in Good
    BY <1>0, <2>1
  <2> QED
    BY <2>2 DEF Good
<1>7. after[n].left = {}
  <2>1. after[n].left \in SUBSET ms /\ Cardinality(after[n].left) = n - n
    BY <1>6 DEF Selected, Selections, n
  <2>2. IsFiniteSet(after[n].left)
    BY <2>1, FS_Subset DEF AreMatches
  <2>3. Cardinality(after[n].left) = 0
    BY <1>0, <2>1
  <2> QED
    BY <2>2, <2>3, FS_EmptySet
<1>8. AreEntities(ms, after[n].selected)
  <2>1. after[n].selected \in Seq(ms)
    BY <1>6 DEF Selected, Selections
  <2>2. ms \ after[n].left = ms
    BY <1>7
  <2> QED
    BY <1>6, <2>1, <2>2 DEF Selected, AreEntities
<1> QED
  BY <1>1, <1>8

\* entityTokenize when k entities have been put out
PutState(text, es, k, st) ==
    /\ st \in [tokens : Seq(TextTokens(text)), pos : Nat]
    /\ st.pos = IF k = 0 THEN 0 ELSE es[k].end
    /\ Tiles(st.tokens, text, 0, st.pos)
    /\ st.tokens # <<>> => st.tokens[Len(st.tokens)].type = "ENTITY"
    /\ \A j \in 1 .. k : \E q \in 1 .. Len(st.tokens) :
          st.tokens[q] = token("ENTITY", es[j].start, es[j].end)

\* the entities lie in the text, in order
InText(text, es) ==
    /\ es \in Seq(AllMatches)
    /\ \A j \in 1 .. Len(es) : es[j].start < es[j].end /\ es[j].end <= Len(text)
    /\ \A j \in 1 .. Len(es) - 1 : es[j].end <= es[j + 1].start

\* After an entity go the tokens of the text that is between it and the next one.
LEMMA FragmentFollows ==
    ASSUME NEW text, text \in Seq(Range(text)), NEW a \in Nat, NEW b \in Nat,
           a <= b, b <= Len(text), NEW s, Tiles(s, text, 0, a),
           s # <<>> => s[Len(s)].type = "ENTITY"
    PROVE  Tiles(s \o fragmentTokenize(text, a, b), text, 0, b)
<1> DEFINE t == fragmentTokenize(text, a, b)
           T == TextTokens(text)
<1>1. Tiles(t, text, a, b)
  BY FragmentTiles
<1> HIDE DEF t
<1>2. s \in Seq(T) /\ t \in Seq(T)
  BY <1>1 DEF Tiles
<1>3. ASSUME s # <<>>, t # <<>> PROVE MayFollow(s[Len(s)], t[1])
  <2>1. Len(s) \in 1 .. Len(s) /\ 1 \in 1 .. Len(t)
    <3> HIDE DEF T
    <3> QED
      BY <1>2, <1>3
  <2>2. s[Len(s)] \in T /\ t[1] \in T
    <3> HIDE DEF T
    <3> QED
      BY <1>2, <2>1
  <2>3. s[Len(s)].end <= a /\ a <= t[1].start
    BY <1>1, <2>1 DEF Tiles
  <2>4. s[Len(s)].end \in Nat /\ t[1].start \in Nat
    BY <2>2 DEF TextTokens
  <2> QED
    BY <1>3, <2>3, <2>4 DEF MayFollow
<1>4. Tiles(s \o t, text, 0, b)
  <2>1. 0 <= a /\ 0 \in Nat
    OBVIOUS
  <2> QED
    BY <1>1, <1>3, <2>1, TilesJoin
<1> QED
  BY <1>4 DEF t

\* A token of another place can go after an entity, and an entity after a token.
LEMMA EntityFollows ==
    ASSUME NEW text, NEW a \in Nat, NEW b \in Nat, a < b, NEW s, Tiles(s, text, 0, a)
    PROVE  Tiles(s \o <<token("ENTITY", a, b)>>, text, 0, b)
<1> DEFINE e == token("ENTITY", a, b)
           t == <<e>>
           T == TextTokens(text)
<1>1. Tiles(t, text, a, b)
  BY TilesOne
<1>2. t[1] = e /\ e.type = "ENTITY" /\ e.start = a
  BY DEF token
<1> HIDE DEF t, e
<1>3. s \in Seq(T)
  BY DEF Tiles
<1>4. ASSUME s # <<>> PROVE MayFollow(s[Len(s)], t[1])
  <2>1. Len(s) \in 1 .. Len(s)
    <3> HIDE DEF T
    <3> QED
      BY <1>3, <1>4
  <2>2. s[Len(s)].end <= a
    BY <2>1 DEF Tiles
  <2> QED
    BY <1>2, <2>2 DEF MayFollow
<1>5. Tiles(s \o t, text, 0, b)
  <2>1. 0 <= a /\ 0 \in Nat /\ a <= b
    OBVIOUS
  <2> QED
    BY <1>1, <1>4, <2>1, TilesJoin
<1> QED
  BY <1>5 DEF t, e

\* One more entity is put out.
LEMMA PutGrows ==
    ASSUME NEW text, text \in Seq(Range(text)), NEW es, InText(text, es),
           NEW k \in 1 .. Len(es), NEW st, PutState(text, es, k - 1, st)
    PROVE  PutState(text, es, k, PutEntity(text, es[k], st))
<1> DEFINE s == st.tokens
           a == st.pos
           e == es[k]
           f == fragmentTokenize(text, a, e.start)
           x == token("ENTITY", e.start, e.end)
           u == s \o f
           v == u \o <<x>>
           new == PutEntity(text, e, st)
           T == TextTokens(text)
<1> SUFFICES PutState(text, es, k, new)
  OBVIOUS
<1>1. /\ a \in Nat /\ s \in Seq(T)
      /\ a = IF k - 1 = 0 THEN 0 ELSE es[k - 1].end
      /\ Tiles(s, text, 0, a)
      /\ s # <<>> => s[Len(s)].type = "ENTITY"
      /\ \A j \in 1 .. k - 1 : \E q \in 1 .. Len(s) :
            s[q] = token("ENTITY", es[j].start, es[j].end)
  BY DEF PutState
<1>2. /\ e.start \in Nat /\ e.end \in Nat /\ e.start < e.end /\ e.end <= Len(text)
      /\ Len(es) \in Nat /\ Len(text) \in Nat
  <2>1. e \in AllMatches /\ Len(es) \in Nat
    BY DEF InText
  <2>2. e.start < e.end /\ e.end <= Len(text)
    BY DEF InText
  <2>3. Len(text) \in Nat
    OBVIOUS
  <2> QED
    BY <2>1, <2>2, <2>3 DEF AllMatches
<1>3. a <= e.start /\ e.start <= Len(text)
  <2>1. CASE k = 1
    BY <1>1, <1>2, <2>1
  <2>2. CASE k # 1
    <3>1. k - 1 \in 1 .. Len(es) - 1 /\ (k - 1) + 1 = k /\ k - 1 # 0
      BY <1>2, <2>2
    <3>2. es[k - 1].end <= es[(k - 1) + 1].start
      BY <3>1 DEF InText
    <3> QED
      BY <1>1, <1>2, <3>1, <3>2
  <2> QED
    BY <2>1, <2>2
<1>4. new.tokens = v /\ new.pos = e.end /\ new = [tokens |-> v, pos |-> e.end]
  BY DEF PutEntity
<1>5. Tiles(u, text, 0, e.start)
  <2> HIDE DEF s, a, e
  <2> QED
    BY <1>1, <1>2, <1>3, FragmentFollows
<1>6. Tiles(v, text, 0, e.end)
  <2> HIDE DEF u, e, x
  <2>1. Tiles(u \o <<token("ENTITY", e.start, e.end)>>, text, 0, e.end)
    BY <1>2, <1>5, EntityFollows
  <2> QED
    BY <2>1 DEF x
<1>7. u \in Seq(T) /\ v \in Seq(T)
  BY <1>5, <1>6 DEF Tiles
<1>8. f \in Seq(T)
  <2>1. Tiles(f, text, a, e.start)
    <3> HIDE DEF s, a, e
    <3> QED
      BY <1>1, <1>2, <1>3, FragmentTiles
  <2> QED
    BY <2>1 DEF Tiles
<1>9. x.type = "ENTITY" /\ x \in T
  BY <1>2 DEF token, TextTokens
<1>10. /\ Len(s) \in Nat /\ Len(v) \in Nat /\ v # <<>> /\ v[Len(v)] = x
       /\ Len(v) \in 1 .. Len(v) /\ Len(s) <= Len(v)
       /\ \A q \in 1 .. Len(s) : v[q] = s[q]
  <2> HIDE DEF s, f, x, T
  <2>1. /\ Len(u) = Len(s) + Len(f) /\ Len(s) \in Nat /\ Len(f) \in Nat
        /\ \A q \in 1 .. Len(s) : u[q] = s[q]
    BY <1>1, <1>8
  <2> HIDE DEF u
  <2>2. /\ Len(v) = Len(u) + 1 /\ Len(u) \in Nat /\ v[Len(u) + 1] = x
        /\ \A q \in 1 .. Len(u) : v[q] = u[q]
    BY <1>7, <1>9
  <2> HIDE DEF v
  <2>3. \A q \in 1 .. Len(s) : q \in 1 .. Len(u)
    BY <2>1
  <2>4. v # <<>>
    BY <2>2
  <2>5. Len(v) \in Nat /\ Len(v) \in 1 .. Len(v) /\ Len(s) <= Len(v) /\ v[Len(v)] = x
    BY <2>1, <2>2
  <2>6. \A q \in 1 .. Len(s) : v[q] = s[q]
    BY <2>1, <2>2, <2>3
  <2> QED
    BY <2>1, <2>4, <2>5, <2>6
<1> HIDE DEF new, v, s
<1>11. ASSUME NEW j \in 1 .. k
       PROVE  \E q \in 1 .. Len(v) : v[q] = token("ENTITY", es[j].start, es[j].end)
  <2>1. j \in 1 .. k - 1 \/ j = k
    BY <1>2
  <2>2. CASE j = k
    BY <1>10, <2>2
  <2>3. CASE j \in 1 .. k - 1
    <3>1. PICK q \in 1 .. Len(s) : s[q] = token("ENTITY", es[j].start, es[j].end)
      BY <1>1, <2>3
    <3>2. q \in 1 .. Len(v) /\ v[q] = s[q]
      BY <1>10
    <3> QED
      BY <3>1, <3>2
  <2> QED
    BY <2>1, <2>2, <2>3
<1>12. new \in [tokens : Seq(T), pos : Nat]
  BY <1>2, <1>4, <1>7
<1>13. new.pos = IF k = 0 THEN 0 ELSE es[k].end
  BY <1>2, <1>4
<1> QED
  BY <1>4, <1>6, <1>9, <1>10, <1>11, <1>12, <1>13 DEF PutState

PutStart == [tokens |-> <<>>, pos |-> 0]

\* f gives what has been put out after each number of entities
IsPut(text, es, n, f) ==
    f = [k \in 0 .. n |-> IF k = 0 THEN PutStart ELSE PutEntity(text, es[k], f[k - 1])]

\* Before the first entity.
LEMMA PutFirst ==
    ASSUME NEW text, NEW es
    PROVE  PutState(text, es, 0, PutStart)
<1> DEFINE st == PutStart
<1>1. /\ st \in [tokens : Seq(TextTokens(text)), pos : Nat]
      /\ st.tokens = <<>> /\ st.pos = 0
  BY DEF PutStart
<1>2. Tiles(<<>>, text, 0, 0)
  <2>1. 0 .. 0 - 1 = {} /\ 0 \in Nat
    OBVIOUS
  <2> QED
    BY <2>1, TilesBlank
<1> HIDE DEF st
<1>3. PutState(text, es, 0, st)
  BY <1>1, <1>2 DEF PutState
<1> QED
  BY <1>3 DEF st

\* All entities can be put out, one after the other.
LEMMA PutExists ==
    ASSUME NEW text, text \in Seq(Range(text)), NEW es, InText(text, es)
    PROVE  \E f : IsPut(text, es, Len(es), f)
<1> DEFINE X == [tokens : Seq(TextTokens(text)), pos : Nat]
           n == Len(es)
           a == PutStart
           Right(k, st) == PutState(text, es, k, st)
           Put(k, st) == PutEntity(text, es[k], st)
           next(k) == [st \in X |-> IF Right(k - 1, st) THEN Put(k, st) ELSE a]
           step == [k \in 1 .. n |-> next(k)]
<1>0. n \in Nat
  BY DEF InText
<1>1. a \in X /\ Right(0, a)
  BY PutFirst DEF PutState
<1>2. ASSUME NEW k \in 1 .. n, NEW st \in X, Right(k - 1, st)
      PROVE  Put(k, st) \in X /\ Right(k, Put(k, st))
  <2>1. Right(k, Put(k, st))
    BY <1>2, PutGrows
  <2> QED
    BY <2>1 DEF PutState
<1>9. \A f : IsPut(text, es, n, f)
             <=> f = [k \in 0 .. n |-> IF k = 0 THEN a ELSE Put(k, f[k - 1])]
  BY DEF IsPut
<1> HIDE DEF X, a, Right, n, Put
<1>3. step \in [1 .. n -> [X -> X]]
  BY <1>1, <1>2
<1>4. PICK f : f \in Results(X, n, a, step)
  <2> HIDE DEF step
  <2>1. Results(X, n, a, step) # {}
    BY <1>0, <1>1, <1>3, Iterates
  <2> QED
    BY <2>1
<1>5. /\ f \in [0 .. n -> X] /\ f[0] = a
      /\ \A k \in 1 .. n : f[k] = step[k][f[k - 1]]
  BY <1>4 DEF Results
<1>6. ASSUME NEW k \in 1 .. n, Right(k - 1, f[k - 1])
      PROVE  f[k] = Put(k, f[k - 1]) /\ Right(k, f[k])
  <2>1. k - 1 \in 0 .. n
    BY <1>0
  <2>2. f[k - 1] \in X
    BY <1>5, <2>1
  <2>3. f[k] = Put(k, f[k - 1])
    BY <1>5, <1>6, <2>2
  <2> QED
    BY <1>2, <1>6, <2>2, <2>3
<1> HIDE DEF step
<1>7. \A k \in 0 .. n : Right(k, f[k])
  <2> DEFINE Good == {k \in 0 .. n : Right(k, f[k])}
  <2>1. 0 \in Good
    BY <1>0, <1>1, <1>5
  <2>2. ASSUME NEW k \in 1 .. n, k - 1 \in Good PROVE k \in Good
    <3>1. k \in 0 .. n
      BY <1>0
    <3> QED
      BY <1>6, <2>2, <3>1
  <2> HIDE DEF Good
  <2>3. \A k \in 0 .. n : k \in Good
    BY <1>0, <2>1, <2>2, GoodAlong
  <2> QED
    BY <2>3 DEF Good
<1> DEFINE d == [k \in 0 .. n |-> IF k = 0 THEN a ELSE Put(k, f[k - 1])]
<1>8. ASSUME NEW k \in 0 .. n PROVE f[k] = d[k]
  <2>1. k = 0 \/ (k \in 1 .. n /\ k - 1 \in 0 .. n)
    BY <1>0
  <2> QED
    BY <1>5, <1>6, <1>7, <2>1
<1>10. f = d
  <2>1. f = [k \in 0 .. n |-> f[k]]
    BY <1>5
  <2> HIDE DEF d
  <2>2. d = [k \in 0 .. n |-> d[k]]
    BY DEF d
  <2> QED
    BY <1>8, <2>1, <2>2
<1>11. IsPut(text, es, n, f)
  BY <1>9, <1>10
<1> QED
  BY <1>11 DEF n

\* The tokens of a text tile it, and have the entities among them.
LEMMA TokensRight ==
    ASSUME NEW text, text \in Seq(Range(text)), NEW ms, InText(text, selectedEntityTokens(ms))
    PROVE  LET ts == entityTokenize(text, ms)
               es == selectedEntityTokens(ms)
           IN  /\ Tiles(ts, text, 0, Len(text))
               /\ \A j \in 1 .. Len(es) : \E q \in 1 .. Len(ts) :
                     ts[q] = token("ENTITY", es[j].start, es[j].end)
<1> DEFINE es == selectedEntityTokens(ms)
           ts == entityTokenize(text, ms)
           n == Len(es)
           put == CHOOSE f : IsPut(text, es, n, f)
           st == put[n]
           s == st.tokens
           f == fragmentTokenize(text, st.pos, Len(text))
           Good == {k \in 0 .. n : PutState(text, es, k, put[k])}
           T == TextTokens(text)
<1>1. InText(text, es) /\ n \in Nat
  BY DEF InText
<1>2. ts = s \o f
  BY DEF entityTokenize, IsPut, PutStart
<1> HIDE DEF es, ts
<1>3. IsPut(text, es, n, put)
  <2>1. \E g : IsPut(text, es, n, g)
    BY <1>1, PutExists
  <2> QED
    BY <2>1
<1> HIDE DEF put, n
<1>4. /\ put[0] = PutStart
      /\ \A k \in 1 .. n : put[k] = PutEntity(text, es[k], put[k - 1])
  <2>1. 0 \in 0 .. n /\ \A k \in 1 .. n : k \in 0 .. n /\ k # 0
    BY <1>1
  <2>2. put = [k \in 0 .. n |-> IF k = 0 THEN PutStart ELSE PutEntity(text, es[k], put[k - 1])]
    BY <1>3 DEF IsPut
  <2> QED
    BY <2>1, <2>2
<1>5. 0 \in Good
  BY <1>1, <1>4, PutFirst
<1>6. ASSUME NEW k \in 1 .. n, k - 1 \in Good PROVE k \in Good
  <2>1. k \in 0 .. n
    BY <1>1
  <2>2. PutState(text, es, k, PutEntity(text, es[k], put[k - 1]))
    BY <1>1, <1>6, PutGrows DEF n
  <2> QED
    BY <1>4, <2>1, <2>2
<1>7. PutState(text, es, n, st)
  <2> HIDE DEF Good
  <2>1. \A k \in 0 .. n : k \in Good
    BY <1>1, <1>5, <1>6, GoodAlong
  <2>2. n \in Good
    BY <1>1, <2>1
  <2> QED
    BY <2>2 DEF Good
<1> HIDE DEF st
<1>8. /\ st.pos \in Nat /\ s \in Seq(T)
      /\ st.pos = IF n = 0 THEN 0 ELSE es[n].end
      /\ Tiles(s, text, 0, st.pos)
      /\ s # <<>> => s[Len(s)].type = "ENTITY"
      /\ \A j \in 1 .. n : \E q \in 1 .. Len(s) :
            s[q] = token("ENTITY", es[j].start, es[j].end)
  BY <1>7 DEF PutState
<1>9. st.pos <= Len(text) /\ Len(text) \in Nat
  <2>1. Len(text) \in Nat
    OBVIOUS
  <2>2. n # 0 => n \in 1 .. n
    BY <1>1
  <2>3. \A j \in 1 .. n : es[j].end <= Len(text)
    BY <1>1 DEF InText, n
  <2> QED
    BY <1>8, <2>1, <2>2, <2>3
<1>10. Tiles(s \o f, text, 0, Len(text))
  <2> HIDE DEF s
  <2> QED
    BY <1>8, <1>9, FragmentFollows
<1>11. f \in Seq(T)
  <2>1. Tiles(f, text, st.pos, Len(text))
    BY <1>8, <1>9, FragmentTiles
  <2> QED
    BY <2>1 DEF Tiles
<1>12. \A q \in 1 .. Len(s) : q \in 1 .. Len(ts) /\ ts[q] = s[q]
  <2> HIDE DEF s, f, T
  <2> QED
    BY <1>2, <1>8, <1>11
<1>13. ASSUME NEW j \in 1 .. n
       PROVE  \E q \in 1 .. Len(ts) : ts[q] = token("ENTITY", es[j].start, es[j].end)
  <2>1. PICK q \in 1 .. Len(s) : s[q] = token("ENTITY", es[j].start, es[j].end)
    BY <1>8
  <2> QED
    BY <1>12, <2>1
<1> QED
  BY <1>2, <1>10, <1>13 DEF es, ts, n

\* The selected entities lie in the text.
LEMMA EntitiesInText ==
    ASSUME NEW text, NEW ms, AreMatches(ms), \A m \in ms : m.end <= Len(text),
           NEW es, AreEntities(ms, es)
    PROVE  InText(text, es)
<1>1. es \in Seq(ms) /\ \A j \in 1 .. Len(es) : es[j] \in ms
  BY DEF AreEntities
<1>2. es \in Seq(AllMatches)
  BY <1>1, SeqMonotonic DEF AreMatches
<1> QED
  BY <1>1, <1>2 DEF AreEntities, AreMatches, InText

\* A tokenized text, as TokensTile has it.
LEMMA TextTokenized ==
    ASSUME NEW t, t \in Seq(Range(t)), NEW ms, AreMatches(ms), \A m \in ms : m.end <= Len(t),
           call'.text = t, call'.matches = ms, call'.result = entityTokenize(t, ms)
    PROVE  TokensTile'
<1> DEFINE ts == entityTokenize(t, ms)
           es == selectedEntityTokens(ms)
           n == Len(ts)
<1>1. AreEntities(ms, es)
  BY SelectionRight
<1>2. InText(t, es)
  <2> HIDE DEF es
  <2> QED
    BY <1>1, EntitiesInText
<1>3. /\ Tiles(ts, t, 0, Len(t))
      /\ \A j \in 1 .. Len(es) : \E q \in 1 .. n :
            ts[q] = token("ENTITY", es[j].start, es[j].end)
  BY <1>2, TokensRight
<1> HIDE DEF ts, es
<1>4. DOMAIN ts = 1 .. n
  <2>1. ts \in Seq(TextTokens(t))
    BY <1>3 DEF Tiles
  <2> QED
    BY <2>1
<1> HIDE DEF n
<1>5. /\ \A k \in 1 .. (n - 1) :
            /\ ts[k].end <= ts[k + 1].start
            /\ ts[k].end = ts[k + 1].start /\ ts[k].type = ts[k + 1].type
                 => ts[k].type = "ENTITY"
  BY <1>3 DEF Tiles, MayFollow, n
<1>6. \A p \in 0 .. (Len(t) - 1) :
         \/ \E k \in 1 .. n : /\ Covers(ts[k], p)
                              /\ ts[k].type = "ENTITY" \/ ts[k].type = t[p + 1]
         \/ /\ t[p + 1] = "WHITESPACE"
            /\ \A k \in 1 .. n : ~Covers(ts[k], p)
  BY <1>3 DEF Tiles, SeenIn, Covers, n
<1>7. ASSUME NEW m \in ms
      PROVE  \E k \in 1 .. n : /\ ts[k].type = "ENTITY" /\ ts[k].start <= m.start
                               /\ Covers(ts[k], m.start)
                               /\ ts[k].start = m.start => ts[k].end <= m.end
  <2>1. PICK j \in 1 .. Len(es) : StandsFor(es[j], m)
    BY <1>1 DEF AreEntities
  <2>2. PICK q \in 1 .. n : ts[q] = token("ENTITY", es[j].start, es[j].end)
    BY <1>3
  <2>3. ts[q].type = "ENTITY" /\ ts[q].start = es[j].start /\ ts[q].end = es[j].end
    BY <2>2 DEF token
  <2> QED
    BY <2>1, <2>3 DEF StandsFor, Covers
<1>8. call'.text = t /\ call'.matches = ms /\ call'.result = ts
  BY DEF ts
<1>9. /\ \A k \in 1 .. (n - 1) :
            /\ ts[k].end <= ts[k + 1].start
            /\ ts[k].end = ts[k + 1].start /\ ts[k].type = ts[k + 1].type
                 => ts[k].type = "ENTITY"
      /\ \A p \in 0 .. (Len(t) - 1) :
            \/ \E k \in DOMAIN ts : /\ Covers(ts[k], p)
                                    /\ ts[k].type = "ENTITY" \/ ts[k].type = t[p + 1]
            \/ /\ t[p + 1] = "WHITESPACE"
               /\ \A k \in DOMAIN ts : ~Covers(ts[k], p)
      /\ \A m \in ms : \E k \in DOMAIN ts :
            /\ ts[k].type = "ENTITY" /\ ts[k].start <= m.start /\ Covers(ts[k], m.start)
            /\ ts[k].start = m.start => ts[k].end <= m.end
  <2>1. \A m \in ms : \E k \in DOMAIN ts :
            /\ ts[k].type = "ENTITY" /\ ts[k].start <= m.start /\ Covers(ts[k], m.start)
            /\ ts[k].start = m.start => ts[k].end <= m.end
    BY <1>4, <1>7
  <2>2. \A p \in 0 .. (Len(t) - 1) :
            \/ \E k \in DOMAIN ts : /\ Covers(ts[k], p)
                                    /\ ts[k].type = "ENTITY" \/ ts[k].type = t[p + 1]
            \/ /\ t[p + 1] = "WHITESPACE"
               /\ \A k \in DOMAIN ts : ~Covers(ts[k], p)
    BY <1>4, <1>6
  <2> QED
    BY <1>5, <2>1, <2>2
<1> QED
  BY <1>8, <1>9 DEF TokensTile, n

\* The tokens of a text tile it, and each match that is not among them is overlapped by an
\* entity that begins no later: the stable sort, the selection of the entities, and the
\* tokens of the text between them (entityTokenize and fragmentTokenize).
THEOREM TextsTile == QuerySpec => []TokensTile
<1>1. QueryInit => TokensTile
  BY DEF QueryInit, NoCall, TokensTile
<1>2. TokensTile /\ [QueryNext]_queryVars => TokensTile'
  <2> SUFFICES ASSUME TokensTile, [QueryNext]_queryVars
               PROVE  TokensTile'
    OBVIOUS
  <2>1. CASE Tokenize
    <3>1. PICK t \in Texts : \E ms \in Matches :
             call' = [op |-> "tokenize", text |-> t, matches |-> ms,
                      result |-> entityTokenize(t, ms)]
      BY <2>1 DEF Tokenize, Call
    <3>2. PICK ms \in Matches :
             call' = [op |-> "tokenize", text |-> t, matches |-> ms,
                      result |-> entityTokenize(t, ms)]
      BY <3>1
    <3>3. t \in Seq(Range(t)) /\ AreMatches(ms) /\ \A m \in ms : m.end <= Len(t)
      BY QueryAssumption DEF AreMatches, AllMatches
    <3>4. call'.text = t /\ call'.matches = ms /\ call'.result = entityTokenize(t, ms)
      BY <3>2
    <3> QED
      BY <3>3, <3>4, TextTokenized
  <2>2. CASE UNCHANGED call
    BY <2>2 DEF TokensTile
  <2>3. CASE call'.op # "tokenize"
    BY <2>3 DEF TokensTile
  <2>4. Tokenize \/ UNCHANGED call \/ call'.op # "tokenize"
    BY CallsApart
  <2> QED
    BY <2>1, <2>2, <2>3, <2>4
<1> QED
  BY <1>1, <1>2, PTL DEF QuerySpec

=============================================================================
