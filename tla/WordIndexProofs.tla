---------------------------- MODULE WordIndexProofs ----------------------------
(***************************************************************************)
(* Proofs about the tri-gram index of words, for any documents, any number *)
(* of indexers and shards and any capacity of channels and caches, with    *)
(* failed writes, interrupts, panics and restarts on what the store kept.  *)
(***************************************************************************)
EXTENDS WordIndex, Induction, SequenceTheorems, TLAPS

Busy   == {"look", "setWord", "setSeq"}
Adding == {"setWord", "setSeq"}

\* the writes to the store
WriteType ==
    [key : {"word"} \X Words, val : Nat \ {0}]
      \cup [key : {"num"} \X Nat, val : Words]
      \cup [key : {inck}, val : Nat]

CacheType == [word : Words, id : Nat \ {0}]

ProcTypes ==
    /\ counter \in Nat /\ {cancelled, saved, panicked} \subseteq BOOLEAN

AllocTypes ==
    /\ chan \in [Shards -> Seq(Requests)]
    /\ \A s \in Shards : Len(chan[s]) <= WorkersCount
    /\ apc \in [Shards -> {"wait", "look", "setWord", "setSeq", "closed"}]
    /\ areq \in [Shards -> {<<>>} \cup Requests]
    /\ \A s \in Shards : apc[s] \in Busy => areq[s] \in Requests
    /\ cache \in [Shards -> Seq(CacheType)]
    /\ \A s \in Shards : Len(cache[s]) <= WorkersCount

CallTypes ==
    /\ ipc \in [Indexers -> {"idle", "request", "await", "write", "gone"}]
    /\ words \in [Indexers -> Seq(Words)]
    /\ \A i \in Indexers : ipc[i] \in {"request", "await", "write"} => words[i] # <<>>
    /\ answer \in [Indexers -> Seq(Answers)]
    /\ \A i \in Indexers : Len(answer[i]) <= 1
    /\ DOMAIN grams = Indexers

StoreTypes == wal \in Seq(WriteType) /\ base \in 0 .. Len(wal)

SetTypes == files \subseteq Entries /\ fresh \subseteq Words \X Nat /\ dropped \subseteq Words

\* the tri-grams that an indexer has still to write, and those it has written
GramsOf(i) ==
    /\ ipc[i] # "write" => grams[i] = <<>>
    /\ ipc[i] = "write" =>
         /\ grams[i] \in Seq(Range(extractTGrams(Head(words[i])))) /\ grams[i] # <<>>
         /\ answer[i] # <<>> /\ ~answer[i][1].loaded
         /\ \A g \in Range(extractTGrams(Head(words[i]))) :
              g \in Range(grams[i]) \/ encNGData(answer[i][1].id, g) \in files

GramsInv == \A i \in Indexers : GramsOf(i)

\* ids come from the counter, each given once
IdInv ==
    /\ \A p \in fresh : p[2] \in 1 .. counter
    /\ \A p, q \in fresh : p[2] = q[2] => p = q
    /\ \A s \in Shards : apc[s] \in Adding =>
         /\ areq[s].id \in 1 .. counter
         /\ \A p \in fresh : p[2] # areq[s].id
         /\ \A t \in Shards \ {s} : apc[t] \in Adding => areq[t].id # areq[s].id

\* the last write to the key of an id is its word
LastWrite(log, k, v) ==
    \E n \in DOMAIN log :
        /\ log[n] = [key |-> k, val |-> v]
        /\ \A m \in DOMAIN log : log[m].key = k => m <= n

ResolveInv == \A p \in fresh : LastWrite(wal, seqKey(p[2]), p[1])

\* a request under way is of the word its caller waits for, or the caller is gone
Expected(s, r) ==
    /\ Shard(r.word) = s
    /\ \/ ipc[r.from] = "gone" /\ r.word \in dropped
       \/ ipc[r.from] = "await" /\ Head(words[r.from]) = r.word /\ answer[r.from] = <<>>

RequestInv ==
    /\ \A i \in Indexers : ipc[i] \in {"idle", "request"} => answer[i] = <<>>
    /\ \A s \in Shards :
        /\ \A k \in DOMAIN chan[s] : Expected(s, chan[s][k])
        /\ \A k, l \in DOMAIN chan[s] : chan[s][k].from = chan[s][l].from => k = l
        /\ apc[s] \in Busy =>
             /\ Expected(s, areq[s])
             /\ \A k \in DOMAIN chan[s] : chan[s][k].from # areq[s].from

IInv ==
    /\ ProcTypes /\ AllocTypes /\ CallTypes /\ StoreTypes /\ SetTypes
    /\ GramsInv /\ IdInv /\ ResolveInv /\ RequestInv /\ TrigramsComplete

-----------------------------------------------------------------------------
(* Constants, sequences and tri-grams                                      *)

\* capacities and ids
LEMMA Constants == WorkersCount \in Nat \ {0} /\ IdSpace \in Nat \ {0}
  BY WordIndexAssumption

\* a word is a sequence of letters, of the shard of the first one
LEMMA WordFacts ==
    ASSUME NEW w \in Words
    PROVE  w \in Seq(Range(w)) /\ Len(w) \in Nat /\ Len(w) > 0 /\ Shard(w) \in Shards
<1>1. w \in Seq(Range(w)) /\ Len(w) > 0
  BY WordIndexAssumption
<1>2. Len(w) \in Nat
  BY <1>1, LenProperties
<1> QED
  BY <1>1, <1>2 DEF Shards

\* what is kept of a sequence is a sequence of its elements
LEMMA FilterIsSeq ==
    ASSUME NEW S, NEW q \in Seq(S), NEW keep
    PROVE  Filter(q, keep) \in Seq(S)
<1> DEFINE n == Len(q)
           Longer(k, r) == IF q[k] \in keep THEN Append(r, q[k]) ELSE r
           step == [k \in 1 .. n |-> [r \in Seq(S) |-> Longer(k, r)]]
           Rest(g) == g = [k \in 0 .. n |-> IF k = 0 THEN <<>> ELSE Longer(k, g[k - 1])]
<1>1. n \in Nat /\ <<>> \in Seq(S) /\ step \in [1 .. n -> [Seq(S) -> Seq(S)]]
  OBVIOUS
<1>2. \E g : Rest(g)
  <2> DEFINE Steps(g) == g[0] = <<>> /\ \A k \in 1 .. n : g[k] = step[k][g[k - 1]]
  <2>1. PICK g \in [0 .. n -> Seq(S)] : Steps(g)
    <3> DEFINE X == Seq(S)
               a == <<>>
    <3>1. n \in Nat /\ a \in X /\ step \in [1 .. n -> [X -> X]]
      BY <1>1
    <3> HIDE DEF step, n, X, a
    <3>2. Results(X, n, a, step) # {}
      BY <3>1, Iterates
    <3> QED
      BY <3>2 DEF Results, X, a
  <2>2. \A k \in 1 .. n : g[k - 1] \in Seq(S) /\ g[k] = Longer(k, g[k - 1])
    <3> TAKE k \in 1 .. n
    <3>1. k - 1 \in 0 .. n
      BY <1>1
    <3>2. g[k - 1] \in Seq(S) /\ g[k] = step[k][g[k - 1]]
      <4> HIDE DEF step, n
      <4> QED
        BY <2>1, <3>1
    <3> HIDE DEF Longer
    <3> QED
      BY <3>2
  <2>3. Rest(g)
    <3> HIDE DEF Longer, n
    <3> QED
      BY <2>1, <2>2, <1>1
  <2> QED
    BY <2>3
<1> DEFINE kept == CHOOSE g : Rest(g)
<1>3. Rest(kept)
  BY <1>2, Zenon
<1>4. Filter(q, keep) = kept[n]
  BY DEF Filter
<1> HIDE DEF kept
<1>5. kept[0] \in Seq(S)
  BY <1>1, <1>3
<1>6. ASSUME NEW k \in 1 .. n, kept[k - 1] \in Seq(S) PROVE kept[k] \in Seq(S)
  <2>1. kept[k] = Longer(k, kept[k - 1])
    <3> HIDE DEF Longer
    <3> QED
      BY <1>1, <1>3
  <2>2. q[k] \in S
    BY <1>1
  <2> QED
    BY <1>6, <2>1, <2>2
<1>7. \A k \in 0 .. n : kept[k] \in Seq(S)
  <2> HIDE DEF n
  <2> QED
    BY <1>1, <1>5, <1>6, AllAlong
<1> QED
  BY <1>1, <1>4, <1>7

Triples(w) == {SubSeq(w, n - 2, n) : n \in 3 .. Len(w)}

\* the tri-grams of a word are three letters in a row
LEMMA TGramsAreTriples ==
    ASSUME NEW w \in Words
    PROVE  extractTGrams(w) \in Seq(Triples(w))
<1> DEFINE m == Len(w)
           S == Triples(w)
           More(k, r) == IF k < 3 THEN <<>>
                         ELSE LET g == SubSeq(w, k - 2, k)
                              IN  IF g \in Range(r) THEN r ELSE Append(r, g)
           step == [k \in 1 .. m |-> [r \in Seq(S) |-> More(k, r)]]
           Found(f) == f = [k \in 0 .. m |-> More(k, f[k - 1])]
<1>1. m \in Nat /\ <<>> \in Seq(S)
  BY WordFacts
<1>2. \A k \in 1 .. m : \A r \in Seq(S) : More(k, r) \in Seq(S)
  <2> TAKE k \in 1 .. m
  <2> TAKE r \in Seq(S)
  <2>1. CASE k < 3
    BY <2>1
  <2>2. CASE k >= 3
    <3>1. SubSeq(w, k - 2, k) \in S
      BY <2>2, <1>1 DEF Triples
    <3> DEFINE g == SubSeq(w, k - 2, k)
    <3>2. Append(r, g) \in Seq(S)
      <4> HIDE DEF S, g
      <4> QED
        BY <3>1, AppendProperties DEF g
    <3>3. More(k, r) \in {r, Append(r, g)}
      <4> HIDE DEF S
      <4> QED
        BY <2>2, <1>1
    <3> HIDE DEF More
    <3> QED
      BY <3>2, <3>3
  <2> QED
    BY <1>1, <2>1, <2>2
<1>3. step \in [1 .. m -> [Seq(S) -> Seq(S)]]
  <2> HIDE DEF S, More
  <2> QED
    BY <1>2
<1>4. More(0, <<>>) = <<>> /\ \A r : More(0, r) = <<>>
  OBVIOUS
<1> HIDE DEF More, S
<1>5. \E f : Found(f)
  <2> DEFINE Steps(f) == f[0] = <<>> /\ \A k \in 1 .. m : f[k] = step[k][f[k - 1]]
  <2>1. PICK f \in [0 .. m -> Seq(S)] : Steps(f)
    <3> DEFINE X == Seq(S)
               a == <<>>
    <3>1. m \in Nat /\ a \in X /\ step \in [1 .. m -> [X -> X]]
      BY <1>1, <1>3
    <3> HIDE DEF step, m, X, a
    <3>2. Results(X, m, a, step) # {}
      BY <3>1, Iterates
    <3> QED
      BY <3>2 DEF Results, X, a
  <2>2. \A k \in 1 .. m : f[k - 1] \in Seq(S) /\ f[k] = More(k, f[k - 1])
    <3> TAKE k \in 1 .. m
    <3>1. k - 1 \in 0 .. m
      BY <1>1
    <3>2. f[k - 1] \in Seq(S) /\ f[k] = step[k][f[k - 1]]
      <4> HIDE DEF step, m
      <4> QED
        BY <2>1, <3>1
    <3> QED
      BY <3>2
  <2>3. Found(f)
    <3> HIDE DEF m
    <3> QED
      BY <2>1, <2>2, <1>1, <1>4
  <2> QED
    BY <2>3
<1> DEFINE found == CHOOSE f : Found(f)
<1>6. Found(found)
  BY <1>5, Zenon
<1>7. extractTGrams(w) = found[m]
  BY DEF extractTGrams, More
<1> HIDE DEF found
<1>8. found[0] \in Seq(S)
  <2>1. found[0] = More(0, found[-1])
    BY <1>1, <1>6
  <2> QED
    BY <1>1, <1>4, <2>1
<1>9. ASSUME NEW k \in 1 .. m, found[k - 1] \in Seq(S) PROVE found[k] \in Seq(S)
  BY <1>1, <1>2, <1>6, <1>9
<1>10. \A k \in 0 .. m : found[k] \in Seq(S)
  <2> HIDE DEF m
  <2> QED
    BY <1>1, <1>8, <1>9, AllAlong
<1> QED
  BY <1>1, <1>7, <1>10 DEF S

\* so an entry for one of them is an entry of a file
LEMMA EntryOf ==
    ASSUME NEW w \in Words, NEW n \in Nat, NEW g \in Range(extractTGrams(w))
    PROVE  encNGData(n, g) \in Entries
<1>1. extractTGrams(w) \in Seq(Triples(w))
  BY TGramsAreTriples
<1>2. g \in Triples(w)
  <2>1. PICK k \in DOMAIN extractTGrams(w) : g = extractTGrams(w)[k]
    BY DEF Range
  <2> QED
    BY <1>1, <2>1
<1>3. PICK k \in 3 .. Len(w) : g = SubSeq(w, k - 2, k)
  BY <1>2 DEF Triples
<1>4. g[3] \in Range(w)
  <2>1. w \in Seq(Range(w)) /\ k \in 1 .. Len(w) /\ Len(w) \in Nat
    BY <1>3, WordFacts
  <2>2. g[3] = w[k] /\ k \in DOMAIN w
    BY <1>3, <2>1
  <2> QED
    BY <2>2 DEF Range
<1>5. n % IdSpace \in 0 .. (IdSpace - 1)
  BY Constants
<1> DEFINE Starts == {SubSeq(h, 1, 2) : h \in UNION {Range(extractTGrams(v)) : v \in Words}}
           Ends == Shards \cup UNION {Range(v) : v \in Words}
<1>6. SubSeq(g, 1, 2) \in Starts
  BY Zenon
<1>7. g[3] \in Ends
  BY <1>4
<1>8. Entries = [file : Starts, last : Ends, id : 0 .. (IdSpace - 1)]
  BY DEF Entries
<1> HIDE DEF Starts, Ends
<1> QED
  BY <1>5, <1>6, <1>7, <1>8 DEF encNGData

-----------------------------------------------------------------------------
(* The log                                                                 *)

\* keys of different kinds, and of different words and ids, differ
LEMMA KeysDiffer ==
    /\ \A w, n : wordKey(w) # seqKey(n)
    /\ \A w : wordKey(w) # inck
    /\ \A n : seqKey(n) # inck
    /\ \A m, n : seqKey(m) = seqKey(n) => m = n
  BY DEF wordKey, seqKey, inck

\* writes of each kind are of the type
LEMMA WriteTypes ==
    /\ \A w \in Words, n \in Nat \ {0} : [key |-> wordKey(w), val |-> n] \in WriteType
    /\ \A n \in Nat, w \in Words : [key |-> seqKey(n), val |-> w] \in WriteType
    /\ \A n \in Nat : [key |-> inck, val |-> n] \in WriteType
  BY DEF WriteType, wordKey, seqKey, inck

\* and lead to a value of the kind
LEMMA ValueTypes ==
    ASSUME NEW e \in WriteType
    PROVE  /\ \A w : e.key = wordKey(w) => e.val \in Nat \ {0}
           /\ e.key = inck => e.val \in Nat
  BY DEF WriteType, wordKey, seqKey, inck

\* the value of a key is that of the last write to it
LEMMA FindIs ==
    ASSUME NEW log \in Seq(WriteType), NEW k, NEW v, LastWrite(log, k, v)
    PROVE  HasIn(log, k) /\ FindIn(log, k) = v
<1> DEFINE Is(n) == log[n].key = k /\ \A m \in DOMAIN log : log[m].key = k => m <= n
           last == CHOOSE n \in DOMAIN log : Is(n)
<1>1. PICK n \in DOMAIN log : log[n] = [key |-> k, val |-> v] /\ \A m \in DOMAIN log : log[m].key = k => m <= n
  BY DEF LastWrite
<1>2. Is(n) /\ log[n].val = v
  BY <1>1
<1>3. last \in DOMAIN log /\ Is(last)
  BY <1>2, Zenon
<1>4. last = n
  <2>1. last <= n /\ n <= last
    BY <1>2, <1>3
  <2>2. DOMAIN log \subseteq Int
    OBVIOUS
  <2> HIDE DEF last
  <2> QED
    BY <1>3, <2>1, <2>2
<1>5. FindIn(log, k) = log[last].val
  BY DEF FindIn
<1> QED
  BY <1>2, <1>4, <1>5 DEF HasIn

\* a key that was written has a last write
LEMMA HasLast ==
    ASSUME NEW log \in Seq(WriteType), NEW k, HasIn(log, k)
    PROVE  \E e \in WriteType : e.key = k /\ FindIn(log, k) = e.val
<1> DEFINE Back == {d \in 0 .. Len(log) : \E n \in DOMAIN log : log[n].key = k /\ d = Len(log) - n}
<1>1. PICK n \in DOMAIN log : log[n].key = k
  BY DEF HasIn
<1>2. DOMAIN log = 1 .. Len(log) /\ Len(log) \in Nat
  BY LenProperties
<1>3. Len(log) - n \in Back /\ Back \in SUBSET Nat
  BY <1>1, <1>2
<1>4. PICK d \in Back : \A c \in Back : d <= c
  <2> HIDE DEF Back
  <2> QED
    BY <1>3, LeastNumber
<1>5. PICK l \in DOMAIN log : log[l].key = k /\ d = Len(log) - l
  BY <1>4
<1>6. ASSUME NEW m \in DOMAIN log, log[m].key = k PROVE m <= l
  <2>1. Len(log) - m \in Back
    BY <1>2, <1>6
  <2>2. d <= Len(log) - m
    BY <1>4, <2>1
  <2> QED
    BY <1>2, <1>5, <2>2
<1>7. log[l] \in WriteType
  BY <1>2
<1>8. log[l] = [key |-> k, val |-> log[l].val]
  BY <1>5, <1>7 DEF WriteType
<1>9. LastWrite(log, k, log[l].val)
  BY <1>6, <1>8 DEF LastWrite
<1> QED
  BY <1>5, <1>7, <1>9, FindIs

\* so a word that was written has an id, and a saved counter is a number
LEMMA FoundTypes ==
    ASSUME NEW log \in Seq(WriteType)
    PROVE  /\ \A w : HasIn(log, wordKey(w)) => FindIn(log, wordKey(w)) \in Nat \ {0}
           /\ LoadIndexC(log) \in Nat
<1>1. ASSUME NEW w, HasIn(log, wordKey(w)) PROVE FindIn(log, wordKey(w)) \in Nat \ {0}
  BY <1>1, HasLast, ValueTypes
<1>2. HasIn(log, inck) => FindIn(log, inck) \in Nat
  BY HasLast, ValueTypes
<1> QED
  BY <1>1, <1>2 DEF LoadIndexC

\* a write is the last one to its key, and leaves the other keys alone
LEMMA AppendWrites ==
    ASSUME NEW log \in Seq(WriteType), NEW k, NEW v, [key |-> k, val |-> v] \in WriteType
    PROVE  LET new == Append(log, [key |-> k, val |-> v]) IN
           /\ new \in Seq(WriteType) /\ Len(new) = Len(log) + 1
           /\ LastWrite(new, k, v)
           /\ \A j, u : j # k /\ LastWrite(log, j, u) => LastWrite(new, j, u)
<1> DEFINE e == [key |-> k, val |-> v]
           new == Append(log, e)
<1>1. /\ new \in Seq(WriteType) /\ Len(new) = Len(log) + 1
      /\ Len(log) \in Nat /\ DOMAIN log = 1 .. Len(log) /\ DOMAIN new = 1 .. Len(log) + 1
      /\ new[Len(log) + 1] = e /\ \A m \in DOMAIN log : new[m] = log[m]
  <2> HIDE DEF e
  <2> QED
    BY AppendProperties, LenProperties DEF e
<1>2. e.key = k
  OBVIOUS
<1> HIDE DEF new
<1>3. LastWrite(new, k, v)
  BY <1>1 DEF LastWrite
<1>4. ASSUME NEW j, NEW u, j # k, LastWrite(log, j, u) PROVE LastWrite(new, j, u)
  <2>1. PICK n \in DOMAIN log : log[n] = [key |-> j, val |-> u] /\ \A m \in DOMAIN log : log[m].key = j => m <= n
    BY <1>4 DEF LastWrite
  <2>2. n \in DOMAIN new /\ new[n] = [key |-> j, val |-> u]
    BY <1>1, <2>1
  <2>3. ASSUME NEW m \in DOMAIN new, new[m].key = j PROVE m <= n
    <3>1. m # Len(log) + 1
      BY <1>1, <1>2, <1>4, <2>3
    <3>2. m \in DOMAIN log
      BY <1>1, <3>1
    <3> QED
      BY <1>1, <2>1, <2>3, <3>2
  <2> QED
    BY <2>2, <2>3 DEF LastWrite
<1> QED
  BY <1>1, <1>3, <1>4 DEF new

-----------------------------------------------------------------------------
(* The cache                                                               *)

\* a cached word has an id
LEMMA CachedId ==
    ASSUME AllocTypes, NEW s \in Shards, NEW w, Cached(s, w)
    PROVE  Entry(s, w).id \in Nat \ {0}
<1>1. Entry(s, w) \in Range(cache[s])
  BY DEF Cached, Entry
<1>2. Range(cache[s]) \subseteq CacheType
  BY DEF AllocTypes, Range
<1> QED
  BY <1>1, <1>2 DEF CacheType

\* putting an entry keeps the cache within its capacity
LEMMA PutTypes ==
    ASSUME AllocTypes, NEW s \in Shards, NEW w \in Words, NEW n \in Nat \ {0}
    PROVE  /\ Put(s, w, n) \in [Shards -> Seq(CacheType)]
           /\ \A t \in Shards : Len(Put(s, w, n)[t]) <= WorkersCount
<1> DEFINE others == Filter(cache[s], {e \in Range(cache[s]) : e.word # w})
           all == <<[word |-> w, id |-> n]>> \o others
           top == IF Len(all) > WorkersCount THEN WorkersCount ELSE Len(all)
<1>1. cache \in [Shards -> Seq(CacheType)] /\ \A t \in Shards : Len(cache[t]) <= WorkersCount
  BY DEF AllocTypes
<1>2. others \in Seq(CacheType)
  BY <1>1, FilterIsSeq
<1>3. <<[word |-> w, id |-> n]>> \in Seq(CacheType)
  BY DEF CacheType
<1>4. all \in Seq(CacheType)
  <2> HIDE DEF others
  <2> QED
    BY <1>2, <1>3, ConcatProperties
<1>5. Put(s, w, n) = [cache EXCEPT ![s] = SubSeq(all, 1, top)]
  BY DEF Put
<1> HIDE DEF all
<1>6. SubSeq(all, 1, top) \in Seq(CacheType) /\ Len(SubSeq(all, 1, top)) <= WorkersCount
  <2>1. top \in Nat /\ top <= Len(all) /\ top <= WorkersCount /\ Len(all) \in Nat
    BY <1>4, Constants
  <2> HIDE DEF top
  <2> QED
    BY <1>4, <2>1, Constants
<1> QED
  BY <1>1, <1>5, <1>6

\* what a process leaves behind is a log
LEMMA KeptLog ==
    ASSUME StoreTypes, NEW log \in Kept
    PROVE  log \in Seq(WriteType)
<1>1. wal \in Seq(WriteType) /\ Len(wal) \in Nat /\ base \in 0 .. Len(wal)
  BY LenProperties DEF StoreTypes
<1>2. PICK n \in 0 .. Len(wal) : log = SubSeq(wal, 1, n)
  BY <1>1 DEF Kept
<1> QED
  BY <1>1, <1>2

-----------------------------------------------------------------------------
(* Types                                                                   *)

\* The flags and the counter keep their types.
LEMMA ProcTypesStep ==
    ASSUME IInv, [Next]_vars
    PROVE  ProcTypes'
<1>1. ASSUME NEW s \in Shards, AllocTake(s) PROVE ProcTypes'
  BY <1>1 DEF AllocTake, IInv, ProcTypes, procVars
<1>2. ASSUME NEW s \in Shards, AllocFind(s) PROVE ProcTypes'
  BY <1>2 DEF AllocFind, IInv, ProcTypes, procVars
<1>3. ASSUME NEW s \in Shards, AllocAdd(s) PROVE ProcTypes'
  BY <1>3 DEF AllocAdd, IInv, ProcTypes, procVars
<1>4. ASSUME NEW s \in Shards, AllocSetWord(s) PROVE ProcTypes'
  BY <1>4 DEF AllocSetWord, IInv, ProcTypes, procVars
<1>5. ASSUME NEW s \in Shards, AllocSetSeq(s) PROVE ProcTypes'
  BY <1>5 DEF AllocSetSeq, IInv, ProcTypes, procVars
<1>6. ASSUME NEW s \in Shards, AllocFails(s) PROVE ProcTypes'
  BY <1>6 DEF AllocFails, IInv, ProcTypes, procVars
<1>7. ASSUME NEW i \in Indexers, Request(i) PROVE ProcTypes'
  BY <1>7 DEF Request, IInv, ProcTypes, procVars
<1>8. ASSUME NEW i \in Indexers, RequestOnClosed(i) PROVE ProcTypes'
  BY <1>8 DEF RequestOnClosed, IInv, ProcTypes, procVars
<1>9. ASSUME NEW i \in Indexers, CallCancelled(i) PROVE ProcTypes'
  BY <1>9 DEF CallCancelled, IInv, ProcTypes, procVars
<1>10. ASSUME NEW i \in Indexers, Receive(i) PROVE ProcTypes'
  BY <1>10 DEF Receive, IInv, ProcTypes, procVars
<1>11. ASSUME NEW i \in Indexers, WriteGram(i) PROVE ProcTypes'
  BY <1>11 DEF WriteGram, IInv, ProcTypes, procVars
<1>12. ASSUME NEW i \in Indexers, WriteFails(i) PROVE ProcTypes'
  BY <1>12 DEF WriteFails, IInv, ProcTypes, procVars
<1>13. ASSUME NEW i \in Indexers, NEW d \in Docs, Call(i, d) PROVE ProcTypes'
  BY <1>13 DEF Call, IInv, ProcTypes, procVars
<1>14. CASE Cancel
  BY <1>14 DEF Cancel, IInv, ProcTypes, procVars
<1>15. CASE UpdateIndexC
  BY <1>15 DEF UpdateIndexC, IInv, ProcTypes, procVars
<1>16. ASSUME NEW log \in Kept, Restart(log) PROVE ProcTypes'
  <2>1. log \in Seq(WriteType)
    BY KeptLog DEF IInv
  <2> QED
    BY <1>16, <2>1, FoundTypes DEF Restart, ProcTypes
<1>17. CASE UNCHANGED vars
  BY <1>17 DEF vars, procVars, allocVars, callVars, storeVars, boundVars, IInv,
     ProcTypes
<1> QED
  BY <1>1, <1>2, <1>3, <1>4, <1>5, <1>6, <1>7, <1>8, <1>9, <1>10, <1>11, <1>12, <1>13,
     <1>14, <1>15, <1>16, <1>17 DEF Next, AllocStep, CallStep, Exit, Crash

\* the request an allocator works on
LEMMA RequestKnown ==
    ASSUME AllocTypes, NEW s \in Shards, apc[s] \in Busy
    PROVE  /\ areq[s] \in Requests /\ areq[s].word \in Words
           /\ areq[s].from \in Indexers /\ areq[s].id \in Nat
<1>1. areq[s] \in Requests
  BY DEF AllocTypes
<1> QED
  BY <1>1 DEF Requests

\* what an allocator has drawn is not 0
LEMMA DrawnId ==
    ASSUME IInv, NEW s \in Shards, apc[s] \in Adding
    PROVE  areq[s].id \in Nat \ {0}
<1>1. areq[s].id \in 1 .. counter /\ counter \in Nat
  BY DEF IInv, IdInv, ProcTypes
<1> QED
  BY <1>1

\* the types of a shard's variables, one by one
LEMMA AllocKept ==
    ASSUME AllocTypes, NEW s \in Shards,
           NEW q \in Seq(Requests), Len(q) <= WorkersCount,
           NEW l \in {"wait", "look", "setWord", "setSeq", "closed"},
           NEW r \in {<<>>} \cup Requests, l \in Busy => r \in Requests,
           chan' = [chan EXCEPT ![s] = q], apc' = [apc EXCEPT ![s] = l],
           areq' = [areq EXCEPT ![s] = r],
           cache' = cache \/ \E w \in Words, n \in Nat \ {0} : cache' = Put(s, w, n)
    PROVE  AllocTypes'
<1>1. cache' \in [Shards -> Seq(CacheType)] /\ \A t \in Shards : Len(cache'[t]) <= WorkersCount
  <2>1. CASE cache' = cache
    BY <2>1 DEF AllocTypes
  <2>2. ASSUME NEW w \in Words, NEW n \in Nat \ {0}, cache' = Put(s, w, n)
        PROVE  cache' \in [Shards -> Seq(CacheType)] /\ \A t \in Shards : Len(cache'[t]) <= WorkersCount
    BY <2>2, PutTypes
  <2> QED
    BY <2>1, <2>2
<1>2. chan' \in [Shards -> Seq(Requests)] /\ \A t \in Shards : Len(chan'[t]) <= WorkersCount
  BY DEF AllocTypes
<1>3. apc' \in [Shards -> {"wait", "look", "setWord", "setSeq", "closed"}]
  BY DEF AllocTypes
<1>4. areq' \in [Shards -> {<<>>} \cup Requests]
  <2> HIDE DEF Requests
  <2> QED
    BY DEF AllocTypes
<1>5. \A t \in Shards : apc'[t] \in Busy => areq'[t] \in Requests
  BY DEF AllocTypes
<1> QED
  BY <1>1, <1>2, <1>3, <1>4, <1>5 DEF AllocTypes

\* The channels and the allocators keep their types.
LEMMA AllocTypesStep ==
    ASSUME IInv, [Next]_vars
    PROVE  AllocTypes'
<1>1. ASSUME NEW s \in Shards, AllocTake(s) PROVE AllocTypes'
  <2>1. s \in Shards /\ AllocTypes /\ ProcTypes /\ StoreTypes
    BY DEF IInv
  <2>2. chan[s] \in Seq(Requests) /\ Len(chan[s]) <= WorkersCount /\ apc[s] \in {"wait", "look", "setWord", "setSeq", "closed"}
    BY <2>1 DEF AllocTypes

  <2>3. chan[s] # <<>>
    BY <1>1 DEF AllocTake
  <2>4. Head(chan[s]) \in Requests /\ Tail(chan[s]) \in Seq(Requests) /\ Len(Tail(chan[s])) <= WorkersCount
    <3>1. Len(chan[s]) \in Nat /\ Len(Tail(chan[s])) = Len(chan[s]) - 1
      BY <2>2, <2>3, HeadTailProperties, LenProperties
    <3>2. Head(chan[s]) \in Requests /\ Tail(chan[s]) \in Seq(Requests)
      BY <2>2, <2>3, HeadTailProperties
    <3> QED
      BY <2>2, <3>1, <3>2, Constants
  <2>5. PICK l \in {"look", "closed"}, r \in {areq[s], Head(chan[s])} :
          /\ l \in Busy => r = Head(chan[s])
          /\ apc' = [apc EXCEPT ![s] = l] /\ areq' = [areq EXCEPT ![s] = r]
    <3>1. areq = [areq EXCEPT ![s] = areq[s]]
      BY <2>1 DEF AllocTypes
    <3> QED
      BY <1>1, <3>1 DEF AllocTake, Busy
  <2>6. chan' = [chan EXCEPT ![s] = Tail(chan[s])] /\ cache' = cache
    BY <1>1 DEF AllocTake
  <2>7. r \in {<<>>} \cup Requests
    BY <2>1, <2>4 DEF AllocTypes
  <2>8. l \in {"wait", "look", "setWord", "setSeq", "closed"} /\ (l \in Busy => r \in Requests)
    BY <2>4, <2>5
  <2> QED
    BY <2>1, <2>4, <2>5, <2>6, <2>7, <2>8, AllocKept
<1>2. ASSUME NEW s \in Shards, AllocFind(s) PROVE AllocTypes'
  <2>1. s \in Shards /\ AllocTypes /\ ProcTypes /\ StoreTypes
    BY DEF IInv
  <2>2. chan[s] \in Seq(Requests) /\ Len(chan[s]) <= WorkersCount /\ apc[s] \in {"wait", "look", "setWord", "setSeq", "closed"}
    BY <2>1 DEF AllocTypes

  <2>3. apc[s] = "look" /\ apc' = [apc EXCEPT ![s] = "wait"] /\ areq' = [areq EXCEPT ![s] = <<>>]
    BY <1>2 DEF AllocFind, Reply
  <2>4. areq[s].word \in Words
    BY <2>1, <2>3, RequestKnown DEF Busy
  <2>5. cache' = cache \/ \E w \in Words, n \in Nat \ {0} : cache' = Put(s, w, n)
    <3>1. CASE Cached(s, areq[s].word) /\ cache' = Put(s, areq[s].word, Entry(s, areq[s].word).id)
      BY <2>1, <2>4, <3>1, CachedId
    <3>2. CASE cache' = cache
      BY <3>2
    <3> QED
      BY <1>2, <3>1, <3>2 DEF AllocFind
  <2>6. chan' = [chan EXCEPT ![s] = chan[s]]
    BY <1>2, <2>1 DEF AllocFind, AllocTypes
  <2>7. "wait" \notin Busy
    BY DEF Busy
  <2> QED
    BY <2>1, <2>2, <2>3, <2>5, <2>6, <2>7, AllocKept
<1>3. ASSUME NEW s \in Shards, AllocAdd(s) PROVE AllocTypes'
  <2>1. s \in Shards /\ AllocTypes /\ ProcTypes /\ StoreTypes
    BY DEF IInv
  <2>2. chan[s] \in Seq(Requests) /\ Len(chan[s]) <= WorkersCount /\ apc[s] \in {"wait", "look", "setWord", "setSeq", "closed"}
    BY <2>1 DEF AllocTypes

  <2> DEFINE r == [word |-> areq[s].word, from |-> areq[s].from, id |-> NextId(s)]
  <2>3. apc[s] = "look" /\ apc' = [apc EXCEPT ![s] = "setWord"] /\ areq' = [areq EXCEPT ![s] = r]
    BY <1>3 DEF AllocAdd
  <2>4. r \in Requests
    <3>1. NextId(s) \in Nat
      BY <2>1 DEF NextId, ProcTypes
    <3> QED
      BY <2>1, <2>3, <3>1, RequestKnown DEF Requests, Busy
  <2>5. chan' = [chan EXCEPT ![s] = chan[s]] /\ cache' = cache
    BY <1>3, <2>1 DEF AllocAdd, AllocTypes
  <2> HIDE DEF r
  <2> QED
    BY <2>1, <2>2, <2>3, <2>4, <2>5, AllocKept
<1>4. ASSUME NEW s \in Shards, AllocSetWord(s) PROVE AllocTypes'
  <2>1. s \in Shards /\ AllocTypes /\ ProcTypes /\ StoreTypes
    BY DEF IInv
  <2>2. chan[s] \in Seq(Requests) /\ Len(chan[s]) <= WorkersCount /\ apc[s] \in {"wait", "look", "setWord", "setSeq", "closed"}
    BY <2>1 DEF AllocTypes

  <2>3. apc[s] = "setWord" /\ apc' = [apc EXCEPT ![s] = "setSeq"]
    BY <1>4 DEF AllocSetWord
  <2>4. areq[s] \in Requests
    BY <2>1, <2>3, RequestKnown DEF Busy
  <2>5. chan' = [chan EXCEPT ![s] = chan[s]] /\ cache' = cache /\ areq' = [areq EXCEPT ![s] = areq[s]]
    BY <1>4, <2>1 DEF AllocSetWord, AllocTypes
  <2> QED
    BY <2>1, <2>2, <2>3, <2>4, <2>5, AllocKept
<1>5. ASSUME NEW s \in Shards, AllocSetSeq(s) PROVE AllocTypes'
  <2>1. s \in Shards /\ AllocTypes /\ ProcTypes /\ StoreTypes
    BY DEF IInv
  <2>2. chan[s] \in Seq(Requests) /\ Len(chan[s]) <= WorkersCount /\ apc[s] \in {"wait", "look", "setWord", "setSeq", "closed"}
    BY <2>1 DEF AllocTypes

  <2>3. apc[s] = "setSeq" /\ apc' = [apc EXCEPT ![s] = "wait"] /\ areq' = [areq EXCEPT ![s] = <<>>]
    BY <1>5 DEF AllocSetSeq, Reply
  <2>4. areq[s].word \in Words
    BY <2>1, <2>3, RequestKnown DEF Busy
  <2>5. areq[s].id \in Nat \ {0}
    BY <2>3, DrawnId DEF Adding
  <2>6. \E w \in Words, n \in Nat \ {0} : cache' = Put(s, w, n)
    BY <1>5, <2>4, <2>5 DEF AllocSetSeq
  <2>7. chan' = [chan EXCEPT ![s] = chan[s]]
    BY <1>5, <2>1 DEF AllocSetSeq, AllocTypes
  <2>8. "wait" \notin Busy
    BY DEF Busy
  <2> QED
    BY <2>1, <2>2, <2>3, <2>6, <2>7, <2>8, AllocKept
<1>6. ASSUME NEW s \in Shards, AllocFails(s) PROVE AllocTypes'
  <2>1. s \in Shards /\ AllocTypes /\ ProcTypes /\ StoreTypes
    BY DEF IInv
  <2>2. chan[s] \in Seq(Requests) /\ Len(chan[s]) <= WorkersCount /\ apc[s] \in {"wait", "look", "setWord", "setSeq", "closed"}
    BY <2>1 DEF AllocTypes

  <2>3. apc' = [apc EXCEPT ![s] = "closed"] /\ areq' = [areq EXCEPT ![s] = <<>>]
    BY <1>6 DEF AllocFails
  <2>4. chan' = [chan EXCEPT ![s] = chan[s]] /\ cache' = cache
    BY <1>6, <2>1 DEF AllocFails, AllocTypes
  <2>5. "closed" \notin Busy
    BY DEF Busy
  <2> QED
    BY <2>1, <2>2, <2>3, <2>4, <2>5, AllocKept
<1>7. ASSUME NEW i \in Indexers, Request(i) PROVE AllocTypes'
  <2> DEFINE s == Shard(Head(words[i]))
             r == [word |-> Head(words[i]), from |-> i, id |-> 0]
  <2>1. AllocTypes
    BY DEF IInv
  <2>2. Head(words[i]) \in Words
    <3>1. words[i] \in Seq(Words) /\ words[i] # <<>>
      BY <1>7 DEF Request, IInv, CallTypes
    <3> QED
      BY <3>1, HeadTailProperties
  <2>3. s \in Shards /\ r \in Requests
    BY <2>2, WordFacts DEF Requests
  <2>4. /\ Len(chan[s]) < WorkersCount /\ chan' = [chan EXCEPT ![s] = Append(chan[s], r)]
        /\ UNCHANGED allocVars
    BY <1>7 DEF Request
  <2> HIDE DEF s, r
  <2>5. chan[s] \in Seq(Requests)
    BY <2>1, <2>3 DEF AllocTypes
  <2>6. Append(chan[s], r) \in Seq(Requests) /\ Len(Append(chan[s], r)) <= WorkersCount
    <3>1. Append(chan[s], r) \in Seq(Requests) /\ Len(Append(chan[s], r)) = Len(chan[s]) + 1 /\ Len(chan[s]) \in Nat
      BY <2>3, <2>5, AppendProperties, LenProperties
    <3> QED
      BY <2>4, <3>1, Constants
  <2>7. cache' = cache /\ apc' = [apc EXCEPT ![s] = apc[s]] /\ areq' = [areq EXCEPT ![s] = areq[s]]
    BY <2>1, <2>4 DEF AllocTypes, allocVars
  <2>8. /\ apc[s] \in {"wait", "look", "setWord", "setSeq", "closed"}
        /\ areq[s] \in {<<>>} \cup Requests /\ (apc[s] \in Busy => areq[s] \in Requests)
    BY <2>1, <2>3 DEF AllocTypes
  <2> QED
    BY <2>1, <2>3, <2>4, <2>6, <2>7, <2>8, AllocKept
<1>8. ASSUME NEW i \in Indexers, RequestOnClosed(i) PROVE AllocTypes'
  BY <1>8 DEF RequestOnClosed, IInv, AllocTypes, allocVars
<1>9. ASSUME NEW i \in Indexers, CallCancelled(i) PROVE AllocTypes'
  BY <1>9 DEF CallCancelled, IInv, AllocTypes, allocVars
<1>10. ASSUME NEW i \in Indexers, Receive(i) PROVE AllocTypes'
  BY <1>10 DEF Receive, IInv, AllocTypes, allocVars
<1>11. ASSUME NEW i \in Indexers, WriteGram(i) PROVE AllocTypes'
  BY <1>11 DEF WriteGram, IInv, AllocTypes, allocVars
<1>12. ASSUME NEW i \in Indexers, WriteFails(i) PROVE AllocTypes'
  BY <1>12 DEF WriteFails, IInv, AllocTypes, allocVars
<1>13. ASSUME NEW i \in Indexers, NEW d \in Docs, Call(i, d) PROVE AllocTypes'
  BY <1>13 DEF Call, IInv, AllocTypes, allocVars
<1>14. CASE Cancel
  BY <1>14 DEF Cancel, IInv, AllocTypes, allocVars
<1>15. CASE UpdateIndexC
  BY <1>15 DEF UpdateIndexC, IInv, AllocTypes, allocVars
<1>16. ASSUME NEW log \in Kept, Restart(log) PROVE AllocTypes'
  <2>1. chan' = NoRequest /\ apc' = AllocIdle /\ areq' = NoRequest /\ cache' = NoRequest
    BY <1>16 DEF Restart
  <2>2. <<>> \in Seq(Requests) /\ <<>> \in Seq(CacheType) /\ Len(<<>>) = 0
    OBVIOUS
  <2>3. \A s \in Shards : NoRequest[s] = <<>> /\ AllocIdle[s] = "wait"
    BY DEF NoRequest, AllocIdle
  <2>4. NoRequest \in [Shards -> Seq(Requests)] /\ NoRequest \in [Shards -> Seq(CacheType)] /\ NoRequest \in [Shards -> {<<>>} \cup Requests]
    BY <2>2 DEF NoRequest
  <2>5. AllocIdle \in [Shards -> {"wait", "look", "setWord", "setSeq", "closed"}]
    BY DEF AllocIdle
  <2>6. \A s \in Shards : Len(NoRequest[s]) <= WorkersCount
    BY <2>2, <2>3, Constants
  <2>7. \A s \in Shards : AllocIdle[s] \notin Busy
    BY <2>3 DEF Busy
  <2> QED
    BY <2>1, <2>4, <2>5, <2>6, <2>7 DEF AllocTypes
<1>17. CASE UNCHANGED vars
  BY <1>17 DEF vars, procVars, allocVars, callVars, storeVars, boundVars, IInv,
     AllocTypes
<1> QED
  BY <1>1, <1>2, <1>3, <1>4, <1>5, <1>6, <1>7, <1>8, <1>9, <1>10, <1>11, <1>12, <1>13,
     <1>14, <1>15, <1>16, <1>17 DEF Next, AllocStep, CallStep, Exit, Crash

\* the types of an indexer's variables, one by one
LEMMA CallKept ==
    ASSUME CallTypes, NEW i \in Indexers,
           NEW l \in {"idle", "request", "await", "write", "gone"},
           NEW q \in Seq(Words), l \in {"request", "await", "write"} => q # <<>>,
           NEW a \in Seq(Answers), Len(a) <= 1,
           ipc' = [ipc EXCEPT ![i] = l], words' = [words EXCEPT ![i] = q],
           answer' = [answer EXCEPT ![i] = a], DOMAIN grams' = Indexers
    PROVE  CallTypes'
<1>1. ipc' \in [Indexers -> {"idle", "request", "await", "write", "gone"}]
  BY DEF CallTypes
<1>2. words' \in [Indexers -> Seq(Words)]
  BY DEF CallTypes
<1>3. answer' \in [Indexers -> Seq(Answers)] /\ \A j \in Indexers : Len(answer'[j]) <= 1
  <2> HIDE DEF Answers
  <2> QED
    BY DEF CallTypes
<1>4. \A j \in Indexers : ipc'[j] \in {"request", "await", "write"} => words'[j] # <<>>
  <2> TAKE j \in Indexers
  <2>1. CASE j = i
    BY <2>1 DEF CallTypes
  <2>2. CASE j # i
    BY <2>2 DEF CallTypes
  <2> QED
    BY <2>1, <2>2
<1> QED
  BY <1>1, <1>2, <1>3, <1>4 DEF CallTypes

\* nothing is left to do, or no answer is there
LEMMA Empty == <<>> \in Seq(Words) /\ <<>> \in Seq(Answers) /\ Len(<<>>) = 0 /\ Len(<<>>) <= 1
  OBVIOUS

\* the variables of an indexer that is not concerned
LEMMA CallFacts ==
    ASSUME CallTypes, NEW i \in Indexers
    PROVE  /\ ipc = [ipc EXCEPT ![i] = ipc[i]] /\ words = [words EXCEPT ![i] = words[i]]
           /\ answer = [answer EXCEPT ![i] = answer[i]]
           /\ ipc[i] \in {"idle", "request", "await", "write", "gone"}
           /\ words[i] \in Seq(Words)
           /\ ipc[i] \in {"request", "await", "write"} =>
                /\ words[i] # <<>> /\ Head(words[i]) \in Words
                /\ Tail(words[i]) \in Seq(Words) /\ Len(Tail(words[i])) = Len(words[i]) - 1
                /\ Len(words[i]) \in Nat
           /\ answer[i] \in Seq(Answers) /\ Len(answer[i]) <= 1 /\ DOMAIN grams = Indexers
<1>1. words[i] \in Seq(Words) /\ (ipc[i] \in {"request", "await", "write"} => words[i] # <<>>)
  BY DEF CallTypes
<1>2. words[i] # <<>> =>
        /\ Head(words[i]) \in Words /\ Tail(words[i]) \in Seq(Words)
        /\ Len(Tail(words[i])) = Len(words[i]) - 1 /\ Len(words[i]) \in Nat
  BY <1>1, HeadTailProperties, LenProperties
<1>3. /\ ipc = [ipc EXCEPT ![i] = ipc[i]] /\ words = [words EXCEPT ![i] = words[i]]
      /\ answer = [answer EXCEPT ![i] = answer[i]] /\ DOMAIN grams = Indexers
  BY DEF CallTypes
<1>4. /\ ipc[i] \in {"idle", "request", "await", "write", "gone"}
      /\ answer[i] \in Seq(Answers) /\ Len(answer[i]) <= 1
  BY DEF CallTypes
<1> QED
  BY <1>1, <1>2, <1>3, <1>4

\* the word an indexer works on
LEMMA CurrentWord ==
    ASSUME CallTypes, NEW i \in Indexers, ipc[i] \in {"request", "await", "write"}
    PROVE  words[i] # <<>> /\ Head(words[i]) \in Words
  BY CallFacts

\* an answer is one answer
LEMMA Answered ==
    ASSUME CallTypes, NEW i \in Indexers, answer[i] # <<>>
    PROVE  /\ answer[i] = <<answer[i][1]>> /\ answer[i][1] \in Answers
           /\ answer[i][1].id \in Nat \ {0} /\ answer[i][1].loaded \in BOOLEAN
           /\ answer[i][1] = [id |-> answer[i][1].id, loaded |-> answer[i][1].loaded]
<1>1. answer[i] \in Seq(Answers) /\ Len(answer[i]) <= 1
  BY DEF CallTypes
<1>2. Len(answer[i]) \in Nat /\ (Len(answer[i]) = 0 => answer[i] = <<>>)
  BY <1>1, LenProperties, EmptySeq
<1>3. Len(answer[i]) = 1
  <2>1. Len(answer[i]) # 0
    BY <1>2, Zenon
  <2>2. \A n \in Nat : n # 0 /\ n <= 1 => n = 1
    OBVIOUS
  <2> QED
    BY <1>1, <1>2, <2>1, <2>2, Zenon
<1>4. answer[i][1] \in Answers /\ answer[i] = <<answer[i][1]>>
  <2> HIDE DEF Answers
  <2> QED
    BY <1>1, <1>3
<1>5. \A a \in Answers : /\ a.id \in Nat \ {0} /\ a.loaded \in BOOLEAN
                         /\ a = [id |-> a.id, loaded |-> a.loaded]
  BY DEF Answers
<1> QED
  BY <1>4, <1>5

\* a reply changes one indexer's answer
LEMMA Replied ==
    ASSUME AllocTypes, CallTypes, NEW s \in Shards, apc[s] \in Busy,
           NEW n \in Nat \ {0}, NEW l \in BOOLEAN, Reply(s, n, l), UNCHANGED callVars
    PROVE  CallTypes'
<1> DEFINE i == areq[s].from
           a == <<[id |-> n, loaded |-> l]>>
<1>1. i \in Indexers
  BY RequestKnown
<1>2. a \in Seq(Answers) /\ Len(a) <= 1
  BY DEF Answers
<1>3. answer' = [answer EXCEPT ![i] = a]
  BY DEF Reply
<1> HIDE DEF a, i
<1> QED
  BY <1>1, <1>2, <1>3, CallFacts, CallKept DEF callVars

\* the next word, or the end of the call
LEMMA NextWordTypes ==
    ASSUME CallTypes, NEW i \in Indexers, ipc[i] \in {"await", "write"}, NextWord(i)
    PROVE  CallTypes'
<1> DEFINE l == IF Len(words[i]) = 1 THEN "idle" ELSE "request"
<1>1. ipc' = [ipc EXCEPT ![i] = l] /\ words' = [words EXCEPT ![i] = Tail(words[i])]
  BY DEF NextWord
<1>2. answer' = [answer EXCEPT ![i] = <<>>] /\ DOMAIN grams' = Indexers
  BY DEF NextWord, CallTypes
<1>3. Tail(words[i]) \in Seq(Words)
  BY CallFacts
<1>4. l \in {"request", "await", "write"} => Tail(words[i]) # <<>>
  <2>1. /\ Len(words[i]) \in Nat /\ Len(Tail(words[i])) = Len(words[i]) - 1
    BY CallFacts
  <2>2. Len(<<>>) = 0
    OBVIOUS
  <2>3. ASSUME l \in {"request", "await", "write"} PROVE Len(Tail(words[i])) # 0
    BY <2>1, <2>3
  <2> HIDE DEF l
  <2> QED
    BY <2>2, <2>3, Zenon
<1>5. l \in {"idle", "request", "await", "write", "gone"}
  OBVIOUS
<1> HIDE DEF l
<1> QED
  BY <1>1, <1>2, <1>3, <1>4, <1>5, Empty, CallKept

\* The indexers keep their types.
LEMMA CallTypesStep ==
    ASSUME IInv, [Next]_vars
    PROVE  CallTypes'
<1>1. ASSUME NEW s \in Shards, AllocTake(s) PROVE CallTypes'
  BY <1>1 DEF AllocTake, callVars, IInv, CallTypes, allocVars
<1>2. ASSUME NEW s \in Shards, AllocFind(s) PROVE CallTypes'
  <2>1. apc[s] = "look" /\ AllocTypes /\ CallTypes /\ wal \in Seq(WriteType)
    BY <1>2 DEF AllocFind, IInv, StoreTypes
  <2>2. PICK n \in Nat \ {0} : Reply(s, n, TRUE)
    BY <1>2, <2>1, CachedId, FoundTypes DEF AllocFind, Has, Find
  <2> QED
    BY <1>2, <2>1, <2>2, Replied DEF AllocFind, Busy
<1>3. ASSUME NEW s \in Shards, AllocAdd(s) PROVE CallTypes'
  BY <1>3 DEF AllocAdd, callVars, IInv, CallTypes, allocVars
<1>4. ASSUME NEW s \in Shards, AllocSetWord(s) PROVE CallTypes'
  BY <1>4 DEF AllocSetWord, callVars, IInv, CallTypes, allocVars
<1>5. ASSUME NEW s \in Shards, AllocSetSeq(s) PROVE CallTypes'
  <2>1. apc[s] = "setSeq" /\ AllocTypes /\ CallTypes
    BY <1>5 DEF AllocSetSeq, IInv
  <2>2. areq[s].id \in Nat \ {0}
    BY <2>1, DrawnId DEF Adding
  <2> QED
    BY <1>5, <2>1, <2>2, Replied DEF AllocSetSeq, Busy
<1>6. ASSUME NEW s \in Shards, AllocFails(s) PROVE CallTypes'
  BY <1>6 DEF AllocFails, callVars, IInv, CallTypes, allocVars
<1>7. ASSUME NEW i \in Indexers, Request(i) PROVE CallTypes'
  <2>1. CallTypes
    BY DEF IInv
  <2>2. ipc[i] = "request" /\ ipc' = [ipc EXCEPT ![i] = "await"] /\ UNCHANGED <<words, answer, grams>>
    BY <1>7 DEF Request
  <2> QED
    BY <2>1, <2>2, CallFacts, CallKept
<1>8. ASSUME NEW i \in Indexers, RequestOnClosed(i) PROVE CallTypes'
  BY <1>8 DEF RequestOnClosed, callVars, IInv, CallTypes, allocVars
<1>9. ASSUME NEW i \in Indexers, CallCancelled(i) PROVE CallTypes'
  <2>1. CallTypes
    BY DEF IInv
  <2>2. /\ ipc' = [ipc EXCEPT ![i] = "gone"] /\ words' = [words EXCEPT ![i] = <<>>]
        /\ UNCHANGED answer /\ DOMAIN grams' = Indexers
    BY <1>9, <2>1 DEF CallCancelled, Return, CallTypes
  <2>3. "gone" \notin {"request", "await", "write"}
    OBVIOUS
  <2> QED
    BY <2>1, <2>2, <2>3, Empty, CallFacts, CallKept
<1>10. ASSUME NEW i \in Indexers, Receive(i) PROVE CallTypes'
  <2>1. CallTypes /\ ipc[i] = "await"
    BY <1>10 DEF Receive, IInv
  <2>2. CASE NextWord(i)
    BY <2>1, <2>2, NextWordTypes
  <2>3. CASE ~NextWord(i)
    <3>1. ipc' = [ipc EXCEPT ![i] = "write"] /\ UNCHANGED <<words, answer>> /\ DOMAIN grams' = Indexers
      BY <1>10, <2>1, <2>3 DEF Receive, CallTypes
    <3> QED
      BY <2>1, <3>1, CallFacts, CallKept
  <2> QED
    BY <2>2, <2>3
<1>11. ASSUME NEW i \in Indexers, WriteGram(i) PROVE CallTypes'
  <2>1. CallTypes /\ ipc[i] = "write"
    BY <1>11 DEF WriteGram, IInv
  <2>2. CASE NextWord(i)
    BY <2>1, <2>2, NextWordTypes
  <2>3. CASE ~NextWord(i)
    <3>1. UNCHANGED <<ipc, words, answer>> /\ DOMAIN grams' = Indexers
      BY <1>11, <2>1, <2>3 DEF WriteGram, CallTypes
    <3> QED
      BY <2>1, <3>1 DEF CallTypes
  <2> QED
    BY <2>2, <2>3
<1>12. ASSUME NEW i \in Indexers, WriteFails(i) PROVE CallTypes'
  <2>1. CallTypes
    BY DEF IInv
  <2>2. /\ ipc' = [ipc EXCEPT ![i] = "idle"] /\ words' = [words EXCEPT ![i] = <<>>]
        /\ answer' = [answer EXCEPT ![i] = <<>>] /\ DOMAIN grams' = Indexers
    BY <1>12, <2>1 DEF WriteFails, Return, CallTypes
  <2>3. "idle" \notin {"request", "await", "write"}
    OBVIOUS
  <2> QED
    BY <2>1, <2>2, <2>3, Empty, CallKept
<1>13. ASSUME NEW i \in Indexers, NEW d \in Docs, Call(i, d) PROVE CallTypes'
  <2> DEFINE long == Filter(d, {w \in Words : Len(w) > 1})
  <2>1. CallTypes
    BY DEF IInv
  <2>2. long \in Seq(Words)
    <3>1. Range(d) \subseteq Words
      BY DEF Words
    <3>2. d \in Seq(Range(d))
      BY WordIndexAssumption
    <3>3. d \in Seq(Words)
      BY <3>1, <3>2
    <3> QED
      BY <3>3, FilterIsSeq
  <2>3. /\ ipc' = [ipc EXCEPT ![i] = "request"] /\ words' = [words EXCEPT ![i] = long]
        /\ long # <<>> /\ UNCHANGED <<answer, grams>>
    BY <1>13 DEF Call
  <2> HIDE DEF long
  <2> QED
    BY <2>1, <2>2, <2>3, CallFacts, CallKept
<1>14. CASE Cancel
  BY <1>14 DEF Cancel, callVars, IInv, CallTypes, allocVars
<1>15. CASE UpdateIndexC
  BY <1>15 DEF UpdateIndexC, callVars, IInv, CallTypes, allocVars
<1>16. ASSUME NEW log \in Kept, Restart(log) PROVE CallTypes'
  <2>1. ipc' = CallsIdle /\ words' = Nothing /\ answer' = Nothing /\ grams' = Nothing
    BY <1>16 DEF Restart
  <2>2. <<>> \in Seq(Words) /\ <<>> \in Seq(Answers) /\ Len(<<>>) = 0
    OBVIOUS
  <2>3. Nothing \in [Indexers -> Seq(Words)] /\ Nothing \in [Indexers -> Seq(Answers)] /\ DOMAIN Nothing = Indexers
    BY <2>2 DEF Nothing
  <2>4. CallsIdle \in [Indexers -> {"idle", "request", "await", "write", "gone"}]
    BY DEF CallsIdle
  <2>5. \A i \in Indexers : Nothing[i] = <<>> /\ CallsIdle[i] = "idle"
    BY DEF Nothing, CallsIdle
  <2>6. \A i \in Indexers : Len(Nothing[i]) <= 1
    BY <2>2, <2>5
  <2> QED
    BY <2>1, <2>3, <2>4, <2>5, <2>6 DEF CallTypes
<1>17. CASE UNCHANGED vars
  <2>1. UNCHANGED <<ipc, words, grams, answer>>
    BY <1>17 DEF vars, callVars
  <2> QED
    BY <2>1 DEF IInv, CallTypes
<1> QED
  BY <1>1, <1>2, <1>3, <1>4, <1>5, <1>6, <1>7, <1>8, <1>9, <1>10, <1>11, <1>12, <1>13,
     <1>14, <1>15, <1>16, <1>17 DEF Next, AllocStep, CallStep, Exit, Crash

\* a write keeps the log one
LEMMA Stored ==
    ASSUME StoreTypes, NEW k, NEW v, Set(k, v), [key |-> k, val |-> v] \in WriteType
    PROVE  StoreTypes'
<1>1. wal \in Seq(WriteType) /\ base \in 0 .. Len(wal) /\ Len(wal) \in Nat
  BY LenProperties DEF StoreTypes
<1>2. wal' \in Seq(WriteType) /\ Len(wal') = Len(wal) + 1 /\ base' = base
  BY <1>1, AppendWrites DEF Set
<1> QED
  BY <1>1, <1>2 DEF StoreTypes

\* The store is a log of writes.
LEMMA StoreTypesStep ==
    ASSUME IInv, [Next]_vars
    PROVE  StoreTypes'
<1>1. ASSUME NEW s \in Shards, AllocTake(s) PROVE StoreTypes'
  BY <1>1 DEF AllocTake, IInv, StoreTypes, storeVars
<1>2. ASSUME NEW s \in Shards, AllocFind(s) PROVE StoreTypes'
  BY <1>2 DEF AllocFind, IInv, StoreTypes, storeVars
<1>3. ASSUME NEW s \in Shards, AllocAdd(s) PROVE StoreTypes'
  BY <1>3 DEF AllocAdd, IInv, StoreTypes, storeVars
<1>4. ASSUME NEW s \in Shards, AllocSetWord(s) PROVE StoreTypes'
  <2>1. apc[s] = "setWord" /\ StoreTypes /\ AllocTypes
    BY <1>4 DEF AllocSetWord, IInv
  <2>2. areq[s].word \in Words /\ areq[s].id \in Nat \ {0}
    BY <2>1, RequestKnown, DrawnId DEF Busy, Adding
  <2>3. Set(wordKey(areq[s].word), areq[s].id)
    BY <1>4 DEF AllocSetWord
  <2> QED
    BY <2>1, <2>2, <2>3, WriteTypes, Stored
<1>5. ASSUME NEW s \in Shards, AllocSetSeq(s) PROVE StoreTypes'
  <2>1. apc[s] = "setSeq" /\ StoreTypes /\ AllocTypes
    BY <1>5 DEF AllocSetSeq, IInv
  <2>2. areq[s].word \in Words /\ areq[s].id \in Nat
    BY <2>1, RequestKnown DEF Busy
  <2>3. Set(seqKey(areq[s].id), areq[s].word)
    BY <1>5 DEF AllocSetSeq
  <2> QED
    BY <2>1, <2>2, <2>3, WriteTypes, Stored
<1>6. ASSUME NEW s \in Shards, AllocFails(s) PROVE StoreTypes'
  BY <1>6 DEF AllocFails, IInv, StoreTypes, storeVars
<1>7. ASSUME NEW i \in Indexers, Request(i) PROVE StoreTypes'
  BY <1>7 DEF Request, IInv, StoreTypes, storeVars
<1>8. ASSUME NEW i \in Indexers, RequestOnClosed(i) PROVE StoreTypes'
  BY <1>8 DEF RequestOnClosed, IInv, StoreTypes, storeVars
<1>9. ASSUME NEW i \in Indexers, CallCancelled(i) PROVE StoreTypes'
  BY <1>9 DEF CallCancelled, IInv, StoreTypes, storeVars
<1>10. ASSUME NEW i \in Indexers, Receive(i) PROVE StoreTypes'
  BY <1>10 DEF Receive, IInv, StoreTypes, storeVars
<1>11. ASSUME NEW i \in Indexers, WriteGram(i) PROVE StoreTypes'
  BY <1>11 DEF WriteGram, IInv, StoreTypes, storeVars
<1>12. ASSUME NEW i \in Indexers, WriteFails(i) PROVE StoreTypes'
  BY <1>12 DEF WriteFails, IInv, StoreTypes, storeVars
<1>13. ASSUME NEW i \in Indexers, NEW d \in Docs, Call(i, d) PROVE StoreTypes'
  BY <1>13 DEF Call, IInv, StoreTypes, storeVars
<1>14. CASE Cancel
  BY <1>14 DEF Cancel, IInv, StoreTypes, storeVars
<1>15. CASE UpdateIndexC
  <2>1. StoreTypes /\ counter \in Nat
    BY DEF IInv, ProcTypes
  <2>2. Set(inck, counter)
    BY <1>15 DEF UpdateIndexC
  <2> QED
    BY <2>1, <2>2, WriteTypes, Stored
<1>16. ASSUME NEW log \in Kept, Restart(log) PROVE StoreTypes'
  <2>1. log \in Seq(WriteType) /\ Len(log) \in Nat
    BY KeptLog, LenProperties DEF IInv
  <2>2. wal' = log /\ base' = Len(log)
    BY <1>16 DEF Restart
  <2> QED
    BY <2>1, <2>2 DEF StoreTypes
<1>17. CASE UNCHANGED vars
  BY <1>17 DEF vars, procVars, allocVars, callVars, storeVars, boundVars, IInv,
     StoreTypes
<1> QED
  BY <1>1, <1>2, <1>3, <1>4, <1>5, <1>6, <1>7, <1>8, <1>9, <1>10, <1>11, <1>12, <1>13,
     <1>14, <1>15, <1>16, <1>17 DEF Next, AllocStep, CallStep, Exit, Crash

\* Entries are of tri-grams, and new words and dropped ones are words.
LEMMA SetTypesStep ==
    ASSUME IInv, [Next]_vars
    PROVE  SetTypes'
<1>1. ASSUME NEW s \in Shards, AllocTake(s) PROVE SetTypes'
  BY <1>1 DEF AllocTake, IInv, SetTypes
<1>2. ASSUME NEW s \in Shards, AllocFind(s) PROVE SetTypes'
  BY <1>2 DEF AllocFind, IInv, SetTypes
<1>3. ASSUME NEW s \in Shards, AllocAdd(s) PROVE SetTypes'
  BY <1>3 DEF AllocAdd, IInv, SetTypes
<1>4. ASSUME NEW s \in Shards, AllocSetWord(s) PROVE SetTypes'
  BY <1>4 DEF AllocSetWord, IInv, SetTypes
<1>5. ASSUME NEW s \in Shards, AllocSetSeq(s) PROVE SetTypes'
  <2>1. SetTypes /\ areq[s].word \in Words /\ areq[s].id \in Nat
    BY <1>5, RequestKnown DEF AllocSetSeq, IInv, Busy
  <2>2. files' = files /\ dropped' = dropped /\ fresh' = fresh \cup {<<areq[s].word, areq[s].id>>}
    BY <1>5 DEF AllocSetSeq
  <2>3. <<areq[s].word, areq[s].id>> \in Words \X Nat
    BY <2>1
  <2> QED
    BY <2>1, <2>2, <2>3 DEF SetTypes
<1>6. ASSUME NEW s \in Shards, AllocFails(s) PROVE SetTypes'
  BY <1>6 DEF AllocFails, IInv, SetTypes
<1>7. ASSUME NEW i \in Indexers, Request(i) PROVE SetTypes'
  BY <1>7 DEF Request, IInv, SetTypes
<1>8. ASSUME NEW i \in Indexers, RequestOnClosed(i) PROVE SetTypes'
  BY <1>8 DEF RequestOnClosed, IInv, SetTypes
<1>9. ASSUME NEW i \in Indexers, CallCancelled(i) PROVE SetTypes'
  <2>1. SetTypes /\ Head(words[i]) \in Words
    BY <1>9, CurrentWord DEF CallCancelled, IInv
  <2>2. files' = files /\ fresh' = fresh /\ dropped' = dropped \cup {Head(words[i])}
    BY <1>9 DEF CallCancelled, Return
  <2> QED
    BY <2>1, <2>2 DEF SetTypes
<1>10. ASSUME NEW i \in Indexers, Receive(i) PROVE SetTypes'
  BY <1>10 DEF Receive, IInv, SetTypes
<1>11. ASSUME NEW i \in Indexers, WriteGram(i) PROVE SetTypes'
  <2> DEFINE g == Head(grams[i])
  <2>1. SetTypes /\ CallTypes /\ GramsOf(i) /\ ipc[i] = "write"
    BY <1>11 DEF WriteGram, IInv, GramsInv
  <2>2. Head(words[i]) \in Words
    BY <2>1, CurrentWord
  <2>3. g \in Range(extractTGrams(Head(words[i])))
    BY <2>1, HeadTailProperties DEF GramsOf
  <2>4. answer[i][1].id \in Nat
    BY <2>1, Answered DEF GramsOf
  <2>5. encNGData(answer[i][1].id, g) \in Entries
    BY <2>2, <2>3, <2>4, EntryOf
  <2>6. files' = files \cup {encNGData(answer[i][1].id, g)} /\ UNCHANGED <<fresh, dropped>>
    BY <1>11 DEF WriteGram
  <2> QED
    BY <2>1, <2>5, <2>6 DEF SetTypes, Entries
<1>12. ASSUME NEW i \in Indexers, WriteFails(i) PROVE SetTypes'
  <2>1. SetTypes /\ Head(words[i]) \in Words
    BY <1>12, CurrentWord DEF WriteFails, IInv
  <2>2. files' = files /\ fresh' = fresh /\ dropped' = dropped \cup {Head(words[i])}
    BY <1>12 DEF WriteFails, Return
  <2> QED
    BY <2>1, <2>2 DEF SetTypes
<1>13. ASSUME NEW i \in Indexers, NEW d \in Docs, Call(i, d) PROVE SetTypes'
  BY <1>13 DEF Call, IInv, SetTypes
<1>14. CASE Cancel
  BY <1>14 DEF Cancel, IInv, SetTypes
<1>15. CASE UpdateIndexC
  BY <1>15 DEF UpdateIndexC, IInv, SetTypes
<1>16. ASSUME NEW log \in Kept, Restart(log) PROVE SetTypes'
  <2>1. SetTypes /\ \A i \in Indexers : words[i] \in Seq(Words)
    BY DEF IInv, CallTypes
  <2>2. \A i \in Indexers : words[i] # <<>> => Head(words[i]) \in Words
    BY <2>1, HeadTailProperties
  <2>3. files' = files /\ fresh' = {} /\ dropped' \subseteq dropped \cup Words
    BY <1>16, <2>2 DEF Restart
  <2> QED
    BY <2>1, <2>3 DEF SetTypes
<1>17. CASE UNCHANGED vars
  BY <1>17 DEF vars, procVars, allocVars, callVars, storeVars, boundVars, IInv, SetTypes
<1> QED
  BY <1>1, <1>2, <1>3, <1>4, <1>5, <1>6, <1>7, <1>8, <1>9, <1>10, <1>11, <1>12, <1>13,
     <1>14, <1>15, <1>16, <1>17 DEF Next, AllocStep, CallStep, Exit, Crash

-----------------------------------------------------------------------------
(* Tri-grams under way                                                     *)

\* the first of a sequence's elements, and the rest
LEMMA HeadOrTail ==
    ASSUME NEW S, NEW q \in Seq(S), q # <<>>
    PROVE  /\ Head(q) \in S /\ Tail(q) \in Seq(S)
           /\ \A g \in Range(q) : g = Head(q) \/ g \in Range(Tail(q))
           /\ Range(Tail(q)) \subseteq Range(q)
           /\ Len(Tail(q)) = Len(q) - 1 /\ Len(q) \in Nat
<1>1. /\ Head(q) \in S /\ Tail(q) \in Seq(S) /\ Len(Tail(q)) = Len(q) - 1 /\ Len(q) \in Nat
      /\ Head(q) = q[1] /\ \A k \in 1 .. Len(q) - 1 : Tail(q)[k] = q[k + 1]
  BY HeadTailProperties, LenProperties
<1>2. DOMAIN q = 1 .. Len(q) /\ DOMAIN Tail(q) = 1 .. Len(q) - 1
  BY <1>1, LenProperties
<1>3. ASSUME NEW g \in Range(q) PROVE g = Head(q) \/ g \in Range(Tail(q))
  <2>1. PICK k \in 1 .. Len(q) : g = q[k]
    BY <1>2 DEF Range
  <2>2. CASE k = 1
    BY <1>1, <2>1, <2>2
  <2>3. CASE k # 1
    <3>1. k - 1 \in DOMAIN Tail(q) /\ Tail(q)[k - 1] = g
      BY <1>1, <1>2, <2>1, <2>3
    <3> QED
      BY <3>1 DEF Range
  <2> QED
    BY <2>2, <2>3
<1>4. ASSUME NEW g \in Range(Tail(q)) PROVE g \in Range(q)
  <2>1. PICK k \in 1 .. Len(q) - 1 : g = Tail(q)[k]
    BY <1>2 DEF Range
  <2>2. k + 1 \in DOMAIN q /\ q[k + 1] = g
    BY <1>1, <1>2, <2>1
  <2> QED
    BY <2>2 DEF Range
<1> QED
  BY <1>1, <1>3, <1>4

\* an indexer that is left alone, but for an answer it waits for
LEMMA GramsStay ==
    ASSUME NEW i \in Indexers, GramsOf(i),
           ipc'[i] = ipc[i], words'[i] = words[i], grams'[i] = grams[i],
           ipc[i] = "write" => answer'[i] = answer[i], files \subseteq files'
    PROVE  GramsOf(i)'
  BY DEF GramsOf

\* and when all of them are
LEMMA GramsAllStay ==
    ASSUME GramsInv, UNCHANGED <<callVars, answer>>, files \subseteq files'
    PROVE  GramsInv'
  BY GramsStay DEF GramsInv, callVars

\* one indexer moves and the others stay
LEMMA GramsMove ==
    ASSUME CallTypes, GramsInv, NEW i \in Indexers, files \subseteq files',
           NEW l, NEW q, NEW a,
           ipc' = [ipc EXCEPT ![i] = l], words' = [words EXCEPT ![i] = q],
           \A j \in Indexers \ {i} : grams'[j] = grams[j], answer' = [answer EXCEPT ![i] = a],
           GramsOf(i)'
    PROVE  GramsInv'
<1> SUFFICES ASSUME NEW j \in Indexers PROVE GramsOf(j)'
  BY DEF GramsInv
<1>1. CASE j = i
  BY <1>1
<1>2. CASE j # i
  <2>1. ipc'[j] = ipc[j] /\ words'[j] = words[j] /\ grams'[j] = grams[j] /\ answer'[j] = answer[j]
    BY <1>2 DEF CallTypes
  <2> QED
    BY <2>1, GramsStay DEF GramsInv
<1> QED
  BY <1>1, <1>2

\* an indexer at rest, or at its next word, has nothing to write
LEMMA GramsDone ==
    ASSUME CallTypes, GramsInv, NEW i \in Indexers, files \subseteq files',
           NEW l, l # "write", NEW q, NEW a,
           ipc' = [ipc EXCEPT ![i] = l], words' = [words EXCEPT ![i] = q],
           grams'[i] = <<>>, \A j \in Indexers \ {i} : grams'[j] = grams[j],
           answer' = [answer EXCEPT ![i] = a]
    PROVE  GramsInv'
<1>1. ipc'[i] = l
  BY DEF CallTypes
<1>2. GramsOf(i)'
  BY <1>1 DEF GramsOf
<1> QED
  BY <1>2, GramsMove

\* the next word
LEMMA GramsNext ==
    ASSUME CallTypes, GramsInv, NEW i \in Indexers, files \subseteq files', NextWord(i)
    PROVE  GramsInv'
<1> DEFINE l == IF Len(words[i]) = 1 THEN "idle" ELSE "request"
<1>1. /\ ipc' = [ipc EXCEPT ![i] = l] /\ words' = [words EXCEPT ![i] = Tail(words[i])]
      /\ grams'[i] = <<>> /\ \A j \in Indexers \ {i} : grams'[j] = grams[j]
      /\ answer' = [answer EXCEPT ![i] = <<>>]
  BY DEF NextWord, CallTypes
<1>2. l # "write"
  OBVIOUS
<1> HIDE DEF l
<1> QED
  BY <1>1, <1>2, GramsDone

\* a reply goes to an indexer that writes nothing
LEMMA GramsReplied ==
    ASSUME AllocTypes, CallTypes, RequestInv, GramsInv, NEW s \in Shards, apc[s] \in Busy,
           NEW n, NEW l, Reply(s, n, l), UNCHANGED <<callVars, files>>
    PROVE  GramsInv'
<1> DEFINE i == areq[s].from
<1>1. i \in Indexers /\ ipc[i] # "write"
  BY RequestKnown DEF RequestInv, Expected
<1>2. answer' = [answer EXCEPT ![i] = <<[id |-> n, loaded |-> l]>>]
  BY DEF Reply
<1> HIDE DEF i
<1> SUFFICES ASSUME NEW j \in Indexers PROVE GramsOf(j)'
  BY DEF GramsInv
<1>3. ipc[j] = "write" => answer'[j] = answer[j]
  BY <1>1, <1>2 DEF CallTypes
<1> QED
  BY <1>3, GramsStay DEF GramsInv, callVars

\* Each tri-gram of a word that is being written is written already, or
\* still listed.
LEMMA GramsInvStep ==
    ASSUME IInv, [Next]_vars
    PROVE  GramsInv'
<1>1. ASSUME NEW s \in Shards, AllocTake(s) PROVE GramsInv'
  <2>1. GramsInv /\ UNCHANGED <<callVars, answer>> /\ files \subseteq files'
    BY <1>1 DEF AllocTake, IInv
  <2> QED
    BY <2>1, GramsAllStay
<1>2. ASSUME NEW s \in Shards, AllocFind(s) PROVE GramsInv'
  <2>1. apc[s] \in Busy /\ AllocTypes /\ CallTypes /\ RequestInv /\ GramsInv /\ UNCHANGED <<callVars, files>>
    BY <1>2 DEF AllocFind, IInv, Busy
  <2>2. PICK n, l : Reply(s, n, l)
    BY <1>2 DEF AllocFind
  <2> QED
    BY <2>1, <2>2, GramsReplied
<1>3. ASSUME NEW s \in Shards, AllocAdd(s) PROVE GramsInv'
  <2>1. GramsInv /\ UNCHANGED <<callVars, answer>> /\ files \subseteq files'
    BY <1>3 DEF AllocAdd, IInv
  <2> QED
    BY <2>1, GramsAllStay
<1>4. ASSUME NEW s \in Shards, AllocSetWord(s) PROVE GramsInv'
  <2>1. GramsInv /\ UNCHANGED <<callVars, answer>> /\ files \subseteq files'
    BY <1>4 DEF AllocSetWord, IInv
  <2> QED
    BY <2>1, GramsAllStay
<1>5. ASSUME NEW s \in Shards, AllocSetSeq(s) PROVE GramsInv'
  <2>1. apc[s] \in Busy /\ AllocTypes /\ CallTypes /\ RequestInv /\ GramsInv /\ UNCHANGED <<callVars, files>>
    BY <1>5 DEF AllocSetSeq, IInv, Busy
  <2>2. PICK n, l : Reply(s, n, l)
    BY <1>5 DEF AllocSetSeq
  <2> QED
    BY <2>1, <2>2, GramsReplied
<1>6. ASSUME NEW s \in Shards, AllocFails(s) PROVE GramsInv'
  <2>1. GramsInv /\ UNCHANGED <<callVars, answer>> /\ files \subseteq files'
    BY <1>6 DEF AllocFails, IInv
  <2> QED
    BY <2>1, GramsAllStay
<1>7. ASSUME NEW i \in Indexers, Request(i) PROVE GramsInv'
  <2>1. CallTypes /\ GramsInv /\ files' = files /\ ipc[i] = "request"
    BY <1>7 DEF Request, IInv
  <2>2. grams[i] = <<>>
    BY <2>1 DEF GramsInv, GramsOf
  <2>4. /\ ipc' = [ipc EXCEPT ![i] = "await"] /\ words' = [words EXCEPT ![i] = words[i]]
        /\ grams' = grams /\ answer' = [answer EXCEPT ![i] = answer[i]]
    BY <1>7, <2>1, CallFacts DEF Request
  <2> QED
    BY <2>1, <2>2, <2>4, GramsDone
<1>8. ASSUME NEW i \in Indexers, RequestOnClosed(i) PROVE GramsInv'
  <2>1. GramsInv /\ UNCHANGED <<callVars, answer>> /\ files \subseteq files'
    BY <1>8 DEF RequestOnClosed, IInv
  <2> QED
    BY <2>1, GramsAllStay
<1>9. ASSUME NEW i \in Indexers, CallCancelled(i) PROVE GramsInv'
  <2>1. CallTypes /\ GramsInv /\ files' = files
    BY <1>9 DEF CallCancelled, IInv
  <2>2. /\ ipc' = [ipc EXCEPT ![i] = "gone"] /\ words' = [words EXCEPT ![i] = <<>>]
        /\ grams'[i] = <<>> /\ \A j \in Indexers \ {i} : grams'[j] = grams[j]
        /\ answer' = [answer EXCEPT ![i] = answer[i]]
    BY <1>9, <2>1, CallFacts DEF CallCancelled, Return
  <2> QED
    BY <2>1, <2>2, GramsDone
<1>10. ASSUME NEW i \in Indexers, Receive(i) PROVE GramsInv'
  <2> DEFINE w == Head(words[i])
             todo == extractTGrams(w)
  <2>1. CallTypes /\ GramsInv /\ files' = files /\ ipc[i] = "await" /\ answer[i] # <<>>
    BY <1>10 DEF Receive, IInv
  <2>2. CASE NextWord(i)
    BY <2>1, <2>2, GramsNext
  <2>3. CASE ~NextWord(i)
    <3>1. /\ ipc' = [ipc EXCEPT ![i] = "write"] /\ grams' = [grams EXCEPT ![i] = todo]
          /\ UNCHANGED <<words, answer>> /\ ~answer[i][1].loaded /\ todo # <<>>
      BY <1>10, <2>3 DEF Receive
    <3>2. w \in Words
      BY <2>1, CurrentWord
    <3> HIDE DEF todo
    <3>3. todo \in Seq(Range(todo))
      <4>1. todo \in Seq(Triples(w))
        BY <3>2, TGramsAreTriples DEF todo
      <4> QED
        BY <4>1 DEF Range
    <3>4. ipc'[i] = "write" /\ grams'[i] = todo /\ words'[i] = words[i] /\ answer'[i] = answer[i]
      BY <2>1, <3>1 DEF CallTypes
    <3>5. GramsOf(i)'
      BY <2>1, <3>1, <3>3, <3>4 DEF GramsOf, todo
    <3>6. words' = [words EXCEPT ![i] = words[i]] /\ answer' = [answer EXCEPT ![i] = answer[i]]
      BY <2>1, <3>1, CallFacts
    <3>7. \A j \in Indexers \ {i} : grams'[j] = grams[j]
      BY <2>1, <3>1 DEF CallTypes
    <3> QED
      BY <2>1, <3>1, <3>5, <3>6, <3>7, GramsMove
  <2> QED
    BY <2>2, <2>3
<1>11. ASSUME NEW i \in Indexers, WriteGram(i) PROVE GramsInv'
  <2> DEFINE T == extractTGrams(Head(words[i]))
             e == encNGData(answer[i][1].id, Head(grams[i]))
  <2>1. CallTypes /\ GramsInv /\ GramsOf(i) /\ ipc[i] = "write" /\ files' = files \cup {e}
    BY <1>11 DEF WriteGram, IInv, GramsInv
  <2>2. CASE NextWord(i)
    BY <2>1, <2>2, GramsNext
  <2>3. CASE ~NextWord(i)
    <3>1. /\ Len(grams[i]) # 1 /\ grams' = [grams EXCEPT ![i] = Tail(grams[i])]
          /\ UNCHANGED <<ipc, words, answer>>
      BY <1>11, <2>3 DEF WriteGram
    <3>2. grams[i] \in Seq(Range(T)) /\ grams[i] # <<>>
      BY <2>1 DEF GramsOf
    <3>3. ipc'[i] = "write" /\ grams'[i] = Tail(grams[i]) /\ words'[i] = words[i] /\ answer'[i] = answer[i]
      BY <2>1, <3>1 DEF CallTypes
    <3> HIDE DEF T, e
    <3>4. Tail(grams[i]) \in Seq(Range(T)) /\ Tail(grams[i]) # <<>>
      <4>1. Len(Tail(grams[i])) = Len(grams[i]) - 1 /\ Tail(grams[i]) \in Seq(Range(T)) /\ Len(grams[i]) \in Nat
        BY <3>2, HeadOrTail
      <4>2. Len(Tail(grams[i])) # 0
        BY <3>1, <4>1
      <4>3. Len(<<>>) = 0
        BY Empty
      <4> QED
        BY <4>1, <4>2, <4>3, Zenon
    <3>5. \A g \in Range(T) : g \in Range(Tail(grams[i])) \/ encNGData(answer[i][1].id, g) \in files'
      <4> TAKE g \in Range(T)
      <4>1. g \in Range(grams[i]) \/ encNGData(answer[i][1].id, g) \in files
        BY <2>1 DEF GramsOf, T
      <4>2. CASE g \in Range(grams[i])
        <5>1. g = Head(grams[i]) \/ g \in Range(Tail(grams[i]))
          BY <3>2, <4>2, HeadOrTail
        <5> QED
          BY <2>1, <5>1 DEF e
      <4> QED
        BY <2>1, <4>1, <4>2
    <3>6. GramsOf(i)'
      BY <2>1, <3>1, <3>3, <3>4, <3>5 DEF GramsOf, T
    <3>7. /\ words' = [words EXCEPT ![i] = words[i]] /\ answer' = [answer EXCEPT ![i] = answer[i]]
          /\ ipc' = [ipc EXCEPT ![i] = ipc[i]]
      BY <2>1, <3>1, CallFacts
    <3>8. \A j \in Indexers \ {i} : grams'[j] = grams[j]
      BY <2>1, <3>1 DEF CallTypes
    <3> QED
      BY <2>1, <3>6, <3>7, <3>8, GramsMove
  <2> QED
    BY <2>2, <2>3
<1>12. ASSUME NEW i \in Indexers, WriteFails(i) PROVE GramsInv'
  <2>1. CallTypes /\ GramsInv /\ files' = files
    BY <1>12 DEF WriteFails, IInv
  <2>2. /\ ipc' = [ipc EXCEPT ![i] = "idle"] /\ words' = [words EXCEPT ![i] = <<>>]
        /\ grams'[i] = <<>> /\ \A j \in Indexers \ {i} : grams'[j] = grams[j]
        /\ answer' = [answer EXCEPT ![i] = <<>>]
    BY <1>12, <2>1, CallFacts DEF WriteFails, Return
  <2> QED
    BY <2>1, <2>2, GramsDone
<1>13. ASSUME NEW i \in Indexers, NEW d \in Docs, Call(i, d) PROVE GramsInv'
  <2>1. CallTypes /\ GramsInv /\ files' = files /\ ipc[i] = "idle"
    BY <1>13 DEF Call, IInv
  <2>2. grams[i] = <<>>
    BY <2>1 DEF GramsInv, GramsOf
  <2>4. PICK q : /\ ipc' = [ipc EXCEPT ![i] = "request"] /\ words' = [words EXCEPT ![i] = q]
                 /\ UNCHANGED <<grams, answer>>
    BY <1>13 DEF Call
  <2>5. answer' = [answer EXCEPT ![i] = answer[i]]
    BY <2>1, <2>4, CallFacts
  <2> QED
    BY <2>1, <2>2, <2>4, <2>5, GramsDone
<1>14. CASE Cancel
  <2>1. GramsInv /\ UNCHANGED <<callVars, answer>> /\ files \subseteq files'
    BY <1>14 DEF Cancel, IInv
  <2> QED
    BY <2>1, GramsAllStay
<1>15. CASE UpdateIndexC
  <2>1. GramsInv /\ UNCHANGED <<callVars, answer>> /\ files \subseteq files'
    BY <1>15 DEF UpdateIndexC, IInv
  <2> QED
    BY <2>1, GramsAllStay
<1>16. ASSUME NEW log \in Kept, Restart(log) PROVE GramsInv'
  <2>1. ipc' = CallsIdle /\ grams' = Nothing
    BY <1>16 DEF Restart
  <2>2. \A i \in Indexers : ipc'[i] = "idle" /\ grams'[i] = <<>>
    BY <2>1 DEF CallsIdle, Nothing
  <2> QED
    BY <2>2 DEF GramsInv, GramsOf
<1>17. CASE UNCHANGED vars
  <2>1. GramsInv /\ UNCHANGED <<callVars, answer>> /\ files \subseteq files'
    BY <1>17 DEF vars, callVars, IInv
  <2> QED
    BY <2>1, GramsAllStay
<1> QED
  BY <1>1, <1>2, <1>3, <1>4, <1>5, <1>6, <1>7, <1>8, <1>9, <1>10, <1>11, <1>12, <1>13,
     <1>14, <1>15, <1>16, <1>17 DEF Next, AllocStep, CallStep, Exit, Crash

-----------------------------------------------------------------------------
(* Ids                                                                     *)

\* no new id, and no allocator with an id that it did not have
LEMMA IdsKept ==
    ASSUME IdInv, counter' = counter, fresh' = fresh,
           \A t \in Shards : apc'[t] \in Adding => apc[t] \in Adding /\ areq'[t].id = areq[t].id
    PROVE  IdInv'
  BY DEF IdInv

\* An id is drawn once, and given to one word.
LEMMA IdInvStep ==
    ASSUME IInv, [Next]_vars
    PROVE  IdInv'
<1>1. ASSUME NEW s \in Shards, AllocTake(s) PROVE IdInv'
  <2>1. AllocTypes /\ IdInv /\ counter' = counter /\ fresh' = fresh
    BY <1>1 DEF AllocTake, procVars, IInv
  <2>2. \A t \in Shards \ {s} : apc'[t] = apc[t] /\ areq'[t] = areq[t]
    BY <1>1, <2>1 DEF AllocTake, AllocTypes, Reply
  <2>3. apc'[s] \notin Adding
    BY <1>1, <2>1 DEF AllocTake, AllocTypes, Reply, Adding
  <2> QED
    BY <2>1, <2>2, <2>3, IdsKept
<1>2. ASSUME NEW s \in Shards, AllocFind(s) PROVE IdInv'
  <2>1. AllocTypes /\ IdInv /\ counter' = counter /\ fresh' = fresh
    BY <1>2 DEF AllocFind, procVars, IInv
  <2>2. \A t \in Shards \ {s} : apc'[t] = apc[t] /\ areq'[t] = areq[t]
    BY <1>2, <2>1 DEF AllocFind, AllocTypes, Reply
  <2>3. apc'[s] \notin Adding
    BY <1>2, <2>1 DEF AllocFind, AllocTypes, Reply, Adding
  <2> QED
    BY <2>1, <2>2, <2>3, IdsKept
<1>3. ASSUME NEW s \in Shards, AllocAdd(s) PROVE IdInv'
  <2>1. AllocTypes /\ IdInv /\ counter \in Nat /\ counter' = counter + 1 /\ fresh' = fresh
    BY <1>3 DEF AllocAdd, IInv, ProcTypes
  <2>2. \A t \in Shards \ {s} : apc'[t] = apc[t] /\ areq'[t] = areq[t]
    BY <1>3, <2>1 DEF AllocAdd, AllocTypes
  <2>3. areq'[s].id = counter + 1
    BY <1>3, <2>1 DEF AllocAdd, AllocTypes, NextId
  <2>4. \A n \in 1 .. counter : n \in 1 .. counter' /\ n # counter + 1
    BY <2>1
  <2>5. counter + 1 \in 1 .. counter'
    BY <2>1
  <2>6. \A p \in fresh : p[2] \in 1 .. counter' /\ p[2] # areq'[s].id
    BY <2>1, <2>3, <2>4 DEF IdInv
  <2>7. \A t \in Shards \ {s} : apc'[t] \in Adding =>
          /\ areq'[t].id \in 1 .. counter' /\ areq'[t].id # areq'[s].id
          /\ \A p \in fresh : p[2] # areq'[t].id
          /\ \A u \in Shards \ {s, t} : apc'[u] \in Adding => areq'[u].id # areq'[t].id
    BY <2>1, <2>2, <2>3, <2>4 DEF IdInv
  <2>8. \A p, q \in fresh : p[2] = q[2] => p = q
    BY <2>1 DEF IdInv
  <2>9. areq'[s].id \in 1 .. counter'
    BY <2>3, <2>5
  <2> QED
    BY <2>1, <2>6, <2>7, <2>8, <2>9 DEF IdInv
<1>4. ASSUME NEW s \in Shards, AllocSetWord(s) PROVE IdInv'
  <2>1. AllocTypes /\ IdInv /\ counter' = counter /\ fresh' = fresh /\ areq' = areq
    BY <1>4 DEF AllocSetWord, procVars, IInv
  <2>2. apc[s] \in Adding /\ \A t \in Shards \ {s} : apc'[t] = apc[t]
    BY <1>4, <2>1 DEF AllocSetWord, AllocTypes, Adding
  <2> QED
    BY <2>1, <2>2, IdsKept
<1>5. ASSUME NEW s \in Shards, AllocSetSeq(s) PROVE IdInv'
  <2> DEFINE n == areq[s].id
             new == <<areq[s].word, n>>
  <2>1. AllocTypes /\ IdInv /\ counter' = counter /\ fresh' = fresh \cup {new} /\ apc[s] \in Adding
    BY <1>5 DEF AllocSetSeq, procVars, IInv, Adding
  <2>2. \A t \in Shards \ {s} : apc'[t] = apc[t] /\ areq'[t] = areq[t]
    BY <1>5, <2>1 DEF AllocSetSeq, AllocTypes, Reply
  <2>3. apc'[s] \notin Adding
    BY <1>5, <2>1 DEF AllocSetSeq, AllocTypes, Reply, Adding
  <2>4. new[2] = n
    OBVIOUS
  <2> HIDE DEF new
  <2>5. n \in 1 .. counter /\ \A p \in fresh : p[2] # n
    BY <2>1 DEF IdInv
  <2>6. \A p, q \in fresh' : p[2] = q[2] => p = q
    BY <2>1, <2>4, <2>5 DEF IdInv
  <2>7. \A p \in fresh' : p[2] \in 1 .. counter'
    BY <2>1, <2>4, <2>5 DEF IdInv
  <2>8. \A t \in Shards \ {s} : apc'[t] \in Adding =>
          /\ areq'[t].id \in 1 .. counter'
          /\ \A p \in fresh' : p[2] # areq'[t].id
          /\ \A u \in Shards \ {s, t} : apc'[u] \in Adding => areq'[u].id # areq'[t].id
    BY <2>1, <2>2, <2>4 DEF IdInv
  <2> QED
    BY <2>3, <2>6, <2>7, <2>8 DEF IdInv
<1>6. ASSUME NEW s \in Shards, AllocFails(s) PROVE IdInv'
  <2>1. AllocTypes /\ IdInv /\ counter' = counter /\ fresh' = fresh
    BY <1>6 DEF AllocFails, procVars, IInv
  <2>2. \A t \in Shards \ {s} : apc'[t] = apc[t] /\ areq'[t] = areq[t]
    BY <1>6, <2>1 DEF AllocFails, AllocTypes, Reply
  <2>3. apc'[s] \notin Adding
    BY <1>6, <2>1 DEF AllocFails, AllocTypes, Reply, Adding
  <2> QED
    BY <2>1, <2>2, <2>3, IdsKept
<1>7. ASSUME NEW i \in Indexers, Request(i) PROVE IdInv'
  <2>1. /\ IdInv /\ counter' = counter /\ fresh' = fresh
        /\ apc' = apc /\ areq' = areq
    BY <1>7 DEF Request, IInv, allocVars, procVars
  <2> QED
    BY <2>1, IdsKept
<1>8. ASSUME NEW i \in Indexers, RequestOnClosed(i) PROVE IdInv'
  <2>1. /\ IdInv /\ counter' = counter /\ fresh' = fresh
        /\ apc' = apc /\ areq' = areq
    BY <1>8 DEF RequestOnClosed, IInv, allocVars, procVars
  <2> QED
    BY <2>1, IdsKept
<1>9. ASSUME NEW i \in Indexers, CallCancelled(i) PROVE IdInv'
  <2>1. /\ IdInv /\ counter' = counter /\ fresh' = fresh
        /\ apc' = apc /\ areq' = areq
    BY <1>9 DEF CallCancelled, IInv, allocVars, procVars
  <2> QED
    BY <2>1, IdsKept
<1>10. ASSUME NEW i \in Indexers, Receive(i) PROVE IdInv'
  <2>1. /\ IdInv /\ counter' = counter /\ fresh' = fresh
        /\ apc' = apc /\ areq' = areq
    BY <1>10 DEF Receive, IInv, allocVars, procVars
  <2> QED
    BY <2>1, IdsKept
<1>11. ASSUME NEW i \in Indexers, WriteGram(i) PROVE IdInv'
  <2>1. /\ IdInv /\ counter' = counter /\ fresh' = fresh
        /\ apc' = apc /\ areq' = areq
    BY <1>11 DEF WriteGram, IInv, allocVars, procVars
  <2> QED
    BY <2>1, IdsKept
<1>12. ASSUME NEW i \in Indexers, WriteFails(i) PROVE IdInv'
  <2>1. /\ IdInv /\ counter' = counter /\ fresh' = fresh
        /\ apc' = apc /\ areq' = areq
    BY <1>12 DEF WriteFails, IInv, allocVars, procVars
  <2> QED
    BY <2>1, IdsKept
<1>13. ASSUME NEW i \in Indexers, NEW d \in Docs, Call(i, d) PROVE IdInv'
  <2>1. /\ IdInv /\ counter' = counter /\ fresh' = fresh
        /\ apc' = apc /\ areq' = areq
    BY <1>13 DEF Call, IInv, allocVars, procVars
  <2> QED
    BY <2>1, IdsKept
<1>14. CASE Cancel
  <2>1. /\ IdInv /\ counter' = counter /\ fresh' = fresh
        /\ apc' = apc /\ areq' = areq
    BY <1>14 DEF Cancel, IInv, allocVars, procVars
  <2> QED
    BY <2>1, IdsKept
<1>15. CASE UpdateIndexC
  <2>1. /\ IdInv /\ counter' = counter /\ fresh' = fresh
        /\ apc' = apc /\ areq' = areq
    BY <1>15 DEF UpdateIndexC, IInv, allocVars, procVars
  <2> QED
    BY <2>1, IdsKept
<1>16. ASSUME NEW log \in Kept, Restart(log) PROVE IdInv'
  <2>1. fresh' = {} /\ apc' = AllocIdle
    BY <1>16 DEF Restart
  <2>2. \A s \in Shards : apc'[s] \notin Adding
    BY <2>1 DEF AllocIdle, Adding
  <2> QED
    BY <2>1, <2>2 DEF IdInv
<1>17. CASE UNCHANGED vars
  <2>1. /\ IdInv /\ counter' = counter /\ fresh' = fresh
        /\ apc' = apc /\ areq' = areq
    BY <1>17 DEF vars, IInv, allocVars, procVars
  <2> QED
    BY <2>1, IdsKept
<1> QED
  BY <1>1, <1>2, <1>3, <1>4, <1>5, <1>6, <1>7, <1>8, <1>9, <1>10, <1>11, <1>12, <1>13,
     <1>14, <1>15, <1>16, <1>17 DEF Next, AllocStep, CallStep, Exit, Crash

\* a write to another key leaves the new words resolved
LEMMA StillResolved ==
    ASSUME StoreTypes, ResolveInv, fresh' = fresh, NEW k, NEW v, Set(k, v),
           [key |-> k, val |-> v] \in WriteType, \A n : k # seqKey(n)
    PROVE  ResolveInv'
<1>1. wal \in Seq(WriteType) /\ wal' = Append(wal, [key |-> k, val |-> v])
  BY DEF StoreTypes, Set
<1>2. \A p \in fresh : LastWrite(wal', seqKey(p[2]), p[1])
  BY <1>1, AppendWrites DEF ResolveInv
<1> QED
  BY <1>2 DEF ResolveInv

\* The number of a new word leads back to it.
LEMMA ResolveInvStep ==
    ASSUME IInv, [Next]_vars
    PROVE  ResolveInv'
<1>1. ASSUME NEW s \in Shards, AllocTake(s) PROVE ResolveInv'
  <2>1. wal' = wal /\ fresh' = fresh /\ ResolveInv
    BY <1>1 DEF AllocTake, IInv, storeVars
  <2> QED
    BY <2>1 DEF ResolveInv
<1>2. ASSUME NEW s \in Shards, AllocFind(s) PROVE ResolveInv'
  <2>1. wal' = wal /\ fresh' = fresh /\ ResolveInv
    BY <1>2 DEF AllocFind, IInv, storeVars
  <2> QED
    BY <2>1 DEF ResolveInv
<1>3. ASSUME NEW s \in Shards, AllocAdd(s) PROVE ResolveInv'
  <2>1. wal' = wal /\ fresh' = fresh /\ ResolveInv
    BY <1>3 DEF AllocAdd, IInv, storeVars
  <2> QED
    BY <2>1 DEF ResolveInv
<1>4. ASSUME NEW s \in Shards, AllocSetWord(s) PROVE ResolveInv'
  <2>1. apc[s] = "setWord" /\ StoreTypes /\ AllocTypes /\ ResolveInv /\ fresh' = fresh
    BY <1>4 DEF AllocSetWord, IInv
  <2>2. areq[s].word \in Words /\ areq[s].id \in Nat \ {0}
    BY <2>1, RequestKnown, DrawnId DEF Busy, Adding
  <2>3. Set(wordKey(areq[s].word), areq[s].id)
    BY <1>4 DEF AllocSetWord
  <2> QED
    BY <2>1, <2>2, <2>3, WriteTypes, KeysDiffer, StillResolved
<1>5. ASSUME NEW s \in Shards, AllocSetSeq(s) PROVE ResolveInv'
  <2> DEFINE w == areq[s].word
             n == areq[s].id
  <2>1. apc[s] = "setSeq" /\ wal \in Seq(WriteType) /\ AllocTypes /\ ResolveInv /\ IdInv
    BY <1>5 DEF AllocSetSeq, IInv, StoreTypes
  <2>2. w \in Words /\ n \in Nat
    BY <2>1, RequestKnown DEF Busy
  <2>3. wal' = Append(wal, [key |-> seqKey(n), val |-> w]) /\ fresh' = fresh \cup {<<w, n>>}
    BY <1>5 DEF AllocSetSeq, Set
  <2>4. [key |-> seqKey(n), val |-> w] \in WriteType
    BY <2>2, WriteTypes
  <2>5. \A p \in fresh : seqKey(p[2]) # seqKey(n)
    <3>1. \A p \in fresh : p[2] # n
      BY <2>1 DEF IdInv, Adding
    <3> QED
      BY <3>1, KeysDiffer
  <2> HIDE DEF w, n
  <2>6. \A p \in fresh : LastWrite(wal', seqKey(p[2]), p[1])
    BY <2>1, <2>3, <2>4, <2>5, AppendWrites DEF ResolveInv
  <2>7. LastWrite(wal', seqKey(n), w)
    BY <2>1, <2>3, <2>4, AppendWrites
  <2>8. ASSUME NEW p \in fresh' PROVE LastWrite(wal', seqKey(p[2]), p[1])
    <3>1. CASE p = <<w, n>>
      <4>1. p[1] = w /\ p[2] = n
        BY <3>1
      <4> QED
        BY <2>7, <4>1
    <3> QED
      BY <2>3, <2>6, <2>8, <3>1
  <2> QED
    BY <2>8 DEF ResolveInv
<1>6. ASSUME NEW s \in Shards, AllocFails(s) PROVE ResolveInv'
  <2>1. wal' = wal /\ fresh' = fresh /\ ResolveInv
    BY <1>6 DEF AllocFails, IInv, storeVars
  <2> QED
    BY <2>1 DEF ResolveInv
<1>7. ASSUME NEW i \in Indexers, Request(i) PROVE ResolveInv'
  <2>1. wal' = wal /\ fresh' = fresh /\ ResolveInv
    BY <1>7 DEF Request, IInv, storeVars
  <2> QED
    BY <2>1 DEF ResolveInv
<1>8. ASSUME NEW i \in Indexers, RequestOnClosed(i) PROVE ResolveInv'
  <2>1. wal' = wal /\ fresh' = fresh /\ ResolveInv
    BY <1>8 DEF RequestOnClosed, IInv, storeVars
  <2> QED
    BY <2>1 DEF ResolveInv
<1>9. ASSUME NEW i \in Indexers, CallCancelled(i) PROVE ResolveInv'
  <2>1. wal' = wal /\ fresh' = fresh /\ ResolveInv
    BY <1>9 DEF CallCancelled, IInv, storeVars
  <2> QED
    BY <2>1 DEF ResolveInv
<1>10. ASSUME NEW i \in Indexers, Receive(i) PROVE ResolveInv'
  <2>1. wal' = wal /\ fresh' = fresh /\ ResolveInv
    BY <1>10 DEF Receive, IInv, storeVars
  <2> QED
    BY <2>1 DEF ResolveInv
<1>11. ASSUME NEW i \in Indexers, WriteGram(i) PROVE ResolveInv'
  <2>1. wal' = wal /\ fresh' = fresh /\ ResolveInv
    BY <1>11 DEF WriteGram, IInv, storeVars
  <2> QED
    BY <2>1 DEF ResolveInv
<1>12. ASSUME NEW i \in Indexers, WriteFails(i) PROVE ResolveInv'
  <2>1. wal' = wal /\ fresh' = fresh /\ ResolveInv
    BY <1>12 DEF WriteFails, IInv, storeVars
  <2> QED
    BY <2>1 DEF ResolveInv
<1>13. ASSUME NEW i \in Indexers, NEW d \in Docs, Call(i, d) PROVE ResolveInv'
  <2>1. wal' = wal /\ fresh' = fresh /\ ResolveInv
    BY <1>13 DEF Call, IInv, storeVars
  <2> QED
    BY <2>1 DEF ResolveInv
<1>14. CASE Cancel
  <2>1. wal' = wal /\ fresh' = fresh /\ ResolveInv
    BY <1>14 DEF Cancel, IInv, storeVars
  <2> QED
    BY <2>1 DEF ResolveInv
<1>15. CASE UpdateIndexC
  <2>1. StoreTypes /\ counter \in Nat /\ ResolveInv /\ fresh' = fresh
    BY <1>15 DEF UpdateIndexC, IInv, ProcTypes
  <2>2. Set(inck, counter)
    BY <1>15 DEF UpdateIndexC
  <2> QED
    BY <2>1, <2>2, WriteTypes, KeysDiffer, StillResolved
<1>16. ASSUME NEW log \in Kept, Restart(log) PROVE ResolveInv'
  <2>1. fresh' = {}
    BY <1>16 DEF Restart
  <2> QED
    BY <2>1 DEF ResolveInv
<1>17. CASE UNCHANGED vars
  <2>1. wal' = wal /\ fresh' = fresh /\ ResolveInv
    BY <1>17 DEF vars, IInv, storeVars
  <2> QED
    BY <2>1 DEF ResolveInv
<1> QED
  BY <1>1, <1>2, <1>3, <1>4, <1>5, <1>6, <1>7, <1>8, <1>9, <1>10, <1>11, <1>12, <1>13,
     <1>14, <1>15, <1>16, <1>17 DEF Next, AllocStep, CallStep, Exit, Crash

-----------------------------------------------------------------------------
(* Requests                                                                *)

\* where a request is: the requests of a shard
Pending(s) == Range(chan[s]) \cup (IF apc[s] \in Busy THEN {areq[s]} ELSE {})

\* no caller has two of them
Alone(s) ==
    /\ \A k, l \in DOMAIN chan[s] : chan[s][k].from = chan[s][l].from => k = l
    /\ apc[s] \in Busy => \A k \in DOMAIN chan[s] : chan[s][k].from # areq[s].from

AwaitInv == \A i \in Indexers : ipc[i] \in {"idle", "request"} => answer[i] = <<>>

\* the invariant of the requests in these words
LEMMA RequestParts ==
    RequestInv <=> AwaitInv /\ \A s \in Shards : Alone(s) /\ \A r \in Pending(s) : Expected(s, r)
<1>1. ASSUME RequestInv
      PROVE  AwaitInv /\ \A s \in Shards : Alone(s) /\ \A r \in Pending(s) : Expected(s, r)
  <2>1. \A s \in Shards : \A r \in Pending(s) : Expected(s, r)
    BY <1>1 DEF RequestInv, Pending, Range
  <2> QED
    BY <1>1, <2>1 DEF RequestInv, AwaitInv, Alone
<1>2. ASSUME AwaitInv, \A s \in Shards : Alone(s) /\ \A r \in Pending(s) : Expected(s, r)
      PROVE  RequestInv
  <2>1. \A s \in Shards : (\A k \in DOMAIN chan[s] : Expected(s, chan[s][k])) /\ (apc[s] \in Busy => Expected(s, areq[s]))
    BY <1>2 DEF Pending, Range
  <2> QED
    BY <1>2, <2>1 DEF RequestInv, AwaitInv, Alone
<1> QED
  BY <1>1, <1>2

\* the same, after a step
LEMMA RequestPartsNext ==
    ASSUME AwaitInv', \A s \in Shards : Alone(s)' /\ \A r \in Pending(s)' : Expected(s, r)'
    PROVE  RequestInv'
<1>1. (RequestInv <=> AwaitInv /\ \A s \in Shards : Alone(s) /\ \A r \in Pending(s) : Expected(s, r))'
  BY RequestParts, PTL
<1> QED
  BY <1>1

\* pending requests are requests
LEMMA PendingTypes ==
    ASSUME AllocTypes, NEW s \in Shards, NEW r \in Pending(s)
    PROVE  r \in Requests /\ r.word \in Words /\ r.from \in Indexers
<1>1. chan[s] \in Seq(Requests) /\ (apc[s] \in Busy => areq[s] \in Requests)
  BY DEF AllocTypes
<1>2. r \in Requests
  <2> HIDE DEF Requests
  <2> QED
    BY <1>1 DEF Pending, Range
<1> QED
  BY <1>2 DEF Requests

\* the callers are as they were, but for one who has no request under way, or
\* who stops waiting for it
LEMMA RequestsStay ==
    ASSUME AllocTypes, RequestInv, UNCHANGED <<chan, allocVars>>, AwaitInv',
           NEW i \in Indexers, dropped \subseteq dropped',
           \A j \in Indexers \ {i} : ipc'[j] = ipc[j] /\ words'[j] = words[j] /\ answer'[j] = answer[j],
           \/ ipc[i] \notin {"await", "gone"}
           \/ ipc[i] = "await" /\ answer[i] # <<>>
           \/ ipc[i] = "await" /\ ipc'[i] = "gone" /\ Head(words[i]) \in dropped'
           \/ ipc'[i] = ipc[i] /\ words'[i] = words[i] /\ answer'[i] = answer[i]
    PROVE  RequestInv'
<1>1. \A s \in Shards : Alone(s) /\ \A r \in Pending(s) : Expected(s, r)
  BY RequestParts
<1>2. \A s \in Shards : Alone(s)' /\ Pending(s)' = Pending(s)
  BY <1>1 DEF Alone, Pending, allocVars
<1>3. ASSUME NEW s \in Shards, NEW r \in Pending(s) PROVE Expected(s, r)'
  <2>1. Expected(s, r) /\ r.from \in Indexers
    BY <1>1, <1>3, PendingTypes
  <2>2. CASE r.from # i
    BY <2>1, <2>2 DEF Expected
  <2>3. CASE r.from = i
    BY <2>1, <2>3 DEF Expected
  <2> QED
    BY <2>2, <2>3
<1> QED
  BY <1>2, <1>3, RequestPartsNext

\* an allocator moves, no caller is answered
LEMMA RequestsHeld ==
    ASSUME AllocTypes, RequestInv, UNCHANGED <<callVars, answer, dropped>>, NEW s \in Shards,
           \A t \in Shards \ {s} : chan'[t] = chan[t] /\ apc'[t] = apc[t] /\ areq'[t] = areq[t],
           Alone(s)',
           \A r \in Pending(s)' : \E p \in Pending(s) : p.word = r.word /\ p.from = r.from
    PROVE  RequestInv'
<1>1. AwaitInv /\ \A t \in Shards : Alone(t) /\ \A r \in Pending(t) : Expected(t, r)
  BY RequestParts
<1>2. AwaitInv'
  BY <1>1 DEF AwaitInv, callVars
<1>3. ASSUME NEW t \in Shards, NEW r \in Pending(t)' PROVE Expected(t, r)'
  <2>1. PICK p \in Pending(t) : p.word = r.word /\ p.from = r.from
    <3>1. CASE t = s
      BY <1>3, <3>1
    <3>2. CASE t # s
      BY <1>3, <3>2 DEF Pending
    <3> QED
      BY <3>1, <3>2
  <2>2. Expected(t, p)
    BY <1>1, <2>1
  <2> QED
    BY <2>1, <2>2 DEF Expected, callVars
<1>4. \A t \in Shards : Alone(t)'
  BY <1>1 DEF Alone
<1> QED
  BY <1>2, <1>3, <1>4, RequestPartsNext

\* the request of an allocator is answered, or given up
LEMMA RequestsLeft ==
    ASSUME AllocTypes, CallTypes, RequestInv, UNCHANGED <<chan, callVars, dropped>>,
           NEW s \in Shards, apc[s] \in Busy, NEW l, l \notin Busy,
           apc' = [apc EXCEPT ![s] = l], areq' = [areq EXCEPT ![s] = <<>>],
           answer' = answer \/ \E a : answer' = [answer EXCEPT ![areq[s].from] = a]
    PROVE  RequestInv'
<1> DEFINE i == areq[s].from
<1>1. AwaitInv /\ \A t \in Shards : Alone(t) /\ \A r \in Pending(t) : Expected(t, r)
  BY RequestParts
<1>2. i \in Indexers /\ areq[s] \in Pending(s) /\ ipc[i] \in {"await", "gone"}
  BY <1>1, RequestKnown DEF Pending, Expected
<1>3. \A j \in Indexers \ {i} : answer'[j] = answer[j]
  BY DEF CallTypes
<1>4. AwaitInv'
  BY <1>1, <1>2, <1>3 DEF AwaitInv, callVars
<1>5. apc'[s] = l /\ \A t \in Shards \ {s} : apc'[t] = apc[t] /\ areq'[t] = areq[t]
  BY DEF AllocTypes
<1>6. \A t \in Shards : Alone(t)'
  BY <1>1, <1>5 DEF Alone
<1>7. ASSUME NEW t \in Shards, NEW r \in Pending(t)' PROVE Expected(t, r)'
  <2>1. r \in Pending(t) /\ (t = s => r \in Range(chan[s]))
    BY <1>5, <1>7 DEF Pending
  <2>2. Expected(t, r) /\ r.from \in Indexers
    BY <1>1, <2>1, PendingTypes
  <2>3. CASE r.from # i
    BY <1>3, <2>2, <2>3 DEF Expected, callVars
  <2>4. CASE r.from = i
    <3>1. t # s
      <4>1. ASSUME t = s PROVE FALSE
        <5>1. PICK k \in DOMAIN chan[s] : r = chan[s][k]
          BY <2>1, <4>1 DEF Range
        <5> QED
          BY <1>1, <2>4, <5>1 DEF Alone
      <4> QED
        BY <4>1
    <3>2. Expected(s, areq[s])
      BY <1>1, <1>2
    <3>3. ipc[i] = "gone" /\ r.word \in dropped
      BY <2>2, <2>4, <3>1, <3>2 DEF Expected
    <3> QED
      BY <2>2, <2>4, <3>3 DEF Expected, callVars
  <2> QED
    BY <2>3, <2>4
<1> QED
  BY <1>4, <1>6, <1>7, RequestPartsNext

\* Whoever has a request under way waits for it, or has given up and dropped
\* the word.
LEMMA RequestInvStep ==
    ASSUME IInv, [Next]_vars
    PROVE  RequestInv'
<1>1. ASSUME NEW s \in Shards, AllocTake(s) PROVE RequestInv'
  <2> DEFINE q == chan[s]
  <2>1. /\ AllocTypes /\ RequestInv /\ UNCHANGED <<callVars, answer, dropped>>
        /\ apc[s] = "wait" /\ q # <<>> /\ chan' = [chan EXCEPT ![s] = Tail(q)]
    BY <1>1 DEF AllocTake, IInv
  <2>2. q \in Seq(Requests) /\ chan'[s] = Tail(q) /\ \A t \in Shards \ {s} : chan'[t] = chan[t] /\ apc'[t] = apc[t] /\ areq'[t] = areq[t]
    BY <1>1, <2>1 DEF AllocTypes, AllocTake
  <2>3. apc'[s] \in Busy => areq'[s] = Head(q)
    BY <1>1, <2>1 DEF AllocTypes, AllocTake, Busy
  <2>4. /\ Head(q) = q[1] /\ Len(Tail(q)) = Len(q) - 1 /\ Len(q) \in Nat /\ Len(q) > 0
        /\ \A k \in 1 .. Len(q) - 1 : Tail(q)[k] = q[k + 1]
        /\ DOMAIN q = 1 .. Len(q) /\ DOMAIN Tail(q) = 1 .. Len(q) - 1
    <3> HIDE DEF Requests, q
    <3>1. Head(q) = q[1] /\ Len(Tail(q)) = Len(q) - 1 /\ \A k \in 1 .. Len(q) - 1 : Tail(q)[k] = q[k + 1]
      BY <2>1, <2>2, HeadTailProperties
    <3>2. Tail(q) \in Seq(Requests) /\ Len(q) \in Nat /\ DOMAIN q = 1 .. Len(q)
      BY <2>1, <2>2, HeadTailProperties, LenProperties
    <3>3. Len(q) # 0
      BY <2>1, <2>2, EmptySeq
    <3>4. DOMAIN Tail(q) = 1 .. Len(q) - 1
      BY <3>1, <3>2, LenProperties
    <3> QED
      BY <3>1, <3>2, <3>3, <3>4
  <2>5. \A k, l \in DOMAIN q : q[k].from = q[l].from => k = l
    BY <2>1, RequestParts DEF Alone
  <2> HIDE DEF q
  <2>6. Alone(s)'
    <3>1. \A k, l \in DOMAIN Tail(q) : Tail(q)[k].from = Tail(q)[l].from => k = l
      <4> TAKE k, l \in DOMAIN Tail(q)
      <4> HAVE Tail(q)[k].from = Tail(q)[l].from
      <4>1. k \in 1 .. Len(q) - 1 /\ l \in 1 .. Len(q) - 1 /\ k + 1 \in DOMAIN q /\ l + 1 \in DOMAIN q
        BY <2>4
      <4>2. k + 1 = l + 1
        BY <2>4, <2>5, <4>1
      <4> QED
        BY <2>4, <4>1, <4>2
    <3>2. \A k \in DOMAIN Tail(q) : Tail(q)[k].from # Head(q).from
      <4> TAKE k \in DOMAIN Tail(q)
      <4>1. k \in 1 .. Len(q) - 1 /\ k + 1 \in DOMAIN q /\ 1 \in DOMAIN q /\ k + 1 # 1
        BY <2>4
      <4> QED
        BY <2>4, <2>5, <4>1
    <3> QED
      BY <2>2, <2>3, <3>1, <3>2 DEF Alone
  <2>7. Pending(s)' \subseteq Pending(s)
    <3>1. Range(Tail(q)) \subseteq Range(q) /\ Head(q) \in Range(q)
      <4>1. 1 \in DOMAIN q /\ Head(q) = q[1]
        BY <2>4
      <4> QED
        BY <2>1, <2>2, <4>1, HeadOrTail DEF Range
    <3> QED
      BY <2>2, <2>3, <3>1 DEF Pending, q
  <2> QED
    BY <2>1, <2>2, <2>6, <2>7, RequestsHeld
<1>2. ASSUME NEW s \in Shards, AllocFind(s) PROVE RequestInv'
  <2>1. /\ AllocTypes /\ CallTypes /\ RequestInv /\ UNCHANGED <<chan, callVars, dropped>>
        /\ apc[s] \in Busy
    BY <1>2 DEF AllocFind, IInv, Busy
  <2>2. /\ apc' = [apc EXCEPT ![s] = "wait"] /\ areq' = [areq EXCEPT ![s] = <<>>]
        /\ answer' = answer \/ \E a : answer' = [answer EXCEPT ![areq[s].from] = a]
    BY <1>2 DEF AllocFind, Reply
  <2>3. "wait" \notin Busy
    BY DEF Busy
  <2> QED
    BY <2>1, <2>2, <2>3, RequestsLeft
<1>3. ASSUME NEW s \in Shards, AllocAdd(s) PROVE RequestInv'
  <2>1. /\ AllocTypes /\ RequestInv /\ UNCHANGED <<chan, callVars, answer, dropped>>
        /\ apc[s] = "look" /\ apc' = [apc EXCEPT ![s] = "setWord"]
        /\ areq' = [areq EXCEPT ![s] = [word |-> areq[s].word, from |-> areq[s].from, id |-> NextId(s)]]
    BY <1>3 DEF AllocAdd, IInv
  <2>2. \A t \in Shards \ {s} : apc'[t] = apc[t] /\ areq'[t] = areq[t]
    BY <2>1 DEF AllocTypes
  <2>3. apc'[s] = "setWord" /\ areq'[s].word = areq[s].word /\ areq'[s].from = areq[s].from
    BY <2>1 DEF AllocTypes
  <2>4. Alone(s)
    BY <2>1, RequestParts
  <2>5. Alone(s)'
    BY <2>1, <2>3, <2>4 DEF Alone, Busy
  <2>6. \A r \in Pending(s)' : \E p \in Pending(s) : p.word = r.word /\ p.from = r.from
    <3>1. areq[s] \in Pending(s) /\ Range(chan[s]) \subseteq Pending(s)
      BY <2>1 DEF Pending, Busy
    <3>2. Pending(s)' = Range(chan[s]) \cup {areq'[s]}
      BY <2>1, <2>3 DEF Pending, Busy
    <3> QED
      BY <2>3, <3>1, <3>2
  <2> QED
    BY <2>1, <2>2, <2>5, <2>6, RequestsHeld
<1>4. ASSUME NEW s \in Shards, AllocSetWord(s) PROVE RequestInv'
  <2>1. /\ AllocTypes /\ RequestInv /\ UNCHANGED <<chan, areq, callVars, answer, dropped>>
        /\ apc[s] = "setWord" /\ apc' = [apc EXCEPT ![s] = "setSeq"]
    BY <1>4 DEF AllocSetWord, IInv
  <2>2. apc'[s] = "setSeq" /\ \A t \in Shards \ {s} : apc'[t] = apc[t]
    BY <2>1 DEF AllocTypes
  <2>3. Alone(s)
    BY <2>1, RequestParts
  <2>4. Alone(s)' /\ Pending(s)' = Pending(s)
    BY <2>1, <2>2, <2>3 DEF Alone, Pending, Busy
  <2> QED
    BY <2>1, <2>2, <2>4, RequestsHeld
<1>5. ASSUME NEW s \in Shards, AllocSetSeq(s) PROVE RequestInv'
  <2>1. /\ AllocTypes /\ CallTypes /\ RequestInv /\ UNCHANGED <<chan, callVars, dropped>>
        /\ apc[s] \in Busy
    BY <1>5 DEF AllocSetSeq, IInv, Busy
  <2>2. /\ apc' = [apc EXCEPT ![s] = "wait"] /\ areq' = [areq EXCEPT ![s] = <<>>]
        /\ answer' = answer \/ \E a : answer' = [answer EXCEPT ![areq[s].from] = a]
    BY <1>5 DEF AllocSetSeq, Reply
  <2>3. "wait" \notin Busy
    BY DEF Busy
  <2> QED
    BY <2>1, <2>2, <2>3, RequestsLeft
<1>6. ASSUME NEW s \in Shards, AllocFails(s) PROVE RequestInv'
  <2>1. /\ AllocTypes /\ CallTypes /\ RequestInv /\ UNCHANGED <<chan, callVars, dropped>>
        /\ apc[s] \in Busy
    BY <1>6 DEF AllocFails, IInv, Busy
  <2>2. /\ apc' = [apc EXCEPT ![s] = "closed"] /\ areq' = [areq EXCEPT ![s] = <<>>]
        /\ answer' = answer \/ \E a : answer' = [answer EXCEPT ![areq[s].from] = a]
    BY <1>6 DEF AllocFails, Reply
  <2>3. "closed" \notin Busy
    BY DEF Busy
  <2> QED
    BY <2>1, <2>2, <2>3, RequestsLeft
<1>7. ASSUME NEW i \in Indexers, Request(i) PROVE RequestInv'
  <2>a. PICK s \in Shards : s = Shard(Head(words[i]))
    BY <1>7, CurrentWord, WordFacts DEF Request, IInv
  <2>b. PICK r : r = [word |-> Head(words[i]), from |-> i, id |-> 0]
    OBVIOUS
  <2> DEFINE q == chan[s]
  <2>1. /\ AllocTypes /\ CallTypes /\ RequestInv /\ ipc[i] = "request"
        /\ UNCHANGED <<allocVars, words, answer, dropped>>
        /\ chan' = [chan EXCEPT ![s] = Append(q, r)] /\ ipc' = [ipc EXCEPT ![i] = "await"]
    BY <1>7, <2>a, <2>b DEF Request, IInv
  <2>2. s \in Shards /\ r.word = Head(words[i]) /\ r.from = i /\ Shard(r.word) = s
    BY <2>a, <2>b
  <2>3. AwaitInv /\ \A t \in Shards : Alone(t) /\ \A p \in Pending(t) : Expected(t, p)
    BY <2>1, RequestParts
  <2>4. answer[i] = <<>> /\ \A t \in Shards : \A p \in Pending(t) : p.from # i
    BY <2>1, <2>3 DEF AwaitInv, Expected
  <2>5. ipc'[i] = "await" /\ \A j \in Indexers \ {i} : ipc'[j] = ipc[j]
    BY <2>1 DEF CallTypes
  <2>6. AwaitInv'
    BY <2>1, <2>3, <2>5 DEF AwaitInv
  <2>7. chan'[s] = Append(q, r) /\ \A t \in Shards \ {s} : chan'[t] = chan[t]
    BY <2>1, <2>2 DEF AllocTypes
  <2>8. q \in Seq(Requests)
    BY <2>1, <2>2 DEF AllocTypes
  <2>9. /\ Len(q) \in Nat /\ DOMAIN q = 1 .. Len(q) /\ DOMAIN Append(q, r) = 1 .. Len(q) + 1
        /\ Append(q, r)[Len(q) + 1] = r /\ \A k \in DOMAIN q : Append(q, r)[k] = q[k]
    <3>1. r \in Requests
      BY <2>1, <2>b, CurrentWord DEF Requests
    <3> HIDE DEF q, Requests
    <3> QED
      BY <2>8, <3>1, AppendProperties, LenProperties
  <2>10. \A t \in Shards : \A p \in Pending(t)' : (p = r /\ t = s) \/ p \in Pending(t)
    <3>1. \A p \in Range(Append(q, r)) : p = r \/ p \in Range(q)
      <4> TAKE p \in Range(Append(q, r))
      <4>1. PICK k \in 1 .. Len(q) + 1 : p = Append(q, r)[k]
        BY <2>9 DEF Range
      <4>2. k \in DOMAIN q \/ k = Len(q) + 1
        BY <2>9
      <4> QED
        BY <2>9, <4>1, <4>2 DEF Range
    <3> TAKE t \in Shards
    <3>2. CASE t = s
      BY <2>1, <2>7, <3>1, <3>2 DEF Pending, allocVars
    <3>3. CASE t # s
      BY <2>1, <2>7, <3>3 DEF Pending, allocVars
    <3> QED
      BY <3>2, <3>3
  <2>11. ASSUME NEW t \in Shards, NEW p \in Pending(t)' PROVE Expected(t, p)'
    <3>1. CASE p = r /\ t = s
      BY <2>1, <2>2, <2>4, <2>5, <3>1 DEF Expected
    <3>2. CASE p \in Pending(t)
      <4>1. Expected(t, p) /\ p.from \in Indexers \ {i}
        BY <2>1, <2>3, <2>4, <3>2, PendingTypes
      <4> QED
        BY <2>1, <2>5, <4>1 DEF Expected
    <3> QED
      BY <2>10, <2>11, <3>1, <3>2
  <2>12. \A k \in DOMAIN q : q[k].from # i
    BY <2>2, <2>4 DEF Pending, Range
  <2>13. apc[s] \in Busy => areq[s].from # i
    BY <2>2, <2>4 DEF Pending
  <2>14. Alone(s)
    BY <2>2, <2>3
  <2>15. Alone(s)'
    <3>1. \A k \in 1 .. Len(q) + 1 : k \in DOMAIN q \/ k = Len(q) + 1
      BY <2>9
    <3>2. \A k, l \in DOMAIN chan'[s] : chan'[s][k].from = chan'[s][l].from => k = l
      BY <2>2, <2>7, <2>9, <2>12, <2>14, <3>1 DEF Alone
    <3>3. apc[s] \in Busy => \A k \in DOMAIN chan'[s] : chan'[s][k].from # areq[s].from
      BY <2>2, <2>7, <2>9, <2>13, <2>14, <3>1 DEF Alone
    <3> QED
      BY <2>1, <3>2, <3>3 DEF Alone, allocVars
  <2>16. \A t \in Shards \ {s} : Alone(t)'
    BY <2>1, <2>3, <2>7 DEF Alone, allocVars
  <2> QED
    BY <2>6, <2>11, <2>15, <2>16, RequestPartsNext
<1>8. ASSUME NEW i \in Indexers, RequestOnClosed(i) PROVE RequestInv'
  <2>1. RequestInv /\ UNCHANGED <<chan, apc, areq, callVars, answer, dropped>>
    BY <1>8 DEF RequestOnClosed, IInv, allocVars
  <2> QED
    BY <2>1 DEF RequestInv, Expected, callVars
<1>9. ASSUME NEW i \in Indexers, CallCancelled(i) PROVE RequestInv'
  <2>1. AllocTypes /\ CallTypes /\ RequestInv /\ UNCHANGED <<chan, allocVars>> /\ dropped \subseteq dropped'
    BY <1>9 DEF CallCancelled, Return, IInv
  <2>2. \A j \in Indexers \ {i} : ipc'[j] = ipc[j] /\ words'[j] = words[j] /\ answer'[j] = answer[j]
    BY <1>9, <2>1 DEF CallCancelled, Return, NextWord, CallTypes
  <2>3. ipc'[i] \in {"idle", "request"} => answer'[i] = <<>>
    BY <1>9, <2>1 DEF CallCancelled, Return, NextWord, CallTypes
  <2>4. AwaitInv'
    <3>1. AwaitInv
      BY <2>1, RequestParts
    <3> QED
      BY <2>2, <2>3, <3>1 DEF AwaitInv
  <2>5. ipc[i] = "request" \/ (ipc[i] = "await" /\ ipc'[i] = "gone" /\ Head(words[i]) \in dropped')
    BY <1>9, <2>1 DEF CallCancelled, Return, CallTypes
  <2> QED
    BY <2>1, <2>2, <2>4, <2>5, RequestsStay
<1>10. ASSUME NEW i \in Indexers, Receive(i) PROVE RequestInv'
  <2>1. AllocTypes /\ CallTypes /\ RequestInv /\ UNCHANGED <<chan, allocVars>> /\ dropped \subseteq dropped'
    BY <1>10 DEF Receive, Return, IInv
  <2>2. \A j \in Indexers \ {i} : ipc'[j] = ipc[j] /\ words'[j] = words[j] /\ answer'[j] = answer[j]
    BY <1>10, <2>1 DEF Receive, Return, NextWord, CallTypes
  <2>3. ipc'[i] \in {"idle", "request"} => answer'[i] = <<>>
    BY <1>10, <2>1 DEF Receive, Return, NextWord, CallTypes
  <2>4. AwaitInv'
    <3>1. AwaitInv
      BY <2>1, RequestParts
    <3> QED
      BY <2>2, <2>3, <3>1 DEF AwaitInv
  <2>5. ipc[i] = "await" /\ answer[i] # <<>>
    BY <1>10, <2>1 DEF Receive, Return, CallTypes
  <2> QED
    BY <2>1, <2>2, <2>4, <2>5, RequestsStay
<1>11. ASSUME NEW i \in Indexers, WriteGram(i) PROVE RequestInv'
  <2>1. AllocTypes /\ CallTypes /\ RequestInv /\ UNCHANGED <<chan, allocVars>> /\ dropped \subseteq dropped'
    BY <1>11 DEF WriteGram, Return, IInv
  <2>2. \A j \in Indexers \ {i} : ipc'[j] = ipc[j] /\ words'[j] = words[j] /\ answer'[j] = answer[j]
    BY <1>11, <2>1 DEF WriteGram, Return, NextWord, CallTypes
  <2>3. ipc'[i] \in {"idle", "request"} => answer'[i] = <<>>
    BY <1>11, <2>1 DEF WriteGram, Return, NextWord, CallTypes
  <2>4. AwaitInv'
    <3>1. AwaitInv
      BY <2>1, RequestParts
    <3> QED
      BY <2>2, <2>3, <3>1 DEF AwaitInv
  <2>5. ipc[i] = "write"
    BY <1>11, <2>1 DEF WriteGram, Return, CallTypes
  <2> QED
    BY <2>1, <2>2, <2>4, <2>5, RequestsStay
<1>12. ASSUME NEW i \in Indexers, WriteFails(i) PROVE RequestInv'
  <2>1. AllocTypes /\ CallTypes /\ RequestInv /\ UNCHANGED <<chan, allocVars>> /\ dropped \subseteq dropped'
    BY <1>12 DEF WriteFails, Return, IInv
  <2>2. \A j \in Indexers \ {i} : ipc'[j] = ipc[j] /\ words'[j] = words[j] /\ answer'[j] = answer[j]
    BY <1>12, <2>1 DEF WriteFails, Return, NextWord, CallTypes
  <2>3. ipc'[i] \in {"idle", "request"} => answer'[i] = <<>>
    BY <1>12, <2>1 DEF WriteFails, Return, NextWord, CallTypes
  <2>4. AwaitInv'
    <3>1. AwaitInv
      BY <2>1, RequestParts
    <3> QED
      BY <2>2, <2>3, <3>1 DEF AwaitInv
  <2>5. ipc[i] = "write"
    BY <1>12, <2>1 DEF WriteFails, Return, CallTypes
  <2> QED
    BY <2>1, <2>2, <2>4, <2>5, RequestsStay
<1>13. ASSUME NEW i \in Indexers, NEW d \in Docs, Call(i, d) PROVE RequestInv'
  <2>1. AllocTypes /\ CallTypes /\ RequestInv /\ UNCHANGED <<chan, allocVars>> /\ dropped \subseteq dropped'
    BY <1>13 DEF Call, Return, IInv
  <2>2. \A j \in Indexers \ {i} : ipc'[j] = ipc[j] /\ words'[j] = words[j] /\ answer'[j] = answer[j]
    BY <1>13, <2>1 DEF Call, Return, NextWord, CallTypes
  <2>3. ipc'[i] \in {"idle", "request"} => answer'[i] = <<>>
    BY <1>13, <2>1, RequestParts DEF Call, AwaitInv
  <2>4. AwaitInv'
    <3>1. AwaitInv
      BY <2>1, RequestParts
    <3> QED
      BY <2>2, <2>3, <3>1 DEF AwaitInv
  <2>5. ipc[i] = "idle"
    BY <1>13, <2>1 DEF Call, Return, CallTypes
  <2> QED
    BY <2>1, <2>2, <2>4, <2>5, RequestsStay
<1>14. CASE Cancel
  <2>1. RequestInv /\ UNCHANGED <<chan, apc, areq, callVars, answer, dropped>>
    BY <1>14 DEF Cancel, IInv, allocVars
  <2> QED
    BY <2>1 DEF RequestInv, Expected, callVars
<1>15. CASE UpdateIndexC
  <2>1. RequestInv /\ UNCHANGED <<chan, apc, areq, callVars, answer, dropped>>
    BY <1>15 DEF UpdateIndexC, IInv, allocVars
  <2> QED
    BY <2>1 DEF RequestInv, Expected, callVars
<1>16. ASSUME NEW log \in Kept, Restart(log) PROVE RequestInv'
  <2>1. chan' = NoRequest /\ apc' = AllocIdle /\ answer' = Nothing
    BY <1>16 DEF Restart
  <2>2. \A s \in Shards : chan'[s] = <<>> /\ apc'[s] \notin Busy
    BY <2>1 DEF NoRequest, AllocIdle, Busy
  <2>3. \A i \in Indexers : answer'[i] = <<>>
    BY <2>1 DEF Nothing
  <2>4. DOMAIN <<>> = {}
    OBVIOUS
  <2> QED
    BY <2>2, <2>3, <2>4, Zenon DEF RequestInv
<1>17. CASE UNCHANGED vars
  <2>1. RequestInv /\ UNCHANGED <<chan, apc, areq, callVars, answer, dropped>>
    BY <1>17 DEF vars, IInv, allocVars
  <2> QED
    BY <2>1 DEF RequestInv, Expected, callVars
<1> QED
  BY <1>1, <1>2, <1>3, <1>4, <1>5, <1>6, <1>7, <1>8, <1>9, <1>10, <1>11, <1>12, <1>13,
     <1>14, <1>15, <1>16, <1>17 DEF Next, AllocStep, CallStep, Exit, Crash

-----------------------------------------------------------------------------
(* Tri-grams of the new words                                              *)

\* the tri-grams of a new word are written, or under way, or dropped
Cared(p) ==
    \/ \A g \in Range(extractTGrams(p[1])) : encNGData(p[2], g) \in files
    \/ BeingWritten(p[1], p[2])
    \/ p[1] \in dropped

\* indexer i sees to them
SeenTo(i, w, n) ==
    /\ ipc[i] \in {"await", "write"} /\ Head(words[i]) = w
    /\ answer[i] = <<[id |-> n, loaded |-> FALSE]>>

\* nobody who sees to a word is disturbed, but for one who has finished or drops it
LEMMA StillCared ==
    ASSUME TrigramsComplete, files \subseteq files', dropped \subseteq dropped',
           \A i \in Indexers : \A w, n : SeenTo(i, w, n) =>
             \/ SeenTo(i, w, n)'
             \/ \A g \in Range(extractTGrams(w)) : encNGData(n, g) \in files'
             \/ w \in dropped'
    PROVE  \A p \in fresh : Cared(p)'
<1> TAKE p \in fresh
<1>1. Cared(p)
  BY DEF TrigramsComplete, Cared
<1>2. CASE \A g \in Range(extractTGrams(p[1])) : encNGData(p[2], g) \in files
  BY <1>2 DEF Cared
<1>3. CASE BeingWritten(p[1], p[2])
  <2>1. PICK i \in Indexers : SeenTo(i, p[1], p[2])
    BY <1>3 DEF BeingWritten, SeenTo
  <2>2. SeenTo(i, p[1], p[2])' => BeingWritten(p[1], p[2])'
    BY DEF BeingWritten, SeenTo
  <2> QED
    BY <2>1, <2>2 DEF Cared
<1>4. CASE p[1] \in dropped
  BY <1>4 DEF Cared
<1> QED
  BY <1>1, <1>2, <1>3, <1>4 DEF Cared

\* no word is new
LEMMA CaredKept ==
    ASSUME TrigramsComplete, files \subseteq files', dropped \subseteq dropped', fresh' = fresh,
           \A i \in Indexers : \A w, n : SeenTo(i, w, n) =>
             \/ SeenTo(i, w, n)'
             \/ \A g \in Range(extractTGrams(w)) : encNGData(n, g) \in files'
             \/ w \in dropped'
    PROVE  TrigramsComplete'
<1>1. \A p \in fresh : Cared(p)'
  BY StillCared
<1> QED
  BY <1>1 DEF TrigramsComplete, Cared

\* no indexer moves
LEMMA CaredStay ==
    ASSUME TrigramsComplete, UNCHANGED <<ipc, words, answer, files, dropped, fresh>>
    PROVE  TrigramsComplete'
<1>1. \A i \in Indexers : \A w, n : SeenTo(i, w, n) => SeenTo(i, w, n)'
  BY DEF SeenTo
<1> QED
  BY <1>1, CaredKept

\* one indexer moves, having finished the word it saw to
LEMMA CaredDone ==
    ASSUME TrigramsComplete, NEW i \in Indexers, files \subseteq files', dropped \subseteq dropped',
           fresh' = fresh,
           \A j \in Indexers \ {i} : ipc'[j] = ipc[j] /\ words'[j] = words[j] /\ answer'[j] = answer[j],
           \A w, n : SeenTo(i, w, n) =>
             \/ SeenTo(i, w, n)'
             \/ \A g \in Range(extractTGrams(w)) : encNGData(n, g) \in files'
             \/ w \in dropped'
    PROVE  TrigramsComplete'
<1>1. \A j \in Indexers \ {i} : \A w, n : SeenTo(j, w, n) => SeenTo(j, w, n)'
  BY DEF SeenTo
<1> QED
  BY <1>1, CaredKept

\* a reply reaches nobody who sees to another word
LEMMA ReplyDisturbsNobody ==
    ASSUME AllocTypes, CallTypes, RequestInv, NEW s \in Shards, apc[s] \in Busy,
           NEW a, answer' = [answer EXCEPT ![areq[s].from] = a], UNCHANGED <<ipc, words>>,
           NEW i \in Indexers, NEW w, NEW n, SeenTo(i, w, n)
    PROVE  SeenTo(i, w, n)'
<1>1. Expected(s, areq[s]) /\ answer[i] # <<>> /\ ipc[i] \in {"await", "write"}
  BY DEF RequestInv, SeenTo
<1>2. i # areq[s].from
  BY <1>1 DEF Expected
<1>3. answer'[i] = answer[i]
  BY <1>2 DEF CallTypes
<1> QED
  BY <1>3 DEF SeenTo

\* The tri-grams of a new word are written, or being written, or their call
\* gave up.
LEMMA CompleteStep ==
    ASSUME IInv, [Next]_vars
    PROVE  TrigramsComplete'
<1>1. ASSUME NEW s \in Shards, AllocTake(s) PROVE TrigramsComplete'
  <2>1. TrigramsComplete /\ UNCHANGED <<ipc, words, answer, files, dropped, fresh>>
    BY <1>1 DEF AllocTake, IInv, callVars
  <2> QED
    BY <2>1, CaredStay
<1>2. ASSUME NEW s \in Shards, AllocFind(s) PROVE TrigramsComplete'
  <2>1. /\ AllocTypes /\ CallTypes /\ RequestInv /\ TrigramsComplete /\ apc[s] \in Busy
        /\ UNCHANGED <<ipc, words, files, dropped, fresh>>
    BY <1>2 DEF AllocFind, IInv, Busy, callVars
  <2>2. PICK a : answer' = [answer EXCEPT ![areq[s].from] = a]
    BY <1>2 DEF AllocFind, Reply
  <2>3. \A i \in Indexers : \A w, n : SeenTo(i, w, n) => SeenTo(i, w, n)'
    BY <2>1, <2>2, ReplyDisturbsNobody
  <2> QED
    BY <2>1, <2>3, CaredKept
<1>3. ASSUME NEW s \in Shards, AllocAdd(s) PROVE TrigramsComplete'
  <2>1. TrigramsComplete /\ UNCHANGED <<ipc, words, answer, files, dropped, fresh>>
    BY <1>3 DEF AllocAdd, IInv, callVars
  <2> QED
    BY <2>1, CaredStay
<1>4. ASSUME NEW s \in Shards, AllocSetWord(s) PROVE TrigramsComplete'
  <2>1. TrigramsComplete /\ UNCHANGED <<ipc, words, answer, files, dropped, fresh>>
    BY <1>4 DEF AllocSetWord, IInv, callVars
  <2> QED
    BY <2>1, CaredStay
<1>5. ASSUME NEW s \in Shards, AllocSetSeq(s) PROVE TrigramsComplete'
  <2>1. /\ AllocTypes /\ CallTypes /\ RequestInv /\ TrigramsComplete /\ apc[s] \in Busy
        /\ UNCHANGED <<ipc, words, files, dropped>>
    BY <1>5 DEF AllocSetSeq, IInv, Busy, callVars
  <2>2. PICK i, w, n : i = areq[s].from /\ w = areq[s].word /\ n = areq[s].id
    OBVIOUS
  <2>3. answer' = [answer EXCEPT ![i] = <<[id |-> n, loaded |-> FALSE]>>] /\ fresh' = fresh \cup {<<w, n>>}
    BY <1>5, <2>2 DEF AllocSetSeq, Reply
  <2>4. \A j \in Indexers : \A v, m : SeenTo(j, v, m) => SeenTo(j, v, m)'
    BY <2>1, <2>2, <2>3, ReplyDisturbsNobody
  <2>5. \A p \in fresh : Cared(p)'
    BY <2>1, <2>4, StillCared
  <2>6. i \in Indexers /\ Expected(s, areq[s])
    BY <2>1, <2>2, RequestKnown DEF RequestInv
  <2>7. answer'[i] = <<[id |-> n, loaded |-> FALSE]>>
    BY <2>1, <2>3, <2>6 DEF CallTypes
  <2>8. w \in dropped' \/ BeingWritten(w, n)'
    <3>1. CASE ipc[i] = "gone"
      BY <2>1, <2>2, <2>6, <3>1 DEF Expected
    <3>2. CASE ipc[i] = "await" /\ Head(words[i]) = w
      BY <2>1, <2>6, <2>7, <3>2 DEF BeingWritten
    <3> QED
      BY <2>2, <2>6, <3>1, <3>2 DEF Expected
  <2>9. ASSUME NEW p \in fresh', p = <<w, n>> PROVE Cared(p)'
    <3>1. p[1] = w /\ p[2] = n
      BY <2>9
    <3> QED
      BY <2>8, <3>1 DEF Cared
  <2> QED
    BY <2>3, <2>5, <2>9 DEF TrigramsComplete, Cared
<1>6. ASSUME NEW s \in Shards, AllocFails(s) PROVE TrigramsComplete'
  <2>1. TrigramsComplete /\ UNCHANGED <<ipc, words, answer, files, dropped, fresh>>
    BY <1>6 DEF AllocFails, IInv, callVars
  <2> QED
    BY <2>1, CaredStay
<1>7. ASSUME NEW i \in Indexers, Request(i) PROVE TrigramsComplete'
  <2>1. /\ CallTypes /\ GramsOf(i) /\ TrigramsComplete /\ files \subseteq files' /\ dropped \subseteq dropped'
        /\ fresh' = fresh
    BY <1>7 DEF Request, Return, IInv, GramsInv
  <2>2. \A j \in Indexers \ {i} : ipc'[j] = ipc[j] /\ words'[j] = words[j] /\ answer'[j] = answer[j]
    BY <1>7, <2>1 DEF Request, Return, NextWord, CallTypes
  <2>3. ASSUME NEW w, NEW n, SeenTo(i, w, n)
        PROVE  \/ SeenTo(i, w, n)'
               \/ \A g \in Range(extractTGrams(w)) : encNGData(n, g) \in files'
               \/ w \in dropped'
    BY <1>7, <2>3 DEF Request, SeenTo
  <2> QED
    BY <2>1, <2>2, <2>3, CaredDone
<1>8. ASSUME NEW i \in Indexers, RequestOnClosed(i) PROVE TrigramsComplete'
  <2>1. TrigramsComplete /\ UNCHANGED <<ipc, words, answer, files, dropped, fresh>>
    BY <1>8 DEF RequestOnClosed, IInv, callVars
  <2> QED
    BY <2>1, CaredStay
<1>9. ASSUME NEW i \in Indexers, CallCancelled(i) PROVE TrigramsComplete'
  <2>1. /\ CallTypes /\ GramsOf(i) /\ TrigramsComplete /\ files \subseteq files' /\ dropped \subseteq dropped'
        /\ fresh' = fresh
    BY <1>9 DEF CallCancelled, Return, IInv, GramsInv
  <2>2. \A j \in Indexers \ {i} : ipc'[j] = ipc[j] /\ words'[j] = words[j] /\ answer'[j] = answer[j]
    BY <1>9, <2>1 DEF CallCancelled, Return, NextWord, CallTypes
  <2>3. ASSUME NEW w, NEW n, SeenTo(i, w, n)
        PROVE  \/ SeenTo(i, w, n)'
               \/ \A g \in Range(extractTGrams(w)) : encNGData(n, g) \in files'
               \/ w \in dropped'
    BY <1>9, <2>3 DEF CallCancelled, Return, SeenTo
  <2> QED
    BY <2>1, <2>2, <2>3, CaredDone
<1>10. ASSUME NEW i \in Indexers, Receive(i) PROVE TrigramsComplete'
  <2>1. /\ CallTypes /\ GramsOf(i) /\ TrigramsComplete /\ files \subseteq files' /\ dropped \subseteq dropped'
        /\ fresh' = fresh
    BY <1>10 DEF Receive, Return, IInv, GramsInv
  <2>2. \A j \in Indexers \ {i} : ipc'[j] = ipc[j] /\ words'[j] = words[j] /\ answer'[j] = answer[j]
    BY <1>10, <2>1 DEF Receive, Return, NextWord, CallTypes
  <2>3. ASSUME NEW w, NEW n, SeenTo(i, w, n)
        PROVE  \/ SeenTo(i, w, n)'
               \/ \A g \in Range(extractTGrams(w)) : encNGData(n, g) \in files'
               \/ w \in dropped'
    <3>1. ~answer[i][1].loaded /\ Head(words[i]) = w
      BY <2>3 DEF SeenTo
    <3>2. CASE extractTGrams(w) = <<>>
      <4>1. Range(extractTGrams(w)) = {}
        BY <3>2 DEF Range
      <4> QED
        BY <4>1
    <3>3. CASE extractTGrams(w) # <<>>
      <4>1. ipc' = [ipc EXCEPT ![i] = "write"] /\ UNCHANGED <<words, answer>>
        BY <1>10, <3>1, <3>3 DEF Receive
      <4>2. ipc'[i] = "write" /\ words'[i] = words[i] /\ answer'[i] = answer[i]
        BY <2>1, <4>1 DEF CallTypes
      <4> QED
        BY <2>3, <4>2 DEF SeenTo
    <3> QED
      BY <3>2, <3>3
  <2> QED
    BY <2>1, <2>2, <2>3, CaredDone
<1>11. ASSUME NEW i \in Indexers, WriteGram(i) PROVE TrigramsComplete'
  <2>1. /\ CallTypes /\ GramsOf(i) /\ TrigramsComplete /\ files \subseteq files' /\ dropped \subseteq dropped'
        /\ fresh' = fresh
    BY <1>11 DEF WriteGram, Return, IInv, GramsInv
  <2>2. \A j \in Indexers \ {i} : ipc'[j] = ipc[j] /\ words'[j] = words[j] /\ answer'[j] = answer[j]
    BY <1>11, <2>1 DEF WriteGram, Return, NextWord, CallTypes
  <2>3. ASSUME NEW w, NEW n, SeenTo(i, w, n)
        PROVE  \/ SeenTo(i, w, n)'
               \/ \A g \in Range(extractTGrams(w)) : encNGData(n, g) \in files'
               \/ w \in dropped'
    <3>1. ipc[i] = "write" /\ Head(words[i]) = w /\ answer[i][1].id = n
      BY <1>11, <2>3 DEF WriteGram, SeenTo
    <3>2. CASE Len(grams[i]) # 1
      BY <1>11, <2>3, <3>2 DEF WriteGram, SeenTo
    <3>3. CASE Len(grams[i]) = 1
      <4>1. PICK S : grams[i] \in Seq(S) /\ grams[i] # <<>>
        BY <2>1, <3>1 DEF GramsOf
      <4>2. \A g \in Range(grams[i]) : g = Head(grams[i])
        <5>1. Len(Tail(grams[i])) = 0 /\ Tail(grams[i]) \in Seq(S)
          BY <3>3, <4>1, HeadOrTail
        <5>2. Tail(grams[i]) = <<>>
          BY <5>1, EmptySeq
        <5>3. Range(Tail(grams[i])) = {}
          BY <5>2 DEF Range
        <5> QED
          BY <4>1, <5>3, HeadOrTail
      <4>3. encNGData(n, Head(grams[i])) \in files'
        BY <1>11, <3>1 DEF WriteGram
      <4>4. \A g \in Range(extractTGrams(w)) : encNGData(n, g) \in files'
        <5> TAKE g \in Range(extractTGrams(w))
        <5>1. g \in Range(grams[i]) \/ encNGData(n, g) \in files
          BY <2>1, <3>1 DEF GramsOf
        <5> QED
          BY <2>1, <4>2, <4>3, <5>1
      <4> QED
        BY <4>4
    <3> QED
      BY <3>2, <3>3
  <2> QED
    BY <2>1, <2>2, <2>3, CaredDone
<1>12. ASSUME NEW i \in Indexers, WriteFails(i) PROVE TrigramsComplete'
  <2>1. /\ CallTypes /\ GramsOf(i) /\ TrigramsComplete /\ files \subseteq files' /\ dropped \subseteq dropped'
        /\ fresh' = fresh
    BY <1>12 DEF WriteFails, Return, IInv, GramsInv
  <2>2. \A j \in Indexers \ {i} : ipc'[j] = ipc[j] /\ words'[j] = words[j] /\ answer'[j] = answer[j]
    BY <1>12, <2>1 DEF WriteFails, Return, NextWord, CallTypes
  <2>3. ASSUME NEW w, NEW n, SeenTo(i, w, n)
        PROVE  \/ SeenTo(i, w, n)'
               \/ \A g \in Range(extractTGrams(w)) : encNGData(n, g) \in files'
               \/ w \in dropped'
    BY <1>12, <2>3 DEF WriteFails, Return, SeenTo
  <2> QED
    BY <2>1, <2>2, <2>3, CaredDone
<1>13. ASSUME NEW i \in Indexers, NEW d \in Docs, Call(i, d) PROVE TrigramsComplete'
  <2>1. /\ CallTypes /\ GramsOf(i) /\ TrigramsComplete /\ files \subseteq files' /\ dropped \subseteq dropped'
        /\ fresh' = fresh
    BY <1>13 DEF Call, Return, IInv, GramsInv
  <2>2. \A j \in Indexers \ {i} : ipc'[j] = ipc[j] /\ words'[j] = words[j] /\ answer'[j] = answer[j]
    BY <1>13, <2>1 DEF Call, Return, NextWord, CallTypes
  <2>3. ASSUME NEW w, NEW n, SeenTo(i, w, n)
        PROVE  \/ SeenTo(i, w, n)'
               \/ \A g \in Range(extractTGrams(w)) : encNGData(n, g) \in files'
               \/ w \in dropped'
    BY <1>13, <2>3 DEF Call, SeenTo
  <2> QED
    BY <2>1, <2>2, <2>3, CaredDone
<1>14. CASE Cancel
  <2>1. TrigramsComplete /\ UNCHANGED <<ipc, words, answer, files, dropped, fresh>>
    BY <1>14 DEF Cancel, IInv, callVars
  <2> QED
    BY <2>1, CaredStay
<1>15. CASE UpdateIndexC
  <2>1. TrigramsComplete /\ UNCHANGED <<ipc, words, answer, files, dropped, fresh>>
    BY <1>15 DEF UpdateIndexC, IInv, callVars
  <2> QED
    BY <2>1, CaredStay
<1>16. ASSUME NEW log \in Kept, Restart(log) PROVE TrigramsComplete'
  <2>1. fresh' = {}
    BY <1>16 DEF Restart
  <2> QED
    BY <2>1 DEF TrigramsComplete
<1>17. CASE UNCHANGED vars
  <2>1. TrigramsComplete /\ UNCHANGED <<ipc, words, answer, files, dropped, fresh>>
    BY <1>17 DEF vars, IInv, callVars
  <2> QED
    BY <2>1, CaredStay
<1> QED
  BY <1>1, <1>2, <1>3, <1>4, <1>5, <1>6, <1>7, <1>8, <1>9, <1>10, <1>11, <1>12, <1>13,
     <1>14, <1>15, <1>16, <1>17 DEF Next, AllocStep, CallStep, Exit, Crash

-----------------------------------------------------------------------------
(* The theorems                                                            *)

\* The first process starts on an empty store.
LEMMA InitIInv == Init => IInv
<1> SUFFICES ASSUME Init PROVE IInv
  OBVIOUS
<1>1. ProcTypes
  BY DEF Init, ProcTypes
<1>2. /\ \A s \in Shards : NoRequest[s] = <<>> /\ AllocIdle[s] = "wait"
      /\ \A i \in Indexers : Nothing[i] = <<>> /\ CallsIdle[i] = "idle"
  BY DEF NoRequest, AllocIdle, Nothing, CallsIdle
<1>3. <<>> \in Seq(Requests) /\ <<>> \in Seq(CacheType) /\ Len(<<>>) = 0 /\ DOMAIN <<>> = {}
  OBVIOUS
<1>4. AllocTypes
  <2>1. /\ NoRequest \in [Shards -> Seq(Requests)] /\ NoRequest \in [Shards -> Seq(CacheType)]
        /\ NoRequest \in [Shards -> {<<>>} \cup Requests]
    BY <1>3 DEF NoRequest
  <2>2. AllocIdle \in [Shards -> {"wait", "look", "setWord", "setSeq", "closed"}]
    BY DEF AllocIdle
  <2>3. \A s \in Shards : Len(NoRequest[s]) <= WorkersCount
    BY <1>2, <1>3, Constants
  <2>4. \A s \in Shards : AllocIdle[s] \notin Busy
    BY <1>2 DEF Busy
  <2> QED
    BY <2>1, <2>2, <2>3, <2>4 DEF Init, AllocTypes
<1>5. CallTypes
  <2>1. Nothing \in [Indexers -> Seq(Words)] /\ Nothing \in [Indexers -> Seq(Answers)] /\ DOMAIN Nothing = Indexers
    BY Empty DEF Nothing
  <2>2. CallsIdle \in [Indexers -> {"idle", "request", "await", "write", "gone"}]
    BY DEF CallsIdle
  <2>3. \A i \in Indexers : Len(Nothing[i]) <= 1
    BY <1>2, Empty
  <2> QED
    BY <1>2, <2>1, <2>2, <2>3 DEF Init, CallTypes
<1>6. StoreTypes
  BY DEF Init, StoreTypes
<1>7. SetTypes
  BY DEF Init, SetTypes
<1>8. GramsInv
  BY <1>2 DEF Init, GramsInv, GramsOf
<1>9. IdInv
  <2>1. \A s \in Shards : apc[s] \notin Adding
    BY <1>2 DEF Init, Adding
  <2> QED
    BY <2>1 DEF Init, IdInv
<1>10. ResolveInv
  BY DEF Init, ResolveInv
<1>11. RequestInv
  <2>1. \A s \in Shards : chan[s] = <<>> /\ apc[s] \notin Busy
    BY <1>2 DEF Init, Busy
  <2>2. \A i \in Indexers : answer[i] = <<>>
    BY <1>2 DEF Init
  <2> QED
    BY <1>3, <2>1, <2>2, Zenon DEF RequestInv
<1>12. TrigramsComplete
  BY DEF Init, TrigramsComplete
<1> QED
  BY <1>1, <1>4, <1>5, <1>6, <1>7, <1>8, <1>9, <1>10, <1>11, <1>12 DEF IInv

\* The inductive invariant of the index holds in every reachable state: each part is
\* preserved by every step of allocators, indexers, interrupt, crash and restart.
THEOREM Invariance == Spec => []IInv
<1>1. IInv /\ [Next]_vars => IInv'
  <2> SUFFICES ASSUME IInv, [Next]_vars PROVE IInv'
    OBVIOUS
  <2>1. ProcTypes' /\ AllocTypes' /\ CallTypes' /\ StoreTypes' /\ SetTypes'
    BY ProcTypesStep, AllocTypesStep, CallTypesStep, StoreTypesStep, SetTypesStep
  <2>2. GramsInv' /\ IdInv' /\ ResolveInv' /\ RequestInv' /\ TrigramsComplete'
    BY GramsInvStep, IdInvStep, ResolveInvStep, RequestInvStep, CompleteStep
  <2> QED
    BY <2>1, <2>2 DEF IInv
<1> QED
  BY <1>1, InitIInv, PTL DEF Spec

\* Channels and caches keep within their capacity, answers carry a positive id, entries are
\* of tri-grams of words, and what an earlier process left is a prefix of the log
\* (indexRepos.go, nGramRepo.go).
THEOREM TypeCorrect == Spec => []TypeOK
<1>1. IInv => TypeOK
  <2> SUFFICES ASSUME IInv PROVE TypeOK
    OBVIOUS
  <2>1. counter \in Nat /\ {cancelled, saved, panicked} \subseteq BOOLEAN
    BY DEF IInv, ProcTypes
  <2>2. \A s \in Shards :
          /\ chan[s] \in Seq(Requests) /\ Len(chan[s]) <= WorkersCount
          /\ apc[s] \in {"wait", "look", "setWord", "setSeq", "closed"}
          /\ areq[s] = <<>> \/ areq[s] \in Requests
          /\ Len(cache[s]) <= WorkersCount
    <3> HIDE DEF Requests
    <3> QED
      BY DEF IInv, AllocTypes
  <2>3. \A i \in Indexers :
          /\ ipc[i] \in {"idle", "request", "await", "write", "gone"}
          /\ words[i] \in Seq(Words)
    BY DEF IInv, CallTypes
  <2>4. \A i \in Indexers : answer[i] = <<>> \/ answer[i][1] \in Answers
    BY Answered DEF IInv
  <2>5. \A i \in Indexers : grams[i] # <<>> <=> ipc[i] = "write"
    BY DEF IInv, GramsInv, GramsOf
  <2>6. fresh \subseteq (Words \X (Nat \ {0}))
    <3>1. \A p \in fresh : p \in Words \X Nat /\ p[2] \in 1 .. counter
      BY DEF IInv, SetTypes, IdInv
    <3>2. \A n \in 1 .. counter : n \in Nat \ {0}
      BY <2>1
    <3> QED
      BY <3>1, <3>2
  <2>7. base \in 0 .. Len(wal) /\ files \subseteq Entries /\ dropped \subseteq Words
    BY DEF IInv, StoreTypes, SetTypes
  <2> QED
    BY <2>1, <2>2, <2>3, <2>4, <2>5, <2>6, <2>7 DEF TypeOK
<1> QED
  BY <1>1, Invariance, PTL

\* The ids that one process gives to new words are distinct, and each leads back to its
\* word (alloc, indexRepos.go:302).
THEOREM IdsResolve == Spec => []FreshIdsResolve
<1>1. IInv => FreshIdsResolve
  <2> SUFFICES ASSUME IInv PROVE FreshIdsResolve
    OBVIOUS
  <2>1. \A p, q \in fresh : p[2] = q[2] => p = q
    BY DEF IInv, IdInv
  <2>2. \A p \in fresh : Has(seqKey(p[2])) /\ Find(seqKey(p[2])) = p[1]
    <3>1. wal \in Seq(WriteType) /\ \A p \in fresh : LastWrite(wal, seqKey(p[2]), p[1])
      BY DEF IInv, StoreTypes, ResolveInv
    <3> QED
      BY <3>1, FindIs DEF Has, Find
  <2> QED
    BY <2>1, <2>2 DEF FreshIdsResolve
<1> QED
  BY <1>1, Invariance, PTL

\* Whoever asks for a new word at the same time, its tri-grams are all written, or being
\* written, or the call that had to write them has returned early (IndexTriGrams,
\* nGramRepo.go:59).
THEOREM TrigramsWritten == Spec => []TrigramsComplete
<1>1. IInv => TrigramsComplete
  BY DEF IInv
<1> QED
  BY <1>1, Invariance, PTL
=============================================================================
