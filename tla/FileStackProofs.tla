---------------------------- MODULE FileStackProofs ----------------------------
(***************************************************************************)
(* Proofs about the on-disk stack, for any records, any header width and   *)
(* any limit.  The types hold whoever takes the mutex; the bound of the    *)
(* file, its framing and the refinement of RecordStack are proved for      *)
(* callers that all take it (Unlocked = {}).                               *)
(***************************************************************************)
EXTENDS FileStack, Induction, SequenceTheorems, TLAPS

Lengths == 0 .. HeaderMod - 1

Bytes == {Zero} \cup ({"data"} \X Records \X Nat) \cup ({"lo", "hi"} \X Lengths)

\* where Pop stands, once it has read a length that lies within the file
Reading == {"seekData", "readData", "truncate"}

FileTypes ==
    /\ file \in Seq(Bytes) /\ pos \in Nat
    /\ popv \in [size : Nat, length : Lengths, buf : Seq(Bytes)]
    /\ pc[Popper] \in Reading => DataOffset \in Nat

PcTypes ==
    /\ DOMAIN pc = Pushers \cup {Popper} /\ DOMAIN arg = Pushers
    /\ pc = [p \in Pushers \cup {Popper} |-> pc[p]] /\ arg = [p \in Pushers |-> arg[p]]
    /\ \A p \in Pushers : /\ pc[p] \in {"idle", "seek", "write"}
                          /\ pc[p] # "idle" => arg[p] \in Records \ todo
    /\ pc[Popper] \in {"idle", "seekHeader", "readHeader"} \cup Reading

MuInv == \A p \in Lockers \cup {Popper} : mu = p <=> pc[p] # "idle"

SetTypes ==
    /\ todo \subseteq Records /\ written \subseteq Records /\ returned \subseteq Records
    /\ todo \cap written = {}

TypeInv == FileTypes /\ PcTypes /\ MuInv /\ SetTypes

-----------------------------------------------------------------------------
(* While everybody takes the mutex                                         *)

\* a header that tells l ends at b
HeaderAt(f, b, l) == f[b - 1] = Header(l)[1] /\ f[b] = Header(l)[2]

\* the file is cut into frames, each with its header at its end
Framed(f) ==
    \E B \in SUBSET (0 .. Len(f)) :
        /\ 0 \in B /\ Len(f) \in B
        /\ \A b \in B \ {0} : \E l \in Lengths : b - headerOffset - l \in B /\ HeaderAt(f, b, l)

\* a pusher about to write stands at the end of a file within the limit
PushInv ==
    \A p \in Pushers : pc[p] = "write" =>
        pos = Len(file) /\ Len(file) <= MOffset /\ SliceFits(arg[p])

\* what Pop has found out of the last frame
PopInv ==
    /\ pc[Popper] # "idle" => popv.size = Len(file) /\ Len(file) >= headerOffset
    /\ pc[Popper] = "readHeader" => pos = Len(file) - headerOffset
    /\ pc[Popper] \in Reading => HeaderAt(file, Len(file), popv.length)
    /\ pc[Popper] = "readData" => pos = DataOffset
    /\ pc[Popper] = "truncate" => popv.buf = SubSeq(file, DataOffset + 1, Len(file) - headerOffset)

\* every record that was written and not returned is in the file
Surviving == \A r \in written \ returned : Kept(r) \in ToSet(Parsed(file))

LockedInv == Framed(file) /\ SizeBounded /\ PushInv /\ PopInv /\ Surviving

-----------------------------------------------------------------------------
(* Bytes, records and headers                                              *)

\* a header can tell at least three lengths
LEMMA Constants ==
    /\ HeaderMod \in Nat /\ HeaderMod > 2 /\ MOffset \in Nat /\ headerOffset = 2
    /\ Length \in [Records -> Nat \ {0}] /\ Popper \notin Pushers
    /\ 0 \in Lengths /\ Lengths \subseteq Nat
<1>1. HeaderMod \in Nat /\ HeaderMod > 2 /\ MOffset \in Nat
  BY StackAssumption
<1>2. 0 \in Lengths /\ Lengths \subseteq Nat
  BY <1>1 DEF Lengths
<1>3. Length \in [Records -> Nat \ {0}] /\ Popper \notin Pushers
  BY StackAssumption DEF Pushers
<1> QED
  BY <1>1, <1>2, <1>3 DEF headerOffset

\* the two bytes of a header
LEMMA HeaderFacts ==
    ASSUME NEW l \in Lengths
    PROVE  /\ Header(l) \in Seq(Bytes) /\ Len(Header(l)) = 2
           /\ Header(l)[1] = <<"lo", l>> /\ Header(l)[2] = <<"hi", l>>
           /\ <<"lo", l>> \in Bytes /\ <<"hi", l>> \in Bytes
<1>1. <<"lo", l>> \in Bytes /\ <<"hi", l>> \in Bytes
  BY DEF Bytes
<1> DEFINE lo == <<"lo", l>>
           hi == <<"hi", l>>
<1>2. Header(l) = <<lo, hi>>
  BY DEF Header
<1> HIDE DEF lo, hi
<1>3. Header(l)[1] = lo /\ Header(l)[2] = hi /\ Len(Header(l)) = 2
  BY <1>2
<1>4. lo \in Bytes /\ hi \in Bytes
  BY <1>1 DEF lo, hi
<1>5. <<lo, hi>> \in Seq(Bytes)
  <2> HIDE DEF Bytes
  <2> QED
    BY <1>4
<1> QED
  BY <1>1, <1>2, <1>3, <1>5 DEF lo, hi

\* a header is read as the length it tells
LEMMA DecodeHeader ==
    ASSUME NEW f, NEW b, NEW l, HeaderAt(f, b, l)
    PROVE  Decode(f[b - 1], f[b]) = {l}
<1>1. f[b - 1] = <<"lo", l>> /\ f[b] = <<"hi", l>>
  BY DEF HeaderAt, Header
<1> QED
  BY <1>1 DEF Decode

\* what is read is a length, whatever the bytes are
LEMMA DecodeTypes ==
    ASSUME NEW lo \in Bytes, NEW hi \in Bytes
    PROVE  Decode(lo, hi) \subseteq Lengths /\ Decode(lo, hi) # {}
<1>1. CASE lo[1] = "lo" /\ hi[1] = "hi" /\ lo[2] = hi[2]
  <2>1. lo \in {"lo", "hi"} \X Lengths
    <3>1. CASE lo = Zero
      BY <1>1, <3>1 DEF Zero
    <3>2. CASE lo \in {"data"} \X Records \X Nat
      BY <1>1, <3>2
    <3> QED
      BY <3>1, <3>2 DEF Bytes
  <2>2. lo[2] \in Lengths
    BY <2>1
  <2> QED
    BY <1>1, <2>2 DEF Decode
<1>2. CASE ~(lo[1] = "lo" /\ hi[1] = "hi" /\ lo[2] = hi[2])
  <2>1. Decode(lo, hi) \in {{0}, 0 .. HeaderMod - 1}
    BY <1>2 DEF Decode
  <2> QED
    BY <2>1, Constants DEF Lengths
<1> QED
  BY <1>1, <1>2

\* the remainder is smaller than the modulus, and a sum that does not reach it is kept
LEMMA LengthFacts ==
    ASSUME NEW r \in Records
    PROVE  length16(r) \in Lengths /\ (SliceFits(r) => length16(r) + headerOffset <= HeaderMod - 1)
<1>1. Length[r] \in Nat /\ HeaderMod \in Nat /\ HeaderMod > 2
  BY Constants
<1>2. length16(r) \in Lengths
  BY <1>1 DEF length16, Lengths
<1> DEFINE l == length16(r)
<1>3. ASSUME SliceFits(r) PROVE l + 2 <= HeaderMod - 1
  <2>1. l \in 0 .. HeaderMod - 1 /\ l <= (2 + l) % HeaderMod
    BY <1>2, <1>3, Constants DEF SliceFits, Lengths
  <2> HIDE DEF l
  <2>2. SUFFICES ASSUME 2 + l >= HeaderMod PROVE FALSE
    BY <1>1, <2>1
  <2>3. (2 + l) % HeaderMod = 2 + l - HeaderMod
    <3>1. 2 + l - HeaderMod \in 0 .. HeaderMod - 1
      BY <1>1, <2>1, <2>2
    <3> DEFINE d == 2 + l - HeaderMod
    <3>2. 2 + l = HeaderMod + d /\ d \in 0 .. HeaderMod - 1
      BY <1>1, <2>1, <3>1
    <3> QED
      BY <1>1, <2>1, <3>1
  <2> QED
    BY <1>1, <2>1, <2>3
<1> QED
  BY <1>2, <1>3, Constants

\* a frame is the payload and its header
LEMMA FrameFacts ==
    ASSUME NEW r \in Records
    PROVE  /\ Kept(r) \in Seq(Bytes) /\ Len(Kept(r)) = length16(r)
           /\ toWrite(r) \in Seq(Bytes) /\ Len(toWrite(r)) = length16(r) + 2
           /\ \A i \in 1 .. length16(r) : toWrite(r)[i] = Kept(r)[i]
           /\ toWrite(r)[length16(r) + 1] = Header(length16(r))[1]
           /\ toWrite(r)[length16(r) + 2] = Header(length16(r))[2]
<1> DEFINE l == length16(r)
           h == Header(l)
<1>1. l \in Lengths /\ l \in Nat
  BY LengthFacts, Constants
<1>2. h \in Seq(Bytes) /\ Len(h) = 2
  BY <1>1, HeaderFacts
<1>3. Kept(r) \in Seq(Bytes) /\ Len(Kept(r)) = l
  <2>1. \A i \in 1 .. l : <<"data", r, i>> \in Bytes
    BY <1>1 DEF Bytes
  <2>2. Kept(r) \in [1 .. l -> Bytes]
    <3> HIDE DEF Bytes, l
    <3> QED
      BY <2>1 DEF Kept, l
  <2> HIDE DEF l
  <2> QED
    BY <1>1, <2>2
<1>4. toWrite(r) = Kept(r) \o h
  BY DEF toWrite
<1> DEFINE k == Kept(r)
<1> HIDE DEF l, h, k
<1>5. k \in Seq(Bytes) /\ Len(k) = l /\ toWrite(r) = k \o h
  BY <1>3, <1>4 DEF k
<1>6. /\ k \o h \in Seq(Bytes) /\ Len(k \o h) = l + 2
      /\ \A i \in 1 .. l : (k \o h)[i] = k[i]
      /\ (k \o h)[l + 1] = h[1] /\ (k \o h)[l + 2] = h[2]
  <2> HIDE DEF Bytes
  <2>1. /\ k \o h \in Seq(Bytes) /\ Len(k \o h) = Len(k) + Len(h)
        /\ \A i \in 1 .. Len(k) + Len(h) :
             (k \o h)[i] = IF i <= Len(k) THEN k[i] ELSE h[i - Len(k)]
    BY <1>2, <1>5, ConcatProperties
  <2>2. l + 1 \in 1 .. l + 2 /\ l + 2 \in 1 .. l + 2 /\ l + 1 - l = 1 /\ l + 2 - l = 2
    BY <1>1
  <2>3. (k \o h)[l + 1] = h[1] /\ (k \o h)[l + 2] = h[2]
    BY <1>1, <1>2, <1>5, <2>1, <2>2
  <2> QED
    BY <1>1, <1>2, <1>5, <2>1, <2>3
<1> QED
  BY <1>5, <1>6 DEF l, h, k

-----------------------------------------------------------------------------
(* The file                                                                *)

\* a gap is bytes
LEMMA ZerosFacts ==
    ASSUME NEW n \in Int
    PROVE  /\ Zeros(n) \in Seq(Bytes) /\ Len(Zeros(n)) = IF n > 0 THEN n ELSE 0
           /\ n <= 0 => Zeros(n) = <<>>
<1>1. Zero \in Bytes
  BY DEF Bytes
<1> DEFINE m == IF n > 0 THEN n ELSE 0
<1>2. 1 .. n = 1 .. m /\ m \in Nat
  OBVIOUS
<1>3. Zeros(n) = [i \in 1 .. m |-> Zero]
  BY <1>2 DEF Zeros
<1> HIDE DEF m
<1>4. Zeros(n) \in [1 .. m -> Bytes]
  BY <1>1, <1>3
<1>5. Zeros(n) \in Seq(Bytes) /\ Len(Zeros(n)) = m
  <2> HIDE DEF Bytes
  <2> QED
    BY <1>2, <1>4
<1>6. n <= 0 => Zeros(n) = <<>>
  <2> HAVE n <= 0
  <2>1. Len(Zeros(n)) = 0
    BY <1>5 DEF m
  <2> QED
    BY <1>5, <2>1, EmptySeq
<1> QED
  BY <1>5, <1>6 DEF m

\* cutting a file leaves its start
LEMMA TruncateFacts ==
    ASSUME NEW f \in Seq(Bytes), NEW n \in Nat
    PROVE  /\ Truncate(f, n) \in Seq(Bytes) /\ Len(Truncate(f, n)) = n
           /\ n <= Len(f) => Truncate(f, n) = SubSeq(f, 1, n)
<1>1. Len(f) \in Nat
  BY LenProperties
<1> DEFINE z == Zeros(n - Len(f))
           g == f \o z
<1>2. /\ z \in Seq(Bytes)
      /\ Len(z) = (IF n - Len(f) > 0 THEN n - Len(f) ELSE 0)
      /\ (n <= Len(f) => z = <<>>)
  BY <1>1, ZerosFacts
<1> HIDE DEF z, Bytes
<1>3. g \in Seq(Bytes) /\ Len(g) = Len(f) + Len(z)
  BY <1>2, ConcatProperties
<1>4. n <= Len(g)
  BY <1>1, <1>2, <1>3
<1>5. n <= Len(f) => g = f
  BY <1>2
<1>6. Truncate(f, n) = SubSeq(g, 1, n)
  BY DEF Truncate, z
<1> HIDE DEF g
<1> QED
  BY <1>3, <1>4, <1>5, <1>6

\* a write leaves a file, and at the end appends
LEMMA WriteFacts ==
    ASSUME NEW f \in Seq(Bytes), NEW at \in Nat, NEW bs \in Seq(Bytes)
    PROVE  WriteAt(f, at, bs) \in Seq(Bytes) /\ (at = Len(f) => WriteAt(f, at, bs) = f \o bs)
<1>1. Len(f) \in Nat /\ Len(bs) \in Nat
  BY LenProperties
<1> DEFINE z == Zeros(at - Len(f))
           g == f \o z
           a == SubSeq(g, 1, at)
           c == SubSeq(g, at + Len(bs) + 1, Len(g))
<1>2. /\ z \in Seq(Bytes)
      /\ Len(z) = (IF at - Len(f) > 0 THEN at - Len(f) ELSE 0)
      /\ (at <= Len(f) => z = <<>>)
  BY <1>1, ZerosFacts
<1> HIDE DEF z, Bytes
<1>3. g \in Seq(Bytes) /\ Len(g) = Len(f) + Len(z) /\ Len(g) \in Nat
  BY <1>1, <1>2, ConcatProperties
<1>4. at <= Len(g)
  BY <1>1, <1>2, <1>3
<1>5. at = Len(f) => g = f
  BY <1>2
<1>6. WriteAt(f, at, bs) = (a \o bs) \o c
  BY DEF WriteAt, z
<1> HIDE DEF g
<1>7. a \in Seq(Bytes) /\ c \in Seq(Bytes)
  BY <1>1, <1>3, <1>4
<1>8. ASSUME at = Len(f) PROVE a = f /\ c = <<>>
  BY <1>1, <1>3, <1>5, <1>8
<1> HIDE DEF a, c
<1>9. (a \o bs) \o c \in Seq(Bytes)
  BY <1>7, ConcatProperties
<1>10. ASSUME at = Len(f) PROVE WriteAt(f, at, bs) = f \o bs
  <2>1. f \o bs \in Seq(Bytes)
    BY ConcatProperties
  <2>2. WriteAt(f, at, bs) = (f \o bs) \o <<>>
    BY <1>6, <1>8, <1>10
  <2> QED
    BY <2>1, <2>2
<1> QED
  BY <1>6, <1>9, <1>10

-----------------------------------------------------------------------------
(* Reading the file backwards                                              *)

\* where the frame that ends at n starts
Start(f, n) == n - headerOffset - LengthAt(f, n)

\* the payloads of the first n bytes, once those of fewer bytes are known
Rule(f, g, n) ==
    IF n < headerOffset \/ Start(f, n) < 0 THEN <<>>
    ELSE Append(g[Start(f, n)], SubSeq(f, Start(f, n) + 1, n - headerOffset))

ParseTo(f, g, m) == g = [n \in 0 .. m |-> Rule(f, g, n)]

Parse(f) == CHOOSE g : ParseTo(f, g, Len(f))

\* a frame is not empty: reading goes on with fewer bytes
LEMMA StartFacts ==
    ASSUME NEW f \in Seq(Bytes), NEW n \in 2 .. Len(f)
    PROVE  LengthAt(f, n) \in Lengths /\ Start(f, n) \in Int /\ Start(f, n) <= n - 2
<1>1. f[n - 1] \in Bytes /\ f[n] \in Bytes
  <2>1. n - 1 \in 1 .. Len(f) /\ n \in 1 .. Len(f)
    BY LenProperties
  <2> HIDE DEF Bytes
  <2> QED
    BY <2>1
<1>2. LengthAt(f, n) \in Decode(f[n - 1], f[n])
  BY <1>1, DecodeTypes DEF LengthAt
<1>3. LengthAt(f, n) \in Lengths
  BY <1>1, <1>2, DecodeTypes
<1>4. n \in Int
  <2>1. Len(f) \in Nat
    BY LenProperties
  <2> QED
    BY <2>1
<1> DEFINE l == LengthAt(f, n)
<1>5. l \in Lengths /\ Start(f, n) = n - headerOffset - l
  BY <1>3 DEF Start
<1> HIDE DEF l
<1>6. l \in Nat
  BY <1>5, Constants
<1> QED
  BY <1>3, <1>4, <1>5, <1>6, Constants

\* the rule looks only at smaller numbers
LEMMA RuleLocal ==
    ASSUME NEW f \in Seq(Bytes), NEW n \in 0 .. Len(f), NEW g, NEW h,
           \A k \in 0 .. n - 1 : g[k] = h[k]
    PROVE  Rule(f, g, n) = Rule(f, h, n)
<1>1. CASE n < headerOffset
  BY <1>1 DEF Rule
<1>2. CASE n >= headerOffset /\ Start(f, n) < 0
  BY <1>2 DEF Rule
<1>3. CASE n >= headerOffset /\ ~(Start(f, n) < 0)
  <2>1. n \in 2 .. Len(f)
    BY <1>3, Constants
  <2>2. Start(f, n) \in 0 .. n - 1
    BY <1>3, <2>1, StartFacts
  <2>3. g[Start(f, n)] = h[Start(f, n)]
    BY <2>2
  <2> QED
    BY <2>3 DEF Rule
<1> QED
  BY <1>1, <1>2, <1>3, Constants

\* so reading is defined, from every length on
LEMMA ParseExists ==
    ASSUME NEW f \in Seq(Bytes)
    PROVE  ParseTo(f, Parse(f), Len(f)) /\ Parsed(f) = Parse(f)[Len(f)]
<1> DEFINE Good == {m \in Nat : \E g : ParseTo(f, g, m)}
<1>1. Len(f) \in Nat
  BY LenProperties
<1>2. \A k \in 0 .. Len(f) : (\A j \in 0 .. k - 1 : j \in Good) => k \in Good
  <2> TAKE k \in 0 .. Len(f)
  <2> HAVE \A j \in 0 .. k - 1 : j \in Good
  <2>1. PICK g : \A n \in 0 .. k - 1 : g[n] = Rule(f, g, n)
    <3>1. CASE k = 0
      BY <3>1
    <3>2. CASE k # 0
      <4>1. k - 1 \in 0 .. k - 1
        BY <1>1, <3>2
      <4>2. PICK g : ParseTo(f, g, k - 1)
        BY <4>1
      <4>3. \A n \in 0 .. k - 1 : g[n] = Rule(f, g, n)
        BY <4>2 DEF ParseTo
      <4> QED
        BY <4>3
    <3> QED
      BY <3>1, <3>2
  <2> DEFINE h == [n \in 0 .. k |-> IF n = k THEN Rule(f, g, k) ELSE g[n]]
  <2>2. \A n \in 0 .. k - 1 : n \in 0 .. k /\ n # k /\ h[n] = g[n]
    BY <1>1
  <2>3. h[k] = Rule(f, g, k)
    BY <1>1
  <2>4. DOMAIN h = 0 .. k /\ h = [n \in 0 .. k |-> h[n]]
    BY <1>1
  <2> HIDE DEF h
  <2>5. ASSUME NEW n \in 0 .. k PROVE h[n] = Rule(f, h, n)
    <3>1. n \in 0 .. Len(f) /\ \A i \in 0 .. n - 1 : i \in 0 .. k - 1
      BY <1>1
    <3>2. \A i \in 0 .. n - 1 : g[i] = h[i]
      BY <2>2, <3>1
    <3>3. Rule(f, g, n) = Rule(f, h, n)
      BY <3>1, <3>2, RuleLocal
    <3>4. h[n] = Rule(f, g, n)
      BY <1>1, <2>1, <2>2, <2>3
    <3> QED
      BY <3>3, <3>4
  <2>6. ParseTo(f, h, k)
    <3>1. [n \in 0 .. k |-> h[n]] = [n \in 0 .. k |-> Rule(f, h, n)]
      BY <2>5
    <3> QED
      BY <2>4, <3>1 DEF ParseTo
  <2> QED
    BY <1>1, <2>6
<1> HIDE DEF Good
<1>3. Len(f) \in Good
  BY <1>1, <1>2, FromSmaller
<1>4. \E g : ParseTo(f, g, Len(f))
  BY <1>3 DEF Good
<1>5. ParseTo(f, Parse(f), Len(f))
  BY <1>4, Zenon DEF Parse
<1>6. Parsed(f) = Parse(f)[Len(f)]
  BY DEF Parsed, Parse, ParseTo, Rule, Start
<1> QED
  BY <1>5, <1>6

\* what is read of the first n bytes
LEMMA ParseRule ==
    ASSUME NEW f \in Seq(Bytes), NEW n \in 0 .. Len(f)
    PROVE  Parse(f)[n] = Rule(f, Parse(f), n)
<1>1. ParseTo(f, Parse(f), Len(f))
  BY ParseExists
<1> QED
  BY <1>1 DEF ParseTo

\* is a sequence of payloads
LEMMA ParseTypes ==
    ASSUME NEW f \in Seq(Bytes)
    PROVE  \A n \in 0 .. Len(f) : Parse(f)[n] \in Seq(Seq(Bytes))
<1> DEFINE Good == {n \in Nat : Parse(f)[n] \in Seq(Seq(Bytes))}
<1>1. Len(f) \in Nat
  BY LenProperties
<1>2. \A k \in 0 .. Len(f) : (\A j \in 0 .. k - 1 : j \in Good) => k \in Good
  <2> TAKE k \in 0 .. Len(f)
  <2> HAVE \A j \in 0 .. k - 1 : j \in Good
  <2>1. Parse(f)[k] = Rule(f, Parse(f), k)
    BY ParseRule
  <2>2. CASE k < headerOffset \/ Start(f, k) < 0
    <3>1. Parse(f)[k] = <<>>
      BY <2>1, <2>2 DEF Rule
    <3>2. <<>> \in Seq(Seq(Bytes))
      BY EmptySeq
    <3>3. k \in Nat
      BY <1>1
    <3> QED
      BY <3>1, <3>2, <3>3
  <2>3. CASE ~(k < headerOffset \/ Start(f, k) < 0)
    <3>1. k \in 2 .. Len(f)
      BY <2>3, Constants
    <3>2. Start(f, k) \in 0 .. k - 1 /\ Start(f, k) <= k - 2
      BY <2>3, <3>1, StartFacts
    <3> DEFINE s == Start(f, k)
               x == SubSeq(f, s + 1, k - headerOffset)
    <3>3. Parse(f)[s] \in Seq(Seq(Bytes))
      BY <3>2
    <3>4. x \in Seq(Bytes)
      <4> HIDE DEF s, Bytes
      <4> QED
        BY <1>1, <3>1, <3>2, Constants DEF s
    <3>5. Parse(f)[k] = Append(Parse(f)[s], x)
      BY <2>1, <2>3 DEF Rule
    <3> HIDE DEF s, x
    <3>6. Append(Parse(f)[s], x) \in Seq(Seq(Bytes))
      BY <3>3, <3>4, AppendProperties, Zenon
    <3>7. k \in Nat
      BY <1>1
    <3> QED
      BY <3>5, <3>6, <3>7
  <2> QED
    BY <2>2, <2>3
<1> HIDE DEF Good
<1>3. \A k \in 0 .. Len(f) : k \in Good
  BY <1>1, <1>2, FromSmaller
<1> QED
  BY <1>3 DEF Good

\* and depends on no other byte
LEMMA ParseLocal ==
    ASSUME NEW f \in Seq(Bytes), NEW g \in Seq(Bytes), NEW m \in Nat, m <= Len(f), m <= Len(g),
           \A k \in 1 .. m : f[k] = g[k]
    PROVE  Parse(f)[m] = Parse(g)[m]
<1> DEFINE Good == {n \in Nat : Parse(f)[n] = Parse(g)[n]}
<1>1. Len(f) \in Nat /\ Len(g) \in Nat
  BY LenProperties
<1>2. \A k \in 0 .. m : (\A j \in 0 .. k - 1 : j \in Good) => k \in Good
  <2> TAKE k \in 0 .. m
  <2> HAVE \A j \in 0 .. k - 1 : j \in Good
  <2>1. k \in 0 .. Len(f) /\ k \in 0 .. Len(g)
    BY <1>1
  <2>2. Parse(f)[k] = Rule(f, Parse(f), k) /\ Parse(g)[k] = Rule(g, Parse(g), k)
    BY <2>1, ParseRule
  <2>3. Rule(f, Parse(f), k) = Rule(f, Parse(g), k)
    BY <2>1, RuleLocal
  <2>4. Rule(f, Parse(g), k) = Rule(g, Parse(g), k)
    <3>1. CASE k < headerOffset
      BY <3>1 DEF Rule
    <3>2. CASE ~(k < headerOffset)
      <4>1. k \in 2 .. Len(f) /\ k \in 1 .. m /\ k - 1 \in 1 .. m
        BY <1>1, <2>1, <3>2, Constants
      <4>2. LengthAt(f, k) = LengthAt(g, k)
        BY <4>1 DEF LengthAt
      <4>3. Start(f, k) = Start(g, k)
        BY <4>2 DEF Start
      <4>4. Start(f, k) \in Int /\ k - headerOffset \in Int /\ k - headerOffset <= m
        BY <1>1, <4>1, StartFacts, Constants
      <4>5. CASE Start(f, k) < 0
        BY <4>3, <4>5 DEF Rule
      <4>6. CASE ~(Start(f, k) < 0)
        <5>1. SubSeq(f, Start(f, k) + 1, k - headerOffset)
                = SubSeq(g, Start(f, k) + 1, k - headerOffset)
          <6> HIDE DEF Bytes
          <6> DEFINE a == Start(f, k) + 1
                     b == k - headerOffset
          <6>1. a \in Int /\ b \in Int /\ a >= 1 /\ b <= m
            BY <4>4, <4>6
          <6> HIDE DEF a, b
          <6>2. \A i \in a .. b : f[i] = g[i]
            BY <6>1
          <6>3. SubSeq(f, a, b) = SubSeq(g, a, b)
            BY <1>1, <6>1, <6>2
          <6> QED
            BY <6>3 DEF a, b
        <5> QED
          BY <4>3, <5>1 DEF Rule
      <4> QED
        BY <4>5, <4>6
    <3> QED
      BY <3>1, <3>2
  <2> QED
    BY <2>2, <2>3, <2>4
<1> HIDE DEF Good
<1>3. m \in Good
  <2>1. \A k \in 0 .. m : k \in Good
    BY <1>2, FromSmaller
  <2>2. m \in 0 .. m
    OBVIOUS
  <2> QED
    BY <2>1, <2>2
<1> QED
  BY <1>3 DEF Good

\* The last frame is read first: the rest is what the file without it holds.
LEMMA ParsedLast ==
    ASSUME NEW f \in Seq(Bytes), NEW l \in Lengths, Len(f) >= headerOffset + l, HeaderAt(f, Len(f), l)
    PROVE  LET s == Len(f) - headerOffset - l IN
           /\ Parsed(SubSeq(f, 1, s)) \in Seq(Seq(Bytes))
           /\ SubSeq(f, s + 1, Len(f) - headerOffset) \in Seq(Bytes)
           /\ Parsed(f) = Append(Parsed(SubSeq(f, 1, s)), SubSeq(f, s + 1, Len(f) - headerOffset))
<1> DEFINE s == Len(f) - headerOffset - l
           p == SubSeq(f, 1, s)
           x == SubSeq(f, s + 1, Len(f) - headerOffset)
<1>1. Len(f) \in Nat /\ l \in Nat /\ Len(f) \in 0 .. Len(f) /\ s \in Nat /\ s <= Len(f)
  BY LenProperties, Constants
<1>2. LengthAt(f, Len(f)) = l
  <2>1. Decode(f[Len(f) - 1], f[Len(f)]) = {l}
    BY DecodeHeader
  <2> QED
    BY <2>1 DEF LengthAt
<1>3. Start(f, Len(f)) = s
  BY <1>2 DEF Start
<1>4. Parsed(f) = Append(Parse(f)[s], x)
  <2>1. Parsed(f) = Rule(f, Parse(f), Len(f))
    BY <1>1, ParseExists, ParseRule
  <2>2. ~(Len(f) < headerOffset \/ Start(f, Len(f)) < 0)
    BY <1>1, <1>3, Constants
  <2> QED
    BY <1>3, <2>1, <2>2 DEF Rule
<1>5. p \in Seq(Bytes) /\ Len(p) = s /\ \A k \in 1 .. s : f[k] = p[k]
  <2> HIDE DEF s, Bytes
  <2> QED
    BY <1>1
<1>6. x \in Seq(Bytes)
  <2> HIDE DEF Bytes
  <2> QED
    BY <1>1, Constants
<1> HIDE DEF s, p, x
<1>7. Parsed(p) = Parse(f)[s]
  BY <1>1, <1>5, ParseExists, ParseLocal
<1>8. Parsed(p) \in Seq(Seq(Bytes))
  BY <1>1, <1>7, ParseTypes
<1> QED
  BY <1>4, <1>6, <1>7, <1>8 DEF s, p, x

\* A frame that is appended is a payload on top.
LEMMA ParsedPush ==
    ASSUME NEW f \in Seq(Bytes), NEW r \in Records
    PROVE  /\ Parsed(f) \in Seq(Seq(Bytes)) /\ Kept(r) \in Seq(Bytes)
           /\ Parsed(f \o toWrite(r)) = Append(Parsed(f), Kept(r))
<1> DEFINE l == length16(r)
           t == toWrite(r)
           g == f \o t
           n == Len(f)
<1>1. l \in Lengths /\ l \in Nat /\ n \in Nat
  BY LengthFacts, LenProperties, Constants
<1>2. t \in Seq(Bytes) /\ Len(t) = l + 2
  BY FrameFacts
<1>3. \A i \in 1 .. l : t[i] = Kept(r)[i]
  BY FrameFacts
<1>4. t[l + 1] = Header(l)[1] /\ t[l + 2] = Header(l)[2]
  BY FrameFacts
<1>5. Kept(r) \in Seq(Bytes) /\ Len(Kept(r)) = l
  BY FrameFacts
<1> HIDE DEF l, t, n, Bytes
<1>6. /\ g \in Seq(Bytes) /\ Len(g) = n + (l + 2)
      /\ \A k \in 1 .. n : g[k] = f[k]
      /\ \A i \in 1 .. l + 2 : g[n + i] = t[i]
  <2>0. /\ g \in Seq(Bytes) /\ Len(g) = Len(f) + Len(t)
        /\ \A i \in 1 .. Len(f) + Len(t) : g[i] = IF i <= Len(f) THEN f[i] ELSE t[i - Len(f)]
    BY <1>2, ConcatProperties
  <2> HIDE DEF g
  <2>1. /\ g \in Seq(Bytes) /\ Len(g) = n + (l + 2)
        /\ \A i \in 1 .. n + (l + 2) : g[i] = IF i <= n THEN f[i] ELSE t[i - n]
    <3>1. Len(f) = n /\ Len(t) = l + 2
      BY <1>2 DEF n
    <3> QED
      BY <2>0, <3>1
  <2>2. \A i \in 1 .. l + 2 : n + i \in 1 .. n + (l + 2) /\ ~(n + i <= n) /\ n + i - n = i
    BY <1>1
  <2>3. \A k \in 1 .. n : k \in 1 .. n + (l + 2) /\ k <= n
    BY <1>1
  <2>4. \A k \in 1 .. n : g[k] = f[k]
    BY <2>1, <2>3
  <2>5. \A i \in 1 .. l + 2 : g[n + i] = t[i]
    <3> TAKE i \in 1 .. l + 2
    <3>1. PICK j : j = n + i
      OBVIOUS
    <3>2. j \in 1 .. n + (l + 2) /\ ~(j <= n) /\ j - n = i
      BY <1>1, <3>1
    <3>3. g[j] = t[j - n]
      BY <2>1, <3>2
    <3> QED
      BY <3>1, <3>2, <3>3
  <2> QED
    BY <2>1, <2>4, <2>5
<1> HIDE DEF g
<1>7. HeaderAt(g, Len(g), l)
  <2>1. /\ l + 1 \in 1 .. l + 2
        /\ l + 2 \in 1 .. l + 2
        /\ Len(g) - 1 = n + (l + 1)
        /\ Len(g) = n + (l + 2)
    BY <1>1, <1>6
  <2> QED
    BY <1>4, <1>6, <2>1 DEF HeaderAt
<1>8. /\ Len(g) >= headerOffset + l
      /\ Len(g) - headerOffset - l = n
      /\ Len(g) - headerOffset = n + l
  BY <1>1, <1>6, Constants
<1>9. SubSeq(g, 1, n) = f
  <2>1. /\ SubSeq(g, 1, n) \in Seq(Bytes)
        /\ Len(SubSeq(g, 1, n)) = n
        /\ \A k \in 1 .. n : SubSeq(g, 1, n)[k] = g[k]
    BY <1>1, <1>6
  <2> QED
    BY <1>6, <2>1 DEF n
<1>10. SubSeq(g, n + 1, n + l) = Kept(r)
  <2>1. /\ SubSeq(g, n + 1, n + l) \in Seq(Bytes) /\ Len(SubSeq(g, n + 1, n + l)) = l
        /\ \A i \in 1 .. l : SubSeq(g, n + 1, n + l)[i] = g[n + i]
    BY <1>1, <1>6
  <2>2. \A i \in 1 .. l : SubSeq(g, n + 1, n + l)[i] = Kept(r)[i]
    BY <1>1, <1>3, <1>6, <2>1
  <2> QED
    BY <1>5, <2>1, <2>2
<1>11. Parsed(g) = Append(Parsed(f), Kept(r)) /\ Parsed(f) \in Seq(Seq(Bytes))
  <2>1. /\ Parsed(SubSeq(g, 1, Len(g) - headerOffset - l)) \in Seq(Seq(Bytes))
        /\ Parsed(g) = Append(Parsed(SubSeq(g, 1, Len(g) - headerOffset - l)),
                              SubSeq(g, Len(g) - headerOffset - l + 1, Len(g) - headerOffset))
    BY <1>1, <1>6, <1>7, <1>8, ParsedLast
  <2> QED
    BY <1>8, <1>9, <1>10, <2>1
<1> QED
  BY <1>5, <1>11 DEF g, t

-----------------------------------------------------------------------------
(* Every step keeps the types                                              *)

\* at the start
LEMMA InitTypeInv ==
    ASSUME Init PROVE TypeInv
<1>1. <<>> \in Seq(Bytes) /\ 0 \in Lengths
  BY EmptySeq, Constants
<1>2. FileTypes
  <2>1. NoPop \in [size : Nat, length : Lengths, buf : Seq(Bytes)]
    BY <1>1, Constants DEF NoPop
  <2>2. pc[Popper] \notin Reading
    BY DEF Init, Reading
  <2> QED
    BY <1>1, <2>1, <2>2 DEF Init, FileTypes
<1>3. PcTypes
  BY DEF Init, PcTypes
<1>4. MuInv
  BY StackAssumption DEF Init, MuInv, Pushers
<1>5. SetTypes
  BY DEF Init, SetTypes
<1> QED
  BY <1>2, <1>3, <1>4, <1>5 DEF TypeInv

\* what the variables of Push and Pop may hold
LEMMA FileTypesStep ==
    ASSUME FileTypes, PcTypes, [Next]_vars
    PROVE  FileTypes'
<1>1. ASSUME NEW p \in Pushers, NEW r \in Records, PushCall(p, r) PROVE FileTypes'
  BY <1>1, Constants DEF PushCall, FileTypes, Step, Return, Lock, Reading, DataOffset,
     PcTypes
<1>2. ASSUME NEW p \in Pushers, PushSeek(p) PROVE FileTypes'
  <2>1. Len(file) \in Nat
    BY LenProperties DEF FileTypes
  <2> QED
    BY <1>2, <2>1, Constants DEF PushSeek, FileTypes, Step, Return, Reading,
       DataOffset, PcTypes
<1>3. ASSUME NEW p \in Pushers, PushWrite(p) PROVE FileTypes'
  <2>1. arg[p] \in Records
    BY <1>3 DEF PushWrite, Step, PcTypes
  <2>2. toWrite(arg[p]) \in Seq(Bytes) /\ Len(toWrite(arg[p])) \in Nat
    BY <2>1, FrameFacts, LenProperties
  <2>3. file' \in Seq(Bytes)
    BY <1>3, <2>2, WriteFacts DEF PushWrite, FileTypes
  <2>4. pos' \in Nat
    BY <1>3, <2>2 DEF PushWrite, FileTypes
  <2> QED
    BY <1>3, <2>3, <2>4, Constants DEF PushWrite, FileTypes, Step, Return, Reading,
       DataOffset, PcTypes
<1>4. CASE PopSize
  <2>1. Len(file) \in Nat
    BY LenProperties DEF FileTypes
  <2>2. pc'[Popper] \notin Reading
    BY <1>4 DEF PopSize, Reading, PcTypes
  <2> QED
    BY <1>4, <2>1, <2>2 DEF PopSize, FileTypes
<1>5. CASE PopSeekHeader
  <2>1. Len(file) \in Nat
    BY LenProperties DEF FileTypes
  <2>2. pc'[Popper] \notin Reading
    BY <1>5 DEF PopSeekHeader, Return, Reading, PcTypes
  <2>3. pos' \in Nat
    BY <1>5, <2>1, Constants DEF PopSeekHeader, FileTypes
  <2> QED
    BY <1>5, <2>2, <2>3 DEF PopSeekHeader, FileTypes
<1>6. CASE PopReadHeader
  <2>1. Len(file) \in Nat
    BY LenProperties DEF FileTypes
  <2>2. CASE pos + headerOffset > Len(file)
    <3>1. pc'[Popper] = "idle"
      BY <1>6, <2>2 DEF PopReadHeader, Return, PcTypes
    <3> QED
      BY <1>6, <2>2, <3>1 DEF PopReadHeader, FileTypes, Reading
  <2>3. CASE ~(pos + headerOffset > Len(file))
    <3>1. pos + 1 \in 1 .. Len(file) /\ pos + 2 \in 1 .. Len(file)
      BY <2>1, <2>3, Constants DEF FileTypes
    <3>2. file[pos + 1] \in Bytes /\ file[pos + 2] \in Bytes
      BY <3>1 DEF FileTypes
    <3>3. PICK n \in Decode(file[pos + 1], file[pos + 2]) :
            /\ pos' = pos + headerOffset
            /\ popv' = [popv EXCEPT !.length = n]
            /\ IF popv.size - headerOffset - n < 0
               THEN Return(Popper)
               ELSE pc' = [pc EXCEPT ![Popper] = "seekData"] /\ UNCHANGED mu
      BY <1>6, <2>3 DEF PopReadHeader
    <3>4. n \in Lengths /\ n \in Nat
      BY <3>2, <3>3, DecodeTypes, Constants
    <3>5. /\ popv' \in [size : Nat, length : Lengths, buf : Seq(Bytes)]
          /\ popv'.size = popv.size /\ popv'.length = n /\ popv.size \in Nat
      BY <3>3, <3>4 DEF FileTypes
    <3>6. pc'[Popper] \in Reading => DataOffset' \in Nat
      <4>1. CASE popv.size - headerOffset - n < 0
        <5>1. pc'[Popper] = "idle"
          BY <3>3, <4>1 DEF Return, PcTypes
        <5> QED
          BY <5>1 DEF Reading
      <4>2. CASE ~(popv.size - headerOffset - n < 0)
        BY <3>4, <3>5, <4>2, Constants DEF DataOffset, headerOffset
      <4> QED
        BY <4>1, <4>2
    <3>7. pos' \in Nat /\ file' = file
      BY <1>6, <3>3, Constants DEF PopReadHeader, FileTypes
    <3> QED
      BY <3>5, <3>6, <3>7 DEF FileTypes
  <2> QED
    BY <2>2, <2>3
<1>7. CASE PopSeekData
  <2>1. DataOffset \in Nat /\ DataOffset' = DataOffset
    BY <1>7 DEF PopSeekData, FileTypes, Step, Reading, DataOffset
  <2> QED
    BY <1>7, <2>1 DEF PopSeekData, FileTypes
<1>8. CASE PopReadData
  <2>1. /\ Len(file) \in Nat
        /\ popv.length \in Nat
        /\ DataOffset \in Nat
        /\ file \in Seq(Bytes)
        /\ pos \in Nat
    BY <1>8, LenProperties, Constants DEF PopReadData, Step, FileTypes, Reading
  <2>2. CASE popv.length > 0 /\ pos >= Len(file)
    <3>1. pc'[Popper] = "idle"
      BY <1>8, <2>2 DEF PopReadData, Return, PcTypes
    <3> QED
      BY <1>8, <2>2, <3>1 DEF PopReadData, FileTypes, Reading
  <2>3. CASE ~(popv.length > 0 /\ pos >= Len(file))
    <3> DEFINE end == pos + popv.length
               last == IF end < Len(file) THEN end ELSE Len(file)
               read == SubSeq(file, pos + 1, last)
               zeros == Zeros(popv.length - Len(read))
    <3>1. last \in Nat /\ last <= Len(file)
      BY <2>1
    <3>2. read \in Seq(Bytes) /\ Len(read) \in Nat
      <4> HIDE DEF last
      <4>1. read \in Seq(Bytes)
        BY <2>1, <3>1
      <4> QED
        BY <4>1, LenProperties
    <3> HIDE DEF read
    <3>3. zeros \in Seq(Bytes)
      BY <2>1, <3>2, ZerosFacts
    <3> HIDE DEF zeros
    <3>4. read \o zeros \in Seq(Bytes)
      BY <3>2, <3>3, ConcatProperties
    <3>5. /\ pos' = pos + Len(read)
          /\ popv' = [popv EXCEPT !.buf = read \o zeros]
          /\ file' = file
      BY <1>8, <2>3, Zenon DEF PopReadData, read, zeros
    <3>6. /\ popv' \in [size : Nat, length : Lengths, buf : Seq(Bytes)]
          /\ DataOffset' = DataOffset
      BY <3>4, <3>5 DEF FileTypes, DataOffset
    <3>7. pos' \in Nat
      BY <2>1, <3>2, <3>5
    <3> QED
      BY <2>1, <3>5, <3>6, <3>7 DEF FileTypes
  <2> QED
    BY <2>2, <2>3
<1>9. CASE PopTruncate
  <2>1. file' \in Seq(Bytes)
    BY <1>9, TruncateFacts DEF PopTruncate, Step, FileTypes, Reading
  <2>2. popv' \in [size : Nat, length : Lengths, buf : Seq(Bytes)]
    BY <1>9, EmptySeq, Constants DEF PopTruncate, NoPop
  <2>3. pc'[Popper] \notin Reading
    BY <1>9 DEF PopTruncate, Return, PcTypes, Reading
  <2> QED
    BY <1>9, <2>1, <2>2, <2>3 DEF PopTruncate, FileTypes
<1>10. CASE UNCHANGED vars
  BY <1>10 DEF vars, FileTypes, DataOffset
<1> QED
  BY <1>1, <1>2, <1>3, <1>4, <1>5, <1>6, <1>7, <1>8, <1>9, <1>10 DEF Next, Push, Pop

\* the ticker goes on
LEMMA PopperMoves ==
    ASSUME PcTypes, NEW v \in {"idle", "seekHeader", "readHeader"} \cup Reading,
           pc' = [pc EXCEPT ![Popper] = v], UNCHANGED <<arg, todo>>
    PROVE  PcTypes'
<1>1. /\ DOMAIN pc' = Pushers \cup {Popper} /\ pc' = [p \in Pushers \cup {Popper} |-> pc'[p]]
      /\ pc'[Popper] = v /\ \A p \in Pushers : pc'[p] = pc[p]
  BY Constants DEF PcTypes
<1> QED
  BY <1>1 DEF PcTypes

\* a pusher goes on
LEMMA PusherMoves ==
    ASSUME PcTypes, NEW p \in Pushers, NEW v \in {"idle", "write"}, pc[p] # "idle",
           pc' = [pc EXCEPT ![p] = v], UNCHANGED <<arg, todo>>
    PROVE  PcTypes'
<1>1. p # Popper
  BY Constants
<1>2. /\ DOMAIN pc' = Pushers \cup {Popper} /\ pc' = [q \in Pushers \cup {Popper} |-> pc'[q]]
      /\ pc'[p] = v /\ \A q \in Pushers \cup {Popper} : q # p => pc'[q] = pc[q]
  BY DEF PcTypes
<1>3. pc'[Popper] = pc[Popper]
  BY <1>1, <1>2
<1>4. \A q \in Pushers : /\ pc'[q] \in {"idle", "seek", "write"}
                         /\ pc'[q] # "idle" => arg[q] \in Records \ todo
  <2> TAKE q \in Pushers
  <2>1. CASE q = p
    BY <1>2, <2>1 DEF PcTypes
  <2>2. CASE q # p
    BY <1>2, <2>2 DEF PcTypes
  <2> QED
    BY <2>1, <2>2
<1> QED
  BY <1>2, <1>3, <1>4 DEF PcTypes

\* where the goroutines stand
LEMMA PcTypesStep ==
    ASSUME PcTypes, [Next]_vars
    PROVE  PcTypes'
<1>1. ASSUME NEW p \in Pushers, NEW r \in Records, PushCall(p, r) PROVE PcTypes'
  BY <1>1, Constants DEF PushCall, PcTypes, Step, Return, Reading
<1>2. ASSUME NEW p \in Pushers, PushSeek(p) PROVE PcTypes'
  <2>1. pc[p] # "idle" /\ UNCHANGED <<arg, todo>>
    BY <1>2 DEF PushSeek, Step
  <2>2. \/ pc' = [pc EXCEPT ![p] = "idle"]
        \/ pc' = [pc EXCEPT ![p] = "write"]
        \/ UNCHANGED pc
    BY <1>2 DEF PushSeek, Return
  <2>3. CASE UNCHANGED pc
    BY <2>1, <2>3 DEF PcTypes
  <2> QED
    BY <2>1, <2>2, <2>3, PusherMoves
<1>3. ASSUME NEW p \in Pushers, PushWrite(p) PROVE PcTypes'
  BY <1>3, Constants DEF PushWrite, PcTypes, Step, Return, Reading
<1>4. CASE PopSize
  <2>1. \/ pc' = [pc EXCEPT ![Popper] = "idle"]
        \/ pc' = [pc EXCEPT ![Popper] = "seekHeader"]
    BY <1>4 DEF PopSize, Return
  <2> QED
    BY <1>4, <2>1, PopperMoves DEF PopSize, Reading
<1>5. CASE PopSeekHeader
  <2>1. \/ pc' = [pc EXCEPT ![Popper] = "idle"]
        \/ pc' = [pc EXCEPT ![Popper] = "readHeader"]
    BY <1>5 DEF PopSeekHeader, Return
  <2> QED
    BY <1>5, <2>1, PopperMoves DEF PopSeekHeader, Reading
<1>6. CASE PopReadHeader
  <2>1. \/ pc' = [pc EXCEPT ![Popper] = "idle"]
        \/ pc' = [pc EXCEPT ![Popper] = "seekData"]
    BY <1>6 DEF PopReadHeader, Return
  <2> QED
    BY <1>6, <2>1, PopperMoves DEF PopReadHeader, Reading
<1>7. CASE PopSeekData
  <2>1. \/ pc' = [pc EXCEPT ![Popper] = "idle"]
        \/ pc' = [pc EXCEPT ![Popper] = "readData"]
    BY <1>7 DEF PopSeekData, Return
  <2> QED
    BY <1>7, <2>1, PopperMoves DEF PopSeekData, Reading
<1>8. CASE PopReadData
  <2>1. \/ pc' = [pc EXCEPT ![Popper] = "idle"]
        \/ pc' = [pc EXCEPT ![Popper] = "truncate"]
    BY <1>8 DEF PopReadData, Return
  <2> QED
    BY <1>8, <2>1, PopperMoves DEF PopReadData, Reading
<1>9. CASE PopTruncate
  <2>1. \/ pc' = [pc EXCEPT ![Popper] = "idle"]
        \/ pc' = [pc EXCEPT ![Popper] = "idle"]
    BY <1>9 DEF PopTruncate, Return
  <2> QED
    BY <1>9, <2>1, PopperMoves DEF PopTruncate, Reading
<1>10. CASE UNCHANGED vars
  BY <1>10 DEF vars, PcTypes
<1> QED
  BY <1>1, <1>2, <1>3, <1>4, <1>5, <1>6, <1>7, <1>8, <1>9, <1>10 DEF Next, Push, Pop

\* the mutex is held by whoever is inside a locked operation
LEMMA MuInvStep ==
    ASSUME MuInv, PcTypes, [Next]_vars
    PROVE  MuInv'
<1>1. ASSUME NEW p \in Pushers, NEW r \in Records, PushCall(p, r) PROVE MuInv'
  BY <1>1, StackAssumption DEF PushCall, MuInv, PcTypes, Step, Return, Lock, Pushers,
     Reading
<1>2. ASSUME NEW p \in Pushers, PushSeek(p) PROVE MuInv'
  <2>1. pc[p] = "seek"
    BY <1>2 DEF PushSeek, Step
  <2>2. CASE Return(p)
    BY <2>1, <2>2, StackAssumption DEF Return, MuInv, PcTypes, Pushers
  <2>3. CASE pc' = [pc EXCEPT ![p] = "write"] /\ UNCHANGED mu
    BY <2>1, <2>3, StackAssumption DEF MuInv, PcTypes, Pushers
  <2>4. CASE UNCHANGED <<pc, mu>>
    BY <2>4 DEF MuInv
  <2> QED
    BY <1>2, <2>2, <2>3, <2>4 DEF PushSeek
<1>3. ASSUME NEW p \in Pushers, PushWrite(p) PROVE MuInv'
  BY <1>3, StackAssumption DEF PushWrite, MuInv, PcTypes, Step, Return, Lock, Pushers,
     Reading
<1>4. CASE PopSize
  BY <1>4, StackAssumption DEF PopSize, MuInv, PcTypes, Step, Return, Lock, Pushers,
     Reading
<1>5. CASE PopSeekHeader
  BY <1>5, StackAssumption DEF PopSeekHeader, MuInv, PcTypes, Step, Return, Lock,
     Pushers, Reading
<1>6. CASE PopReadHeader
  BY <1>6, StackAssumption DEF PopReadHeader, MuInv, PcTypes, Step, Return, Lock,
     Pushers, Reading
<1>7. CASE PopSeekData
  BY <1>7, StackAssumption DEF PopSeekData, MuInv, PcTypes, Step, Return, Lock,
     Pushers, Reading
<1>8. CASE PopReadData
  BY <1>8, StackAssumption DEF PopReadData, MuInv, PcTypes, Step, Return, Lock,
     Pushers, Reading
<1>9. CASE PopTruncate
  BY <1>9, StackAssumption DEF PopTruncate, MuInv, PcTypes, Step, Return, Lock,
     Pushers, Reading
<1>10. CASE UNCHANGED vars
  BY <1>10 DEF vars, MuInv
<1> QED
  BY <1>1, <1>2, <1>3, <1>4, <1>5, <1>6, <1>7, <1>8, <1>9, <1>10 DEF Next, Push, Pop

\* what has been pushed, written and returned
LEMMA SetTypesStep ==
    ASSUME SetTypes, PcTypes, [Next]_vars
    PROVE  SetTypes'
<1>1. ASSUME NEW p \in Pushers, NEW r \in Records, PushCall(p, r) PROVE SetTypes'
  BY <1>1, Constants DEF PushCall, SetTypes, PcTypes, Step
<1>2. ASSUME NEW p \in Pushers, PushSeek(p) PROVE SetTypes'
  BY <1>2, Constants DEF PushSeek, SetTypes, PcTypes, Step
<1>3. ASSUME NEW p \in Pushers, PushWrite(p) PROVE SetTypes'
  BY <1>3, Constants DEF PushWrite, SetTypes, PcTypes, Step
<1>4. CASE PopSize
  BY <1>4, Constants DEF PopSize, SetTypes, PcTypes, Step
<1>5. CASE PopSeekHeader
  BY <1>5, Constants DEF PopSeekHeader, SetTypes, PcTypes, Step
<1>6. CASE PopReadHeader
  BY <1>6, Constants DEF PopReadHeader, SetTypes, PcTypes, Step
<1>7. CASE PopSeekData
  BY <1>7, Constants DEF PopSeekData, SetTypes, PcTypes, Step
<1>8. CASE PopReadData
  BY <1>8, Constants DEF PopReadData, SetTypes, PcTypes, Step
<1>9. CASE PopTruncate
  BY <1>9, Constants DEF PopTruncate, SetTypes, PcTypes, Step
<1>10. CASE UNCHANGED vars
  BY <1>10 DEF vars, SetTypes
<1> QED
  BY <1>1, <1>2, <1>3, <1>4, <1>5, <1>6, <1>7, <1>8, <1>9, <1>10 DEF Next, Push, Pop

-----------------------------------------------------------------------------
(* Frames                                                                  *)

\* two headers at one place tell the same length
LEMMA HeaderUnique ==
    ASSUME NEW f, NEW b, NEW k, NEW l, HeaderAt(f, b, k), HeaderAt(f, b, l)
    PROVE  k = l
  BY DEF HeaderAt, Header

\* an empty file is framed
LEMMA FramedEmpty == Framed(<<>>)
<1>1. Len(<<>>) = 0
  OBVIOUS
<1>2. {0} \in SUBSET (0 .. Len(<<>>)) /\ 0 \in {0} /\ Len(<<>>) \in {0} /\ {0} \ {0} = {}
  BY <1>1
<1> QED
  BY <1>2 DEF Framed

\* a frame may be appended
LEMMA FramedPush ==
    ASSUME NEW f \in Seq(Bytes), NEW r \in Records, Framed(f)
    PROVE  Framed(f \o toWrite(r))
<1> DEFINE l == length16(r)
           t == toWrite(r)
           g == f \o t
           n == Len(f)
<1>1. l \in Lengths /\ l \in Nat /\ n \in Nat
  BY LengthFacts, LenProperties, Constants
<1>2. /\ t \in Seq(Bytes) /\ Len(t) = l + 2
      /\ t[l + 1] = Header(l)[1] /\ t[l + 2] = Header(l)[2]
  BY FrameFacts
<1>3. PICK B \in SUBSET (0 .. n) :
        /\ 0 \in B /\ n \in B
        /\ \A b \in B \ {0} : \E k \in Lengths : b - headerOffset - k \in B /\ HeaderAt(f, b, k)
  BY DEF Framed
<1> HIDE DEF l, t
<1>4. /\ g \in Seq(Bytes) /\ Len(g) = n + (l + 2)
      /\ \A i \in 1 .. n : g[i] = f[i]
      /\ g[n + l + 1] = Header(l)[1] /\ g[n + l + 2] = Header(l)[2]
  <2>1. /\ g \in Seq(Bytes) /\ Len(g) = Len(f) + Len(t)
        /\ \A i \in 1 .. Len(f) + Len(t) : g[i] = IF i <= Len(f) THEN f[i] ELSE t[i - Len(f)]
    BY <1>2, ConcatProperties
  <2> HIDE DEF g, n
  <2>2. Len(f) = n /\ Len(t) = l + 2
    BY <1>2 DEF n
  <2>3. \A i \in 1 .. n + (l + 2) : g[i] = IF i <= n THEN f[i] ELSE t[i - n]
    BY <2>1, <2>2
  <2>4. \A i \in 1 .. n : g[i] = f[i]
    <3>1. \A i \in 1 .. n : i \in 1 .. n + (l + 2) /\ i <= n
      BY <1>1
    <3> QED
      BY <2>3, <3>1
  <2>5. g[n + l + 1] = t[l + 1]
    <3>1. PICK j : j = n + l + 1
      OBVIOUS
    <3>2. j \in 1 .. n + (l + 2) /\ ~(j <= n) /\ j - n = l + 1
      BY <1>1, <3>1
    <3>3. g[j] = t[j - n]
      BY <2>3, <3>2
    <3> QED
      BY <3>1, <3>2, <3>3
  <2>6. g[n + l + 2] = t[l + 2]
    <3>1. PICK j : j = n + l + 2
      OBVIOUS
    <3>2. j \in 1 .. n + (l + 2) /\ ~(j <= n) /\ j - n = l + 2
      BY <1>1, <3>1
    <3>3. g[j] = t[j - n]
      BY <2>3, <3>2
    <3> QED
      BY <3>1, <3>2, <3>3
  <2> QED
    BY <1>2, <2>1, <2>2, <2>4, <2>5, <2>6
<1> HIDE DEF g, n
<1> DEFINE e == n + l + 2
           C == B \cup {e}
<1>5. C \in SUBSET (0 .. Len(g)) /\ 0 \in C /\ Len(g) \in C
  <2>1. e \in Nat /\ n <= e /\ Len(g) = e
    BY <1>1, <1>4
  <2> HIDE DEF e
  <2>2. 0 .. n \subseteq 0 .. e /\ e \in 0 .. e
    BY <1>1, <2>1
  <2> QED
    BY <1>3, <2>1, <2>2
<1>6. ASSUME NEW b \in C \ {0}
      PROVE  \E k \in Lengths : b - headerOffset - k \in C /\ HeaderAt(g, b, k)
  <2>1. CASE b \in B
    <3>1. PICK k \in Lengths : b - headerOffset - k \in B /\ HeaderAt(f, b, k)
      BY <1>3, <1>6, <2>1
    <3>2. k \in Nat /\ b \in 0 .. n /\ b - headerOffset - k \in 0 .. n
      BY <1>3, <2>1, <3>1, Constants
    <3>3. b - 1 \in 1 .. n /\ b \in 1 .. n
      BY <1>1, <3>2, Constants
    <3>4. HeaderAt(g, b, k)
      BY <1>4, <3>1, <3>3 DEF HeaderAt
    <3> QED
      BY <3>1, <3>4
  <2>2. CASE b = e
    <3>1. b - headerOffset - l = n /\ b - 1 = n + l + 1 /\ b = n + l + 2
      BY <1>1, <2>2, Constants
    <3>2. HeaderAt(g, b, l)
      BY <1>4, <3>1 DEF HeaderAt
    <3> QED
      BY <1>1, <1>3, <3>1, <3>2
  <2> QED
    BY <1>6, <2>1, <2>2
<1> HIDE DEF C
<1>7. Framed(g)
  BY <1>5, <1>6 DEF Framed
<1> QED
  BY <1>7 DEF g, t

\* the last header tells where the last frame starts
LEMMA FramedLast ==
    ASSUME NEW f \in Seq(Bytes), Framed(f), Len(f) # 0
    PROVE  \E l \in Lengths : HeaderAt(f, Len(f), l) /\ Len(f) >= headerOffset + l
<1>1. PICK B \in SUBSET (0 .. Len(f)) :
        /\ 0 \in B /\ Len(f) \in B
        /\ \A b \in B \ {0} : \E k \in Lengths : b - headerOffset - k \in B /\ HeaderAt(f, b, k)
  BY DEF Framed
<1>2. PICK l \in Lengths : Len(f) - headerOffset - l \in B /\ HeaderAt(f, Len(f), l)
  BY <1>1
<1>3. Len(f) - headerOffset - l \in 0 .. Len(f) /\ l \in Nat /\ Len(f) \in Nat
  BY <1>1, <1>2, LenProperties, Constants
<1>4. Len(f) >= headerOffset + l
  BY <1>3, Constants
<1> QED
  BY <1>2, <1>4

\* and without it the file is framed
LEMMA FramedCut ==
    ASSUME NEW f \in Seq(Bytes), Framed(f), NEW l \in Lengths, Len(f) # 0, HeaderAt(f, Len(f), l)
    PROVE  Framed(SubSeq(f, 1, Len(f) - headerOffset - l))
<1> DEFINE s == Len(f) - headerOffset - l
           p == SubSeq(f, 1, s)
<1>1. PICK B \in SUBSET (0 .. Len(f)) :
        /\ 0 \in B /\ Len(f) \in B
        /\ \A b \in B \ {0} : \E k \in Lengths : b - headerOffset - k \in B /\ HeaderAt(f, b, k)
  BY DEF Framed
<1>2. s \in B
  <2>1. PICK k \in Lengths : Len(f) - headerOffset - k \in B /\ HeaderAt(f, Len(f), k)
    BY <1>1
  <2>2. k = l
    BY <2>1, HeaderUnique
  <2> QED
    BY <2>1, <2>2
<1>3. Len(f) \in Nat /\ l \in Nat /\ s \in Nat /\ s <= Len(f)
  BY <1>1, <1>2, LenProperties, Constants
<1> HIDE DEF s
<1>4. p \in Seq(Bytes) /\ Len(p) = s /\ \A i \in 1 .. s : p[i] = f[i]
  BY <1>3
<1> HIDE DEF p
<1> DEFINE C == B \cap (0 .. s)
<1>5. C \in SUBSET (0 .. Len(p)) /\ 0 \in C /\ Len(p) \in C
  BY <1>1, <1>2, <1>3, <1>4
<1>6. ASSUME NEW b \in C \ {0}
      PROVE  \E k \in Lengths : b - headerOffset - k \in C /\ HeaderAt(p, b, k)
  <2>1. PICK k \in Lengths : b - headerOffset - k \in B /\ HeaderAt(f, b, k)
    BY <1>1, <1>6
  <2>2. k \in Nat /\ b \in 0 .. s /\ b - headerOffset - k \in 0 .. Len(f)
    BY <1>1, <1>6, <2>1, Constants
  <2>3. b - headerOffset - k \in 0 .. s /\ b - 1 \in 1 .. s /\ b \in 1 .. s
    BY <1>3, <2>2, Constants
  <2>4. HeaderAt(p, b, k)
    BY <1>4, <2>1, <2>3 DEF HeaderAt
  <2> QED
    BY <2>1, <2>3, <2>4
<1> HIDE DEF C
<1>7. Framed(p)
  BY <1>5, <1>6 DEF Framed
<1> QED
  BY <1>7 DEF p, s

\* the elements of a longer sequence
LEMMA AppendSet ==
    ASSUME NEW T, NEW q \in Seq(T), NEW x \in T
    PROVE  ToSet(Append(q, x)) = ToSet(q) \cup {x}
<1>1. /\ Len(q) \in Nat /\ Len(Append(q, x)) = Len(q) + 1 /\ Append(q, x) \in Seq(T)
      /\ \A i \in 1 .. Len(q) : Append(q, x)[i] = q[i]
      /\ Append(q, x)[Len(q) + 1] = x
  BY AppendProperties, LenProperties
<1>2. DOMAIN q = 1 .. Len(q) /\ DOMAIN Append(q, x) = 1 .. Len(q) + 1
  BY <1>1, LenProperties
<1>3. 1 .. Len(q) + 1 = 1 .. Len(q) \cup {Len(q) + 1}
  BY <1>1
<1> DEFINE a == Append(q, x)
<1> HIDE DEF a
<1>4. /\ DOMAIN a = DOMAIN q \cup {Len(q) + 1}
      /\ a[Len(q) + 1] = x
      /\ \A i \in DOMAIN q : a[i] = q[i]
  BY <1>1, <1>2, <1>3 DEF a
<1>5. ToSet(a) = ToSet(q) \cup {x}
  BY <1>4 DEF ToSet
<1> QED
  BY <1>5 DEF a

-----------------------------------------------------------------------------
(* Callers that all take the mutex                                         *)

\* A write appends a frame whose length fits its header.
Pushes(r) ==
    /\ Len(file) <= MOffset /\ SliceFits(r)
    /\ file' = file \o toWrite(r)
    /\ written' = written \cup {r}
    /\ UNCHANGED <<returned, ret>>

\* A truncation takes off the last frame, and its payload is returned.
Pops(l) ==
    /\ Len(file) >= headerOffset + l /\ HeaderAt(file, Len(file), l)
    /\ file' = SubSeq(file, 1, Len(file) - headerOffset - l)
    /\ ret' = SubSeq(file, Len(file) - headerOffset - l + 1, Len(file) - headerOffset)
    /\ returned' = returned \cup {r \in Records : ret' = Kept(r)}
    /\ UNCHANGED written

\* only one goroutine is inside Push or Pop
LEMMA Exclusive ==
    ASSUME Unlocked = {}, MuInv, NEW p \in Pushers \cup {Popper}, NEW q \in Pushers \cup {Popper},
           pc[p] # "idle"
    PROVE  mu = p /\ (pc[q] # "idle" => p = q)
<1>1. p \in Lockers \cup {Popper} /\ q \in Lockers \cup {Popper}
  BY DEF Pushers
<1> QED
  BY <1>1 DEF MuInv

\* nobody is while the mutex is free
LEMMA NobodyInside ==
    ASSUME Unlocked = {}, MuInv, mu = Free, NEW p \in Pushers \cup {Popper}
    PROVE  pc[p] = "idle"
<1>1. p \in Lockers \cup {Popper}
  BY DEF Pushers
<1>2. Free # p
  BY StackAssumption
<1> QED
  BY <1>1, <1>2 DEF MuInv

\* a free mutex is what every push waits for
LEMMA PushLocks ==
    ASSUME Unlocked = {}, NEW p, Lock(p) PROVE mu = Free
  BY DEF Lock

\* the file, and what has gone in and out
Unchanged == UNCHANGED <<file, written, returned, ret>>

\* what a step does to the file
Moves == Unchanged \/ (\E r \in Records : Pushes(r)) \/ (\E l \in Lengths : Pops(l))

\* every step of Push and Pop leaves the file, appends a frame or takes one
\* off
LEMMA FileChanges ==
    ASSUME Unlocked = {}, TypeInv, PushInv, PopInv, [Next]_vars
    PROVE  Moves
<1>1. ASSUME NEW p \in Pushers, NEW r \in Records, PushCall(p, r) PROVE Moves
  BY <1>1 DEF PushCall, Moves, Unchanged
<1>2. ASSUME NEW p \in Pushers, PushSeek(p) PROVE Moves
  BY <1>2 DEF PushSeek, Moves, Unchanged
<1>3. ASSUME NEW p \in Pushers, PushWrite(p) PROVE Moves
  <2>1. pos = Len(file) /\ Len(file) <= MOffset /\ SliceFits(arg[p]) /\ arg[p] \in Records
    BY <1>3 DEF PushWrite, Step, PushInv, TypeInv, PcTypes
  <2>2. toWrite(arg[p]) \in Seq(Bytes) /\ file \in Seq(Bytes) /\ pos \in Nat
    BY <2>1, FrameFacts DEF TypeInv, FileTypes
  <2>3. file' = file \o toWrite(arg[p])
    BY <1>3, <2>1, <2>2, WriteFacts DEF PushWrite
  <2>4. Pushes(arg[p])
    BY <1>3, <2>1, <2>3 DEF PushWrite, Pushes
  <2> QED
    BY <2>1, <2>4 DEF Moves
<1>4. CASE PopSize
  BY <1>4 DEF PopSize, Moves, Unchanged
<1>5. CASE PopSeekHeader
  BY <1>5 DEF PopSeekHeader, Moves, Unchanged
<1>6. CASE PopReadHeader
  BY <1>6 DEF PopReadHeader, Moves, Unchanged
<1>7. CASE PopSeekData
  BY <1>7 DEF PopSeekData, Moves, Unchanged
<1>8. CASE PopReadData
  BY <1>8 DEF PopReadData, Moves, Unchanged
<1>9. CASE PopTruncate
  <2>1. /\ popv.size = Len(file) /\ HeaderAt(file, Len(file), popv.length)
        /\ popv.buf = SubSeq(file, DataOffset + 1, Len(file) - headerOffset)
        /\ popv.length \in Lengths /\ DataOffset \in Nat /\ file \in Seq(Bytes)
    BY <1>9 DEF PopTruncate, Step, PopInv, TypeInv, FileTypes, Reading
  <2>2. DataOffset = Len(file) - headerOffset - popv.length
    BY <2>1 DEF DataOffset
  <2>3. Len(file) \in Nat /\ popv.length \in Nat
    BY <2>1, LenProperties, Constants
  <2>4. Len(file) >= headerOffset + popv.length /\ DataOffset <= Len(file)
    BY <2>1, <2>2, <2>3, Constants
  <2>5. file' = SubSeq(file, 1, DataOffset)
    BY <1>9, <2>1, <2>4, TruncateFacts DEF PopTruncate
  <2>6. ret' = popv.buf /\ returned' = returned \cup {r \in Records : ret' = Kept(r)}
    BY <1>9 DEF PopTruncate
  <2>7. UNCHANGED written
    BY <1>9 DEF PopTruncate
  <2>8. Pops(popv.length)
    BY <2>1, <2>2, <2>4, <2>5, <2>6, <2>7 DEF Pops
  <2> QED
    BY <2>1, <2>8 DEF Moves
<1>10. CASE UNCHANGED vars
  BY <1>10 DEF vars, Moves, Unchanged
<1> QED
  BY <1>1, <1>2, <1>3, <1>4, <1>5, <1>6, <1>7, <1>8, <1>9, <1>10 DEF Next, Push, Pop

\* a pusher about to write stands at the end of a file within the limit
LEMMA PushInvStep ==
    ASSUME Unlocked = {}, TypeInv, PushInv, [Next]_vars
    PROVE  PushInv'
<1>1. ASSUME NEW p \in Pushers, NEW r \in Records, PushCall(p, r) PROVE PushInv'
  <2>1. \A q \in Pushers : pc[q] = "idle"
    BY <1>1, NobodyInside, PushLocks DEF PushCall, TypeInv
  <2>2. \A q \in Pushers : pc'[q] # "write"
    BY <1>1, <2>1, Constants DEF PushCall, TypeInv, PcTypes
  <2> QED
    BY <2>2 DEF PushInv
<1>2. ASSUME NEW p \in Pushers, PushSeek(p) PROVE PushInv'
  <2>1. pc[p] = "seek" /\ \A q \in Pushers : q # p => pc[q] = "idle"
    BY <1>2, Exclusive DEF PushSeek, Step, TypeInv
  <2>2. \A q \in Pushers : q # p => pc'[q] = "idle"
    BY <1>2, <2>1 DEF PushSeek, Return, TypeInv, PcTypes
  <2>3. Len(file) \in Nat /\ MOffset \in Nat
    BY LenProperties, Constants DEF TypeInv, FileTypes
  <2>4. pc'[p] = "write" => ~OverLimit(Len(file)) /\ SliceFits(arg[p])
    BY <1>2, <2>1 DEF PushSeek, Return, TypeInv, PcTypes
  <2>5. pc'[p] = "write" => Len(file) <= MOffset /\ SliceFits(arg[p])
    BY <2>3, <2>4 DEF OverLimit
  <2>6. pos' = Len(file) /\ UNCHANGED <<file, arg>>
    BY <1>2 DEF PushSeek
  <2> QED
    BY <2>2, <2>5, <2>6 DEF PushInv
<1>3. ASSUME NEW p \in Pushers, PushWrite(p) PROVE PushInv'
  <2>1. pc[p] = "write" /\ \A q \in Pushers : q # p => pc[q] = "idle"
    BY <1>3, Exclusive DEF PushWrite, Step, TypeInv
  <2>2. \A q \in Pushers : pc'[q] = "idle"
    BY <1>3, <2>1 DEF PushWrite, Return, TypeInv, PcTypes
  <2> QED
    BY <2>2 DEF PushInv
<1>4. CASE PopSize
  <2>1. \A q \in Pushers : pc[q] = "idle"
    BY <1>4, NobodyInside DEF PopSize, TypeInv
  <2>2. \A q \in Pushers : pc'[q] # "write"
    BY <1>4, <2>1, Constants DEF PopSize, TypeInv, PcTypes
  <2> QED
    BY <2>2 DEF PushInv
<1>5. CASE PopSeekHeader
  <2>1. \A q \in Pushers : pc[q] = "idle"
    BY <1>5, Exclusive, Constants DEF PopSeekHeader, Step, TypeInv
  <2>2. \A q \in Pushers : pc'[q] # "write"
    BY <1>5, <2>1, Constants DEF PopSeekHeader, Return, TypeInv, PcTypes
  <2> QED
    BY <2>2 DEF PushInv
<1>6. CASE PopReadHeader
  <2>1. \A q \in Pushers : pc[q] = "idle"
    BY <1>6, Exclusive, Constants DEF PopReadHeader, Step, TypeInv
  <2>2. \A q \in Pushers : pc'[q] # "write"
    BY <1>6, <2>1, Constants DEF PopReadHeader, Return, TypeInv, PcTypes
  <2> QED
    BY <2>2 DEF PushInv
<1>7. CASE PopSeekData
  <2>1. \A q \in Pushers : pc[q] = "idle"
    BY <1>7, Exclusive, Constants DEF PopSeekData, Step, TypeInv
  <2>2. \A q \in Pushers : pc'[q] # "write"
    BY <1>7, <2>1, Constants DEF PopSeekData, Return, TypeInv, PcTypes
  <2> QED
    BY <2>2 DEF PushInv
<1>8. CASE PopReadData
  <2>1. \A q \in Pushers : pc[q] = "idle"
    BY <1>8, Exclusive, Constants DEF PopReadData, Step, TypeInv
  <2>2. \A q \in Pushers : pc'[q] # "write"
    BY <1>8, <2>1, Constants DEF PopReadData, Return, TypeInv, PcTypes
  <2> QED
    BY <2>2 DEF PushInv
<1>9. CASE PopTruncate
  <2>1. \A q \in Pushers : pc[q] = "idle"
    BY <1>9, Exclusive, Constants DEF PopTruncate, Step, TypeInv
  <2>2. \A q \in Pushers : pc'[q] # "write"
    BY <1>9, <2>1, Constants DEF PopTruncate, Return, TypeInv, PcTypes
  <2> QED
    BY <2>2 DEF PushInv
<1>10. CASE UNCHANGED vars
  BY <1>10 DEF vars, PushInv
<1> QED
  BY <1>1, <1>2, <1>3, <1>4, <1>5, <1>6, <1>7, <1>8, <1>9, <1>10 DEF Next, Push, Pop

\* what Pop has found out stays true
LEMMA PopInvStep ==
    ASSUME Unlocked = {}, TypeInv, Framed(file), PopInv, [Next]_vars
    PROVE  PopInv'
<1>1. ASSUME NEW p \in Pushers, NEW r \in Records, PushCall(p, r) PROVE PopInv'
  <2>1. pc[Popper] = "idle"
    BY <1>1, NobodyInside, PushLocks DEF PushCall, Step, TypeInv
  <2>2. pc'[Popper] = "idle"
    BY <1>1, <2>1, Constants DEF PushCall, Return, TypeInv, PcTypes
  <2> QED
    BY <2>2 DEF PopInv, Reading
<1>2. ASSUME NEW p \in Pushers, PushSeek(p) PROVE PopInv'
  <2>1. pc[Popper] = "idle"
    BY <1>2, Exclusive, Constants DEF PushSeek, Step, TypeInv
  <2>2. pc'[Popper] = "idle"
    BY <1>2, <2>1, Constants DEF PushSeek, Return, TypeInv, PcTypes
  <2> QED
    BY <2>2 DEF PopInv, Reading
<1>3. ASSUME NEW p \in Pushers, PushWrite(p) PROVE PopInv'
  <2>1. pc[Popper] = "idle"
    BY <1>3, Exclusive, Constants DEF PushWrite, Step, TypeInv
  <2>2. pc'[Popper] = "idle"
    BY <1>3, <2>1, Constants DEF PushWrite, Return, TypeInv, PcTypes
  <2> QED
    BY <2>2 DEF PopInv, Reading
<1>4. CASE PopSize
  <2>1. pc'[Popper] = "seekHeader"
    BY <1>4 DEF PopSize, TypeInv, PcTypes
  <2>2. popv'.size = Len(file) /\ Len(file) >= headerOffset /\ file' = file
    BY <1>4 DEF PopSize, TypeInv, FileTypes
  <2> QED
    BY <2>1, <2>2 DEF PopInv, Reading
<1>5. CASE PopSeekHeader
  <2>1. pc[Popper] = "seekHeader" /\ UNCHANGED <<file, popv>>
    BY <1>5 DEF PopSeekHeader, Step
  <2>2. CASE Return(Popper)
    <3>1. pc'[Popper] = "idle"
      BY <2>2 DEF Return, TypeInv, PcTypes
    <3> QED
      BY <3>1 DEF PopInv, Reading
  <2>3. CASE pos' = Len(file) - headerOffset /\ pc' = [pc EXCEPT ![Popper] = "readHeader"]
    <3>1. pc'[Popper] = "readHeader"
      BY <2>3 DEF TypeInv, PcTypes
    <3> QED
      BY <2>1, <2>3, <3>1 DEF PopInv, Reading
  <2> QED
    BY <1>5, <2>2, <2>3 DEF PopSeekHeader
<1>6. CASE PopReadHeader
  <2>1. pc[Popper] = "readHeader" /\ UNCHANGED file
    BY <1>6 DEF PopReadHeader, Step
  <2>2. /\ pos = Len(file) - headerOffset /\ popv.size = Len(file) /\ Len(file) >= headerOffset
        /\ file \in Seq(Bytes) /\ Len(file) \in Nat
    BY <2>1, LenProperties DEF PopInv, TypeInv, FileTypes
  <2>3. PICK l \in Lengths : HeaderAt(file, Len(file), l)
    BY <2>2, FramedLast, Constants DEF TypeInv
  <2>4. pos + 1 = Len(file) - 1 /\ pos + 2 = Len(file) /\ ~(pos + headerOffset > Len(file))
    BY <2>2, Constants
  <2>5. Decode(file[pos + 1], file[pos + 2]) = {l}
    BY <2>3, <2>4, DecodeHeader
  <2>6. /\ popv' = [popv EXCEPT !.length = l]
        /\ \/ Return(Popper)
           \/ pc' = [pc EXCEPT ![Popper] = "seekData"]
    BY <1>6, <2>4, <2>5 DEF PopReadHeader
  <2>7. popv'.length = l /\ popv'.size = Len(file)
    BY <2>2, <2>6 DEF TypeInv, FileTypes
  <2>8. pc'[Popper] = "idle" \/ pc'[Popper] = "seekData"
    BY <2>6 DEF Return, TypeInv, PcTypes
  <2> QED
    BY <2>1, <2>2, <2>3, <2>7, <2>8 DEF PopInv, Reading
<1>7. CASE PopSeekData
  <2>1. pc[Popper] = "seekData" /\ UNCHANGED <<file, popv>> /\ pos' = DataOffset
    BY <1>7 DEF PopSeekData, Step
  <2>2. pc'[Popper] = "readData"
    BY <1>7 DEF PopSeekData, TypeInv, PcTypes
  <2>3. DataOffset' = DataOffset
    BY <2>1 DEF DataOffset
  <2> QED
    BY <2>1, <2>2, <2>3 DEF PopInv, Reading
<1>8. CASE PopReadData
  <2>1. pc[Popper] = "readData" /\ UNCHANGED file
    BY <1>8 DEF PopReadData, Step
  <2>2. /\ pos = DataOffset /\ popv.size = Len(file) /\ HeaderAt(file, Len(file), popv.length)
        /\ file \in Seq(Bytes) /\ Len(file) \in Nat /\ popv.length \in Nat /\ DataOffset \in Nat
        /\ popv.buf \in Seq(Bytes)
    BY <2>1, LenProperties, Constants DEF PopInv, TypeInv, FileTypes, Reading
  <2>3. DataOffset = Len(file) - 2 - popv.length
    BY <2>2, Constants DEF DataOffset
  <2>4. CASE popv.length > 0 /\ pos >= Len(file)
    BY <2>2, <2>3, <2>4
  <2>5. CASE ~(popv.length > 0 /\ pos >= Len(file))
    <3> DEFINE end == pos + popv.length
               last == IF end < Len(file) THEN end ELSE Len(file)
               read == SubSeq(file, pos + 1, last)
               zeros == Zeros(popv.length - Len(read))
    <3>1. /\ last = Len(file) - 2
          /\ last \in Nat
          /\ last <= Len(file)
          /\ pos \in Nat
          /\ last - pos = popv.length
      <4> DEFINE k == popv.length
                 m == Len(file)
      <4>1. k \in Nat /\ m \in Nat /\ pos \in Nat /\ pos = m - 2 - k
        BY <2>2, <2>3
      <4> HIDE DEF k, m
      <4>2. pos + k = m - 2 /\ pos + k < m /\ m - 2 \in Nat
        BY <4>1
      <4>3. last = m - 2
        BY <4>2 DEF k, m
      <4> HIDE DEF last
      <4>4. last = m - 2 /\ last \in Nat /\ last <= m /\ last - pos = k
        BY <4>1, <4>2, <4>3
      <4> QED
        BY <4>1, <4>4 DEF k, m
    <3>2. read = SubSeq(file, DataOffset + 1, Len(file) - headerOffset)
      BY <2>2, <3>1, Constants
    <3>3. read \in Seq(Bytes) /\ Len(read) = popv.length
      <4> HIDE DEF last
      <4> QED
        BY <2>2, <3>1
    <3> HIDE DEF read, last
    <3>4. zeros = <<>>
      BY <2>2, <3>3, ZerosFacts
    <3> HIDE DEF zeros
    <3>5. read \o zeros = read
      BY <3>3, <3>4, ConcatEmptySeq
    <3>6. /\ popv' = [popv EXCEPT !.buf = read \o zeros]
          /\ pc' = [pc EXCEPT ![Popper] = "truncate"]
      BY <1>8, <2>5, Zenon DEF PopReadData, read, zeros, last
    <3>7. popv'.buf = read /\ popv'.size = popv.size /\ popv'.length = popv.length
      BY <3>5, <3>6 DEF TypeInv, FileTypes
    <3>8. pc'[Popper] = "truncate" /\ DataOffset' = DataOffset
      BY <3>6, <3>7 DEF TypeInv, PcTypes, DataOffset
    <3>9. Len(file) >= headerOffset
      BY <2>1 DEF PopInv
    <3> QED
      BY <2>1, <2>2, <3>2, <3>7, <3>8, <3>9 DEF PopInv, Reading
  <2> QED
    BY <2>4, <2>5
<1>9. CASE PopTruncate
  <2>1. pc'[Popper] = "idle"
    BY <1>9 DEF PopTruncate, Return, TypeInv, PcTypes
  <2> QED
    BY <2>1 DEF PopInv, Reading
<1>10. CASE UNCHANGED vars
  BY <1>10 DEF vars, PopInv, DataOffset
<1> QED
  BY <1>1, <1>2, <1>3, <1>4, <1>5, <1>6, <1>7, <1>8, <1>9, <1>10 DEF Next, Push, Pop

-----------------------------------------------------------------------------
(* The invariant                                                           *)

\* a pop takes off what is read first
LEMMA PopsLast ==
    ASSUME TypeInv, Framed(file), NEW l \in Lengths, Pops(l)
    PROVE  /\ Parsed(file') \in Seq(Seq(Bytes)) /\ ret' \in Seq(Bytes)
           /\ Parsed(file) = Append(Parsed(file'), ret')
           /\ Framed(file') /\ Len(file') <= Len(file)
<1>1. /\ file \in Seq(Bytes) /\ Len(file) >= headerOffset + l /\ HeaderAt(file, Len(file), l)
      /\ l \in Nat /\ Len(file) \in Nat /\ Len(file) # 0
  BY LenProperties, Constants DEF Pops, TypeInv, FileTypes
<1>2. /\ file' = SubSeq(file, 1, Len(file) - headerOffset - l)
      /\ ret' = SubSeq(file, Len(file) - headerOffset - l + 1, Len(file) - headerOffset)
  BY DEF Pops
<1>3. /\ Parsed(file') \in Seq(Seq(Bytes)) /\ ret' \in Seq(Bytes)
      /\ Parsed(file) = Append(Parsed(file'), ret')
  BY <1>1, <1>2, ParsedLast
<1>4. Framed(file')
  BY <1>1, <1>2, FramedCut
<1>5. Len(file') <= Len(file)
  <2> DEFINE s == Len(file) - headerOffset - l
  <2>1. s \in Nat /\ s <= Len(file)
    BY <1>1, Constants
  <2>2. file' = SubSeq(file, 1, s)
    BY <1>2
  <2> HIDE DEF s
  <2> QED
    BY <1>1, <2>1, <2>2
<1> QED
  BY <1>3, <1>4, <1>5

\* a file without frames holds nothing
LEMMA ParsedEmpty == Parsed(<<>>) = <<>>
<1>1. <<>> \in Seq(Bytes) /\ Len(<<>>) = 0 /\ 0 \in 0 .. Len(<<>>) /\ 0 < headerOffset
  BY EmptySeq, Constants
<1>2. Parsed(<<>>) = Parse(<<>>)[0] /\ Parse(<<>>)[0] = Rule(<<>>, Parse(<<>>), 0)
  BY <1>1, ParseExists, ParseRule
<1>3. Rule(<<>>, Parse(<<>>), 0) = <<>>
  BY <1>1 DEF Rule
<1> QED
  BY <1>2, <1>3

\* the file stays cut into frames
LEMMA FramedStep ==
    ASSUME Unlocked = {}, TypeInv, LockedInv, [Next]_vars
    PROVE  Framed(file')
<1>1. CASE Unchanged
  BY <1>1 DEF Unchanged, LockedInv
<1>2. ASSUME NEW r \in Records, Pushes(r) PROVE Framed(file')
  BY <1>2, FramedPush DEF Pushes, LockedInv, TypeInv, FileTypes
<1>3. ASSUME NEW l \in Lengths, Pops(l) PROVE Framed(file')
  BY <1>3, PopsLast DEF LockedInv
<1> QED
  BY <1>1, <1>2, <1>3, FileChanges DEF LockedInv, Moves

\* only a file within the limit grows, by at most a frame
LEMMA SizeBoundedStep ==
    ASSUME Unlocked = {}, TypeInv, LockedInv, [Next]_vars
    PROVE  SizeBounded'
<1>1. CASE Unchanged
  BY <1>1 DEF Unchanged, LockedInv, SizeBounded
<1>2. ASSUME NEW r \in Records, Pushes(r) PROVE SizeBounded'
  <2>1. /\ toWrite(r) \in Seq(Bytes) /\ Len(toWrite(r)) = length16(r) + 2 /\ length16(r) \in Nat
        /\ length16(r) + 2 <= HeaderMod - 1
    BY <1>2, FrameFacts, LengthFacts, Constants DEF Pushes
  <2>2. /\ file \in Seq(Bytes)
        /\ Len(file) \in Nat
        /\ Len(file) <= MOffset
        /\ file' = file \o toWrite(r)
    BY <1>2, LenProperties DEF Pushes, TypeInv, FileTypes
  <2>3. Len(file') = Len(file) + Len(toWrite(r))
    BY <2>1, <2>2, ConcatProperties
  <2> QED
    BY <2>1, <2>2, <2>3, Constants DEF SizeBounded
<1>3. ASSUME NEW l \in Lengths, Pops(l) PROVE SizeBounded'
  <2>1. Len(file') <= Len(file) /\ file' \in Seq(Bytes) /\ file \in Seq(Bytes)
    BY <1>3, PopsLast, FileTypesStep DEF LockedInv, TypeInv, FileTypes
  <2>2. Len(file') \in Nat /\ Len(file) \in Nat
    BY <2>1, LenProperties
  <2> QED
    BY <2>1, <2>2, Constants DEF LockedInv, SizeBounded
<1> QED
  BY <1>1, <1>2, <1>3, FileChanges DEF LockedInv, Moves

\* no record is lost
LEMMA SurvivingStep ==
    ASSUME Unlocked = {}, TypeInv, LockedInv, [Next]_vars
    PROVE  Surviving'
<1>1. CASE Unchanged
  BY <1>1 DEF Unchanged, LockedInv, Surviving
<1>2. ASSUME NEW x \in Records, Pushes(x) PROVE Surviving'
  <2>1. /\ Parsed(file) \in Seq(Seq(Bytes)) /\ Kept(x) \in Seq(Bytes)
        /\ Parsed(file') = Append(Parsed(file), Kept(x))
    BY <1>2, ParsedPush DEF Pushes, TypeInv, FileTypes
  <2>2. ToSet(Parsed(file')) = ToSet(Parsed(file)) \cup {Kept(x)}
    BY <2>1, AppendSet
  <2>3. ASSUME NEW r \in written' \ returned' PROVE Kept(r) \in ToSet(Parsed(file'))
    <3>1. r = x \/ r \in written \ returned
      BY <1>2, <2>3 DEF Pushes
    <3> QED
      BY <2>2, <3>1 DEF LockedInv, Surviving
  <2> QED
    BY <2>3 DEF Surviving
<1>3. ASSUME NEW l \in Lengths, Pops(l) PROVE Surviving'
  <2>1. /\ Parsed(file') \in Seq(Seq(Bytes)) /\ ret' \in Seq(Bytes)
        /\ Parsed(file) = Append(Parsed(file'), ret')
    BY <1>3, PopsLast DEF LockedInv
  <2>2. ToSet(Parsed(file)) = ToSet(Parsed(file')) \cup {ret'}
    BY <2>1, AppendSet
  <2>3. ASSUME NEW r \in written' \ returned' PROVE Kept(r) \in ToSet(Parsed(file'))
    <3>1. r \in written \ returned /\ r \in Records /\ ret' # Kept(r)
      BY <1>3, <2>3 DEF Pops, TypeInv, SetTypes
    <3> QED
      BY <2>2, <3>1 DEF LockedInv, Surviving
  <2> QED
    BY <2>3 DEF Surviving
<1> QED
  BY <1>1, <1>2, <1>3, FileChanges DEF LockedInv, Moves

\* The types hold whoever takes the mutex.
THEOREM Invariance == Spec => []TypeInv
<1>1. TypeInv /\ [Next]_vars => TypeInv'
  BY FileTypesStep, PcTypesStep, MuInvStep, SetTypesStep DEF TypeInv
<1> QED
  BY <1>1, InitTypeInv, PTL DEF Spec

\* Typing, and the mutex: whoever pushes or pops, with the mutex of the pool
\* (workerPool.go:62-66) or without it (workerPool.go:109), the mutex is held
\* exactly by the goroutine inside a locked operation, and a length that Pop
\* reads fits the 16-bit header.
THEOREM TypeCorrect == Spec => []TypeOK
<1>1. TypeInv => TypeOK
  BY DEF TypeInv, FileTypes, MuInv, SetTypes, TypeOK, Lengths
<1> QED
  BY <1>1, Invariance, PTL

\* While all callers take the mutex the file is cut into frames, Push and Pop
\* go by what they have found out of its end, and nothing is lost.
THEOREM LockedInvariance ==
    ASSUME Unlocked = {} PROVE Spec => []LockedInv
<1>1. Init => LockedInv
  <2> HAVE Init
  <2>1. file = <<>> /\ written = {} /\ \A p \in Pushers \cup {Popper} : pc[p] = "idle"
    BY DEF Init
  <2>2. Len(file) = 0
    BY <2>1
  <2>3. SizeBounded
    BY <2>2, Constants DEF SizeBounded
  <2>4. PushInv /\ PopInv
    BY <2>1, Constants DEF PushInv, PopInv, Reading
  <2>5. Framed(file) /\ Surviving
    BY <2>1, FramedEmpty DEF Surviving
  <2> QED
    BY <2>3, <2>4, <2>5 DEF LockedInv
<1>2. TypeInv /\ LockedInv /\ [Next]_vars => LockedInv'
  <2> HAVE TypeInv /\ LockedInv /\ [Next]_vars
  <2>1. PushInv' /\ PopInv'
    BY PushInvStep, PopInvStep DEF LockedInv
  <2>2. Framed(file') /\ SizeBounded' /\ Surviving'
    BY FramedStep, SizeBoundedStep, SurvivingStep
  <2> QED
    BY <2>1, <2>2 DEF LockedInv
<1> QED
  BY <1>1, <1>2, Invariance, PTL DEF Spec

\* The limit is tested before the write (fileQueue.go:33-40), so a file whose
\* writers all take the mutex outgrows it by at most one frame, and a frame
\* whose length wraps is never written.
THEOREM SizeBound ==
    ASSUME Unlocked = {} PROVE Spec => []SizeBounded
<1>1. LockedInv => SizeBounded
  BY DEF LockedInv
<1> QED
  BY <1>1, LockedInvariance, PTL

\* While all callers take the mutex, no record that was written is lost before
\* a Pop returns it (README.md:20); the push of a canceled task, which does
\* not take it (workerPool.go:109), is what breaks this.
THEOREM Survive ==
    ASSUME Unlocked = {} PROVE Spec => []RecordsSurvive
<1>1. LockedInv => RecordsSurvive
  BY DEF LockedInv, Surviving, RecordsSurvive
<1> QED
  BY <1>1, LockedInvariance, PTL

\* the last element of a sequence, and the ones before it
LEMMA LastFront ==
    ASSUME NEW T, NEW q \in Seq(T), NEW x \in T
    PROVE  LET a == Append(q, x) IN a # <<>> /\ a[Len(a)] = x /\ SubSeq(a, 1, Len(a) - 1) = q
<1> DEFINE a == Append(q, x)
<1>1. /\ Len(q) \in Nat /\ Len(a) = Len(q) + 1 /\ a \in Seq(T)
      /\ \A i \in 1 .. Len(q) : a[i] = q[i]
      /\ a[Len(q) + 1] = x
  BY AppendProperties, LenProperties
<1> HIDE DEF a
<1>2. a # <<>>
  <2>1. Len(a) # 0 /\ Len(<<>>) = 0
    BY <1>1
  <2> QED
    BY <2>1, Zenon
<1>3. Len(a) - 1 = Len(q)
  BY <1>1
<1> DEFINE b == SubSeq(a, 1, Len(q))
<1>4. b \in Seq(T) /\ Len(b) = Len(q) /\ \A i \in 1 .. Len(q) : b[i] = q[i]
  BY <1>1
<1> HIDE DEF b
<1>5. b = q
  BY <1>4
<1> QED
  BY <1>1, <1>2, <1>3, <1>5 DEF a, b

\* The file is a LIFO stack of records (workerPool.go:62-66) as long as all
\* callers take the mutex: a write is a push, a truncation returns the last
\* payload and takes it off, and nothing else changes what Pop would read.
THEOREM Implements ==
    ASSUME Unlocked = {} PROVE Spec => ImplementsStack
<1>1. Init => Abstract!Init
  BY ParsedEmpty DEF Init, Abstract!Init
<1>2. TypeInv /\ LockedInv /\ [Next]_vars => [Abstract!Next]_<<Parsed(file), ret>>
  <2> HAVE TypeInv /\ LockedInv /\ [Next]_vars
  <2>1. CASE Unchanged
    BY <2>1 DEF Unchanged
  <2>2. ASSUME NEW r \in Records, Pushes(r) PROVE Abstract!Next
    <3>1. Parsed(file') = Append(Parsed(file), Kept(r)) /\ ret' = ret
      BY <2>2, ParsedPush DEF Pushes, TypeInv, FileTypes
    <3>2. Abstract!Push(Kept(r))
      BY <3>1 DEF Abstract!Push
    <3> QED
      BY <3>2 DEF Abstract!Next
  <2>3. ASSUME NEW l \in Lengths, Pops(l) PROVE Abstract!Next
    <3>1. /\ Parsed(file') \in Seq(Seq(Bytes)) /\ ret' \in Seq(Bytes)
          /\ Parsed(file) = Append(Parsed(file'), ret')
      BY <2>3, PopsLast DEF LockedInv
    <3>2. /\ Parsed(file) # <<>> /\ Parsed(file)[Len(Parsed(file))] = ret'
          /\ SubSeq(Parsed(file), 1, Len(Parsed(file)) - 1) = Parsed(file')
      BY <3>1, LastFront
    <3>3. Abstract!Pop
      BY <3>2 DEF Abstract!Pop, Abstract!Last, Abstract!Front
    <3> QED
      BY <3>3 DEF Abstract!Next
  <2> QED
    BY <2>1, <2>2, <2>3, FileChanges DEF LockedInv, Moves
<1> QED
  BY <1>1, <1>2, Invariance, LockedInvariance, PTL DEF Spec, ImplementsStack,
     Abstract!Spec

=============================================================================
