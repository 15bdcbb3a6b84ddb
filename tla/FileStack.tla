------------------------------ MODULE FileStack ------------------------------
(***************************************************************************)
(* The on-disk stack, internal/services/wfts/offline/scraper/fileQueue.go, *)
(* at the level of its system calls.  One open file, and so one offset, is *)
(* shared by everybody.  A record is its payload followed by its length as *)
(* a 16-bit header, so that the stack is read backwards from the end.      *)
(*                                                                         *)
(* The callers are those of workerPool.go: Submit pushes and the ticker    *)
(* pops under the mutex of the pool; a worker whose task was canceled      *)
(* pushes without it (workerPool.go:109).                                  *)
(***************************************************************************)
EXTENDS Integers, Sequences, SequencesExt, FiniteSets

CONSTANTS
    Records,     \* serialized tasks, each pushed at most once
    Length,      \* the number of bytes of each
    Lockers,     \* goroutines that push inside Submit
    Unlocked,    \* workers that push a canceled task
    Popper,      \* the ticker
    Free,        \* the mutex when nobody holds it
    NoRecord,
    HeaderMod,   \* the number of values of the header: 2^16 in the code
    MOffset      \* the size beyond which Push writes nothing

Pushers == Lockers \cup Unlocked

ASSUME StackAssumption ==
    /\ Length \in [Records -> Nat \ {0}]
    /\ Lockers \cap Unlocked = {} /\ Popper \notin Pushers
    /\ Free \notin Pushers \cup {Popper}
    /\ HeaderMod \in Nat /\ HeaderMod > 2
    /\ MOffset \in Nat

headerOffset == 2

VARIABLES
    file,      \* the bytes of the file
    pos,       \* the offset of the open file
    mu,        \* the holder of the mutex of the pool
    pc,        \* where each goroutine is
    arg,       \* the record each pusher pushes
    popv,      \* the local variables of Pop: size, length, buf
    todo,      \* the records not pushed yet
    written,   \* the records that a Push has written
    returned,  \* the records that a Pop has returned whole
    ret,       \* what the last successful Pop returned
    crashed    \* a slice expression was out of range

vars == <<file, pos, mu, pc, arg, popv, todo, written, returned, ret, crashed>>

-----------------------------------------------------------------------------
(* Bytes.  Byte i of the payload of r is <<"data", r, i>>; the two bytes of *)
(* a header know the length they encode; a gap in the file reads as zeros.  *)

Zero == <<"zero">>

Header(n) == <<<<"lo", n>>, <<"hi", n>>>>

\* the lengths two bytes may be read as: arbitrary when they are no header
Decode(lo, hi) ==
    IF lo[1] = "lo" /\ hi[1] = "hi" /\ lo[2] = hi[2] THEN {lo[2]}
    ELSE IF lo = Zero /\ hi = Zero THEN {0}
    ELSE 0 .. HeaderMod - 1

\* uint16(len(data))
length16(r) == Length[r] % HeaderMod

\* what copy leaves of the payload
Kept(r) == [i \in 1 .. length16(r) |-> <<"data", r, i>>]

\* headerOffset + length is computed in 16 bits; when it wraps the slice
\* toWrite[length:] is out of range
SliceFits(r) == length16(r) <= (headerOffset + length16(r)) % HeaderMod

toWrite(r) == Kept(r) \o Header(length16(r))

Zeros(n) == [i \in 1 .. n |-> Zero]

\* a write of bs at offset at, which may lie beyond the end
WriteAt(f, at, bs) ==
    LET grown == f \o Zeros(at - Len(f))
    IN  SubSeq(grown, 1, at) \o bs \o SubSeq(grown, at + Len(bs) + 1, Len(grown))

Truncate(f, n) == SubSeq(f \o Zeros(n - Len(f)), 1, n)

-----------------------------------------------------------------------------
NoPop == [size |-> 0, length |-> 0, buf |-> <<>>]

Init ==
    /\ file = <<>> /\ pos = 0
    /\ mu = Free
    /\ pc = [p \in Pushers \cup {Popper} |-> "idle"]
    /\ arg = [p \in Pushers |-> NoRecord]
    /\ popv = NoPop
    /\ todo = Records /\ written = {} /\ returned = {}
    /\ ret = NoRecord
    /\ crashed = FALSE

Step(p, from) == ~crashed /\ pc[p] = from

\* p returns to its caller, which unlocks the mutex if it had locked it
Return(p) ==
    /\ pc' = [pc EXCEPT ![p] = "idle"]
    /\ mu' = IF mu = p THEN Free ELSE mu

\* what a pusher does before Push
Lock(p) ==
    IF p \in Unlocked THEN UNCHANGED mu ELSE mu = Free /\ mu' = p

-----------------------------------------------------------------------------
(* Push                                                                    *)

PushCall(p, r) ==
    /\ Step(p, "idle")
    /\ r \in todo
    /\ Lock(p)
    /\ todo' = todo \ {r}
    /\ arg' = [arg EXCEPT ![p] = r]
    /\ pc' = [pc EXCEPT ![p] = "seek"]
    /\ UNCHANGED <<file, pos, popv, written, returned, ret, crashed>>

\* mutant: the size is not compared with the limit
OverLimitNever(size) == FALSE

OverLimit(size) == size > MOffset

\* Seek to the end, the test of the limit, and the building of the frame
PushSeek(p) ==
    /\ Step(p, "seek")
    /\ pos' = Len(file)
    /\ IF OverLimit(Len(file))
       THEN Return(p) /\ UNCHANGED crashed
       ELSE IF SliceFits(arg[p])
            THEN pc' = [pc EXCEPT ![p] = "write"] /\ UNCHANGED <<mu, crashed>>
            ELSE crashed' = TRUE /\ UNCHANGED <<pc, mu>>
    /\ UNCHANGED <<file, arg, popv, todo, written, returned, ret>>

PushWrite(p) ==
    /\ Step(p, "write")
    /\ file' = WriteAt(file, pos, toWrite(arg[p]))
    /\ pos' = pos + Len(toWrite(arg[p]))
    /\ written' = written \cup {arg[p]}
    /\ Return(p)
    /\ UNCHANGED <<arg, popv, todo, returned, ret, crashed>>

-----------------------------------------------------------------------------
(* Pop                                                                     *)

\* Lock, Seek to the end; without room for a header the stack is empty
PopSize ==
    /\ Step(Popper, "idle")
    /\ mu = Free
    /\ Len(file) >= headerOffset
    /\ mu' = Popper
    /\ pos' = Len(file)
    /\ popv' = [popv EXCEPT !.size = Len(file)]
    /\ pc' = [pc EXCEPT ![Popper] = "seekHeader"]
    /\ UNCHANGED <<file, arg, todo, written, returned, ret, crashed>>

\* Seek(-headerOffset, io.SeekEnd) fails on a file that has become too short
PopSeekHeader ==
    /\ Step(Popper, "seekHeader")
    /\ IF Len(file) < headerOffset
       THEN Return(Popper) /\ UNCHANGED pos
       ELSE /\ pos' = Len(file) - headerOffset
            /\ pc' = [pc EXCEPT ![Popper] = "readHeader"] /\ UNCHANGED mu
    /\ UNCHANGED <<file, arg, popv, todo, written, returned, ret, crashed>>

\* binary.Read, and the test for a corrupted file
PopReadHeader ==
    /\ Step(Popper, "readHeader")
    /\ IF pos + headerOffset > Len(file)
       THEN Return(Popper) /\ UNCHANGED <<pos, popv>>
       ELSE \E n \in Decode(file[pos + 1], file[pos + 2]) :
              /\ pos' = pos + headerOffset
              /\ popv' = [popv EXCEPT !.length = n]
              /\ IF popv.size - headerOffset - n < 0
                 THEN Return(Popper)
                 ELSE pc' = [pc EXCEPT ![Popper] = "seekData"] /\ UNCHANGED mu
    /\ UNCHANGED <<file, arg, todo, written, returned, ret, crashed>>

\* mutant: the header is forgotten
DataOffsetNoHeader == popv.size - popv.length

DataOffset == popv.size - headerOffset - popv.length

PopSeekData ==
    /\ Step(Popper, "seekData")
    /\ pos' = DataOffset
    /\ pc' = [pc EXCEPT ![Popper] = "readData"]
    /\ UNCHANGED <<file, mu, arg, popv, todo, written, returned, ret, crashed>>

\* Read may return fewer bytes than asked for; only an empty read at the end
\* of the file is an error
PopReadData ==
    /\ Step(Popper, "readData")
    /\ LET end  == pos + popv.length
           read == SubSeq(file, pos + 1, IF end < Len(file) THEN end ELSE Len(file))
       IN  IF popv.length > 0 /\ pos >= Len(file)
           THEN Return(Popper) /\ UNCHANGED <<pos, popv>>
           ELSE /\ pos' = pos + Len(read)
                /\ popv' = [popv EXCEPT !.buf = read \o Zeros(popv.length - Len(read))]
                /\ pc' = [pc EXCEPT ![Popper] = "truncate"] /\ UNCHANGED mu
    /\ UNCHANGED <<file, arg, todo, written, returned, ret, crashed>>

PopTruncate ==
    /\ Step(Popper, "truncate")
    /\ file' = Truncate(file, DataOffset)
    /\ ret' = popv.buf
    /\ returned' = returned \cup {r \in Records : popv.buf = Kept(r)}
    /\ popv' = NoPop
    /\ Return(Popper)
    /\ UNCHANGED <<pos, arg, todo, written, crashed>>

-----------------------------------------------------------------------------
Push(p) == (\E r \in Records : PushCall(p, r)) \/ PushSeek(p) \/ PushWrite(p)

Pop ==
    \/ PopSize \/ PopSeekHeader \/ PopReadHeader
    \/ PopSeekData \/ PopReadData \/ PopTruncate

Next == (\E p \in Pushers : Push(p)) \/ Pop

Spec == Init /\ [][Next]_vars

-----------------------------------------------------------------------------
(* Properties                                                              *)

\* Typing; the mutex is held by whoever is inside a locked operation.
TypeOK ==
    /\ pos \in Nat
    /\ \A p \in Lockers \cup {Popper} : mu = p <=> pc[p] # "idle"
    /\ todo \subseteq Records /\ written \subseteq Records /\ returned \subseteq Records
    /\ todo \cap written = {}
    /\ popv.length \in 0 .. HeaderMod - 1

\* The limit is tested before the write, so the file outgrows it by at most
\* one frame, and a frame by at most its header (fileQueue.go:33-40).
SizeBounded == Len(file) <= MOffset + HeaderMod - 1

\* the length that a header at the end of the first n bytes tells
LengthAt(f, n) == CHOOSE l \in Decode(f[n - 1], f[n]) : TRUE

\* The payloads in the file, read backwards as Pop does.
Parsed(f) ==
    LET parsed[n \in 0 .. Len(f)] ==
            LET start == n - headerOffset - LengthAt(f, n)
            IN  IF n < headerOffset \/ start < 0 THEN <<>>
                ELSE Append(parsed[start], SubSeq(f, start + 1, n - headerOffset))
    IN  parsed[Len(f)]

Abstract == INSTANCE RecordStack
    WITH stack <- Parsed(file), Payloads <- {Kept(r) : r \in Records},
         NoPayload <- NoRecord

\* As long as everybody takes the mutex, the file is a stack of records: the
\* framing survives every sequence of pushes and pops, even of records whose
\* length does not fit the header (they are cut, not mixed with others).
ImplementsStack == Abstract!Spec

Idle == \A p \in Pushers \cup {Popper} : pc[p] = "idle"

\* README.md:20, "an on-disk stack for persisting tasks": when nobody is inside
\* Push or Pop, a record that was written and not returned is in the file.
RecordsSurvive ==
    Idle => \A r \in written \ returned : Kept(r) \in ToSet(Parsed(file))
=============================================================================
