----------------------------- MODULE RecordStack -----------------------------
(***************************************************************************)
(* What the pool expects of its collection (workerPool.go:62-66): a LIFO   *)
(* stack of byte strings.                                                  *)
(***************************************************************************)
EXTENDS Sequences, SequencesExt

CONSTANTS
    Payloads,    \* the byte strings that may be pushed
    NoPayload    \* before the first Pop

VARIABLES
    stack,       \* the payloads, the top last
    ret          \* what the last successful Pop returned

Init ==
    /\ stack = <<>>
    /\ ret = NoPayload

Push(x) ==
    /\ stack' = Append(stack, x)
    /\ UNCHANGED ret

Pop ==
    /\ stack # <<>>
    /\ ret' = Last(stack)
    /\ stack' = Front(stack)

Next == (\E x \in Payloads : Push(x)) \/ Pop

Spec == Init /\ [][Next]_<<stack, ret>>
=============================================================================
