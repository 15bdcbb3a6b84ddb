--------------------------- MODULE PriorityBuffer ---------------------------
(***************************************************************************)
(* What the scheduler expects of its task buffer: a double-ended priority  *)
(* queue.  A task is known to the buffer by its priority alone, so the     *)
(* content is a bag of priorities.  Taking from either end returns an      *)
(* extreme priority and removes one occurrence of it; taking from an empty *)
(* buffer returns NoPriority and changes nothing.                          *)
(***************************************************************************)
EXTENDS Integers, BagsExt, Bags

CONSTANTS
    Priorities,   \* the priorities a task may have
    NoPriority    \* what an unsuccessful take returns

VARIABLES
    held,         \* the bag of buffered priorities
    ret           \* the last value returned by a take

Lowest(S)  == CHOOSE p \in S : \A q \in S : p <= q
Highest(S) == CHOOSE p \in S : \A q \in S : p >= q

Init ==
    /\ held = EmptyBag
    /\ ret = NoPriority

Insert(p) ==
    /\ held' = BagAdd(held, p)
    /\ ret' = NoPriority

TakeLowest ==
    IF held = EmptyBag
    THEN ret' = NoPriority /\ UNCHANGED held
    ELSE /\ ret' = Lowest(BagToSet(held))
         /\ held' = BagRemove(held, Lowest(BagToSet(held)))

TakeHighest ==
    IF held = EmptyBag
    THEN ret' = NoPriority /\ UNCHANGED held
    ELSE /\ ret' = Highest(BagToSet(held))
         /\ held' = BagRemove(held, Highest(BagToSet(held)))

Next ==
    \/ \E p \in Priorities : Insert(p)
    \/ TakeLowest
    \/ TakeHighest

Spec == Init /\ [][Next]_<<held, ret>>
=============================================================================
