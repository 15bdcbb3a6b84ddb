---------------------------- MODULE MCMinMaxHeap ----------------------------
(***************************************************************************)
(* The heap on up to 17 tasks: the smallest array in which a task that     *)
(* moved to the root after a deletion sinks two grandchild levels and one  *)
(* inserted at the end climbs two.                                         *)
(***************************************************************************)
EXTENDS MinMaxHeap

MCSupply == (1 :> 7) @@ (2 :> 3) @@ (3 :> 7)
=============================================================================
