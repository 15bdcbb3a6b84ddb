---------------------------- MODULE MCWorkerPool ----------------------------
(* Small instances of the scheduler. *)
EXTENDS WorkerPool, TLC

CONSTANTS a, b, c

MCPriority == (a :> 1) @@ (b :> 2) @@ (c :> 3)

\* nothing, or one task left by an earlier session
MCStacks == {<<>>, <<a>>, <<b>>}
=============================================================================
