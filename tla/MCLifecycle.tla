---------------------------- MODULE MCLifecycle ----------------------------
(* The factory with two concurrent clients, one URL to add.                 *)
EXTENDS Lifecycle

CONSTANT u

MCBatches == {<<u>>}
=============================================================================
