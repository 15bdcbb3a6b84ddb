---------------------------- MODULE MCFileStack ----------------------------
(* Small instances of the on-disk stack, with headers of eight values. *)
EXTENDS FileStack, TLC

CONSTANTS one, three, five, cut, bad

\* 1, 3 and 5 bytes fit the header; 9 wraps to 1; 6 makes the frame wrap
MCLength == (one :> 1) @@ (three :> 3) @@ (five :> 5) @@ (cut :> 9) @@ (bad :> 6)
MCShort  == (one :> 1) @@ (three :> 3)
=============================================================================
