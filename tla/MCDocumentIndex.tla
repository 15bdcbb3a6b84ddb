--------------------------- MODULE MCDocumentIndex ---------------------------
(***************************************************************************)
(* Three pages: b repeats a but for one hash value, and c, which shares a  *)
(* chunk with them, is turned down by the model.  The word of b continues  *)
(* that of a behind a separator.                                           *)
(***************************************************************************)
EXTENDS DocumentIndex, TLC

CONSTANTS a, b, c

MCSign == (a :> <<1, 1, 1, 1, 1, 1>>) @@ (b :> <<1, 1, 1, 1, 1, 2>>)
            @@ (c :> <<1, 1, 1, 2, 3, 1>>)

MCWords == (a :> {<<"s">>}) @@ (b :> {<<"s", "_">>}) @@ (c :> {})
=============================================================================
