----------------------------- MODULE MCWordIndex -----------------------------
(***************************************************************************)
(* Two words of different shards and without a common tri-gram, one of     *)
(* them with two tri-grams, and a word of one letter.                      *)
(***************************************************************************)
EXTENDS WordIndex

abc  == <<"a", "b", "c">>
bcdb == <<"b", "c", "d", "b">>

MCDocs == {<<abc, bcdb>>, <<bcdb, <<"a">>, abc>>}
=============================================================================
