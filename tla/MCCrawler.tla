------------------------------ MODULE MCCrawler ------------------------------
(***************************************************************************)
(* A web of three pages.  There are two paths to c, so c may be visited    *)
(* first at depth 2 and again at depth 1, while the token of its link to   *)
(* itself is queued; that link is also a circle.                           *)
(***************************************************************************)
EXTENDS Crawler

CONSTANTS a, b, c

MCLinks == (a :> <<b, c>>) @@ (b :> <<c>>) @@ (c :> <<c>>)
=============================================================================
