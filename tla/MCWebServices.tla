---------------------------- MODULE MCWebServices ----------------------------
(***************************************************************************)
(* An instance of WebServices for TLC: three calls, two of them alike.     *)
(***************************************************************************)
EXTENDS WebServices

CONSTANTS c1, c2, c3

TwoAlike == [c \in {c1, c2, c3} |-> IF c = c3 THEN "page" ELSE "query"]
=============================================================================
