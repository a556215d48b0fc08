----------------------------- MODULE MCRequests -----------------------------
(* A client with two or three requests, one of them with an unknown command. *)
EXTENDS Requests

CONSTANTS r1, r2, r3

TwoRequests == {r1, r2}
OneKnown    == {r1}
=============================================================================
