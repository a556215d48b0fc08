---------------------------- MODULE MCHeartbeats ----------------------------
(* Two computers whose servers are ready or down. *)
EXTENDS Heartbeats

CONSTANTS a, b, ready

Computers == {a, b}
Reported  == {ready}
=============================================================================
