----------------------------- MODULE MCSupplier -----------------------------
(***************************************************************************)
(* Networks for TLC.  In a Pair the second supplier takes its input from   *)
(* the first, in a Chain the third takes it from the second.  In a Diamond *)
(* the third takes it from both, as a measurement from a camera image and  *)
(* from the position found in that image.                                  *)
(***************************************************************************)
EXTENDS Supplier

Two     == 1..2
Three   == 1..3
Pair    == <<{}, {1}>>
Chain   == <<{}, {1}, {2}>>
Diamond == <<{}, {1}, {1, 2}>>
Numbering == [s \in Suppliers |-> s]
=============================================================================
