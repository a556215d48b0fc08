-------------------------- MODULE MCInspectionTask --------------------------
(* Two subtasks, the first behind an activation proxy. *)
EXTENDS InspectionTask

FirstIsProxy == {1}
=============================================================================
