------------------------------ MODULE MCWizard ------------------------------
(* Three pages; the slave of the last depends on that of another. *)
EXTENDS Wizard

AllControlled == {0, 1, 2}
LastControlled == {1, 2}
LastOnFirst == [p \in AllControlled |-> IF p = 2 THEN {0} ELSE {}]
LastOnSecond == [p \in LastControlled |-> IF p = 2 THEN {1} ELSE {}]
=============================================================================
