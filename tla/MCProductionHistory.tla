------------------------ MODULE MCProductionHistory ------------------------
(* Two or three parts with files of their own, or two with the same file.   *)
EXTENDS ProductionHistory

CONSTANTS p1, p2, p3, r1

TwoParts   == {p1, p2}
ThreeParts == {p1, p2, p3}
OneResult  == {r1}
Own        == [p \in Parts |-> p]
Shared     == [p \in Parts |-> p1]
=============================================================================
