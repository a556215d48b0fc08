---------------------------- MODULE ResultCache ----------------------------
(***************************************************************************)
(* What a network of suppliers promises its clients, apart from how        *)
(* Include/iinsp does it: every supplier keeps a result and says whether   *)
(* the result may be used without calculating it again.  Nothing a result  *)
(* depends on may change while the result is trusted; trust is won by a    *)
(* calculation from current inputs, and lost at any time.                  *)
(***************************************************************************)
EXTENDS Naturals

CONSTANTS
    Suppliers,
    Inputs,         \* Inputs[s]: what the result of s is calculated from
    Downstream(_)   \* everything calculated, directly or not, from s

VARIABLES
    result,         \* result[s] \in {"null", "current", "outdated"}
    trusted         \* trusted[s]: result[s] is used as it is

vars == <<result, trusted>>

Init ==
    /\ result = [s \in Suppliers |-> "null"]
    /\ trusted = [s \in Suppliers |-> FALSE]

NobodyTrusts(S) == \A d \in S : ~trusted[d]

(* result[s] becomes r, and with it every result calculated from s is outdated.  *)
Replace(s, r) ==
    result' = [d \in Suppliers |->
                  IF d = s THEN r
                  ELSE IF d \in Downstream(s) /\ result[d] = "current"
                       THEN "outdated" ELSE result[d]]

(* An invalidation arrives.  *)
Distrust(s) ==
    /\ trusted' = [trusted EXCEPT ![s] = FALSE]
    /\ UNCHANGED result

(* A parameter or an external input of s changes.  *)
Change(s) ==
    /\ NobodyTrusts({s} \cup Downstream(s))
    /\ Replace(s, IF result[s] = "current" THEN "outdated" ELSE result[s])
    /\ UNCHANGED trusted

(* A calculation starts to write the result, or gives up.  *)
Overwrite(s) ==
    /\ NobodyTrusts({s} \cup Downstream(s))
    /\ Replace(s, "outdated")
    /\ UNCHANGED trusted

(* A calculation from current inputs succeeds.  *)
Deliver(s) ==
    /\ NobodyTrusts({s} \cup Downstream(s))
    /\ \A i \in Inputs[s] : result[i] = "current"
    /\ Replace(s, "current")
    /\ trusted' = [trusted EXCEPT ![s] = TRUE]

(* The stored result turns out to be still good.  *)
Confirm(s) ==
    /\ result[s] = "current"
    /\ trusted' = [trusted EXCEPT ![s] = TRUE]
    /\ UNCHANGED result

Drop(s) ==
    /\ NobodyTrusts(Downstream(s))
    /\ Replace(s, "null")
    /\ trusted' = [trusted EXCEPT ![s] = FALSE]

Next ==
    \E s \in Suppliers :
        Distrust(s) \/ Change(s) \/ Overwrite(s) \/ Deliver(s) \/ Confirm(s) \/ Drop(s)

Spec == Init /\ [][Next]_vars
=============================================================================
