---------------------------- MODULE InspectionTask ----------------------------
(***************************************************************************)
(* CInspectionTaskComp (Include/iinsp): a supplier made of suppliers.  It  *)
(* passes its calls on to its subtasks and to additional suppliers, one by *)
(* one, and keeps a summary of the subtasks: a work status, recalculated   *)
(* by TaskStatusObserver, and a category, recalculated when it is asked    *)
(* for after something has changed.  A subtask may be reached through      *)
(* CSupplierActivationProxyComp, which can be disabled.                    *)
(*                                                                         *)
(* A subtask is CSupplierCompBase without inputs; the module Supplier has  *)
(* the whole of it.  Besides the task, its own view calls it.  A view that *)
(* is told of a change may ask the task for its category, in the middle of *)
(* any call.  The self task, ReduceHierarchy, messages and parameter sets  *)
(* are left out.                                                           *)
(***************************************************************************)
EXTENDS Integers, Sequences

CONSTANTS
    SubtasksCount,
    AdditionalCount,
    Proxies             \* suppliers behind an activation proxy

Suppliers == 1..(SubtasksCount + AdditionalCount)
Subtasks  == 1..SubtasksCount

ASSUME TaskAssumption ==
    /\ SubtasksCount \in Nat
    /\ AdditionalCount \in Nat
    /\ Proxies \subseteq Suppliers

WS_INVALID  == 0
WS_INIT     == 1
WS_LOCKED   == 2
WS_OK       == 3
WS_CANCELED == 4
WS_FAILED   == 5
WorkStatus  == WS_INVALID..WS_FAILED

IC_NONE     == 0
IC_INFO     == 1
IC_ERROR    == 3
IC_CRITICAL == 4
Categories  == IC_NONE..IC_CRITICAL

VARIABLES
    status,         \* m_workStatus of each supplier
    lastState,      \* m_lastWorkState
    isInputValid,   \* m_isInputValid
    result,         \* the category a calculated result has
    enabled,        \* the SupplierActivator of a proxy
    workStatus,     \* m_workStatus of the task
    isStatusKnown,  \* m_isStatusKnown
    resultCategory, \* m_resultCategory
    notifiers,      \* suppliers with an entry in m_subtaskNotifiers
    calls,          \* what is still to be called, the first maybe under way
    inTest,         \* the last operation begun is a test
    runs,           \* how often each supplier has calculated in it, up to two
    refused,        \* suppliers whose InitializeWork has failed in it
    switched        \* a proxy was switched after the last recalculation of workStatus

supplierVars == <<status, lastState, isInputValid, result>>
taskVars     == <<workStatus, isStatusKnown, resultCategory, notifiers>>
testVars     == <<inTest, runs, refused>>
vars == <<supplierVars, enabled, taskVars, calls, testVars, switched>>

\* GetWorkStatus of a supplier as the task sees it
IsOff(s) == s \in Proxies /\ ~enabled[s]
StatusIn(st, s) == IF IsOff(s) THEN WS_INVALID ELSE st[s]

Worst(S) == CHOOSE w \in S : \A v \in S : v <= w

WorstStatus(st) == Worst({WS_INVALID} \cup {StatusIn(st, s) : s \in Subtasks})

Init ==
    /\ status = [s \in Suppliers |-> WS_INVALID]
    /\ lastState = [s \in Suppliers |-> WS_INVALID]
    /\ isInputValid = [s \in Suppliers |-> FALSE]
    /\ result = [s \in Suppliers |-> IC_NONE]
    /\ enabled \in [Proxies -> BOOLEAN]
    /\ workStatus = WS_INVALID
    /\ isStatusKnown = FALSE
    /\ resultCategory = IC_NONE
    /\ notifiers = {}
    /\ calls = <<>>
    /\ inTest = FALSE
    /\ runs = [s \in Suppliers |-> 0]
    /\ refused = {}
    /\ switched = FALSE

-----------------------------------------------------------------------------
(***************************************************************************)
(* The summary.  EnsureStatusKnown goes through the subtasks in order.  A  *)
(* subtask without a result sets the category back to IC_NONE, unless its  *)
(* proxy is disabled; otherwise a subtask tells its own category, a failed *)
(* one IC_CRITICAL, and a proxy, which is no information provider,         *)
(* nothing.  So the category is the worst of those told after the last     *)
(* subtask without a result.  SummaryInOrder is the loop as it is written. *)
(***************************************************************************)
IsMissing(s) == StatusIn(status, s) < WS_OK /\ ~IsOff(s)

CategoryOf(s) ==
    IF status[s] = WS_FAILED THEN IC_CRITICAL
    ELSE IF status[s] = WS_OK /\ s \notin Proxies THEN result[s]
    ELSE IC_NONE

\* Mutant: a missing result only hides the subtasks' own categories.
Counts_AnyOrder(s) ==
    /\ StatusIn(status, s) >= WS_OK
    /\ \A other \in Subtasks : ~IsMissing(other)

Counts(s) ==
    /\ StatusIn(status, s) >= WS_OK
    /\ \A later \in Subtasks : later > s => ~IsMissing(later)

\* Mutant: the category of the last subtask counts.
Summary_Last ==
    IF \E s \in Subtasks : IsMissing(s) THEN IC_NONE
    ELSE Worst({IC_INFO} \cup
               {CategoryOf(s) : s \in {p \in Subtasks : Counts(p) /\ p = SubtasksCount}})

Summary ==
    Worst({IF \E s \in Subtasks : IsMissing(s) THEN IC_NONE ELSE IC_INFO}
            \cup {CategoryOf(s) : s \in {p \in Subtasks : Counts(p)}})

SummaryInOrder ==
    LET UpTo[i \in 0..SubtasksCount] ==
            IF i = 0 THEN IC_INFO
            ELSE LET before == UpTo[i - 1]
                     w == StatusIn(status, i)
                 IN  IF w < WS_OK THEN IF IsOff(i) THEN before ELSE IC_NONE
                     ELSE IF w = WS_FAILED THEN IC_CRITICAL
                     ELSE IF w = WS_OK /\ i \notin Proxies /\ result[i] > before THEN result[i]
                     ELSE before
    IN  UpTo[SubtasksCount]

EnsureStatusKnown ==
    /\ ~isStatusKnown
    /\ resultCategory' = Summary
    /\ isStatusKnown' = TRUE
    /\ UNCHANGED <<supplierVars, enabled, workStatus, notifiers, calls, testVars, switched>>

\* Mutant: the observer is told before the change.
SetSupplierState_Before(s, w) ==
    /\ status' = [status EXCEPT ![s] = w]
    /\ IF w # status[s] /\ s \in Subtasks
       THEN workStatus' = WorstStatus(status) /\ switched' = FALSE
       ELSE UNCHANGED <<workStatus, switched>>

\* Status::SetSupplierState of supplier s: a change is told to TaskStatusObserver.
SetSupplierState(s, w) ==
    /\ status' = [status EXCEPT ![s] = w]
    /\ IF w # status[s] /\ s \in Subtasks
       THEN workStatus' = WorstStatus(status') /\ switched' = FALSE
       ELSE UNCHANGED <<workStatus, switched>>

\* Either observer of the task: of the models of its subtasks, and of their status.
AfterUpdate(s, isTold) ==
    isStatusKnown' = (isStatusKnown /\ ~(isTold /\ s \in Subtasks))

-----------------------------------------------------------------------------
(***************************************************************************)
(* The operations of the task, each a sequence of calls.  A call of the    *)
(* task goes through the proxy, one of the supplier's own view does not.   *)
(***************************************************************************)
Call(op, s) == [op |-> op, supplier |-> s, proxy |-> TRUE]
ForEach(op) == [s \in Suppliers |-> Call(op, s)]

\* Mutant: the subtasks are counted from zero.
CallsOf_FromZero(op) ==
    CASE op = "initialize" -> ForEach("open") \o ForEach("initialize")
      [] op = "finish" ->
            [n \in 1..(2 * (SubtasksCount + AdditionalCount)) |->
                Call(IF n % 2 = 1 THEN "finish" ELSE "close", (n - 1) \div 2)]
      [] OTHER -> ForEach(op)

CallsOf(op) ==
    CASE op = "initialize" -> ForEach("open") \o ForEach("initialize")
      [] op = "finish" ->
            [n \in 1..(2 * (SubtasksCount + AdditionalCount)) |->
                Call(IF n % 2 = 1 THEN "finish" ELSE "close", (n + 1) \div 2)]
      [] OTHER -> ForEach(op)

Operations == {"clear", "invalidate", "initialize", "finish"}

EndTest ==
    /\ inTest' = FALSE
    /\ runs' = [s \in Suppliers |-> 0]
    /\ refused' = {}

Operation(op) ==
    /\ calls = <<>>
    /\ calls' = CallsOf(op)
    /\ EndTest
    /\ UNCHANGED <<supplierVars, enabled, taskVars, switched>>

\* OnAutoTest of the view
Test ==
    /\ calls = <<>>
    /\ calls' = CallsOf("clear") \o CallsOf("invalidate")
                    \o CallsOf("initialize") \o CallsOf("finish")
    /\ inTest' = TRUE
    /\ runs' = [s \in Suppliers |-> 0]
    /\ refused' = {}
    /\ UNCHANGED <<supplierVars, enabled, taskVars, switched>>

\* DoTest of the view of one supplier
TestSupplier(s) ==
    /\ calls = <<>>
    /\ calls' = [n \in 1..3 |->
                    [op |-> <<"invalidate", "initialize", "finish">>[n],
                     supplier |-> s, proxy |-> FALSE]]
    /\ EndTest
    /\ UNCHANGED <<supplierVars, enabled, taskVars, switched>>

\* Mutant: the proxy does not watch its activator.
SetSupplierEnabled_Quiet(s) ==
    /\ calls = <<>>
    /\ s \in Proxies
    /\ enabled' = [enabled EXCEPT ![s] = ~@]
    /\ switched' = TRUE
    /\ EndTest
    /\ UNCHANGED <<supplierVars, taskVars, calls>>

\* SetSupplierEnabled of a proxy.  Its observers are told of a change of the proxy
\* only when the task does not hold one open already.
SetSupplierEnabled(s) ==
    /\ calls = <<>>
    /\ s \in Proxies
    /\ enabled' = [enabled EXCEPT ![s] = ~@]
    /\ AfterUpdate(s, s \notin notifiers)
    /\ switched' = TRUE
    /\ EndTest
    /\ UNCHANGED <<supplierVars, workStatus, resultCategory, notifiers, calls>>

\* BeforeUpdate of a parameter or an input of the supplier
ParamsChange(s) ==
    /\ calls = <<>>
    /\ isInputValid[s]
    /\ isInputValid' = [isInputValid EXCEPT ![s] = FALSE]
    /\ UNCHANGED <<status, lastState, result, enabled, taskVars, calls, testVars, switched>>

-----------------------------------------------------------------------------
(***************************************************************************)
(* The calls.  IsCalled holds for the first of them, unless its proxy is   *)
(* disabled.                                                               *)
(***************************************************************************)
IsNext(op, s) == calls # <<>> /\ Head(calls).op = op /\ Head(calls).supplier = s
IsCalled(op, s) == IsNext(op, s) /\ ~(Head(calls).proxy /\ IsOff(s))
Return == calls' = Tail(calls)

CallDisabled(s) ==
    /\ \E op \in Operations : IsNext(op, s) /\ ~IsCalled(op, s)
    /\ Return
    /\ UNCHANGED <<supplierVars, enabled, taskVars, testVars, switched>>

InvalidateSupplier(s) ==
    /\ IsCalled("invalidate", s)
    /\ isInputValid' = [isInputValid EXCEPT ![s] = FALSE]
    /\ Return
    /\ UNCHANGED <<status, lastState, result, enabled, taskVars, testVars, switched>>

\* Mutant: m_lastWorkState is not reset.
ClearWorkResults_KeepsLast(s) ==
    /\ IsCalled("clear", s)
    /\ status[s] # WS_LOCKED
    /\ isInputValid' = [isInputValid EXCEPT ![s] = FALSE]
    /\ SetSupplierState(s, WS_INVALID)
    /\ AfterUpdate(s, s \notin notifiers \/ status[s] # WS_INVALID)
    /\ Return
    /\ UNCHANGED <<lastState, result, enabled, resultCategory, notifiers, testVars>>

ClearWorkResults(s) ==
    /\ IsCalled("clear", s)
    /\ status[s] # WS_LOCKED
    /\ lastState' = [lastState EXCEPT ![s] = WS_INVALID]
    /\ isInputValid' = [isInputValid EXCEPT ![s] = FALSE]
    /\ SetSupplierState(s, WS_INVALID)
    /\ AfterUpdate(s, s \notin notifiers \/ status[s] # WS_INVALID)
    /\ Return
    /\ UNCHANGED <<result, enabled, resultCategory, notifiers, testVars>>

OpenChange(s) ==
    /\ IsNext("open", s)
    /\ notifiers' = notifiers \cup {s}
    /\ Return
    /\ UNCHANGED <<supplierVars, enabled, workStatus, isStatusKnown, resultCategory,
                   testVars, switched>>

CloseChange(s) ==
    /\ IsNext("close", s)
    /\ notifiers' = notifiers \ {s}
    /\ AfterUpdate(s, s \in notifiers)
    /\ Return
    /\ UNCHANGED <<supplierVars, enabled, workStatus, resultCategory, testVars, switched>>

\* EnsureWorkInitialized: returns at once, or locks, initializes and unlocks.
IsInitialized(s) == status[s] = WS_INIT

SkipInitialize(s) ==
    /\ IsCalled("initialize", s)
    /\ IsInitialized(s)
    /\ Return
    /\ UNCHANGED <<supplierVars, enabled, taskVars, testVars, switched>>

LockToInitialize(s) ==
    /\ IsCalled("initialize", s)
    /\ ~IsInitialized(s)
    /\ status[s] # WS_LOCKED
    /\ SetSupplierState(s, WS_LOCKED)
    /\ AfterUpdate(s, TRUE)
    /\ UNCHANGED <<lastState, isInputValid, result, enabled, resultCategory, notifiers,
                   calls, testVars>>

InitializeWork(s, w) ==
    /\ IsCalled("initialize", s)
    /\ status[s] = WS_LOCKED
    /\ w \in {WS_INIT, WS_FAILED}
    /\ SetSupplierState(s, w)
    /\ AfterUpdate(s, TRUE)
    /\ refused' = IF inTest /\ w = WS_FAILED THEN refused \cup {s} ELSE refused
    /\ Return
    /\ UNCHANGED <<lastState, isInputValid, result, enabled, resultCategory, notifiers,
                   inTest, runs>>

\* EnsureWorkFinished: locks and calculates if there is anything to do.
\* Mutant: work is done whether or not it was initialized.
MustProduce_AnyStatus(s) ==
    /\ ~isInputValid[s] \/ lastState[s] <= WS_INIT
    /\ status[s] # WS_LOCKED

MustProduce(s) ==
    /\ ~isInputValid[s] \/ lastState[s] <= WS_INIT
    /\ status[s] = WS_INIT

LockToProduce(s) ==
    /\ IsCalled("finish", s)
    /\ MustProduce(s)
    /\ SetSupplierState(s, WS_LOCKED)
    /\ AfterUpdate(s, TRUE)
    /\ UNCHANGED <<lastState, isInputValid, result, enabled, resultCategory, notifiers,
                   calls, testVars>>

FinishWork(s, w) ==
    /\ isInputValid' = [isInputValid EXCEPT ![s] = TRUE]
    /\ SetSupplierState(s, w)
    /\ AfterUpdate(s, w # status[s])
    /\ Return
    /\ UNCHANGED <<enabled, resultCategory, notifiers, inTest, refused>>

ProduceObject(s, w, c) ==
    /\ IsCalled("finish", s)
    /\ status[s] = WS_LOCKED
    /\ w \in WS_OK..WS_FAILED
    /\ result' = [result EXCEPT ![s] = IF w = WS_OK THEN c ELSE IC_NONE]
    /\ lastState' = [lastState EXCEPT ![s] = w]
    /\ runs' = [runs EXCEPT ![s] = IF inTest /\ @ < 2 THEN @ + 1 ELSE @]
    /\ FinishWork(s, w)

KeepResult(s) ==
    /\ IsCalled("finish", s)
    /\ ~MustProduce(s)
    /\ status[s] # WS_LOCKED
    /\ FinishWork(s, lastState[s])
    /\ UNCHANGED <<result, lastState, runs>>

-----------------------------------------------------------------------------
Client ==
    \/ \E op \in Operations : Operation(op)
    \/ Test
    \/ \E s \in Suppliers : TestSupplier(s) \/ SetSupplierEnabled(s) \/ ParamsChange(s)

Step ==
    \E s \in Suppliers :
        \/ CallDisabled(s)
        \/ InvalidateSupplier(s) \/ ClearWorkResults(s)
        \/ OpenChange(s) \/ CloseChange(s)
        \/ SkipInitialize(s) \/ LockToInitialize(s)
        \/ \E w \in {WS_INIT, WS_FAILED} : InitializeWork(s, w)
        \/ LockToProduce(s) \/ KeepResult(s)
        \/ \E w \in WS_OK..WS_FAILED, c \in {IC_INFO, IC_ERROR} : ProduceObject(s, w, c)

Next == Client \/ Step \/ EnsureStatusKnown

Spec == Init /\ [][Next]_vars

-----------------------------------------------------------------------------
TypeOK ==
    /\ status \in [Suppliers -> WorkStatus]
    /\ lastState \in [Suppliers -> WorkStatus]
    /\ isInputValid \in [Suppliers -> BOOLEAN]
    /\ result \in [Suppliers -> Categories]
    /\ enabled \in [Proxies -> BOOLEAN]
    /\ workStatus \in WorkStatus
    /\ isStatusKnown \in BOOLEAN
    /\ resultCategory \in Categories
    /\ notifiers \in SUBSET Suppliers
    /\ calls \in Seq([op : Operations \cup {"open", "close"},
                       supplier : Suppliers, proxy : BOOLEAN])
    /\ inTest \in BOOLEAN
    /\ runs \in [Suppliers -> 0..2]
    /\ refused \in SUBSET Suppliers
    /\ switched \in BOOLEAN

\* A proxy was switched, and a change of a proxy is held open by the task: the one
\* switched may have told nobody yet.
SwitchHeld == switched /\ notifiers \cap Proxies \cap Subtasks # {}

\* Whenever a view asks, in the middle of any call, the category m_isStatusKnown
\* vouches for is the one the subtasks have now: no change of a subtask, and no
\* switching of a proxy, escapes both observers, unless the proxy is switched
\* between EnsureWorkInitialized and EnsureWorkFinished (TaskHeld.cfg).
CategoryCurrent ==
    isStatusKnown /\ ~SwitchHeld => resultCategory = Summary

\* False: the category is current at any time.  A proxy that is switched while the
\* task holds its change open is noticed when EnsureWorkFinished closes it.
CategoryAlwaysCurrent ==
    isStatusKnown => resultCategory = Summary

\* The category is what the loop over the subtasks computes, in every state in which
\* it may be asked for: told in their order, a subtask without a result hides those
\* before it, and not those behind it.
SummaryFollowsLoop ==
    Summary = SummaryInOrder

\* The work status is the worst one of the subtasks; only after a proxy was switched
\* it is not, until the status of some subtask changes.
WorkStatusCurrent ==
    ~switched => workStatus = WorstStatus(status)

\* Once every subtask that is not switched off has finished, the category is the
\* worst of theirs, whatever their order and whatever was asked before.
CategoryIsWorst ==
    LET finished == {s \in Subtasks : StatusIn(status, s) >= WS_OK}
        told == {IC_INFO} \cup {result[s] : s \in {p \in finished \ Proxies : status[p] = WS_OK}}
                          \cup {IC_CRITICAL : s \in {p \in finished : status[p] = WS_FAILED}}
    IN  isStatusKnown /\ ~SwitchHeld /\ (\A s \in Subtasks : IsOff(s) \/ s \in finished)
            => resultCategory \in told /\ \A c \in told : c <= resultCategory

\* A test that has returned has calculated every supplier exactly once, unless it is
\* switched off or could not be initialized, whatever was left from earlier calls;
\* every change it has opened is closed.
TestCalculatesAll ==
    inTest /\ calls = <<>> =>
        /\ \A s \in Suppliers : runs[s] = IF IsOff(s) \/ s \in refused THEN 0 ELSE 1
        /\ notifiers = {}

\* After a test, a supplier that shows a result has calculated it in that test.
NoOldResult ==
    inTest /\ calls = <<>> =>
        \A s \in Suppliers : StatusIn(status, s) >= WS_OK => runs[s] = 1

\* "WS_FAILED: Work couldn't be done": a test in which a subtask could not be
\* initialized leaves the task in WS_FAILED.
RefusalShown ==
    inTest /\ calls = <<>> /\ refused \cap Subtasks # {} => workStatus = WS_FAILED

\* "Working status of the whole inspection provided by the method GetWorkStatus",
\* also after a proxy was switched.
WholeStatusCurrent ==
    calls = <<>> => workStatus = WorstStatus(status)
=============================================================================
