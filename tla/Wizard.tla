------------------------------- MODULE Wizard -------------------------------
(***************************************************************************)
(* CWizardDocumentComp with pages of type CComposedStateControllerComp,    *)
(* each with one CSelectionConsistencyControllerComp as slave controller.  *)
(*                                                                         *)
(* A page is entered and left by its controller, which may run a processor *)
(* when the user goes to the next page, and refuse.  Whether a page can be *)
(* left is answered by its slave from a cache, which observers of the      *)
(* page's selection parameters take back; a slave asks the slaves it       *)
(* depends on, too.  The wizard is left by DoWizardFinish, which visits    *)
(* the remaining pages, and its document can be loaded at any time.        *)
(*                                                                         *)
(* All of it is one thread.  SetSelectedOptionIndex checks, leaves a page  *)
(* and enters another in steps of their own: processors run and observers  *)
(* are told between them, ask and change parameters, but select no page.   *)
(***************************************************************************)
EXTENDS Integers

CONSTANTS
    PagesCount,     \* GetParamsSetsCount()
    Controlled,     \* the pages that are state controllers
    Dependencies    \* of the slave of a page, the pages of other slaves

Pages == 0 .. PagesCount - 1
NoPage == -1

\* A slave depends on slaves of earlier pages: the references are acyclic.
ASSUME WizardAssumption ==
    /\ PagesCount \in Nat
    /\ Controlled \subseteq Pages
    /\ Dependencies \in [Controlled -> SUBSET Controlled]
    /\ \A p \in Controlled : \A d \in Dependencies[p] : d < p

VARIABLES
    selected,       \* GetSelectedOptionIndex()
    active,         \* the pages whose m_isStateActive is set
    enabled,        \* the pages whose m_isStateEnabled is set
    accepting,      \* the pages whose leave processor is ready and accepts them
    consistent,     \* the pages whose selection parameters are consistent
    changing,       \* the pages whose parameters are in a change of their model
    cacheValid,     \* the pages whose slave has m_isCacheValid set
    leaveAllowed,   \* the pages whose slave has m_isLeaveAllowed set
    target,         \* the page SetSelectedOptionIndex is on its way to
    isNextPage,     \* isNextPage of SetSelectedOptionIndex
    left,           \* it has left the selected page
    operation,      \* the operation of the wizard that is under way
    currentPage,    \* currentPageIndex of DoWizardFinish
    checkPage,      \* checkPageIndex of DoWizardFinish
    finished        \* DoWizardFinish has returned true since the last selection

slaves == <<consistent, changing, cacheValid, leaveAllowed>>
verdicts == <<cacheValid, leaveAllowed>>
selection == <<target, isNextPage, left>>
loop == <<operation, currentPage, checkPage>>
vars == <<selected, active, enabled, accepting, slaves, selection, loop, finished>>

Operations == {"none", "finish", "load"}

Init ==
    /\ selected = NoPage
    /\ active = {}
    /\ enabled \in SUBSET Controlled
    /\ accepting \in SUBSET Controlled
    /\ consistent \in SUBSET Controlled
    /\ changing = {}
    /\ cacheValid = {}
    /\ leaveAllowed = {}
    /\ target = NoPage
    /\ isNextPage = FALSE
    /\ left = FALSE
    /\ operation = "none"
    /\ currentPage = NoPage
    /\ checkPage = 0
    /\ finished = FALSE

-----------------------------------------------------------------------------
(* What a slave answers.                                                   *)

\* IsLeaveAllowed of a slave: the cached verdict, or a new one.
SlaveAllows[p \in Controlled] ==
    IF p \in cacheValid
    THEN p \in leaveAllowed
    ELSE p \in consistent /\ \A d \in Dependencies[p] : SlaveAllows[d]

\* EnsureCacheValid of a slave whose cache is not valid.
Verdict(p) == p \in consistent /\ \A d \in Dependencies[p] : SlaveAllows[d]

\* The dependencies that are asked: those up to the first that refuses.
DependenciesAsked(p) ==
    {d \in Dependencies[p] :
        \A e \in Dependencies[p] : e < d => SlaveAllows[e]}

\* The slaves that calculate a verdict when the slave of a page is asked.
Calculating[p \in Controlled] ==
    IF p \in cacheValid
    THEN {}
    ELSE {p} \cup UNION {Calculating[d] : d \in DependenciesAsked(p)}

\* The caches after the slaves of the pages in asked have been asked.
Ask(asked) ==
    LET new == {p \in Controlled \ cacheValid :
                   \E q \in asked : p \in Calculating[q]}
    IN  /\ cacheValid' = cacheValid \cup new
        /\ leaveAllowed' =
               (leaveAllowed \ new) \cup {p \in new : Verdict(p)}

-----------------------------------------------------------------------------
(* What a page and the wizard answer.                                      *)

\* IsLeaveAllowed of a page; its slave is asked if its processor accepts.
IsLeaveAllowed(p) == p \in accepting /\ SlaveAllows[p]

\* A page that lets the user pass it: it is no controller, disabled, or content.
Passable(p) == p \in Controlled \cap enabled => IsLeaveAllowed(p)

FirstChecked == IF selected = NoPage THEN 0 ELSE selected

IsEnabled(p) == p \in Controlled => p \in enabled

IsPageSelectionAllowed(p) ==
    /\ p \in Pages
    /\ IsEnabled(p)
    /\ \A q \in FirstChecked .. p - 1 : Passable(q)

\* The pages it asks: those before p, up to the first that refuses.
AskedForSelection(p) ==
    IF p \in Pages /\ IsEnabled(p)
    THEN {q \in (FirstChecked .. p - 1) \cap Controlled \cap enabled :
              \A r \in FirstChecked .. q - 1 : Passable(r)}
    ELSE {}

\* All pages are asked, up to the first that refuses.
AskedForFinish ==
    {q \in Controlled \cap enabled : \A r \in 0 .. q - 1 : Passable(r)}

\* Mutant: an allowed next page is announced without asking the current one.
GetNextPageIndex_NotAsked ==
    LET next == {p \in Pages : p > selected /\ IsEnabled(p)}
    IN  IF next = {} THEN NoPage
        ELSE CHOOSE p \in next : \A q \in next : p <= q

\* The first enabled page behind the selected one, if that can be left.
GetNextPageIndex ==
    LET next == {p \in Pages : p > selected /\ IsEnabled(p)}
    IN  IF selected \in Controlled /\ ~IsLeaveAllowed(selected) THEN selected
        ELSE IF next = {} THEN NoPage
        ELSE CHOOSE p \in next : \A q \in next : p <= q

\* The last enabled page before the selected one.
GetPrevPageIndex ==
    LET previous == {p \in Pages : p < selected /\ IsEnabled(p)}
    IN  IF previous = {} THEN selected
        ELSE CHOOSE p \in previous : \A q \in previous : q <= p

-----------------------------------------------------------------------------
(***************************************************************************)
(* TryLeaveState and TryEnterState of a page, which does not ask its slave *)
(* but its processors, if the user goes on to the next page.  They may     *)
(* fail.  A page that is not active cannot be left, an active one cannot   *)
(* be entered.                                                             *)
(***************************************************************************)
MayLeave(p, isNext) == p \in active /\ (isNext => p \in accepting)
MayStay(p, isNext) == p \notin active \/ isNext
MayEnter(p) == p \notin active
MayRefuse(p, isNext) == p \in active \/ isNext

\* What SetSelectedOptionIndex asks for, short of a processor that then fails.
MaySelect(index) ==
    /\ IsPageSelectionAllowed(index)
    /\ selected \in Controlled => MayLeave(selected, index = GetNextPageIndex)
    /\ index \in Controlled => MayEnter(index)

NoSelection == target = NoPage

EndOperation ==
    /\ operation' = "none"
    /\ currentPage' = NoPage
    /\ checkPage' = 0

\* What SetSelectedOptionIndex has returned ends the loop of DoWizardFinish, or
\* takes it to the next page.
Return(ok) ==
    /\ target' = NoPage /\ isNextPage' = FALSE /\ left' = FALSE
    /\ \/ operation = "none" /\ UNCHANGED loop
       \/ operation = "finish" /\ ok
          /\ checkPage' = checkPage + 1
          /\ UNCHANGED <<operation, currentPage>>
       \/ operation = "finish" /\ ~ok /\ EndOperation

\* SetSelectedOptionIndex up to the call of TryLeaveState.
SetSelectedOptionIndex(index) ==
    /\ NoSelection
    /\ \/ /\ index = selected
          /\ Return(TRUE)
          /\ UNCHANGED verdicts
       \/ /\ index # selected
          /\ ~IsPageSelectionAllowed(index)
          /\ Return(FALSE)
          /\ Ask(accepting \cap AskedForSelection(index))
       \/ /\ index # selected
          /\ IsPageSelectionAllowed(index)
          /\ target' = index
          /\ isNextPage' = (index = GetNextPageIndex)
          /\ Ask(accepting \cap
                   (AskedForSelection(index) \cup ({selected} \cap Controlled)))
          /\ UNCHANGED <<left, loop>>
    /\ UNCHANGED <<selected, active, enabled, accepting, consistent, changing,
                    finished>>

\* TryLeaveState is called of the selected page, and may return false.
LeavePage ==
    /\ ~NoSelection /\ ~left
    /\ \/ /\ selected \in Controlled => MayLeave(selected, isNextPage)
          /\ active' = active \ {selected}
          /\ left' = TRUE
          /\ UNCHANGED <<target, isNextPage, loop>>
       \/ /\ selected \in Controlled
          /\ MayStay(selected, isNextPage)
          /\ Return(FALSE)
          /\ UNCHANGED active
    /\ UNCHANGED <<selected, enabled, accepting, slaves, finished>>

\* Mutant: the page that has been left stays selected if the other refuses.
EnterPage_Stays ==
    /\ left
    /\ \/ /\ target \in Controlled => MayEnter(target)
          /\ selected' = target
          /\ active' = active \cup ({target} \cap Controlled)
          /\ Return(TRUE)
       \/ /\ target \in Controlled
          /\ MayRefuse(target, isNextPage)
          /\ Return(FALSE)
          /\ UNCHANGED <<selected, active>>
    /\ finished' = FALSE
    /\ UNCHANGED <<enabled, accepting, slaves>>

\* TryEnterState is called of the target, and no page is selected if it returns
\* false.
EnterPage ==
    /\ left
    /\ \/ /\ target \in Controlled => MayEnter(target)
          /\ selected' = target
          /\ active' = active \cup ({target} \cap Controlled)
          /\ Return(TRUE)
       \/ /\ target \in Controlled
          /\ MayRefuse(target, isNextPage)
          /\ selected' = NoPage
          /\ Return(FALSE)
          /\ UNCHANGED active
    /\ finished' = FALSE
    /\ UNCHANGED <<enabled, accepting, slaves>>

-----------------------------------------------------------------------------
(* The operations of the wizard.                                           *)

Select(index) ==
    /\ operation = "none"
    /\ SetSelectedOptionIndex(index)

\* The pages behind the selected one are visited one by one.  What GetParamsSet
\* gives for NoPage is not part of this repository.
DoWizardFinish ==
    /\ operation = "none" /\ NoSelection
    /\ selected # NoPage
    /\ operation' = "finish"
    /\ currentPage' = selected
    /\ checkPage' = selected + 1
    /\ UNCHANGED <<selected, active, enabled, accepting, slaves, selection,
                    finished>>

VisitPage ==
    /\ operation = "finish" /\ NoSelection
    /\ checkPage \in Pages
    /\ \/ /\ checkPage \notin Controlled \cap enabled
          /\ checkPage' = checkPage + 1
          /\ UNCHANGED <<selected, active, enabled, accepting, slaves, selection,
                          operation, currentPage, finished>>
       \/ /\ checkPage \in Controlled \cap enabled
          /\ SetSelectedOptionIndex(checkPage)

\* The page on which DoWizardFinish was called is left, not the last one.
LeaveLastPage ==
    /\ operation = "finish"
    /\ checkPage \notin Pages
    /\ \/ /\ currentPage \in Controlled => MayLeave(currentPage, TRUE)
          /\ active' = active \ {currentPage}
          /\ finished' = TRUE
       \/ /\ currentPage \in Controlled
          /\ MayStay(currentPage, TRUE)
          /\ UNCHANGED <<active, finished>>
    /\ EndOperation
    /\ UNCHANGED <<selected, enabled, accepting, slaves, selection>>

\* Serialize from an archive: the page is left without its processor.
BeginLoad ==
    /\ operation = "none" /\ NoSelection
    /\ operation' = "load"
    /\ active' = active \ {selected}
    /\ UNCHANGED <<selected, enabled, accepting, slaves, selection, currentPage,
                    checkPage, finished>>

\* The parameters have been read, and index with them.
EndLoad(index) ==
    /\ operation = "load"
    /\ selected' = IF index \in active THEN NoPage ELSE index
    /\ active' = active \cup ({index} \cap Controlled)
    /\ finished' = FALSE
    /\ EndOperation
    /\ UNCHANGED <<enabled, accepting, slaves, selection>>

-----------------------------------------------------------------------------
(* Observers and views ask, users and observers change parameters.         *)

Query(asked) ==
    /\ Ask(accepting \cap asked)
    /\ UNCHANGED <<selected, active, enabled, accepting, consistent, changing,
                    selection, loop, finished>>

Queries ==
    \/ Query(AskedForFinish)
    \/ Query({selected} \cap Controlled)
    \/ \E p \in Pages : Query(AskedForSelection(p))

\* BeforeUpdate of the slave of p; one change is under way at a time.
BeforeUpdate(p) ==
    /\ changing = {}
    /\ changing' = {p}
    /\ cacheValid' = cacheValid \ {p}
    /\ UNCHANGED <<selected, active, enabled, accepting, consistent,
                    leaveAllowed, selection, loop, finished>>

ChangeParams(p) ==
    /\ p \in changing
    /\ consistent' \in {consistent \cup {p}, consistent \ {p}}
    /\ UNCHANGED <<selected, active, enabled, accepting, changing, verdicts,
                    selection, loop, finished>>

\* Mutant: only the begin of a change is observed.
AfterUpdate_KeepsCache(p) ==
    /\ p \in changing
    /\ changing' = {}
    /\ UNCHANGED <<selected, active, enabled, accepting, consistent, verdicts,
                    selection, loop, finished>>

\* AfterUpdate of the slave of p
AfterUpdate(p) ==
    /\ p \in changing
    /\ changing' = {}
    /\ cacheValid' = cacheValid \ {p}
    /\ UNCHANGED <<selected, active, enabled, accepting, consistent,
                    leaveAllowed, selection, loop, finished>>

\* A slave of a page that only tells whether it is enabled has changed.
UpdateAllMembers(p) ==
    /\ enabled' \in {enabled \cup {p}, enabled \ {p}}
    /\ UNCHANGED <<selected, active, accepting, slaves, selection, loop, finished>>

\* The leave processor of a page changes its mind.
ProcessorChanges(p) ==
    /\ accepting' \in {accepting \cup {p}, accepting \ {p}}
    /\ UNCHANGED <<selected, active, enabled, slaves, selection, loop, finished>>

Next ==
    \/ \E index \in Pages \cup {NoPage} : Select(index) \/ EndLoad(index)
    \/ LeavePage \/ EnterPage
    \/ DoWizardFinish \/ VisitPage \/ LeaveLastPage
    \/ BeginLoad
    \/ Queries
    \/ \E p \in Controlled :
          BeforeUpdate(p) \/ ChangeParams(p) \/ AfterUpdate(p)
            \/ UpdateAllMembers(p) \/ ProcessorChanges(p)

Spec == Init /\ [][Next]_vars

-----------------------------------------------------------------------------
\* Type invariant.
TypeOK ==
    /\ selected \in Pages \cup {NoPage}
    /\ active \subseteq Controlled
    /\ enabled \subseteq Controlled
    /\ accepting \subseteq Controlled
    /\ consistent \subseteq Controlled
    /\ changing \subseteq Controlled
    /\ cacheValid \subseteq Controlled
    /\ leaveAllowed \subseteq Controlled
    /\ target \in Pages \cup {NoPage}
    /\ isNextPage \in BOOLEAN
    /\ left \in BOOLEAN
    /\ operation \in Operations
    /\ currentPage \in Pages \cup {NoPage}
    /\ checkPage \in 0 .. PagesCount
    /\ finished \in BOOLEAN

\* No page but the selected one is active, whatever was refused on the way to
\* it, and a selected page is active until it is left for another, a document is
\* loaded or DoWizardFinish has returned true: entering and leaving go in pairs,
\* and every page shown has been entered.
Shown == operation # "load" /\ ~left /\ ~finished
OnlySelectedActive == active \subseteq {selected}
ShownIsEntered == selected \in Controlled /\ Shown => selected \in active
PageStates == OnlySelectedActive /\ ShownIsEntered

\* The cached verdict of a slave agrees with the parameters of its own page,
\* whoever asked while they were changed: an inconsistent page is never said to
\* be fit to leave, nor, if its slave depends on no other, a consistent one unfit.
VerdictCurrent ==
    \A p \in cacheValid \ changing :
        /\ p \in leaveAllowed => p \in consistent
        /\ Dependencies[p] = {} /\ p \in consistent => p \in leaveAllowed

\* While a page is shown, SetSelectedOptionIndex accepts the next and the previous
\* page that the view's buttons offer, unless a processor that it runs fails: what
\* was refused, left or loaded before keeps neither back.  Not so after
\* DoWizardFinish has returned true (StaysNavigable).
NavigationAgrees ==
    Shown =>
        /\ GetNextPageIndex \notin {NoPage, selected} => MaySelect(GetNextPageIndex)
        /\ GetPrevPageIndex # selected => MaySelect(GetPrevPageIndex)

\* A page that may be selected is not kept back by the page before it being left
\* already.  False: after DoWizardFinish has left the last page, TryLeaveState
\* refuses to leave it again, and no page can be selected any more.
StaysNavigable ==
    selected \in Controlled /\ operation = "none" /\ ~left => selected \in active

\* The cached verdict of a slave agrees with those of the slaves it depends on.
\* False: their models tell nobody when their own parameters change.
DependenciesCurrent ==
    \A p \in cacheValid \ changing : p \in leaveAllowed =>
        \A d \in Dependencies[p] \ changing : d \in consistent
=============================================================================
