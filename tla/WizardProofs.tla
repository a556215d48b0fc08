----------------------------- MODULE WizardProofs -----------------------------
(***************************************************************************)
(* Proofs about Wizard, for any number of pages, controlled or not, and    *)
(* any acyclic dependencies of their slaves: the types, which pages are    *)
(* active, the verdicts on a page's own parameters, and that the pages     *)
(* offered next and before are accepted by SetSelectedOptionIndex.         *)
(***************************************************************************)
EXTENDS Wizard, FiniteSetTheorems, TLAPS

-----------------------------------------------------------------------------
(* The invariant.                                                          *)

(* What an operation under way keeps between its steps.  *)
UnderWay ==
    /\ operation = "finish" => currentPage \in Pages
    /\ operation = "finish" /\ ~NoSelection => checkPage \in Pages
    /\ operation = "load" => active = {} /\ NoSelection
    /\ left => target \in Pages /\ active = {}

(* One change of parameters is under way at a time.  *)
Single == \A p, q \in changing : p = q

IInv == TypeOK /\ PageStates /\ VerdictCurrent /\ UnderWay /\ Single

-----------------------------------------------------------------------------
(* Pages are numbers.                                                      *)

(* NoPage is no page, and controlled pages are pages.  *)
LEMMA PagesFacts ==
    /\ Pages \subseteq Nat
    /\ NoPage \notin Pages
    /\ Controlled \subseteq Pages
    /\ NoPage \notin Controlled
    /\ Dependencies \in [Controlled -> SUBSET Controlled]
  BY WizardAssumption DEF Pages, NoPage

(* A set of numbers has a smallest one: among the intervals from 0 to its *)
(* members there is one that contains no other.                           *)
LEMMA Smallest ==
    ASSUME NEW T \in SUBSET Nat, T # {}
    PROVE  \E x \in T : \A y \in T : x <= y
  <1> DEFINE F == {0 .. x : x \in T}
             W == StrictSubsetOrdering(Nat)
  <1>1. F \subseteq FiniteSubsetsOf(Nat)
    <2>1. ASSUME NEW x \in T
          PROVE  0 .. x \in FiniteSubsetsOf(Nat)
      <3>1. 0 \in Int /\ x \in Int
        OBVIOUS
      <3>2. IsFiniteSet(0 .. x)
        BY <3>1, FS_Interval
      <3>3. 0 .. x \in SUBSET Nat
        OBVIOUS
      <3>4. QED
        BY <3>2, <3>3 DEF FiniteSubsetsOf
    <2>2. QED
      BY <2>1
  <1>2. IsWellFoundedOn(W, FiniteSubsetsOf(Nat))
    BY FS_StrictSubsetOrderingWellFounded
  <1>3. F # {}
    OBVIOUS
  <1>4. \E X \in F : \A Y \in F : ~ (<<Y, X>> \in W)
    <2> HIDE DEF F, W
    <2>1. QED
      BY <1>1, <1>2, <1>3, WFMin
  <1>5. PICK x \in T : \A y \in T : ~ (<<0 .. y, 0 .. x>> \in W)
    <2> HIDE DEF W
    <2>1. QED
      BY <1>4
  <1>6. ASSUME NEW y \in T, y < x
        PROVE  FALSE
    <2>1. 0 .. y \subseteq 0 .. x /\ 0 .. y # 0 .. x
      <3>1. x \in 0 .. x /\ x \notin 0 .. y
        BY <1>6
      <3>2. QED
        BY <3>1, <1>6
    <2>2. \A A, B \in SUBSET Nat : A \subseteq B /\ A # B => <<A, B>> \in W
      BY DEF StrictSubsetOrdering
    <2>3. 0 .. y \in SUBSET Nat /\ 0 .. x \in SUBSET Nat
      OBVIOUS
    <2>4. <<0 .. y, 0 .. x>> \in W
      <3> HIDE DEF W
      <3>1. QED
        BY <2>1, <2>2, <2>3
    <2>5. QED
      BY <2>4, <1>5
  <1>7. QED
    BY <1>6

(* A set of pages has a greatest one.  *)
LEMMA Greatest ==
    ASSUME NEW n \in Nat, NEW T \in SUBSET (0 .. n), T # {}
    PROVE  \E x \in T : \A y \in T : y <= x
  <1> DEFINE D == {n - x : x \in T}
  <1>1. D \in SUBSET Nat /\ D # {}
    OBVIOUS
  <1>2. PICK d \in D : \A e \in D : d <= e
    <2> HIDE DEF D
    <2>1. QED
      BY <1>1, Smallest
  <1>3. PICK x \in T : d = n - x
    OBVIOUS
  <1>4. \A y \in T : n - x <= n - y
    BY <1>2, <1>3
  <1>5. QED
    BY <1>4

-----------------------------------------------------------------------------
(* What is offered is accepted.                                            *)

(* Both offers are allowed, in every state of the right types.  *)
LEMMA OffersAllowed ==
    ASSUME TypeOK
    PROVE  /\ GetNextPageIndex \notin {NoPage, selected}
                  => /\ IsPageSelectionAllowed(GetNextPageIndex)
                     /\ selected \in Controlled => IsLeaveAllowed(selected)
           /\ GetPrevPageIndex # selected
                  => /\ IsPageSelectionAllowed(GetPrevPageIndex)
                     /\ GetPrevPageIndex \in Pages
                     /\ GetPrevPageIndex # GetNextPageIndex
  <1> DEFINE next == {p \in Pages : p > selected /\ IsEnabled(p)}
             previous == {p \in Pages : p < selected /\ IsEnabled(p)}
  <1>1. ASSUME GetNextPageIndex \notin {NoPage, selected}
        PROVE  /\ IsPageSelectionAllowed(GetNextPageIndex)
               /\ selected \in Controlled => IsLeaveAllowed(selected)
    <2>1. /\ next # {}
          /\ ~(selected \in Controlled /\ ~IsLeaveAllowed(selected))
          /\ GetNextPageIndex =
                 CHOOSE p \in next : \A q \in next : p <= q
      BY <1>1 DEF GetNextPageIndex
    <2>2. next \in SUBSET Nat
      BY PagesFacts
    <2>3. \E p \in next : \A q \in next : p <= q
      <3> HIDE DEF next
      <3>1. QED
        BY <2>1, <2>2, Smallest
    <2> DEFINE n == GetNextPageIndex
    <2>4. n \in next /\ \A q \in next : n <= q
      <3> HIDE DEF next
      <3>1. QED
        BY <2>1, <2>3
    <2>5. ASSUME NEW q \in FirstChecked .. n - 1
          PROVE  Passable(q)
      <3>1. q \in Pages /\ q < n /\ (q = selected \/ q > selected)
        <4>1. n \in 0 .. PagesCount - 1 /\ selected \in Pages \cup {NoPage}
          BY <2>4 DEF TypeOK, Pages
        <4>2. QED
          BY <4>1, <2>5, WizardAssumption DEF FirstChecked, NoPage, Pages
      <3>2. CASE q = selected
        BY <2>1, <3>2 DEF Passable
      <3>3. CASE q > selected
        <4>1. q \notin next
          BY <2>4, <3>1, PagesFacts
        <4>2. ~IsEnabled(q)
          BY <4>1, <3>1, <3>3
        <4>3. QED
          BY <4>2 DEF IsEnabled, Passable
      <3>4. QED
        BY <3>1, <3>2, <3>3
    <2>6. QED
      BY <2>1, <2>4, <2>5 DEF IsPageSelectionAllowed
  <1>2. ASSUME GetPrevPageIndex # selected
        PROVE  /\ IsPageSelectionAllowed(GetPrevPageIndex)
               /\ GetPrevPageIndex \in Pages
               /\ GetPrevPageIndex # GetNextPageIndex
    <2>1. /\ previous # {}
          /\ GetPrevPageIndex =
                 CHOOSE p \in previous : \A q \in previous : q <= p
      BY <1>2 DEF GetPrevPageIndex
    <2>2. PagesCount \in Nat /\ previous \in SUBSET (0 .. PagesCount)
      BY WizardAssumption DEF Pages
    <2>3. \E p \in previous : \A q \in previous : q <= p
      <3> HIDE DEF previous
      <3>1. QED
        BY <2>1, <2>2, Greatest
    <2> DEFINE p0 == GetPrevPageIndex
    <2>4. p0 \in previous
      <3> HIDE DEF previous
      <3>1. QED
        BY <2>1, <2>3
    <2>5. p0 \in Pages /\ IsEnabled(p0) /\ p0 < selected /\ p0 >= 0
      BY <2>4, PagesFacts
    <2>6. selected # NoPage /\ selected \in Nat
      BY <2>5, PagesFacts DEF TypeOK, NoPage
    <2>7. FirstChecked .. p0 - 1 = {}
      BY <2>5, <2>6, PagesFacts DEF FirstChecked
    <2>8. GetNextPageIndex \in {NoPage, selected} \/ GetNextPageIndex > selected
      <3>1. CASE next = {}
        BY <3>1 DEF GetNextPageIndex
      <3>2. CASE next # {}
        <4>1. \E p \in next : \A q \in next : p <= q
          <5>1. next \in SUBSET Nat
            BY PagesFacts
          <5> HIDE DEF next
          <5>2. QED
            BY <3>2, <5>1, Smallest
        <4>2. (CHOOSE p \in next : \A q \in next : p <= q) \in next
          <5> HIDE DEF next
          <5>1. QED
            BY <4>1
        <4>3. (CHOOSE p \in next : \A q \in next : p <= q) > selected
          BY <4>2
        <4>4. QED
          BY <3>2, <4>3 DEF GetNextPageIndex
      <3>3. QED
        BY <3>1, <3>2
    <2>9. p0 # GetNextPageIndex
      <3>1. p0 \in Nat /\ p0 # NoPage /\ p0 # selected
        BY <2>5, <2>6, PagesFacts DEF NoPage
      <3>2. CASE GetNextPageIndex \in {NoPage, selected}
        BY <3>1, <3>2
      <3>3. CASE GetNextPageIndex > selected
        BY <2>5, <2>6, <3>1, <3>3
      <3>4. QED
        BY <2>8, <3>2, <3>3
    <2>10. QED
      BY <2>5, <2>7, <2>9 DEF IsPageSelectionAllowed
  <1>3. QED
    BY <1>1, <1>2

(* While a page is shown the selected page can be left and the others be    *)
(* entered.                                                                *)
LEMMA OffersAccepted ==
    ASSUME TypeOK, PageStates
    PROVE  NavigationAgrees
  <1>1. SUFFICES ASSUME Shown
                 PROVE  /\ GetNextPageIndex \notin {NoPage, selected}
                               => MaySelect(GetNextPageIndex)
                        /\ GetPrevPageIndex # selected
                               => MaySelect(GetPrevPageIndex)
    BY DEF NavigationAgrees
  <1>2. /\ selected \in Controlled => selected \in active
        /\ \A p : p # selected => p \notin active
    BY <1>1 DEF PageStates, ShownIsEntered, OnlySelectedActive
  <1>3. ASSUME GetNextPageIndex \notin {NoPage, selected}
        PROVE  MaySelect(GetNextPageIndex)
    BY <1>2, <1>3, OffersAllowed
       DEF MaySelect, MayLeave, MayEnter, IsLeaveAllowed
  <1>4. ASSUME GetPrevPageIndex # selected
        PROVE  MaySelect(GetPrevPageIndex)
    BY <1>2, <1>4, OffersAllowed DEF MaySelect, MayLeave, MayEnter
  <1>5. QED
    BY <1>3, <1>4

-----------------------------------------------------------------------------
(* The parts of the steps.                                                 *)

(* Asking slaves keeps their verdicts on their own pages right: a verdict is *)
(* only calculated from the present parameters.                             *)
LEMMA AskKeepsVerdicts ==
    ASSUME TypeOK, VerdictCurrent, NEW asked, Ask(asked),
           consistent' = consistent, changing' = changing
    PROVE  /\ cacheValid' \subseteq Controlled
           /\ leaveAllowed' \subseteq Controlled
           /\ VerdictCurrent'
  <1> DEFINE new == {p \in Controlled \ cacheValid :
                        \E q \in asked : p \in Calculating[q]}
  <1>1. /\ cacheValid' = cacheValid \cup new
        /\ leaveAllowed' = (leaveAllowed \ new) \cup {p \in new : Verdict(p)}
    BY DEF Ask
  <1>2. new \subseteq Controlled /\ new \cap cacheValid = {}
    OBVIOUS
  <1> HIDE DEF new
  <1>3. cacheValid' \subseteq Controlled /\ leaveAllowed' \subseteq Controlled
    BY <1>1, <1>2 DEF TypeOK
  <1>4. ASSUME NEW p \in cacheValid' \ changing'
        PROVE  /\ p \in leaveAllowed' => p \in consistent'
               /\ Dependencies[p] = {} /\ p \in consistent'
                      => p \in leaveAllowed'
    <2>1. CASE p \in new
      <3>1. p \in leaveAllowed' <=> Verdict(p)
        BY <1>1, <2>1
      <3>2. QED
        BY <3>1 DEF Verdict
    <2>2. CASE p \notin new
      <3>1. p \in cacheValid \ changing
        BY <1>1, <1>4, <2>2
      <3>2. p \in leaveAllowed' <=> p \in leaveAllowed
        BY <1>1, <2>2
      <3>3. QED
        BY <3>1, <3>2 DEF VerdictCurrent
    <2>3. QED
      BY <2>1, <2>2
  <1>5. QED
    BY <1>3, <1>4 DEF VerdictCurrent

(* Where SetSelectedOptionIndex returns to.  *)
LEMMA ReturnKeeps ==
    ASSUME IInv, NEW ok, Return(ok), operation = "finish" => checkPage \in Pages
    PROVE  /\ target' = NoPage /\ isNextPage' = FALSE /\ left' = FALSE
           /\ operation' \in {"none", "finish"}
           /\ operation' = "finish" => currentPage' \in Pages
           /\ currentPage' \in Pages \cup {NoPage}
           /\ checkPage' \in 0 .. PagesCount
  <1>1. /\ target' = NoPage /\ isNextPage' = FALSE /\ left' = FALSE
        /\ \/ operation = "none" /\ UNCHANGED loop
           \/ operation = "finish" /\ checkPage' = checkPage + 1
                 /\ UNCHANGED <<operation, currentPage>>
           \/ EndOperation
    BY DEF Return
  <1>2. CASE operation = "none" /\ UNCHANGED loop
    BY <1>1, <1>2 DEF loop, IInv, TypeOK
  <1>3. CASE operation = "finish" /\ checkPage' = checkPage + 1
                /\ UNCHANGED <<operation, currentPage>>
    <2>1. checkPage + 1 \in 0 .. PagesCount
      BY <1>3, WizardAssumption DEF Pages
    <2>2. QED
      BY <1>1, <1>3, <2>1 DEF IInv, TypeOK, UnderWay
  <1>4. CASE EndOperation
    <2>1. 0 \in 0 .. PagesCount
      BY WizardAssumption
    <2>2. QED
      BY <1>1, <1>4, <2>1 DEF EndOperation
  <1>5. QED
    BY <1>1, <1>2, <1>3, <1>4

-----------------------------------------------------------------------------
(* The steps.                                                              *)

(* The initial states satisfy the invariant.  *)
LEMMA InitHolds == Init => IInv
  <1> SUFFICES ASSUME Init
               PROVE  IInv
    OBVIOUS
  <1>1. TypeOK
    <2>1. 0 \in 0 .. PagesCount
      BY WizardAssumption
    <2>2. QED
      BY <2>1 DEF Init, TypeOK, Operations
  <1>2. QED
    BY <1>1, PagesFacts
       DEF Init, IInv, PageStates, OnlySelectedActive, ShownIsEntered,
           VerdictCurrent, UnderWay, Single

(* The checks of SetSelectedOptionIndex.  *)
LEMMA SelectionStep ==
    ASSUME IInv, NEW index \in Pages \cup {NoPage}, SetSelectedOptionIndex(index),
           operation # "load", operation = "finish" => checkPage \in Pages
    PROVE  IInv'
  <1>1. /\ UNCHANGED <<selected, active, enabled, accepting, consistent, changing,
                       finished>>
        /\ target = NoPage
        /\ \/ \E ok \in BOOLEAN : Return(ok)
           \/ /\ index \in Pages
              /\ target' = index
              /\ isNextPage' = (index = GetNextPageIndex)
              /\ UNCHANGED <<left, operation, currentPage, checkPage>>
        /\ \/ UNCHANGED verdicts
           \/ Ask(accepting \cap AskedForSelection(index))
           \/ Ask(accepting \cap
                    (AskedForSelection(index) \cup ({selected} \cap Controlled)))
    BY DEF SetSelectedOptionIndex, IsPageSelectionAllowed, NoSelection, loop
  <1>2. ~left
    BY <1>1, PagesFacts DEF IInv, UnderWay
  <1>3. /\ cacheValid' \subseteq Controlled
        /\ leaveAllowed' \subseteq Controlled
        /\ VerdictCurrent'
    <2>1. CASE UNCHANGED verdicts
      BY <1>1, <2>1 DEF verdicts, IInv, TypeOK, VerdictCurrent
    <2>2. ASSUME NEW asked, Ask(asked)
          PROVE  /\ cacheValid' \subseteq Controlled
                 /\ leaveAllowed' \subseteq Controlled
                 /\ VerdictCurrent'
      BY <1>1, <2>2, AskKeepsVerdicts DEF IInv
    <2>3. QED
      BY <1>1, <2>1, <2>2
  <1>4. /\ target' \in Pages \cup {NoPage} /\ isNextPage' \in BOOLEAN
        /\ left' = FALSE
        /\ operation' \in {"none", "finish"}
        /\ operation' = "finish" => currentPage' \in Pages
        /\ operation' = "finish" /\ target' # NoPage => checkPage' \in Pages
        /\ currentPage' \in Pages \cup {NoPage}
        /\ checkPage' \in 0 .. PagesCount
    <2>1. CASE \E ok \in BOOLEAN : Return(ok)
      <3>1. PICK ok \in BOOLEAN : Return(ok)
        BY <2>1
      <3>2. QED
        BY <3>1, ReturnKeeps
    <2>2. CASE /\ index \in Pages
               /\ target' = index
               /\ isNextPage' = (index = GetNextPageIndex)
               /\ UNCHANGED <<left, operation, currentPage, checkPage>>
      <3>1. isNextPage' \in BOOLEAN
        BY <2>2
      <3>2. left' = FALSE
        BY <1>2, <2>2 DEF IInv, TypeOK
      <3>3. operation \in {"none", "finish"}
        BY DEF IInv, TypeOK, Operations
      <3>4. QED
        BY <2>2, <3>1, <3>2, <3>3 DEF IInv, TypeOK, UnderWay
    <2>3. QED
      BY <1>1, <2>1, <2>2
  <1>5. TypeOK'
    BY <1>1, <1>3, <1>4 DEF IInv, TypeOK, Operations
  <1>6. PageStates'
    BY <1>1, <1>2 DEF IInv, PageStates, OnlySelectedActive, ShownIsEntered, Shown
  <1>7. UnderWay'
    BY <1>4 DEF UnderWay, NoSelection
  <1>8. QED
    BY <1>1, <1>3, <1>5, <1>6, <1>7 DEF IInv, Single

(* Selecting a page.  *)
LEMMA SelectStep ==
    ASSUME IInv, NEW index \in Pages \cup {NoPage}, Select(index)
    PROVE  IInv'
  BY SelectionStep DEF Select

(* The selected page is left, or refuses.  *)
LEMMA LeavePageStep ==
    ASSUME IInv, LeavePage
    PROVE  IInv'
  <1>1. /\ UNCHANGED <<selected, enabled, accepting, consistent, changing,
                       cacheValid, leaveAllowed, finished>>
        /\ target # NoPage /\ ~left
        /\ \/ /\ active' = active \ {selected}
              /\ left' = TRUE
              /\ UNCHANGED <<target, isNextPage, operation, currentPage, checkPage>>
           \/ Return(FALSE) /\ active' = active
    BY DEF LeavePage, NoSelection, slaves, loop
  <1>2. /\ operation \in {"none", "finish"} /\ target \in Pages
        /\ operation = "finish" => checkPage \in Pages
    BY <1>1 DEF IInv, TypeOK, UnderWay, NoSelection, Operations
  <1>3. VerdictCurrent' /\ Single'
    BY <1>1 DEF IInv, VerdictCurrent, Single
  <1>4. CASE /\ active' = active \ {selected}
             /\ left' = TRUE
             /\ UNCHANGED <<target, isNextPage, operation, currentPage, checkPage>>
    <2>1. active' = {}
      BY <1>4 DEF IInv, PageStates, OnlySelectedActive
    <2>2. TypeOK'
      BY <1>1, <1>4 DEF IInv, TypeOK
    <2>3. PageStates'
      BY <1>4, <2>1 DEF PageStates, OnlySelectedActive, ShownIsEntered, Shown
    <2>4. UnderWay'
      BY <1>2, <1>4, <2>1 DEF IInv, UnderWay, NoSelection
    <2>5. QED
      BY <1>3, <2>2, <2>3, <2>4 DEF IInv
  <1>5. CASE Return(FALSE) /\ active' = active
    <2>1. /\ target' = NoPage /\ isNextPage' = FALSE /\ left' = FALSE
          /\ operation' \in {"none", "finish"}
          /\ operation' = "finish" => currentPage' \in Pages
          /\ currentPage' \in Pages \cup {NoPage}
          /\ checkPage' \in 0 .. PagesCount
      BY <1>2, <1>5, ReturnKeeps
    <2>2. TypeOK'
      BY <1>1, <1>5, <2>1 DEF IInv, TypeOK, Operations
    <2>3. PageStates'
      BY <1>1, <1>2, <1>5, <2>1
         DEF IInv, PageStates, OnlySelectedActive, ShownIsEntered, Shown
    <2>4. UnderWay'
      BY <2>1 DEF UnderWay, NoSelection
    <2>5. QED
      BY <1>3, <2>2, <2>3, <2>4 DEF IInv
  <1>6. QED
    BY <1>1, <1>4, <1>5

(* The other page is entered, or refuses and no page is selected.  *)
LEMMA EnterPageStep ==
    ASSUME IInv, EnterPage
    PROVE  IInv'
  <1>1. /\ UNCHANGED <<enabled, accepting, consistent, changing, cacheValid,
                       leaveAllowed>>
        /\ left
        /\ finished' = FALSE
        /\ \/ selected' = target /\ active' = active \cup ({target} \cap Controlled)
           \/ selected' = NoPage /\ active' = active
        /\ \E ok \in BOOLEAN : Return(ok)
    BY DEF EnterPage, slaves
  <1>2. target \in Pages /\ active = {} /\ target # NoPage
    BY <1>1, PagesFacts DEF IInv, UnderWay
  <1>3. /\ target' = NoPage /\ isNextPage' = FALSE /\ left' = FALSE
        /\ operation' \in {"none", "finish"}
        /\ operation' = "finish" => currentPage' \in Pages
        /\ currentPage' \in Pages \cup {NoPage}
        /\ checkPage' \in 0 .. PagesCount
    <2>1. PICK ok \in BOOLEAN : Return(ok)
      BY <1>1
    <2>2. operation = "finish" => checkPage \in Pages
      BY <1>2 DEF IInv, UnderWay, NoSelection
    <2>3. QED
      BY <2>1, <2>2, ReturnKeeps
  <1>4. /\ selected' \in Pages \cup {NoPage}
        /\ active' \subseteq Controlled
        /\ active' \subseteq {selected'}
        /\ selected' \in Controlled => selected' \in active'
    BY <1>1, <1>2, PagesFacts
  <1>5. TypeOK'
    BY <1>1, <1>3, <1>4 DEF IInv, TypeOK, Operations
  <1>6. PageStates'
    BY <1>4 DEF PageStates, OnlySelectedActive, ShownIsEntered
  <1>7. UnderWay'
    BY <1>3 DEF UnderWay, NoSelection
  <1>8. QED
    BY <1>1, <1>5, <1>6, <1>7 DEF IInv, VerdictCurrent, Single

(* The beginning of DoWizardFinish.  *)
LEMMA DoWizardFinishStep ==
    ASSUME IInv, DoWizardFinish
    PROVE  IInv'
  <1>1. selected \in Pages /\ checkPage' \in 0 .. PagesCount
    BY WizardAssumption DEF DoWizardFinish, IInv, TypeOK, Pages
  <1>2. TypeOK'
    BY <1>1 DEF DoWizardFinish, IInv, TypeOK, Operations, slaves, selection
  <1>3. PageStates'
    BY DEF DoWizardFinish, IInv, PageStates, OnlySelectedActive, ShownIsEntered,
           Shown, selection
  <1>4. VerdictCurrent'
    BY DEF DoWizardFinish, IInv, VerdictCurrent, slaves
  <1>5. UnderWay'
    BY <1>1 DEF DoWizardFinish, IInv, UnderWay, NoSelection, selection
  <1>6. Single'
    BY DEF DoWizardFinish, IInv, Single, slaves
  <1>7. QED
    BY <1>2, <1>3, <1>4, <1>5, <1>6 DEF IInv

(* A page visited on the way to the last.  *)
LEMMA VisitPageStep ==
    ASSUME IInv, VisitPage
    PROVE  IInv'
  <1>1. operation = "finish" /\ checkPage \in Pages /\ target = NoPage
    BY DEF VisitPage, NoSelection
  <1>2. CASE SetSelectedOptionIndex(checkPage)
    BY <1>1, <1>2, SelectionStep
  <1>3. CASE /\ checkPage' = checkPage + 1
             /\ UNCHANGED <<selected, active, enabled, accepting, slaves,
                            selection, operation, currentPage, finished>>
    <2>1. checkPage + 1 \in 0 .. PagesCount
      BY <1>1, WizardAssumption DEF Pages
    <2>2. TypeOK'
      BY <1>3, <2>1 DEF IInv, TypeOK, slaves, selection
    <2>3. PageStates'
      BY <1>3
         DEF IInv, PageStates, OnlySelectedActive, ShownIsEntered, Shown, selection
    <2>4. UnderWay'
      BY <1>1, <1>3 DEF IInv, UnderWay, NoSelection, selection
    <2>5. QED
      BY <1>3, <2>2, <2>3, <2>4 DEF IInv, VerdictCurrent, Single, slaves
  <1>4. QED
    BY <1>2, <1>3 DEF VisitPage

(* no other.                                                                *)
LEMMA LeaveLastPageStep ==
    ASSUME IInv, LeaveLastPage
    PROVE  IInv'
  <1>1. /\ operation = "finish" /\ operation' = "none" /\ checkPage \notin Pages
        /\ currentPage' = NoPage /\ checkPage' = 0
        /\ UNCHANGED <<selected, enabled, accepting, consistent, changing,
                       cacheValid, leaveAllowed, target, isNextPage, left>>
        /\ \/ active' = active \ {currentPage} /\ finished' = TRUE
           \/ UNCHANGED <<active, finished>>
    BY DEF LeaveLastPage, EndOperation, slaves, selection
  <1>2. TypeOK'
    <2>1. 0 \in 0 .. PagesCount
      BY WizardAssumption
    <2>2. QED
      BY <1>1, <2>1 DEF IInv, TypeOK, Operations
  <1>3. PageStates'
    BY <1>1 DEF IInv, PageStates, OnlySelectedActive, ShownIsEntered, Shown
  <1>4. VerdictCurrent'
    BY <1>1 DEF IInv, VerdictCurrent
  <1>5. UnderWay'
    BY <1>1 DEF IInv, UnderWay, NoSelection
  <1>6. QED
    BY <1>1, <1>2, <1>3, <1>4, <1>5 DEF IInv, Single

(* Loading begins with no page active, because only the selected one was.  *)
LEMMA BeginLoadStep ==
    ASSUME IInv, BeginLoad
    PROVE  IInv'
  <1>1. /\ operation' = "load" /\ target = NoPage /\ active' = active \ {selected}
        /\ UNCHANGED <<selected, enabled, accepting, consistent, changing,
                       cacheValid, leaveAllowed, target, isNextPage, left,
                       currentPage, checkPage, finished>>
    BY DEF BeginLoad, NoSelection, slaves, selection
  <1>2. active' = {}
    BY <1>1 DEF IInv, PageStates, OnlySelectedActive
  <1>3. TypeOK'
    BY <1>1 DEF IInv, TypeOK, Operations
  <1>4. PageStates'
    BY <1>1, <1>2 DEF PageStates, OnlySelectedActive, ShownIsEntered, Shown
  <1>5. VerdictCurrent'
    BY <1>1 DEF IInv, VerdictCurrent
  <1>6. UnderWay'
    BY <1>1, <1>2 DEF IInv, UnderWay, NoSelection
  <1>7. QED
    BY <1>1, <1>3, <1>4, <1>5, <1>6 DEF IInv, Single

(* It ends with the page of the document, which can always be entered.  *)
LEMMA EndLoadStep ==
    ASSUME IInv, NEW index \in Pages \cup {NoPage}, EndLoad(index)
    PROVE  IInv'
  <1>1. /\ operation = "load" /\ operation' = "none"
        /\ currentPage' = NoPage /\ checkPage' = 0
        /\ selected' = IF index \in active THEN NoPage ELSE index
        /\ active' = active \cup ({index} \cap Controlled)
        /\ finished' = FALSE
        /\ UNCHANGED <<enabled, accepting, consistent, changing, cacheValid,
                       leaveAllowed, target, isNextPage, left>>
    BY DEF EndLoad, EndOperation, slaves, selection
  <1>2. /\ selected' = index /\ active' = {index} \cap Controlled
        /\ target = NoPage /\ ~left
    BY <1>1, PagesFacts DEF IInv, UnderWay, NoSelection
  <1>3. TypeOK'
    <2>1. 0 \in 0 .. PagesCount
      BY WizardAssumption
    <2>2. QED
      BY <1>1, <1>2, <2>1 DEF IInv, TypeOK, Operations
  <1>4. PageStates'
    BY <1>1, <1>2 DEF PageStates, OnlySelectedActive, ShownIsEntered
  <1>5. VerdictCurrent'
    BY <1>1 DEF IInv, VerdictCurrent
  <1>6. UnderWay'
    BY <1>1, <1>2 DEF UnderWay, NoSelection
  <1>7. QED
    BY <1>1, <1>3, <1>4, <1>5, <1>6 DEF IInv, Single

(* The steps that leave the pages as they are.  *)
LEMMA PagesKept ==
    ASSUME IInv,
           UNCHANGED <<selected, active, target, left, operation, currentPage,
                       checkPage, finished>>
    PROVE  PageStates' /\ UnderWay'
  BY DEF IInv, PageStates, OnlySelectedActive, ShownIsEntered, Shown, UnderWay,
         NoSelection

(* Views ask.  *)
LEMMA QueryStep ==
    ASSUME IInv, NEW asked, Query(asked)
    PROVE  IInv'
  <1>1. /\ Ask(accepting \cap asked)
        /\ UNCHANGED <<selected, active, enabled, accepting, consistent,
                       changing, target, isNextPage, left, operation,
                       currentPage, checkPage, finished>>
    BY DEF Query, loop, selection
  <1>2. /\ cacheValid' \subseteq Controlled
        /\ leaveAllowed' \subseteq Controlled
        /\ VerdictCurrent'
    BY <1>1, AskKeepsVerdicts DEF IInv
  <1>3. TypeOK'
    BY <1>1, <1>2 DEF IInv, TypeOK
  <1>4. QED
    BY <1>1, <1>2, <1>3, PagesKept DEF IInv, Single

(* Parameters are changed, and their slave is told before and after.  *)
LEMMA ParamsStep ==
    ASSUME IInv, NEW p \in Controlled,
           BeforeUpdate(p) \/ ChangeParams(p) \/ AfterUpdate(p)
    PROVE  IInv'
  <1>1. /\ UNCHANGED <<selected, active, enabled, accepting, leaveAllowed,
                       target, isNextPage, left, operation, currentPage,
                       checkPage, finished>>
        /\ \/ /\ changing = {} /\ changing' = {p}
              /\ cacheValid' = cacheValid \ {p} /\ consistent' = consistent
           \/ /\ p \in changing /\ changing' = changing
              /\ cacheValid' = cacheValid
              /\ consistent' \in {consistent \cup {p}, consistent \ {p}}
           \/ /\ p \in changing /\ changing' = {}
              /\ cacheValid' = cacheValid \ {p} /\ consistent' = consistent
    BY DEF BeforeUpdate, ChangeParams, AfterUpdate, loop, selection, verdicts
  <1>2. TypeOK'
    BY <1>1 DEF IInv, TypeOK
  <1>3. ASSUME NEW q \in cacheValid' \ changing'
        PROVE  /\ q \in leaveAllowed' => q \in consistent'
               /\ Dependencies[q] = {} /\ q \in consistent'
                      => q \in leaveAllowed'
    <2>1. q \in cacheValid
      BY <1>1, <1>3
    <2>2. q # p
      BY <1>1, <1>3
    <2>3. q \notin changing
      BY <1>1, <1>3, <2>2 DEF IInv, Single
    <2>4. QED
      BY <1>1, <2>1, <2>2, <2>3 DEF IInv, VerdictCurrent
  <1>4. Single'
    BY <1>1 DEF IInv, Single
  <1>5. QED
    BY <1>1, <1>2, <1>3, <1>4, PagesKept DEF IInv, VerdictCurrent

(* A page is enabled or disabled, or its processor changes its mind.  *)
LEMMA PageStep ==
    ASSUME IInv, NEW p \in Controlled,
           UpdateAllMembers(p) \/ ProcessorChanges(p)
    PROVE  IInv'
  <1>1. /\ UNCHANGED <<selected, active, consistent, changing, cacheValid,
                       leaveAllowed, target, isNextPage, left, operation,
                       currentPage, checkPage, finished>>
        /\ enabled' \in {enabled, enabled \cup {p}, enabled \ {p}}
        /\ accepting' \in {accepting, accepting \cup {p}, accepting \ {p}}
    BY DEF UpdateAllMembers, ProcessorChanges, loop, selection, slaves
  <1>2. TypeOK'
    BY <1>1 DEF IInv, TypeOK
  <1>3. VerdictCurrent' /\ Single'
    BY <1>1 DEF IInv, VerdictCurrent, Single
  <1>4. QED
    BY <1>1, <1>2, <1>3, PagesKept DEF IInv

(* Steps of others.  *)
LEMMA Stutters ==
    ASSUME IInv, UNCHANGED vars
    PROVE  IInv'
  BY DEF IInv, TypeOK, PageStates, OnlySelectedActive, ShownIsEntered,
         Shown, VerdictCurrent, UnderWay, NoSelection, Single, vars, slaves,
         selection, loop

(* Every step keeps the invariant.  *)
LEMMA NextHolds == IInv /\ [Next]_vars => IInv'
  <1> SUFFICES ASSUME IInv, [Next]_vars
               PROVE  IInv'
    OBVIOUS
  <1>1. CASE \E index \in Pages \cup {NoPage} : Select(index) \/ EndLoad(index)
    BY <1>1, SelectStep, EndLoadStep
  <1>2. CASE DoWizardFinish \/ VisitPage \/ LeaveLastPage \/ BeginLoad
    BY <1>2, DoWizardFinishStep, VisitPageStep, LeaveLastPageStep, BeginLoadStep
  <1>3. CASE Queries
    BY <1>3, QueryStep DEF Queries
  <1>4. CASE \E p \in Controlled :
               BeforeUpdate(p) \/ ChangeParams(p) \/ AfterUpdate(p)
                 \/ UpdateAllMembers(p) \/ ProcessorChanges(p)
    BY <1>4, ParamsStep, PageStep
  <1>5. CASE UNCHANGED vars
    BY <1>5, Stutters
  <1>6. CASE LeavePage \/ EnterPage
    BY <1>6, LeavePageStep, EnterPageStep
  <1>7. QED
    BY <1>1, <1>2, <1>3, <1>4, <1>5, <1>6 DEF Next

(* The invariant holds in every reachable state.  *)
LEMMA Invariant == Spec => []IInv
  BY InitHolds, NextHolds, PTL DEF Spec

-----------------------------------------------------------------------------
(* The theorems.                                                           *)

(* The variables keep their types, for any pages and dependencies.  *)
THEOREM TypeCorrect == Spec => []TypeOK
  <1>1. IInv => TypeOK
    BY DEF IInv
  <1>2. QED
    BY Invariant, <1>1, PTL

(* No page but the selected one is ever active, and a page that is shown has *)
(* been entered, until it is left for another or the wizard is finished:    *)
(* whichever controller refuses, SetSelectedOptionIndex, DoWizardFinish and *)
(* Serialize leave no page behind that cannot be entered any more.          *)
THEOREM PagesSafe == Spec => []PageStates
  <1>1. IInv => PageStates
    BY DEF IInv
  <1>2. QED
    BY Invariant, <1>1, PTL

(* A verdict that is kept in a cache agrees with the page's own parameters,  *)
(* however queries and changes interleave.                                  *)
THEOREM VerdictSafe == Spec => []VerdictCurrent
  <1>1. IInv => VerdictCurrent
    BY DEF IInv
  <1>2. QED
    BY Invariant, <1>1, PTL

(* In every reachable state in which a page is shown and the wizard is not  *)
(* finished, SetSelectedOptionIndex accepts the pages offered as next and   *)
(* previous, unless a processor that it runs fails: it allows them, the     *)
(* selected page can be left, for the next one also with its processor, and *)
(* the other can be entered.                                                *)
THEOREM NavigationSafe == Spec => []NavigationAgrees
  <1>1. IInv => NavigationAgrees
    BY OffersAccepted DEF IInv
  <1>2. QED
    BY Invariant, <1>1, PTL
=============================================================================
