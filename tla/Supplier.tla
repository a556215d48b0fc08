------------------------------ MODULE Supplier ------------------------------
(***************************************************************************)
(* A network of suppliers (Include/iinsp): objects that calculate a result *)
(* on demand, from their parameters and from the results of the suppliers  *)
(* registered as their inputs.  Everything runs in one thread, by          *)
(* synchronous calls that nest: a change invalidates the consumers through *)
(* the model/observer mechanism, EnsureWorkInitialized descends into the   *)
(* inputs, the production of a result pulls the products of the inputs,    *)
(* and an observer woken by a notification reads the supplier again in the *)
(* middle of all this.  The module therefore keeps the call stack: one     *)
(* frame per handler that is under way, one action per step between two    *)
(* calls.                                                                  *)
(*                                                                         *)
(* Abstracted: the product is only "null", "current" (calculated from the  *)
(* present parameters and the present products of the inputs) or           *)
(* "outdated"; messages and timers are left out.                           *)
(***************************************************************************)
EXTENDS Integers, Sequences

CONSTANTS
    Suppliers,      \* the suppliers of the network
    Inputs,         \* Inputs[s]: the suppliers registered as inputs of s
    Level,          \* a numbering of the network, inputs before consumers
    Environment     \* what may happen around them, a set of the following

(***************************************************************************)
(* What the components built on the base class, and its clients, do:       *)
(*   "observers read"  an observer woken by AfterUpdate reads the product, *)
(*                     as the views of results do;                         *)
(*   "clients read"    a client reads a product whenever it likes, for a   *)
(*                     repaint, and not only at the end of DoTest;         *)
(*   "clients step"    a client invalidates or initializes a supplier and  *)
(*                     leaves it at that;                                  *)
(*   "partial reads"   a production stops before it read every input: it   *)
(*                     fails, is canceled or needs only a selected input;  *)
(*   "init fails"      InitializeWork returns false.                       *)
(***************************************************************************)
Behaviours == {"observers read", "clients read", "clients step",
               "partial reads", "init fails"}

ASSUME NetworkAssumption ==
    /\ Inputs \in [Suppliers -> SUBSET Suppliers]
    /\ Environment \subseteq Behaviours

(* A supplier is no input of itself, directly or through others.  *)
ASSUME AcyclicAssumption ==
    /\ Level \in [Suppliers -> Nat]
    /\ \A s \in Suppliers : \A i \in Inputs[s] : Level[i] < Level[s]

(* The states of a supplier, compared by their numbers.  *)
WS_INVALID  == 0
WS_INIT     == 1
WS_LOCKED   == 2
WS_OK       == 3
WS_CANCELED == 4
WS_FAILED   == 5
WorkStatus  == WS_INVALID..WS_FAILED

Products == {"null", "current", "outdated"}

Consumers(s) == {d \in Suppliers : s \in Inputs[d]}

(* Of each supplier, the suppliers its result goes into, directly or through others: the *)
(* smallest set that holds its consumers and theirs.                                    *)
FeedsInto ==
    [s \in Suppliers |->
        {d \in Suppliers :
            \A S \in SUBSET Suppliers :
                /\ Consumers(s) \subseteq S
                /\ \A e \in S : Consumers(e) \subseteq S
                => d \in S}]

Downstream(s) == FeedsInto[s]

VARIABLES
    workStatus,         \* m_workStatus
    lastWorkState,      \* m_lastWorkState
    isInputValid,       \* m_isInputValid
    areParametersValid, \* m_areParametersValid
    notifierOpen,       \* m_productChangeNotifierPtr.IsValid()
    product,            \* what m_productPtr holds
    stack               \* the calls under way, the innermost one first

attributes == <<workStatus, lastWorkState, isInputValid, areParametersValid,
                notifierOpen, product>>
vars == <<attributes, stack>>

(***************************************************************************)
(* The frames.  todo holds the suppliers the handler still has to call, in *)
(* an order the code leaves to pointer values (QMap by model address) or   *)
(* to the order of attachment; got is what the inputs read so far gave a   *)
(* production.                                                             *)
(***************************************************************************)
Calls == {"before",     \* BeginChanges: BeforeUpdate of the consumers
          "after",      \* EndChanges: AfterUpdate of an observer of s
          "edit",       \* the parameters change, between Begin and EndChanges
          "clear",      \* ClearWorkResults
          "init",       \* EnsureWorkInitialized, initializing the inputs
          "work",       \* EnsureWorkInitialized, at InitializeWork
          "produce",    \* ProcessWorkOutput, between two inputs
          "read",       \* ProcessWorkOutput, in GetWorkProduct of "input"
          "trigger",    \* an input that is no supplier changes
          "testInit",   \* DoTest, before EnsureWorkInitialized
          "testFinish", \* DoTest, before EnsureWorkFinished
          "tested"}     \* DoTest, before it returns

Frame == [call : Calls, s : Suppliers, todo : SUBSET Suppliers,
          input : Suppliers, got : Products]

F(call, s, todo) ==
    [call |-> call, s |-> s, todo |-> todo, input |-> s, got |-> "current"]

Running(call) == stack # <<>> /\ Head(stack).call = call

Idle == stack = <<>>

TypeOK ==
    /\ workStatus \in [Suppliers -> WorkStatus]
    /\ lastWorkState \in [Suppliers -> WorkStatus]
    /\ isInputValid \in [Suppliers -> BOOLEAN]
    /\ areParametersValid \in [Suppliers -> BOOLEAN]
    /\ notifierOpen \in [Suppliers -> BOOLEAN]
    /\ product \in [Suppliers -> Products]
    /\ stack \in Seq(Frame)

Init ==
    /\ workStatus = [s \in Suppliers |-> WS_INVALID]
    /\ lastWorkState = [s \in Suppliers |-> WS_INVALID]
    /\ isInputValid = [s \in Suppliers |-> FALSE]
    /\ areParametersValid = [s \in Suppliers |-> FALSE]
    /\ notifierOpen = [s \in Suppliers |-> FALSE]
    /\ product = [s \in Suppliers |-> "null"]
    /\ stack = <<>>

-----------------------------------------------------------------------------
(* Calls into a supplier.  "below" is the stack the call returns to.  *)

(* BeforeUpdate reaches the observers of s: with no consumer, nothing is left to do.  *)
NotifyBefore(s, todo, below) ==
    IF todo = {} THEN below ELSE <<F("before", s, todo)>> \o below

(* Mutant: the change is marked but the observers are not told.  *)
CallInvalidateSupplier_Quiet(s, below) ==
    /\ isInputValid' = [isInputValid EXCEPT ![s] = FALSE]
    /\ stack' = below
    /\ UNCHANGED notifierOpen

(***************************************************************************)
(* InvalidateSupplier: only a supplier whose input was valid reacts, and   *)
(* only a notifier that was not open yet tells the consumers.              *)
(***************************************************************************)
CallInvalidateSupplier(s, below) ==
    /\ isInputValid' = [isInputValid EXCEPT ![s] = FALSE]
    /\ notifierOpen' = [notifierOpen EXCEPT ![s] = @ \/ isInputValid[s]]
    /\ stack' = IF isInputValid[s] /\ ~notifierOpen[s]
                THEN NotifyBefore(s, Consumers(s), below)
                ELSE below

(* AfterUpdate reaches the observers of s; inside the change group of DoTest it waits for its end.  *)
NotifyAfter(s, below) ==
    IF below # <<>> /\ Head(below).call = "testFinish" /\ Head(below).s = s
    THEN below ELSE <<F("after", s, {})>> \o below

(* Mutant: finished work is taken for initialized work.  *)
CallEnsureWorkInitialized_NotAgain(s, below) ==
    IF workStatus[s] < WS_INIT
    THEN /\ workStatus' = [workStatus EXCEPT ![s] = WS_LOCKED]
         /\ stack' = <<F("init", s, Inputs[s])>> \o below
    ELSE /\ stack' = below
         /\ UNCHANGED workStatus

MustInitialize(s) == workStatus[s] < WS_INIT \/ workStatus[s] > WS_LOCKED

(* EnsureWorkInitialized up to its first nested call.  *)
CallEnsureWorkInitialized(s, below) ==
    IF MustInitialize(s)
    THEN /\ workStatus' = [workStatus EXCEPT ![s] = WS_LOCKED]
         /\ stack' = <<F("init", s, Inputs[s])>> \o below
    ELSE /\ stack' = below
         /\ UNCHANGED workStatus

(* A change at s: no result that was calculated from it is current any more.  *)
Outdate(prod, s) ==
    [d \in Suppliers |-> IF d \in Downstream(s) /\ prod[d] = "current"
                         THEN "outdated" ELSE prod[d]]
(* Mutant: any last work will do.  *)
MustProduce_Once(s) ==
    /\ lastWorkState[s] <= WS_INIT
    /\ workStatus[s] = WS_INIT

MustProduce(s) ==
    /\ ~isInputValid[s] \/ lastWorkState[s] <= WS_INIT
    /\ workStatus[s] = WS_INIT

(***************************************************************************)
(* EnsureWorkFinished: it enters ProcessWorkOutput, whose object from now  *)
(* on is under construction, or it returns with the state of the last      *)
(* work, whatever the state was.                                           *)
(***************************************************************************)
CallEnsureWorkFinished(s, below) ==
    IF MustProduce(s)
    THEN /\ workStatus' = [workStatus EXCEPT ![s] = WS_LOCKED]
         /\ product' = [Outdate(product, s) EXCEPT ![s] = "outdated"]
         /\ stack' = <<F("produce", s, Inputs[s])>> \o below
         /\ UNCHANGED isInputValid
    ELSE /\ workStatus' = [workStatus EXCEPT ![s] = lastWorkState[s]]
         /\ isInputValid' = [isInputValid EXCEPT ![s] = TRUE]
         /\ stack' = below
         /\ UNCHANGED product

(* Mutant: the state is not looked at.  *)
WorkProduct_Any(s) == product[s]

(* The pointer GetWorkProduct returns once EnsureWorkFinished came back.  *)
WorkProduct(s) == IF workStatus[s] <= WS_OK THEN product[s] ELSE "null"

-----------------------------------------------------------------------------
(* The notification of a change *)

(* InputsObserver::BeforeUpdate of one consumer.  *)
InputsObserverBeforeUpdate ==
    /\ Running("before")
    /\ \E d \in Head(stack).todo :
          CallInvalidateSupplier(
              d, NotifyBefore(Head(stack).s, Head(stack).todo \ {d}, Tail(stack)))
    /\ UNCHANGED <<workStatus, lastWorkState, areParametersValid, product>>

(* An observer of s, such as the view of its results, gets AfterUpdate and reads the product.  *)
ObserverReads ==
    /\ Running("after")
    /\ "observers read" \in Environment
    /\ CallEnsureWorkFinished(Head(stack).s, Tail(stack))
    /\ UNCHANGED <<lastWorkState, areParametersValid, notifierOpen>>

ObserverIgnores ==
    /\ Running("after")
    /\ stack' = Tail(stack)
    /\ UNCHANGED attributes

-----------------------------------------------------------------------------
(* Mutant: the iteration over the inputs does not advance.  *)
InitializeInput_Again ==
    /\ Running("init")
    /\ \E i \in Head(stack).todo : CallEnsureWorkInitialized(i, stack)
    /\ UNCHANGED <<lastWorkState, isInputValid, areParametersValid,
                   notifierOpen, product>>

(* EnsureWorkInitialized *)
InitializeInput ==
    /\ Running("init")
    /\ \E i \in Head(stack).todo :
          CallEnsureWorkInitialized(
              i, <<[Head(stack) EXCEPT !.todo = @ \ {i}]>> \o Tail(stack))
    /\ UNCHANGED <<lastWorkState, isInputValid, areParametersValid,
                   notifierOpen, product>>

(* Mutant: the change begins without BeforeUpdate.  *)
OpenProductChange_Quiet ==
    /\ Running("init")
    /\ Head(stack).todo = {}
    /\ notifierOpen' = [notifierOpen EXCEPT ![Head(stack).s] = TRUE]
    /\ stack' = <<F("work", Head(stack).s, {})>> \o Tail(stack)
    /\ UNCHANGED <<workStatus, lastWorkState, isInputValid,
                   areParametersValid, product>>

(* The inputs are done: open the notifier unless an invalidation has done so.  *)
OpenProductChange ==
    /\ Running("init")
    /\ Head(stack).todo = {}
    /\ LET s     == Head(stack).s
           below == <<F("work", s, {})>> \o Tail(stack)
       IN  /\ notifierOpen' = [notifierOpen EXCEPT ![s] = TRUE]
           /\ stack' = IF notifierOpen[s] THEN below
                       ELSE NotifyBefore(s, Consumers(s), below)
    /\ UNCHANGED <<workStatus, lastWorkState, isInputValid,
                   areParametersValid, product>>

(* Mutant: parameters count as applied only when they were before.  *)
InitializeWork_KeepsParameters ==
    /\ Running("work")
    /\ LET s == Head(stack).s
       IN  /\ workStatus' = [workStatus EXCEPT ![s] = WS_INIT]
           /\ notifierOpen' = [notifierOpen EXCEPT ![s] = FALSE]
           /\ stack' = <<F("after", s, {})>> \o Tail(stack)
    /\ UNCHANGED <<lastWorkState, isInputValid, areParametersValid, product>>

(* Mutant: the observers are woken before EnsureWorkInitialized is through.  *)
InitializeWork_NotifiesInside ==
    /\ Running("work")
    /\ LET s == Head(stack).s
       IN  /\ areParametersValid' = [areParametersValid EXCEPT ![s] = TRUE]
           /\ workStatus' = [workStatus EXCEPT ![s] = WS_INIT]
           /\ notifierOpen' = [notifierOpen EXCEPT ![s] = FALSE]
           /\ stack' = <<F("after", s, {})>> \o stack
    /\ UNCHANGED <<lastWorkState, isInputValid, product>>

(* Mutant: the change of the product is left open.  *)
InitializeWork_LeavesOpen ==
    /\ Running("work")
    /\ LET s == Head(stack).s
       IN  /\ areParametersValid' = [areParametersValid EXCEPT ![s] = TRUE]
           /\ workStatus' = [workStatus EXCEPT ![s] = WS_INIT]
           /\ stack' = NotifyAfter(s, Tail(stack))
    /\ UNCHANGED <<lastWorkState, isInputValid, notifierOpen, product>>

(* OnParametersChanged, InitializeWork, and the notifier is closed.  *)
InitializeWork ==
    /\ Running("work")
    /\ LET s == Head(stack).s
       IN  /\ areParametersValid' = [areParametersValid EXCEPT ![s] = TRUE]
           /\ \E result \in {WS_INIT, WS_FAILED} :
                 /\ result = WS_FAILED => "init fails" \in Environment
                 /\ workStatus' = [workStatus EXCEPT ![s] = result]
           /\ notifierOpen' = [notifierOpen EXCEPT ![s] = FALSE]
           /\ stack' = NotifyAfter(s, Tail(stack))
    /\ UNCHANGED <<lastWorkState, isInputValid, product>>

-----------------------------------------------------------------------------
(* ProcessWorkOutput *)

ReadInput ==
    /\ Running("produce")
    /\ \E i \in Head(stack).todo :
          CallEnsureWorkFinished(
              i, <<[Head(stack) EXCEPT !.call = "read", !.input = i,
                                       !.todo = @ \ {i}]>> \o Tail(stack))
    /\ UNCHANGED <<lastWorkState, areParametersValid, notifierOpen>>

GotInput ==
    /\ Running("read")
    /\ LET read == WorkProduct(Head(stack).input)
       IN  stack' = <<[Head(stack) EXCEPT
                          !.call = "produce",
                          !.got = IF @ = "null" \/ read = "current" THEN @ ELSE read]>>
                    \o Tail(stack)
    /\ UNCHANGED attributes

(* The part of FinishWork its mutants share.  *)
WorkDone(result) ==
    /\ Running("produce")
    /\ Head(stack).todo = {}
    /\ Head(stack).got = "null" => result # WS_OK
    /\ product' = [product EXCEPT ![Head(stack).s] =
                      IF result = WS_OK THEN Head(stack).got ELSE "outdated"]
    /\ isInputValid' = [isInputValid EXCEPT ![Head(stack).s] = TRUE]
    /\ stack' = Tail(stack)
    /\ UNCHANGED <<areParametersValid, notifierOpen>>

(* Mutant: the state is set to one behind the last.  *)
FinishWork_OffByOne(result) ==
    /\ WorkDone(result)
    /\ lastWorkState' = [lastWorkState EXCEPT ![Head(stack).s] = result + 1]
    /\ workStatus' = [workStatus EXCEPT ![Head(stack).s] = result + 1]

(* Mutant: WS_LOCKED is not taken back.  *)
FinishWork_StaysLocked(result) ==
    /\ WorkDone(result)
    /\ lastWorkState' = [lastWorkState EXCEPT ![Head(stack).s] = result]
    /\ UNCHANGED workStatus

(***************************************************************************)
(* ProduceObject returns and EnsureWorkFinished takes over its state.  A   *)
(* production succeeds only if the inputs it read gave it their products.  *)
(***************************************************************************)
FinishWork(result) ==
    /\ Running("produce")
    /\ LET work == Head(stack)
           s    == work.s
           made == IF result = WS_OK /\ work.got = "current" /\ areParametersValid[s]
                   THEN "current" ELSE "outdated"
       IN  /\ work.todo # {} => "partial reads" \in Environment
           /\ work.got = "null" => result # WS_OK
           /\ product' = [product EXCEPT ![s] = made]
           /\ lastWorkState' = [lastWorkState EXCEPT ![s] = result]
           /\ workStatus' = [workStatus EXCEPT ![s] = result]
           /\ isInputValid' = [isInputValid EXCEPT ![s] = TRUE]
           /\ stack' = Tail(stack)
    /\ UNCHANGED <<areParametersValid, notifierOpen>>

-----------------------------------------------------------------------------
(* The clients call from outside, when no call is under way.  *)

(* The parameters of s change: ParamsObserver::BeforeUpdate ...  *)
EditParameters(s) ==
    /\ Idle
    /\ CallInvalidateSupplier(s, <<F("edit", s, {})>>)
    /\ UNCHANGED <<workStatus, lastWorkState, areParametersValid, product>>

(* ... and, once they have changed, ParamsObserver::AfterUpdate.  *)
ParamsObserverAfterUpdate ==
    /\ Running("edit")
    /\ LET s == Head(stack).s
       IN  /\ areParametersValid' = [areParametersValid EXCEPT ![s] = FALSE]
           /\ product' = [Outdate(product, s) EXCEPT
                              ![s] = IF @ = "current" THEN "outdated" ELSE @]
    /\ stack' = Tail(stack)
    /\ UNCHANGED <<workStatus, lastWorkState, isInputValid, notifierOpen>>

(* An input registered without a supplier, or an additional trigger input, changes.  *)
TriggerInput(s) ==
    /\ Idle
    /\ CallInvalidateSupplier(s, <<F("trigger", s, {})>>)
    /\ UNCHANGED <<workStatus, lastWorkState, areParametersValid, product>>

InputChanged ==
    /\ Running("trigger")
    /\ LET s == Head(stack).s
       IN  product' = [Outdate(product, s) EXCEPT
                          ![s] = IF @ = "current" THEN "outdated" ELSE @]
    /\ stack' = Tail(stack)
    /\ UNCHANGED <<workStatus, lastWorkState, isInputValid,
                   areParametersValid, notifierOpen>>

(***************************************************************************)
(* ClearWorkResults of TSupplierCompWrap: a change of the model encloses   *)
(* the reset of the product and of the base class, which also closes the   *)
(* supplier's own notifier.                                                *)
(***************************************************************************)
ClearWorkResults(s) ==
    /\ Idle
    /\ workStatus[s] # WS_LOCKED
    /\ stack' = LET below == <<F("clear", s, {})>>
                IN  IF notifierOpen[s] THEN below
                    ELSE NotifyBefore(s, Consumers(s), below)
    /\ UNCHANGED attributes
(* Mutant: the last state survives the reset of the product.  *)
DropResults_KeepsState ==
    /\ Running("clear")
    /\ LET s == Head(stack).s
       IN  /\ product' = [Outdate(product, s) EXCEPT ![s] = "null"]
           /\ isInputValid' = [isInputValid EXCEPT ![s] = FALSE]
           /\ workStatus' = [workStatus EXCEPT ![s] = WS_INVALID]
           /\ notifierOpen' = [notifierOpen EXCEPT ![s] = FALSE]
           /\ stack' = <<F("after", s, {})>> \o Tail(stack)
    /\ UNCHANGED <<lastWorkState, areParametersValid>>

DropResults ==
    /\ Running("clear")
    /\ LET s == Head(stack).s
       IN  /\ product' = [Outdate(product, s) EXCEPT ![s] = "null"]
           /\ isInputValid' = [isInputValid EXCEPT ![s] = FALSE]
           /\ workStatus' = [workStatus EXCEPT ![s] = WS_INVALID]
           /\ lastWorkState' = [lastWorkState EXCEPT ![s] = WS_INVALID]
           /\ notifierOpen' = [notifierOpen EXCEPT ![s] = FALSE]
           /\ stack' = NotifyAfter(s, Tail(stack))
    /\ UNCHANGED areParametersValid

(***************************************************************************)
(* DoTest of the supplier's view: invalidate, initialize, finish, all in   *)
(* one change group of the supplier, whose observers are told at the end   *)
(* if a change was completed (todo holds s then).                          *)
(***************************************************************************)
DoTest(s) ==
    /\ Idle
    /\ CallInvalidateSupplier(s, <<F("testInit", s, {})>>)
    /\ UNCHANGED <<workStatus, lastWorkState, areParametersValid, product>>

TestInitialize ==
    /\ Running("testInit")
    /\ LET s == Head(stack).s
           changed == IF MustInitialize(s) THEN {s} ELSE {}
       IN  CallEnsureWorkInitialized(s, <<F("testFinish", s, changed)>> \o Tail(stack))
    /\ UNCHANGED <<lastWorkState, isInputValid, areParametersValid,
                   notifierOpen, product>>

TestFinish ==
    /\ Running("testFinish")
    /\ LET s == Head(stack).s
       IN  CallEnsureWorkFinished(s, <<F("tested", s, Head(stack).todo)>> \o Tail(stack))
    /\ UNCHANGED <<lastWorkState, areParametersValid, notifierOpen>>

TestReturns ==
    /\ Running("tested")
    /\ stack' = IF Head(stack).todo = {} THEN Tail(stack)
                ELSE NotifyAfter(Head(stack).s, Tail(stack))
    /\ UNCHANGED attributes

(* Single operations called by some other client.  *)
InvalidateSupplier(s) ==
    /\ Idle
    /\ "clients step" \in Environment
    /\ CallInvalidateSupplier(s, <<>>)
    /\ UNCHANGED <<workStatus, lastWorkState, areParametersValid, product>>

EnsureWorkInitialized(s) ==
    /\ Idle
    /\ "clients step" \in Environment
    /\ CallEnsureWorkInitialized(s, <<>>)
    /\ UNCHANGED <<lastWorkState, isInputValid, areParametersValid,
                   notifierOpen, product>>

GetWorkProduct(s) ==
    /\ Idle
    /\ "clients read" \in Environment
    /\ CallEnsureWorkFinished(s, <<>>)
    /\ UNCHANGED <<lastWorkState, areParametersValid, notifierOpen>>

-----------------------------------------------------------------------------
Client ==
    \E s \in Suppliers :
        \/ EditParameters(s) \/ TriggerInput(s) \/ ClearWorkResults(s) \/ DoTest(s)
        \/ InvalidateSupplier(s) \/ EnsureWorkInitialized(s) \/ GetWorkProduct(s)

Step ==
    \/ InputsObserverBeforeUpdate \/ ObserverReads \/ ObserverIgnores
    \/ InitializeInput \/ OpenProductChange \/ InitializeWork
    \/ ReadInput \/ GotInput \/ \E result \in WS_OK..WS_FAILED : FinishWork(result)
    \/ ParamsObserverAfterUpdate \/ InputChanged \/ DropResults
    \/ TestInitialize \/ TestFinish \/ TestReturns

Next == Client \/ Step

(* A thread that is in a call goes on with it; nothing forces a client to call.  *)
Spec == Init /\ [][Next]_vars /\ WF_vars(Step)

-----------------------------------------------------------------------------
(* Properties *)

(* EnsureWorkFinished would hand out the stored result without calculating it again.  *)
Trusted(s) == isInputValid[s] /\ lastWorkState[s] > WS_INIT

(* Some ProcessWorkOutput of s is under way.  *)
InProduction(s) ==
    \E k \in DOMAIN stack : stack[k].s = s /\ stack[k].call \in {"produce", "read"}

InInitialization(s) ==
    \E k \in DOMAIN stack : stack[k].s = s /\ stack[k].call \in {"init", "work"}

(***************************************************************************)
(* WS_LOCKED is never left behind: a supplier that says so is inside       *)
(* EnsureWorkInitialized or ProcessWorkOutput, whatever calls were nested  *)
(* in it.  A supplier left locked would refuse ClearWorkResults and every  *)
(* later initialization.                                                   *)
(***************************************************************************)
LockedOnlyInCall ==
    \A s \in Suppliers :
        workStatus[s] = WS_LOCKED => InProduction(s) \/ InInitialization(s)

(***************************************************************************)
(* However reads, notifications and initializations nest, a supplier is    *)
(* never initialized or produced by two calls at the same time: the second *)
(* would write the product, or reset the messages, under the first.        *)
(***************************************************************************)
NotReentered ==
    \A k, l \in DOMAIN stack :
        /\ k # l
        /\ stack[k].s = stack[l].s
        => ~({stack[k].call, stack[l].call} \subseteq {"produce", "read", "init", "work"})

(***************************************************************************)
(* Nobody gets a product that is being written: an observer is not woken   *)
(* while its supplier produces, and the pointer a production gets from the *)
(* GetWorkProduct of an input is the outcome of a completed, successful    *)
(* work (the test there is on a state that may be INIT or INVALID).        *)
(***************************************************************************)
OnlyFinishedWorkHandedOut ==
    /\ Running("after") => ~InProduction(Head(stack).s)
    /\ Running("read") =>
          LET i == Head(stack).input
          IN  WorkProduct(i) # "null" => lastWorkState[i] = WS_OK /\ ~InProduction(i)

(***************************************************************************)
(* m_lastWorkState and m_productPtr, written in different places and in    *)
(* two classes, agree outside a production: there is a product exactly     *)
(* when there is a last work.                                              *)
(***************************************************************************)
ProductMatchesLastWork ==
    \A s \in Suppliers :
        ~InProduction(s) => (product[s] = "null" <=> lastWorkState[s] = WS_INVALID)

(***************************************************************************)
(* A result that would be handed out as good is calculated from the        *)
(* present parameters and the present products of its inputs.              *)
(***************************************************************************)
CacheCoherent ==
    \A s \in Suppliers :
        Trusted(s) /\ lastWorkState[s] = WS_OK => product[s] = "current"

(***************************************************************************)
(* When a DoTest ends with WS_OK, the product is current: invalidation,    *)
(* initialization and production cover everything the supplier depends on. *)
(***************************************************************************)
TestDeliversCurrent ==
    Running("tested") =>
        LET s == Head(stack).s IN workStatus[s] = WS_OK => product[s] = "current"

(* A production works with the parameters last initialized: OnParametersChanged and *)
(* InitializeWork have run since they changed.                                      *)
ParametersApplied ==
    Running("produce") => areParametersValid[Head(stack).s]

(***************************************************************************)
(* "Changes of supplier input will force this supplier invalidate": at the *)
(* moment an input changes, no consumer still trusts its result.           *)
(***************************************************************************)
InputChangeInvalidates ==
    [][Running("edit") \/ Running("trigger") =>
          \A d \in Consumers(Head(stack).s) : ~Trusted(d)]_vars

(***************************************************************************)
(* Between two calls of clients every input of a supplier whose result is  *)
(* trusted is ready to announce its next change: it has not been           *)
(* invalidated since, and no change of its product has been left open,     *)
(* whichever suppliers the calls before initialized, produced and cleared. *)
(***************************************************************************)
NextChangeAnnounced ==
    Idle => \A d \in Suppliers : Trusted(d) =>
                \A i \in Inputs[d] : isInputValid[i] /\ ~notifierOpen[i]

(* False: "work couldn't be done", and a failed supplier stays so until new work or a reset.  *)
(* If InitializeWork has failed, the last work's state replaces the failure.                  *)
FailureStands ==
    [][\A s \in Suppliers :
          workStatus[s] = WS_FAILED
              => workStatus'[s] \in {WS_FAILED, WS_LOCKED, WS_INVALID}]_vars

(* No chain of notifications, initializations and reads goes on for ever.  *)
CallsReturn == []<>Idle

(* The network keeps the promise of ResultCache.  *)
Cache == INSTANCE ResultCache WITH
    result  <- product,
    trusted <- [s \in Suppliers |-> Trusted(s) /\ lastWorkState[s] = WS_OK]

ImplementsResultCache == Cache!Spec
=============================================================================
