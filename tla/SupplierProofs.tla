--------------------------- MODULE SupplierProofs ---------------------------
(***************************************************************************)
(* Proofs about Supplier, for every acyclic network.                       *)
(***************************************************************************)
EXTENDS Supplier, TLAPS

(* Pushing a frame, and what the calls below then look like.  *)
LEMMA Push ==
    ASSUME NEW S, NEW f \in S, NEW below \in Seq(S)
    PROVE  LET st == <<f>> \o below
           IN  /\ st \in Seq(S)
               /\ st # <<>>
               /\ Head(st) = f
               /\ Tail(st) = below
               /\ Len(st) = Len(below) + 1
               /\ DOMAIN st = 1..(Len(below) + 1)
               /\ st[1] = f
               /\ \A k \in DOMAIN below : st[k + 1] = below[k]
  OBVIOUS

(* A stack that is not empty is its top on its rest.  *)
LEMMA Pop ==
    ASSUME NEW S, NEW st \in Seq(S), st # <<>>
    PROVE  /\ Head(st) \in S
           /\ Tail(st) \in Seq(S)
           /\ st = <<Head(st)>> \o Tail(st)
  OBVIOUS

-----------------------------------------------------------------------------
(* Types *)

(* What F builds is a frame.  *)
LEMMA FrameType ==
    ASSUME NEW call \in Calls, NEW s \in Suppliers, NEW todo \in SUBSET Suppliers
    PROVE  F(call, s, todo) \in Frame
  BY DEF F, Frame, Products

(* BeforeUpdate puts frames on a stack.  *)
LEMMA NotifyBeforeType ==
    ASSUME NEW s \in Suppliers, NEW todo \in SUBSET Suppliers,
           NEW below \in Seq(Frame)
    PROVE  NotifyBefore(s, todo, below) \in Seq(Frame)
  <1>1. F("before", s, todo) \in Frame
    BY FrameType DEF Calls
  <1>2. QED
    BY <1>1, Push DEF NotifyBefore

(* So does AfterUpdate.  *)
LEMMA NotifyAfterType ==
    ASSUME NEW s \in Suppliers, NEW below \in Seq(Frame)
    PROVE  NotifyAfter(s, below) \in Seq(Frame)
  <1>1. F("after", s, {}) \in Frame
    BY FrameType DEF Calls
  <1>2. QED
    BY <1>1, Push DEF NotifyAfter

(* InvalidateSupplier keeps the types of what it changes.  *)
LEMMA InvalidateType ==
    ASSUME TypeOK, NEW s \in Suppliers, NEW below \in Seq(Frame),
           CallInvalidateSupplier(s, below)
    PROVE  /\ isInputValid' \in [Suppliers -> BOOLEAN]
           /\ notifierOpen' \in [Suppliers -> BOOLEAN]
           /\ stack' \in Seq(Frame)
  <1>1. isInputValid' \in [Suppliers -> BOOLEAN]
    BY Zenon DEF TypeOK, CallInvalidateSupplier
  <1>2. notifierOpen' \in [Suppliers -> BOOLEAN]
    BY Zenon DEF TypeOK, CallInvalidateSupplier
  <1>3. NotifyBefore(s, Consumers(s), below) \in Seq(Frame)
    BY NotifyBeforeType DEF Consumers
  <1>4. QED
    BY <1>1, <1>2, <1>3 DEF CallInvalidateSupplier

(* EnsureWorkInitialized keeps the types of what it changes.  *)
LEMMA InitializeType ==
    ASSUME TypeOK, NEW s \in Suppliers, NEW below \in Seq(Frame),
           CallEnsureWorkInitialized(s, below)
    PROVE  /\ workStatus' \in [Suppliers -> WorkStatus]
           /\ stack' \in Seq(Frame)
  <1>1. F("init", s, Inputs[s]) \in Frame
    BY FrameType, NetworkAssumption DEF Calls
  <1>2. <<F("init", s, Inputs[s])>> \o below \in Seq(Frame)
    BY <1>1, Push
  <1>3. [workStatus EXCEPT ![s] = WS_LOCKED] \in [Suppliers -> WorkStatus]
    BY DEF TypeOK, WorkStatus, WS_INVALID, WS_LOCKED, WS_FAILED
  <1>4. QED
    BY <1>2, <1>3 DEF TypeOK, CallEnsureWorkInitialized

(* Outdating a product leaves a product.  *)
LEMMA OutdateType ==
    ASSUME NEW prod \in [Suppliers -> Products], NEW s \in Suppliers
    PROVE  Outdate(prod, s) \in [Suppliers -> Products]
  BY DEF Outdate, Products

(* EnsureWorkFinished keeps the types of what it changes.  *)
LEMMA FinishType ==
    ASSUME TypeOK, NEW s \in Suppliers, NEW below \in Seq(Frame),
           CallEnsureWorkFinished(s, below)
    PROVE  /\ workStatus' \in [Suppliers -> WorkStatus]
           /\ isInputValid' \in [Suppliers -> BOOLEAN]
           /\ product' \in [Suppliers -> Products]
           /\ stack' \in Seq(Frame)
  <1>1. F("produce", s, Inputs[s]) \in Frame
    BY FrameType, NetworkAssumption DEF Calls
  <1>2. <<F("produce", s, Inputs[s])>> \o below \in Seq(Frame)
    BY <1>1, Push
  <1>3. [Outdate(product, s) EXCEPT ![s] = "outdated"] \in [Suppliers -> Products]
    BY OutdateType DEF TypeOK, Products
  <1>4. CASE MustProduce(s)
    <2>1. workStatus' = [workStatus EXCEPT ![s] = WS_LOCKED]
      BY <1>4 DEF CallEnsureWorkFinished
    <2>2. workStatus' \in [Suppliers -> WorkStatus]
      BY <2>1 DEF TypeOK, WorkStatus, WS_INVALID, WS_LOCKED, WS_FAILED
    <2>3. QED
      BY <1>2, <1>3, <1>4, <2>2 DEF TypeOK, CallEnsureWorkFinished
  <1>5. CASE ~MustProduce(s)
    BY <1>5 DEF TypeOK, CallEnsureWorkFinished
  <1>6. QED
    BY <1>4, <1>5

(* The types of the innermost frame.  *)
LEMMA TopType ==
    ASSUME TypeOK, NEW call, Running(call)
    PROVE  /\ stack # <<>>
           /\ Head(stack) \in Frame
           /\ Head(stack).call = call
           /\ Head(stack).s \in Suppliers
           /\ Head(stack).todo \in SUBSET Suppliers
           /\ Head(stack).input \in Suppliers
           /\ Head(stack).got \in Products
           /\ Tail(stack) \in Seq(Frame)
  <1>1. Head(stack) \in Frame /\ Tail(stack) \in Seq(Frame)
    BY Pop DEF TypeOK, Running
  <1>2. QED
    BY <1>1 DEF Running, Frame

(* OnComponentCreated leaves attributes of the right types.  *)
LEMMA InitType == Init => TypeOK
  BY DEF Init, TypeOK, WorkStatus, WS_INVALID, WS_FAILED, Products

(* Every step, of clients and of handlers, keeps the types.  *)
LEMMA ChangeType ==
    ASSUME TypeOK, NEW s \in Suppliers
    PROVE  [Outdate(product, s) EXCEPT ![s] = IF @ = "current" THEN "outdated" ELSE @]
              \in [Suppliers -> Products]
  BY OutdateType DEF TypeOK, Products

(* Each action keeps the types.  *)
LEMMA NextType ==
    ASSUME TypeOK, [Next]_vars
    PROVE  TypeOK'
  <1>1. CASE InputsObserverBeforeUpdate
    <2>1. PICK d \in Head(stack).todo :
             CallInvalidateSupplier(
                 d, NotifyBefore(Head(stack).s, Head(stack).todo \ {d}, Tail(stack)))
      BY <1>1 DEF InputsObserverBeforeUpdate
    <2>2. NotifyBefore(Head(stack).s, Head(stack).todo \ {d}, Tail(stack)) \in Seq(Frame)
      BY <1>1, TopType, NotifyBeforeType DEF InputsObserverBeforeUpdate
    <2>3. d \in Suppliers
      BY <1>1, TopType DEF InputsObserverBeforeUpdate
    <2>4. QED
      BY <1>1, <2>1, <2>2, <2>3, InvalidateType
         DEF TypeOK, InputsObserverBeforeUpdate
  <1>2. CASE ObserverReads
    BY <1>2, TopType, FinishType DEF TypeOK, ObserverReads
  <1>3. CASE ObserverIgnores
    BY <1>3, TopType DEF TypeOK, ObserverIgnores, attributes
  <1>4. CASE InitializeInput
    <2>1. PICK i \in Head(stack).todo :
             CallEnsureWorkInitialized(
                 i, <<[Head(stack) EXCEPT !.todo = @ \ {i}]>> \o Tail(stack))
      BY <1>4 DEF InitializeInput
    <2>2. [Head(stack) EXCEPT !.todo = @ \ {i}] \in Frame
      BY <1>4, TopType DEF InitializeInput, Frame
    <2>3. <<[Head(stack) EXCEPT !.todo = @ \ {i}]>> \o Tail(stack) \in Seq(Frame)
      BY <1>4, <2>2, TopType, Push DEF InitializeInput
    <2>4. i \in Suppliers
      BY <1>4, TopType DEF InitializeInput
    <2>5. QED
      BY <1>4, <2>1, <2>3, <2>4, InitializeType DEF TypeOK, InitializeInput
  <1>5. CASE OpenProductChange
    <2> DEFINE s     == Head(stack).s
               below == <<F("work", s, {})>> \o Tail(stack)
    <2>1. s \in Suppliers /\ Tail(stack) \in Seq(Frame)
      BY <1>5, TopType DEF OpenProductChange
    <2>2. below \in Seq(Frame)
      BY <2>1, FrameType, Push DEF Calls
    <2>3. NotifyBefore(s, Consumers(s), below) \in Seq(Frame)
      BY <2>1, <2>2, NotifyBeforeType DEF Consumers
    <2>4. stack' \in Seq(Frame)
      BY <1>5, <2>2, <2>3 DEF OpenProductChange
    <2>5. notifierOpen' \in [Suppliers -> BOOLEAN]
      BY <1>5 DEF TypeOK, OpenProductChange
    <2>6. QED
      BY <1>5, <2>4, <2>5 DEF TypeOK, OpenProductChange
  <1>6. CASE InitializeWork
    <2> DEFINE s == Head(stack).s
    <2>1. stack' \in Seq(Frame)
      BY <1>6, TopType, NotifyAfterType DEF InitializeWork
    <2>2. workStatus' \in [Suppliers -> WorkStatus]
      <3>1. PICK result \in {WS_INIT, WS_FAILED} :
               workStatus' = [workStatus EXCEPT ![s] = result]
        BY <1>6 DEF InitializeWork
      <3>2. result \in WorkStatus
        BY <3>1 DEF WorkStatus, WS_INVALID, WS_INIT, WS_FAILED
      <3>3. QED
        BY <3>1, <3>2 DEF TypeOK
    <2>3. areParametersValid' \in [Suppliers -> BOOLEAN]
          /\ notifierOpen' \in [Suppliers -> BOOLEAN]
      BY <1>6 DEF TypeOK, InitializeWork
    <2>4. QED
      BY <1>6, <2>1, <2>2, <2>3 DEF TypeOK, InitializeWork
  <1>7. CASE ReadInput
    <2> DEFINE read(i) == [Head(stack) EXCEPT !.call = "read", !.input = i,
                                              !.todo = @ \ {i}]
    <2>1. PICK i \in Head(stack).todo :
             CallEnsureWorkFinished(i, <<read(i)>> \o Tail(stack))
      BY <1>7 DEF ReadInput
    <2>2. i \in Suppliers
      BY <1>7, TopType DEF ReadInput
    <2>3. read(i) \in Frame
      BY <1>7, <2>2, TopType DEF ReadInput, Frame, Calls
    <2>4. <<read(i)>> \o Tail(stack) \in Seq(Frame)
      BY <1>7, <2>3, TopType, Push DEF ReadInput
    <2>5. QED
      BY <1>7, <2>1, <2>2, <2>4, FinishType DEF TypeOK, ReadInput
  <1>8. CASE GotInput
    <2> DEFINE read == WorkProduct(Head(stack).input)
               top  == [Head(stack) EXCEPT
                           !.call = "produce",
                           !.got = IF @ = "null" \/ read = "current" THEN @ ELSE read]
    <2>1. read \in Products
      BY <1>8, TopType DEF GotInput, WorkProduct, TypeOK, Products
    <2>2. top \in Frame
      BY <1>8, <2>1, TopType DEF GotInput, Frame, Calls
    <2>3. <<top>> \o Tail(stack) \in Seq(Frame)
      BY <1>8, <2>2, TopType, Push DEF GotInput
    <2>4. QED
      BY <1>8, <2>3 DEF TypeOK, GotInput, attributes
  <1>9. CASE \E result \in WS_OK..WS_FAILED : FinishWork(result)
    <2>1. PICK result \in WS_OK..WS_FAILED : FinishWork(result)
      BY <1>9
    <2>2. Tail(stack) \in Seq(Frame)
      BY <2>1, TopType DEF FinishWork
    <2>3. product' \in [Suppliers -> Products]
      BY <2>1 DEF FinishWork, TypeOK, Products
    <2>4. result \in WorkStatus
      BY DEF WorkStatus, WS_INVALID, WS_OK, WS_FAILED
    <2>5. QED
      BY <2>1, <2>2, <2>3, <2>4 DEF FinishWork, TypeOK
  <1>10. CASE ParamsObserverAfterUpdate
    BY <1>10, TopType, ChangeType DEF TypeOK, ParamsObserverAfterUpdate
  <1>11. CASE InputChanged
    BY <1>11, TopType, ChangeType DEF TypeOK, InputChanged
  <1>12. CASE DropResults
    <2> DEFINE s == Head(stack).s
    <2>1. s \in Suppliers /\ Tail(stack) \in Seq(Frame)
      BY <1>12, TopType DEF DropResults
    <2>2. stack' \in Seq(Frame)
      BY <1>12, <2>1, NotifyAfterType DEF DropResults
    <2>3. product' \in [Suppliers -> Products]
      BY <1>12, <2>1, OutdateType DEF DropResults, TypeOK, Products
    <2>4. QED
      BY <1>12, <2>2, <2>3
         DEF TypeOK, DropResults, WorkStatus, WS_INVALID, WS_FAILED
  <1>13. CASE TestInitialize
    <2> DEFINE s       == Head(stack).s
               changed == IF MustInitialize(s) THEN {s} ELSE {}
    <2>1. s \in Suppliers /\ Tail(stack) \in Seq(Frame)
      BY <1>13, TopType DEF TestInitialize
    <2>2. F("testFinish", s, changed) \in Frame
      BY <2>1, FrameType DEF Calls
    <2>3. <<F("testFinish", s, changed)>> \o Tail(stack) \in Seq(Frame)
      BY <2>1, <2>2, Push
    <2>4. QED
      BY <1>13, <2>1, <2>3, InitializeType DEF TypeOK, TestInitialize
  <1>14. CASE TestFinish
    <2> DEFINE s == Head(stack).s
    <2>1. s \in Suppliers /\ Tail(stack) \in Seq(Frame)
          /\ Head(stack).todo \in SUBSET Suppliers
      BY <1>14, TopType DEF TestFinish
    <2>2. <<F("tested", s, Head(stack).todo)>> \o Tail(stack) \in Seq(Frame)
      BY <2>1, FrameType, Push DEF Calls
    <2>3. QED
      BY <1>14, <2>1, <2>2, FinishType DEF TypeOK, TestFinish
  <1>15. CASE TestReturns
    BY <1>15, TopType, NotifyAfterType DEF TypeOK, TestReturns, attributes
  <1>16. CASE Client
    <2>1. PICK s \in Suppliers :
             \/ EditParameters(s) \/ TriggerInput(s) \/ ClearWorkResults(s)
             \/ DoTest(s) \/ InvalidateSupplier(s) \/ EnsureWorkInitialized(s)
             \/ GetWorkProduct(s)
      BY <1>16 DEF Client
    <2>2. \A call \in Calls : <<F(call, s, {})>> \in Seq(Frame)
      BY FrameType
    <2>3. <<>> \in Seq(Frame)
      OBVIOUS
    <2>4. CASE EditParameters(s)
      BY <2>2, <2>4, InvalidateType DEF TypeOK, EditParameters, Calls
    <2>5. CASE TriggerInput(s)
      BY <2>2, <2>5, InvalidateType DEF TypeOK, TriggerInput, Calls
    <2>6. CASE ClearWorkResults(s)
      BY <2>2, <2>6, NotifyBeforeType
         DEF TypeOK, ClearWorkResults, attributes, Calls, Consumers
    <2>7. CASE DoTest(s)
      BY <2>2, <2>7, InvalidateType DEF TypeOK, DoTest, Calls
    <2>8. CASE InvalidateSupplier(s)
      BY <2>3, <2>8, InvalidateType DEF TypeOK, InvalidateSupplier
    <2>9. CASE EnsureWorkInitialized(s)
      BY <2>3, <2>9, InitializeType DEF TypeOK, EnsureWorkInitialized
    <2>10. CASE GetWorkProduct(s)
      BY <2>3, <2>10, FinishType DEF TypeOK, GetWorkProduct
    <2>11. QED
      BY <2>1, <2>4, <2>5, <2>6, <2>7, <2>8, <2>9, <2>10
  <1>17. CASE UNCHANGED vars
    BY <1>17 DEF TypeOK, vars, attributes
  <1>18. QED
    BY <1>1, <1>2, <1>3, <1>4, <1>5, <1>6, <1>7, <1>8, <1>9, <1>10, <1>11, <1>12,
       <1>13, <1>14, <1>15, <1>16, <1>17 DEF Next, Step

(* The variables keep their types in every network.  *)
THEOREM TypeCorrect == Spec => []TypeOK
  <1>1. Init => TypeOK
    BY InitType
  <1>2. TypeOK /\ [Next]_vars => TypeOK'
    BY NextType
  <1>3. QED
    BY <1>1, <1>2, PTL DEF Spec

-----------------------------------------------------------------------------
(***************************************************************************)
(* How calls nest.  A call that works on a supplier, and a notification    *)
(* that its work is initialized, is nested only in work on suppliers       *)
(* further up the network; clients start their calls on an empty stack;    *)
(* and between the work of a consumer and the product it waits for there   *)
(* is nothing but the production of this very input.                       *)
(***************************************************************************)
Producing   == {"produce", "read"}
Busy        == {"init", "work"} \cup Producing
ClientCalls == {"edit", "clear", "trigger", "testInit", "testFinish", "tested"}

WellFormed(f) ==
    /\ f.call \in {"init"} \cup Producing => f.todo \subseteq Inputs[f.s]
    /\ f.call = "read" => f.input \in Inputs[f.s]

(* f may be nested in g, at whatever depth.  *)
Over(f, g) ==
    /\ f.call \notin ClientCalls
    /\ f.call \in Busy \cup {"after"} /\ g.call \in Busy => Level[f.s] < Level[g.s]

(* f may be the next call in g.  *)
Serves(f, g) == g.call = "read" => f.call \in Producing /\ f.s = g.input

Stacked(st) ==
    /\ st \in Seq(Frame)
    /\ \A k \in DOMAIN st : WellFormed(st[k])
    /\ \A k, l \in DOMAIN st :
          /\ k < l => Over(st[k], st[l])
          /\ l = k + 1 => Serves(st[k], st[l])

(* A call for s, of one of the kinds in C, is under way.  *)
Has(st, s, C) == \E k \in DOMAIN st : st[k].s = s /\ st[k].call \in C

NotReading(st) == st = <<>> \/ Head(st).call # "read"

(* All the work under way in st is further up the network than s.  *)
Higher(s, st) == \A l \in DOMAIN st : st[l].call \in Busy => Level[s] < Level[st[l].s]

(* No initial state is the outcome of a work.  *)
LastWorkDone ==
    lastWorkState \in [Suppliers -> {WS_INVALID, WS_OK, WS_CANCELED, WS_FAILED}]

(* What a production is about to use of its input is the outcome of the input's last work.  *)
ReadAnswered ==
    Running("read") =>
        workStatus[Head(stack).input] = lastWorkState[Head(stack).input]

IInv ==
    /\ TypeOK
    /\ LastWorkDone
    /\ Stacked(stack)
    /\ LockedOnlyInCall
    /\ ProductMatchesLastWork
    /\ ReadAnswered

-----------------------------------------------------------------------------
(* Pushing and popping on a well nested stack *)

(* The calls of a stack are its top and those below.  *)
LEMMA HasPush ==
    ASSUME NEW f \in Frame, NEW below \in Seq(Frame), NEW s, NEW C
    PROVE  Has(<<f>> \o below, s, C) <=> (f.s = s /\ f.call \in C) \/ Has(below, s, C)
  <1> DEFINE st == <<f>> \o below
  <1>1. /\ DOMAIN st = 1..(Len(below) + 1)
        /\ st[1] = f
        /\ \A k \in DOMAIN below : st[k + 1] = below[k]
    BY Push
  <1>2. DOMAIN below = 1..Len(below) /\ Len(below) \in Nat
    OBVIOUS
  <1>3. ASSUME Has(st, s, C)
        PROVE  (f.s = s /\ f.call \in C) \/ Has(below, s, C)
    <2>1. PICK k \in DOMAIN st : st[k].s = s /\ st[k].call \in C
      BY <1>3 DEF Has
    <2>2. CASE k = 1
      BY <1>1, <2>1, <2>2
    <2>3. CASE k # 1
      <3>1. k - 1 \in DOMAIN below /\ (k - 1) + 1 = k
        BY <1>1, <1>2, <2>1, <2>3
      <3>2. st[k] = below[k - 1]
        BY <1>1, <3>1
      <3>3. QED
        BY <2>1, <3>1, <3>2 DEF Has
    <2>4. QED
      BY <2>2, <2>3
  <1>4. ASSUME f.s = s, f.call \in C
        PROVE  Has(st, s, C)
    <2>1. 1 \in DOMAIN st
      BY <1>1, <1>2
    <2>2. QED
      BY <1>1, <1>4, <2>1 DEF Has
  <1>5. ASSUME Has(below, s, C)
        PROVE  Has(st, s, C)
    <2>1. PICK k \in DOMAIN below : below[k].s = s /\ below[k].call \in C
      BY <1>5 DEF Has
    <2>2. k + 1 \in DOMAIN st
      BY <1>1, <1>2
    <2>3. QED
      BY <1>1, <2>1, <2>2 DEF Has
  <1>6. QED
    BY <1>3, <1>4, <1>5

(* What a frame must satisfy to be put on a well nested stack.  *)
Fits(f, below) ==
    /\ WellFormed(f)
    /\ \A l \in DOMAIN below : Over(f, below[l])
    /\ below # <<>> => Serves(f, Head(below))

(* A frame that fits on a well nested stack keeps it well nested.  *)
LEMMA StackedPush ==
    ASSUME NEW f \in Frame, NEW below, Stacked(below), Fits(f, below)
    PROVE  Stacked(<<f>> \o below)
  <1> DEFINE st == <<f>> \o below
  <1>1. below \in Seq(Frame) /\ DOMAIN below = 1..Len(below) /\ Len(below) \in Nat
    BY DEF Stacked
  <1>2. /\ st \in Seq(Frame)
        /\ DOMAIN st = 1..(Len(below) + 1)
        /\ st[1] = f
        /\ \A k \in DOMAIN below : st[k + 1] = below[k]
    BY <1>1, Push
  <1>3. \A k \in DOMAIN st : k # 1 => k - 1 \in DOMAIN below /\ st[k] = below[k - 1]
    <2>1. \A k \in DOMAIN st : k # 1 => k - 1 \in DOMAIN below /\ (k - 1) + 1 = k
      BY <1>1, <1>2
    <2>2. QED
      BY <1>2, <2>1
  <1>4. ASSUME NEW k \in DOMAIN st
        PROVE  WellFormed(st[k])
    BY <1>2, <1>3 DEF Stacked, Fits
  <1>5. ASSUME NEW k \in DOMAIN st, NEW l \in DOMAIN st
        PROVE  /\ k < l => Over(st[k], st[l])
               /\ l = k + 1 => Serves(st[k], st[l])
    <2>1. CASE k = 1 /\ l # 1
      <3>1. l - 1 \in DOMAIN below /\ st[l] = below[l - 1] /\ st[k] = f
        BY <1>2, <1>3, <2>1
      <3>2. ASSUME l = k + 1
            PROVE  st[l] = Head(below) /\ below # <<>>
        BY <1>1, <2>1, <3>1, <3>2
      <3>3. QED
        BY <3>1, <3>2 DEF Fits
    <2>2. CASE k # 1 /\ l # 1
      <3>1. /\ k - 1 \in DOMAIN below /\ st[k] = below[k - 1]
            /\ l - 1 \in DOMAIN below /\ st[l] = below[l - 1]
        BY <1>3, <2>2
      <3>2. /\ k < l => k - 1 < l - 1
            /\ l = k + 1 => l - 1 = (k - 1) + 1
        BY <1>2
      <3>3. QED
        BY <3>1, <3>2 DEF Stacked
    <2>3. CASE l = 1
      BY <1>2, <2>3
    <2>4. QED
      BY <2>1, <2>2, <2>3
  <1>6. QED
    BY <1>2, <1>4, <1>5 DEF Stacked

(* The innermost call and the calls below it.  *)
LEMMA StackedPop ==
    ASSUME NEW st, Stacked(st), st # <<>>
    PROVE  /\ Head(st) \in Frame
           /\ Stacked(Tail(st))
           /\ Fits(Head(st), Tail(st))
           /\ \A s, C : Has(st, s, C) <=>
                 (Head(st).s = s /\ Head(st).call \in C) \/ Has(Tail(st), s, C)
  <1> DEFINE below == Tail(st)
  <1>1. st \in Seq(Frame)
    BY DEF Stacked
  <1>2. Head(st) \in Frame /\ below \in Seq(Frame) /\ st = <<Head(st)>> \o below
    BY <1>1, Pop
  <1>3. /\ DOMAIN below = 1..(Len(st) - 1)
        /\ DOMAIN st = 1..Len(st)
        /\ Len(st) \in Nat
        /\ Head(st) = st[1]
        /\ 1 \in DOMAIN st
        /\ \A k \in DOMAIN below : below[k] = st[k + 1]
    BY <1>1
  <1>4. \A k \in DOMAIN below : k + 1 \in DOMAIN st
    BY <1>3
  <1>5. Stacked(below)
    <2>1. ASSUME NEW k \in DOMAIN below
          PROVE  WellFormed(below[k])
      BY <1>3, <1>4 DEF Stacked
    <2>2. ASSUME NEW k \in DOMAIN below, NEW l \in DOMAIN below
          PROVE  /\ k < l => Over(below[k], below[l])
                 /\ l = k + 1 => Serves(below[k], below[l])
      <3>1. /\ k < l => k + 1 < l + 1
            /\ l = k + 1 => l + 1 = (k + 1) + 1
        BY <1>3
      <3>2. QED
        BY <1>3, <1>4, <3>1 DEF Stacked
    <2>3. QED
      BY <1>2, <2>1, <2>2 DEF Stacked
  <1>6. Fits(Head(st), below)
    <2>1. WellFormed(Head(st))
      BY <1>3 DEF Stacked
    <2>2. ASSUME NEW l \in DOMAIN below
          PROVE  Over(Head(st), below[l])
      <3>1. 1 < l + 1
        BY <1>3
      <3>2. QED
        BY <1>3, <1>4, <3>1 DEF Stacked
    <2>3. ASSUME below # <<>>
          PROVE  Serves(Head(st), Head(below))
      <3>1. 1 \in DOMAIN below /\ Head(below) = below[1] /\ below[1] = st[2]
        BY <1>2, <1>3, <2>3
      <3>2. 2 \in DOMAIN st /\ 2 = 1 + 1
        BY <1>4, <3>1
      <3>3. QED
        BY <1>3, <3>1, <3>2 DEF Stacked
    <2>4. QED
      BY <2>1, <2>2, <2>3 DEF Fits
  <1>7. QED
    BY <1>2, <1>5, <1>6, HasPush

-----------------------------------------------------------------------------
(* What the calls into a supplier do to a well nested stack *)

(* BeforeUpdate fits anywhere but in GetWorkProduct and starts no work.  *)
LEMMA NotifyBeforeStacked ==
    ASSUME NEW s \in Suppliers, NEW todo \in SUBSET Suppliers, NEW below,
           Stacked(below), NotReading(below)
    PROVE  LET st == NotifyBefore(s, todo, below)
           IN  /\ Stacked(st)
               /\ NotReading(st)
               /\ \A x, C : "before" \notin C => (Has(st, x, C) <=> Has(below, x, C))
  <1> DEFINE f == F("before", s, todo)
  <1>1. f \in Frame /\ below \in Seq(Frame)
    BY FrameType DEF Calls, Stacked
  <1>2. f.call = "before"
    BY DEF F
  <1>3. Fits(f, below)
    BY <1>2 DEF Fits, WellFormed, Over, Serves, NotReading, Busy, Producing, ClientCalls
  <1>4. Stacked(<<f>> \o below)
    BY <1>1, <1>3, StackedPush
  <1>5. NotReading(<<f>> \o below)
    BY <1>1, <1>2, Push DEF NotReading
  <1>6. \A x, C : "before" \notin C => (Has(<<f>> \o below, x, C) <=> Has(below, x, C))
    BY <1>1, <1>2, HasPush
  <1>7. QED
    BY <1>4, <1>5, <1>6 DEF NotifyBefore

(* AfterUpdate of s fits where everything below has a higher number.  *)
LEMMA NotifyAfterStacked ==
    ASSUME NEW s \in Suppliers, NEW below,
           Stacked(below), NotReading(below), Higher(s, below)
    PROVE  LET st == NotifyAfter(s, below)
           IN  /\ Stacked(st)
               /\ NotReading(st)
               /\ \A x, C : "after" \notin C => (Has(st, x, C) <=> Has(below, x, C))
  <1> DEFINE f == F("after", s, {})
  <1>1. f \in Frame /\ below \in Seq(Frame)
    BY FrameType DEF Calls, Stacked
  <1>2. f.call = "after" /\ f.s = s
    BY DEF F
  <1>3. Fits(f, below)
    BY <1>2 DEF Fits, WellFormed, Over, Serves, NotReading, Busy, Producing, ClientCalls,
                Higher
  <1>4. Stacked(<<f>> \o below)
    BY <1>1, <1>3, StackedPush
  <1>5. NotReading(<<f>> \o below)
    BY <1>1, <1>2, Push DEF NotReading
  <1>6. \A x, C : "after" \notin C => (Has(<<f>> \o below, x, C) <=> Has(below, x, C))
    BY <1>1, <1>2, HasPush
  <1>7. QED
    BY <1>4, <1>5, <1>6 DEF NotifyAfter

(* InvalidateSupplier keeps the nesting and starts no work.  *)
LEMMA InvalidateStacked ==
    ASSUME NEW s \in Suppliers, NEW below, Stacked(below), NotReading(below),
           CallInvalidateSupplier(s, below)
    PROVE  /\ Stacked(stack')
           /\ NotReading(stack')
           /\ \A x, C : "before" \notin C => (Has(stack', x, C) <=> Has(below, x, C))
  BY NotifyBeforeStacked DEF CallInvalidateSupplier, Consumers

(* EnsureWorkInitialized keeps the nesting and may start the initialization of s.  *)
LEMMA InitializeStacked ==
    ASSUME TypeOK, NEW s \in Suppliers, NEW below,
           Stacked(below), NotReading(below), Higher(s, below),
           CallEnsureWorkInitialized(s, below)
    PROVE  /\ Stacked(stack')
           /\ NotReading(stack')
           /\ \A x : Has(stack', x, Producing) <=> Has(below, x, Producing)
           /\ \A x : Has(below, x, Busy) => Has(stack', x, Busy)
           /\ \A x \in Suppliers :
                 workStatus'[x] = WS_LOCKED =>
                     workStatus[x] = WS_LOCKED \/ Has(stack', x, Busy)
  <1> DEFINE f == F("init", s, Inputs[s])
  <1>1. f \in Frame /\ below \in Seq(Frame)
    BY FrameType, NetworkAssumption DEF Calls, Stacked
  <1>2. f.call = "init" /\ f.s = s /\ f.todo = Inputs[s]
    BY DEF F
  <1>3. Fits(f, below)
    BY <1>2 DEF Fits, WellFormed, Over, Serves, NotReading, Busy, Producing, ClientCalls,
                Higher
  <1>4. Stacked(<<f>> \o below)
    BY <1>1, <1>3, StackedPush
  <1>5. NotReading(<<f>> \o below)
    BY <1>1, <1>2, Push DEF NotReading
  <1>6. \A x, C : Has(<<f>> \o below, x, C) <=> (s = x /\ "init" \in C) \/ Has(below, x, C)
    BY <1>1, <1>2, HasPush
  <1>7. CASE MustInitialize(s)
    <2>1. stack' = <<f>> \o below /\ workStatus' = [workStatus EXCEPT ![s] = WS_LOCKED]
      BY <1>7 DEF CallEnsureWorkInitialized
    <2>2. \A x : Has(stack', x, Producing) <=> Has(below, x, Producing)
      BY <1>6, <2>1 DEF Producing
    <2>3. \A x : Has(below, x, Busy) => Has(stack', x, Busy)
      BY <1>6, <2>1
    <2>4. Has(stack', s, Busy)
      BY <1>6, <2>1 DEF Busy
    <2>5. \A x \in Suppliers :
             workStatus'[x] = WS_LOCKED =>
                 workStatus[x] = WS_LOCKED \/ Has(stack', x, Busy)
      BY <2>1, <2>4 DEF TypeOK
    <2>6. QED
      BY <1>4, <1>5, <2>1, <2>2, <2>3, <2>5
  <1>8. CASE ~MustInitialize(s)
    BY <1>8 DEF CallEnsureWorkInitialized
  <1>9. QED
    BY <1>7, <1>8

(* EnsureWorkFinished keeps the nesting and may start the production of s.  *)
LEMMA FinishStacked ==
    ASSUME TypeOK, LastWorkDone, NEW s \in Suppliers, NEW below,
           Stacked(below), Higher(s, below),
           below # <<>> /\ Head(below).call = "read" => Head(below).input = s,
           CallEnsureWorkFinished(s, below)
    PROVE  /\ Stacked(stack')
           /\ NotReading(stack') \/ (stack' = below /\ workStatus'[s] = lastWorkState[s])
           /\ \A x, C : Has(below, x, C) => Has(stack', x, C)
           /\ \A x \in Suppliers :
                 workStatus'[x] = WS_LOCKED =>
                     workStatus[x] = WS_LOCKED \/ Has(stack', x, Busy)
           /\ \A x \in Suppliers :
                 ~Has(stack', x, Producing) => (product'[x] = "null" <=> product[x] = "null")
  <1> DEFINE f == F("produce", s, Inputs[s])
  <1>1. f \in Frame /\ below \in Seq(Frame)
    BY FrameType, NetworkAssumption DEF Calls, Stacked
  <1>2. f.call = "produce" /\ f.s = s /\ f.todo = Inputs[s]
    BY DEF F
  <1>3. Fits(f, below)
    BY <1>2 DEF Fits, WellFormed, Over, Serves, Busy, Producing, ClientCalls, Higher
  <1>4. Stacked(<<f>> \o below)
    BY <1>1, <1>3, StackedPush
  <1>5. NotReading(<<f>> \o below)
    BY <1>1, <1>2, Push DEF NotReading
  <1>6. \A x, C : Has(<<f>> \o below, x, C) <=> (s = x /\ "produce" \in C) \/ Has(below, x, C)
    BY <1>1, <1>2, HasPush
  <1>7. CASE MustProduce(s)
    <2>1. /\ stack' = <<f>> \o below
          /\ workStatus' = [workStatus EXCEPT ![s] = WS_LOCKED]
          /\ product' = [Outdate(product, s) EXCEPT ![s] = "outdated"]
      BY <1>7 DEF CallEnsureWorkFinished
    <2>2. Has(stack', s, Busy) /\ Has(stack', s, Producing)
      BY <1>6, <2>1 DEF Busy, Producing
    <2>3. \A x \in Suppliers :
             workStatus'[x] = WS_LOCKED =>
                 workStatus[x] = WS_LOCKED \/ Has(stack', x, Busy)
      BY <2>1, <2>2 DEF TypeOK
    <2>4. \A x \in Suppliers : x # s => (product'[x] = "null" <=> product[x] = "null")
      BY <2>1 DEF Outdate
    <2>5. QED
      BY <1>4, <1>5, <1>6, <2>1, <2>2, <2>3, <2>4
  <1>8. CASE ~MustProduce(s)
    <2>1. /\ stack' = below
          /\ workStatus' = [workStatus EXCEPT ![s] = lastWorkState[s]]
          /\ product' = product
      BY <1>8 DEF CallEnsureWorkFinished
    <2>2. lastWorkState[s] # WS_LOCKED
      BY DEF LastWorkDone, WS_INVALID, WS_LOCKED, WS_OK, WS_CANCELED, WS_FAILED
    <2>3. \A x \in Suppliers : workStatus'[x] = WS_LOCKED => workStatus[x] = WS_LOCKED
      BY <2>1, <2>2 DEF TypeOK
    <2>4. workStatus'[s] = lastWorkState[s]
      BY <2>1 DEF TypeOK
    <2>5. QED
      BY <2>1, <2>3, <2>4
  <1>9. QED
    BY <1>7, <1>8

(* The call an action is about, and the stack it returns to.  *)
LEMMA Top ==
    ASSUME Stacked(stack), NEW call, Running(call)
    PROVE  LET top == Head(stack)
           IN  /\ top \in Frame
               /\ top.call = call
               /\ top.s \in Suppliers
               /\ top.todo \in SUBSET Suppliers
               /\ WellFormed(top)
               /\ Stacked(Tail(stack))
               /\ Fits(top, Tail(stack))
               /\ call \notin Producing => NotReading(Tail(stack))
               /\ call \in Busy \cup {"after"} => Higher(top.s, Tail(stack))
               /\ call \in ClientCalls => Tail(stack) = <<>>
               /\ \A x, C : Has(stack, x, C) <=>
                     (top.s = x /\ call \in C) \/ Has(Tail(stack), x, C)
  <1> DEFINE top == Head(stack)
             below == Tail(stack)
  <1>1. stack # <<>> /\ top.call = call
    BY DEF Running
  <1>2. /\ top \in Frame
        /\ Stacked(below)
        /\ Fits(top, below)
        /\ \A x, C : Has(stack, x, C) <=>
              (top.s = x /\ call \in C) \/ Has(below, x, C)
    BY <1>1, StackedPop
  <1>3. top.s \in Suppliers /\ top.todo \in SUBSET Suppliers
    BY <1>2 DEF Frame
  <1>4. call \notin Producing => NotReading(below)
    BY <1>1, <1>2 DEF Fits, Serves, NotReading
  <1>5. call \in Busy \cup {"after"} => Higher(top.s, below)
    BY <1>1, <1>2 DEF Fits, Over, Higher
  <1>6. ASSUME call \in ClientCalls
        PROVE  below = <<>>
    <2>1. \A l \in DOMAIN below : FALSE
      BY <1>1, <1>2, <1>6 DEF Fits, Over
    <2>2. below \in Seq(Frame)
      BY <1>2 DEF Stacked
    <2>3. QED
      BY <2>1, <2>2
  <1>7. QED
    BY <1>1, <1>2, <1>3, <1>4, <1>5, <1>6 DEF Fits

-----------------------------------------------------------------------------
(* How the invariant is re-established *)

(* No call of the two kinds that matter ends.  *)
Kept(st) ==
    \A x \in Suppliers :
        /\ Has(stack, x, Busy) => Has(st, x, Busy)
        /\ Has(stack, x, Producing) => Has(st, x, Producing)

(* What is to be shown of the state after a step, in terms of Has.  *)
LEMMA Established ==
    ASSUME TypeOK', LastWorkDone', Stacked(stack'),
           NotReading(stack') \/
               workStatus'[Head(stack').input] = lastWorkState'[Head(stack').input],
           \A x \in Suppliers : workStatus'[x] = WS_LOCKED => Has(stack', x, Busy),
           \A x \in Suppliers :
               ~Has(stack', x, Producing) =>
                   (product'[x] = "null" <=> lastWorkState'[x] = WS_INVALID)
    PROVE  IInv'
  <1>1. LockedOnlyInCall'
    BY DEF LockedOnlyInCall, InProduction, InInitialization, Has, Busy, Producing
  <1>2. ProductMatchesLastWork'
    BY DEF ProductMatchesLastWork, InProduction, Has, Producing
  <1>3. ReadAnswered'
    BY DEF ReadAnswered, Running, NotReading
  <1>4. QED
    BY <1>1, <1>2, <1>3 DEF IInv

(* What IInv says, in terms of Has.  *)
LEMMA Holds ==
    ASSUME IInv
    PROVE  /\ \A x \in Suppliers : workStatus[x] = WS_LOCKED => Has(stack, x, Busy)
           /\ \A x \in Suppliers :
                 ~Has(stack, x, Producing) =>
                     (product[x] = "null" <=> lastWorkState[x] = WS_INVALID)
  BY DEF IInv, LockedOnlyInCall, ProductMatchesLastWork, InProduction, InInitialization,
         Has, Busy, Producing

(* A step that neither ends work nor changes what a supplier says of it.  *)
LEMMA Quiet ==
    ASSUME IInv, TypeOK', UNCHANGED <<workStatus, lastWorkState>>,
           \A x \in Suppliers : product'[x] = "null" <=> product[x] = "null",
           Stacked(stack'), NotReading(stack'), Kept(stack')
    PROVE  IInv'
  <1>1. LastWorkDone'
    BY DEF IInv, LastWorkDone
  <1>2. QED
    BY <1>1, Established, Holds DEF Kept

(* A step that calls InvalidateSupplier on a stack that lost no work keeps IInv.  *)
LEMMA AfterInvalidate ==
    ASSUME IInv, TypeOK', NEW s \in Suppliers, NEW below,
           Stacked(below), NotReading(below), Kept(below),
           CallInvalidateSupplier(s, below),
           UNCHANGED <<workStatus, lastWorkState, areParametersValid, product>>
    PROVE  IInv'
  <1>1. /\ Stacked(stack') /\ NotReading(stack')
        /\ \A x, C : "before" \notin C => (Has(stack', x, C) <=> Has(below, x, C))
    BY InvalidateStacked
  <1>2. "before" \notin Busy /\ "before" \notin Producing
    BY DEF Busy, Producing
  <1>3. Kept(stack')
    BY <1>1, <1>2 DEF Kept
  <1>4. QED
    BY <1>1, <1>3, Quiet

(* A step that calls EnsureWorkInitialized keeps IInv.  *)
LEMMA AfterInitialize ==
    ASSUME IInv, TypeOK', NEW s \in Suppliers, NEW below,
           Stacked(below), NotReading(below), Kept(below), Higher(s, below),
           CallEnsureWorkInitialized(s, below),
           UNCHANGED <<lastWorkState, isInputValid, areParametersValid,
                       notifierOpen, product>>
    PROVE  IInv'
  <1>1. /\ Stacked(stack') /\ NotReading(stack')
        /\ \A x : Has(stack', x, Producing) <=> Has(below, x, Producing)
        /\ \A x : Has(below, x, Busy) => Has(stack', x, Busy)
        /\ \A x \in Suppliers :
              workStatus'[x] = WS_LOCKED =>
                  workStatus[x] = WS_LOCKED \/ Has(stack', x, Busy)
    BY InitializeStacked DEF IInv
  <1>2. LastWorkDone'
    BY DEF IInv, LastWorkDone
  <1>3. \A x \in Suppliers : workStatus'[x] = WS_LOCKED => Has(stack', x, Busy)
    BY <1>1, Holds DEF Kept
  <1>4. \A x \in Suppliers :
           ~Has(stack', x, Producing) =>
               (product'[x] = "null" <=> lastWorkState'[x] = WS_INVALID)
    BY <1>1, Holds DEF Kept
  <1>5. QED
    BY <1>1, <1>2, <1>3, <1>4, Established

(* A step that calls EnsureWorkFinished keeps IInv.  *)
LEMMA AfterFinish ==
    ASSUME IInv, TypeOK', NEW s \in Suppliers, NEW below,
           Stacked(below), Kept(below), Higher(s, below),
           NotReading(below) \/ Head(below).input = s,
           CallEnsureWorkFinished(s, below),
           UNCHANGED <<lastWorkState, areParametersValid, notifierOpen>>
    PROVE  IInv'
  <1>1. /\ Stacked(stack')
        /\ NotReading(stack') \/ (stack' = below /\ workStatus'[s] = lastWorkState[s])
        /\ \A x, C : Has(below, x, C) => Has(stack', x, C)
        /\ \A x \in Suppliers :
              workStatus'[x] = WS_LOCKED =>
                  workStatus[x] = WS_LOCKED \/ Has(stack', x, Busy)
        /\ \A x \in Suppliers :
              ~Has(stack', x, Producing) => (product'[x] = "null" <=> product[x] = "null")
    BY FinishStacked DEF IInv, NotReading
  <1>2. LastWorkDone'
    BY DEF IInv, LastWorkDone
  <1>3. \A x \in Suppliers : workStatus'[x] = WS_LOCKED => Has(stack', x, Busy)
    BY <1>1, Holds DEF Kept
  <1>4. \A x \in Suppliers :
           ~Has(stack', x, Producing) =>
               (product'[x] = "null" <=> lastWorkState'[x] = WS_INVALID)
    BY <1>1, Holds DEF Kept
  <1>5. NotReading(stack') \/
            workStatus'[Head(stack').input] = lastWorkState'[Head(stack').input]
    BY <1>1
  <1>6. QED
    BY <1>1, <1>2, <1>3, <1>4, <1>5, Established

(* The same call with less to do, or its nested form, fits where it was.  *)
LEMMA Replaced ==
    ASSUME NEW top \in Frame, NEW below, Stacked(below), Fits(top, below),
           NEW f \in Frame, f.s = top.s, WellFormed(f),
           f.call = top.call \/ (f.call \in Busy /\ top.call \in Busy),
           f.call = top.call \/ f.call \in Producing \/ NotReading(below)
    PROVE  Stacked(<<f>> \o below)
  <1>1. \A l \in DOMAIN below : Over(f, below[l])
    BY DEF Fits, Over, Busy, Producing, ClientCalls
  <1>2. below # <<>> => Serves(f, Head(below))
    BY DEF Fits, Serves, NotReading
  <1>3. QED
    BY <1>1, <1>2, StackedPush DEF Fits

(* An input of a supplier is lower than the supplier and all the work that needs it.  *)
LEMMA InputLower ==
    ASSUME NEW s \in Suppliers, NEW i \in Inputs[s], NEW below,
           Stacked(below), Higher(s, below),
           NEW f \in Frame, f.s = s
    PROVE  /\ i \in Suppliers
           /\ Higher(i, <<f>> \o below)
  <1> DEFINE st == <<f>> \o below
  <1>1. /\ i \in Suppliers /\ Level[i] < Level[s]
        /\ Level[i] \in Nat /\ Level[s] \in Nat
    BY NetworkAssumption, AcyclicAssumption
  <1>2. below \in Seq(Frame) /\ DOMAIN below = 1..Len(below) /\ Len(below) \in Nat
    BY DEF Stacked
  <1>3. /\ DOMAIN st = 1..(Len(below) + 1)
        /\ st[1] = f
        /\ \A k \in DOMAIN below : st[k + 1] = below[k]
    BY <1>2, Push
  <1>4. ASSUME NEW l \in DOMAIN st, st[l].call \in Busy
        PROVE  Level[i] < Level[st[l].s]
    <2>1. CASE l = 1
      BY <1>1, <1>3, <2>1
    <2>2. CASE l # 1
      <3>1. l - 1 \in DOMAIN below /\ (l - 1) + 1 = l
        BY <1>2, <1>3, <2>2
      <3>2. st[l] = below[l - 1]
        BY <1>3, <3>1
      <3>3. Level[s] < Level[st[l].s]
        BY <1>4, <3>1, <3>2 DEF Higher
      <3>4. st[l].s \in Suppliers
        <4>1. st[l] \in Frame
          BY <1>2, <3>1, <3>2
        <4>2. QED
          BY <4>1 DEF Frame
      <3>5. Level[st[l].s] \in Nat
        BY <3>4, AcyclicAssumption
      <3>6. QED
        BY <1>1, <3>3, <3>5
    <2>3. QED
      BY <2>1, <2>2
  <1>5. QED
    BY <1>1, <1>4 DEF Higher

-----------------------------------------------------------------------------
(* The steps keep the invariant.  *)

(* After OnComponentCreated nothing runs and there is neither work nor product.  *)
LEMMA InitSafe == Init => IInv
  <1>1. ASSUME Init
        PROVE  IInv
    <2>1. TypeOK
      BY <1>1, InitType
    <2>2. Stacked(stack)
      BY <1>1 DEF Init, Stacked
    <2>3. LastWorkDone
      BY <1>1 DEF Init, LastWorkDone
    <2>4. LockedOnlyInCall
      BY <1>1 DEF Init, LockedOnlyInCall, WS_INVALID, WS_LOCKED
    <2>5. ProductMatchesLastWork
      BY <1>1 DEF Init, ProductMatchesLastWork
    <2>6. ReadAnswered
      BY <1>1 DEF Init, ReadAnswered, Running
    <2>7. QED
      BY <2>1, <2>2, <2>3, <2>4, <2>5, <2>6 DEF IInv
  <1>2. QED
    BY <1>1

(* One frame on an empty stack: how a client starts, and how DoTest goes on.  *)
LEMMA ClientFrame ==
    ASSUME NEW call \in ClientCalls, NEW s \in Suppliers, NEW todo \in SUBSET Suppliers
    PROVE  LET st == <<F(call, s, todo)>> \o <<>>
           IN  /\ st = <<F(call, s, todo)>>
               /\ Stacked(st)
               /\ NotReading(st)
               /\ \A i \in Suppliers : Higher(i, st)
  <1> DEFINE f  == F(call, s, todo)
             st == <<f>> \o <<>>
  <1>1. f \in Frame /\ f.call = call /\ <<>> \in Seq(Frame)
    BY FrameType DEF F, Calls, ClientCalls
  <1>2. Stacked(<<>>) /\ Fits(f, <<>>)
    BY <1>1 DEF Stacked, Fits, WellFormed, Producing, ClientCalls
  <1>3. Stacked(st)
    BY <1>1, <1>2, StackedPush
  <1>4. /\ Head(st) = f
        /\ DOMAIN st = 1..1
        /\ st[1] = f
    BY <1>1, Push
  <1>5. NotReading(st)
    BY <1>1, <1>4 DEF NotReading, ClientCalls
  <1>6. \A i \in Suppliers : Higher(i, st)
    BY <1>1, <1>4 DEF Higher, Busy, Producing, ClientCalls
  <1>7. st = <<f>>
    BY <1>1
  <1>8. QED
    BY <1>3, <1>5, <1>6, <1>7

(* With no call under way there is nothing to keep.  *)
LEMMA IdleKept ==
    ASSUME stack = <<>>, NEW st
    PROVE  Kept(st)
  BY DEF Kept, Has

(* The empty stack is well nested.  *)
LEMMA EmptyStack ==
    /\ Stacked(<<>>)
    /\ NotReading(<<>>)
    /\ \A s : Higher(s, <<>>)
  BY DEF Stacked, NotReading, Higher

(* A client's call that is over when its innermost frame is taken off.  *)
LEMMA ClientKept ==
    ASSUME Stacked(stack), NEW call \in ClientCalls, Running(call), NEW st
    PROVE  Tail(stack) = <<>> /\ Kept(st)
  <1>1. Tail(stack) = <<>>
    BY Top
  <1>2. \A x : ~Has(stack, x, Busy) /\ ~Has(stack, x, Producing)
    <2>1. \A x, C : ~Has(Tail(stack), x, C)
      BY <1>1 DEF Has
    <2>2. call \notin Busy /\ call \notin Producing
      BY DEF Busy, Producing, ClientCalls
    <2>3. QED
      BY <2>1, <2>2, Top
  <1>3. QED
    BY <1>1, <1>2 DEF Kept

(* BeforeUpdate of the next consumer.  *)
LEMMA BeforeUpdateSafe ==
    ASSUME IInv, TypeOK', InputsObserverBeforeUpdate
    PROVE  IInv'
  <1> DEFINE top  == Head(stack)
             rest(d) == NotifyBefore(top.s, top.todo \ {d}, Tail(stack))
  <1>1. PICK d \in top.todo : CallInvalidateSupplier(d, rest(d))
    BY DEF InputsObserverBeforeUpdate
  <1>2. Stacked(stack) /\ Running("before")
    BY DEF IInv, InputsObserverBeforeUpdate
  <1>3. "before" \notin Busy /\ "before" \notin Producing
    BY DEF Busy, Producing
  <1>4. /\ top.s \in Suppliers /\ top.todo \in SUBSET Suppliers
        /\ Stacked(Tail(stack)) /\ NotReading(Tail(stack))
        /\ \A x, C : Has(stack, x, C) <=>
              (top.s = x /\ "before" \in C) \/ Has(Tail(stack), x, C)
    BY <1>2, <1>3, Top
  <1>5. /\ Stacked(rest(d)) /\ NotReading(rest(d))
        /\ \A x, C : "before" \notin C => (Has(rest(d), x, C) <=> Has(Tail(stack), x, C))
    BY <1>4, NotifyBeforeStacked
  <1>6. Kept(rest(d))
    BY <1>3, <1>4, <1>5 DEF Kept
  <1>7. d \in Suppliers
    BY <1>4
  <1>8. UNCHANGED <<workStatus, lastWorkState, areParametersValid, product>>
    BY DEF InputsObserverBeforeUpdate
  <1>9. QED
    BY <1>1, <1>5, <1>6, <1>7, <1>8, AfterInvalidate

(* The observer of a result, reading it or not.  *)
LEMMA ObserverSafe ==
    ASSUME IInv, TypeOK', ObserverReads \/ ObserverIgnores
    PROVE  IInv'
  <1>1. Stacked(stack) /\ Running("after")
    BY DEF IInv, ObserverReads, ObserverIgnores
  <1>2. "after" \notin Busy /\ "after" \notin Producing
    BY DEF Busy, Producing
  <1>3. /\ Head(stack).s \in Suppliers
        /\ Stacked(Tail(stack)) /\ NotReading(Tail(stack))
        /\ Higher(Head(stack).s, Tail(stack))
        /\ \A x, C : Has(stack, x, C) <=>
              (Head(stack).s = x /\ "after" \in C) \/ Has(Tail(stack), x, C)
    BY <1>1, <1>2, Top
  <1>4. Kept(Tail(stack))
    BY <1>2, <1>3 DEF Kept
  <1>5. CASE ObserverReads
    BY <1>3, <1>4, <1>5, AfterFinish DEF ObserverReads
  <1>6. CASE ObserverIgnores
    BY <1>3, <1>4, <1>6, Quiet DEF ObserverIgnores, attributes
  <1>7. QED
    BY <1>5, <1>6

(* EnsureWorkInitialized goes on to the next input.  *)
LEMMA InitializeInputSafe ==
    ASSUME IInv, TypeOK', InitializeInput
    PROVE  IInv'
  <1> DEFINE top  == Head(stack)
             f(i) == [top EXCEPT !.todo = @ \ {i}]
             st(i) == <<f(i)>> \o Tail(stack)
  <1>1. PICK i \in top.todo : CallEnsureWorkInitialized(i, st(i))
    BY DEF InitializeInput
  <1>2. Stacked(stack) /\ Running("init")
    BY DEF IInv, InitializeInput
  <1>3. "init" \in Busy /\ "init" \notin Producing
    BY DEF Busy, Producing
  <1>4. /\ top \in Frame /\ top.call = "init"
        /\ top.s \in Suppliers /\ top.todo \in SUBSET Suppliers
        /\ WellFormed(top) /\ Fits(top, Tail(stack))
        /\ Stacked(Tail(stack)) /\ Higher(top.s, Tail(stack))
        /\ \A x, C : Has(stack, x, C) <=>
              (top.s = x /\ "init" \in C) \/ Has(Tail(stack), x, C)
    BY <1>2, <1>3, Top
  <1>5. f(i) \in Frame /\ f(i).call = "init" /\ f(i).s = top.s /\ f(i).todo \subseteq top.todo
    BY <1>4 DEF Frame
  <1>6. WellFormed(f(i)) /\ i \in Inputs[top.s]
    BY <1>4, <1>5 DEF WellFormed, Producing
  <1>7. Stacked(st(i))
    BY <1>4, <1>5, <1>6, Replaced
  <1>8. NotReading(st(i))
    <2>1. Tail(stack) \in Seq(Frame)
      BY <1>4 DEF Stacked
    <2>2. Head(st(i)) = f(i)
      BY <1>5, <2>1, Push
    <2>3. QED
      BY <1>5, <2>2 DEF NotReading
  <1>9. Kept(st(i))
    <2>1. Tail(stack) \in Seq(Frame)
      BY <1>4 DEF Stacked
    <2>2. \A x, C : Has(st(i), x, C) <=> (top.s = x /\ "init" \in C) \/ Has(Tail(stack), x, C)
      BY ZenonT(30), <1>5, <2>1, HasPush
    <2>3. QED
      BY <1>4, <2>2 DEF Kept
  <1>10. i \in Suppliers /\ Higher(i, st(i))
    BY <1>4, <1>5, <1>6, InputLower
  <1>11. UNCHANGED <<lastWorkState, isInputValid, areParametersValid,
                     notifierOpen, product>>
    BY DEF InitializeInput
  <1>12. QED
    BY <1>1, <1>7, <1>8, <1>9, <1>10, <1>11, AfterInitialize

(* EnsureWorkInitialized opens the notifier.  *)
LEMMA OpenProductChangeSafe ==
    ASSUME IInv, TypeOK', OpenProductChange
    PROVE  IInv'
  <1> DEFINE s     == Head(stack).s
             f     == F("work", s, {})
             below == <<f>> \o Tail(stack)
  <1>1. Stacked(stack) /\ Running("init")
    BY DEF IInv, OpenProductChange
  <1>2. "init" \notin Producing
    BY DEF Producing
  <1>3. /\ Head(stack) \in Frame /\ Head(stack).call = "init" /\ s \in Suppliers
        /\ Fits(Head(stack), Tail(stack))
        /\ Stacked(Tail(stack)) /\ NotReading(Tail(stack))
        /\ \A x, C : Has(stack, x, C) <=>
              (s = x /\ "init" \in C) \/ Has(Tail(stack), x, C)
    BY <1>1, <1>2, Top
  <1>4. f \in Frame /\ f.call = "work" /\ f.s = s
    BY <1>3, FrameType DEF Calls, F
  <1>5. Stacked(below)
    <2>1. WellFormed(f)
      BY <1>4 DEF WellFormed, Producing
    <2>2. "work" \in Busy /\ "init" \in Busy
      BY DEF Busy
    <2>3. QED
      BY <1>3, <1>4, <2>1, <2>2, Replaced
  <1>6. Tail(stack) \in Seq(Frame)
    BY <1>3 DEF Stacked
  <1>7. NotReading(below)
    BY <1>4, <1>6, Push DEF NotReading
  <1>8. \A x, C : Has(below, x, C) <=> (s = x /\ "work" \in C) \/ Has(Tail(stack), x, C)
    BY ZenonT(30), <1>4, <1>6, HasPush
  <1>9. Kept(below)
    BY <1>3, <1>8 DEF Kept, Busy, Producing
  <1>10. /\ Stacked(NotifyBefore(s, Consumers(s), below))
         /\ NotReading(NotifyBefore(s, Consumers(s), below))
         /\ Kept(NotifyBefore(s, Consumers(s), below))
    <2>1. Consumers(s) \in SUBSET Suppliers
      BY DEF Consumers
    <2>2. "before" \notin Busy /\ "before" \notin Producing
      BY DEF Busy, Producing
    <2>3. QED
      BY <1>3, <1>5, <1>7, <1>9, <2>1, <2>2, NotifyBeforeStacked DEF Kept
  <1>11. Stacked(stack') /\ NotReading(stack') /\ Kept(stack')
    BY <1>5, <1>7, <1>9, <1>10 DEF OpenProductChange
  <1>12. QED
    BY <1>11, Quiet DEF OpenProductChange

(* InitializeWork takes WS_LOCKED back and the initialization off the stack.  *)
LEMMA InitializeWorkSafe ==
    ASSUME IInv, TypeOK', InitializeWork
    PROVE  IInv'
  <1> DEFINE s    == Head(stack).s
             rest == Tail(stack)
  <1>1. Stacked(stack) /\ Running("work")
    BY DEF IInv, InitializeWork
  <1>2. "work" \in Busy /\ "work" \notin Producing /\ "after" \notin Busy
        /\ "after" \notin Producing
    BY DEF Busy, Producing
  <1>3. /\ s \in Suppliers /\ Stacked(rest) /\ NotReading(rest) /\ Higher(s, rest)
        /\ \A x, C : Has(stack, x, C) <=> (s = x /\ "work" \in C) \/ Has(rest, x, C)
    BY <1>1, <1>2, Top
  <1>4. /\ Stacked(stack') /\ NotReading(stack')
        /\ \A x, C : "after" \notin C => (Has(stack', x, C) <=> Has(rest, x, C))
    <2>1. stack' = NotifyAfter(s, rest)
      BY DEF InitializeWork
    <2>2. QED
      BY <1>3, <2>1, NotifyAfterStacked
  <1>5. PICK result \in {WS_INIT, WS_FAILED} :
           workStatus' = [workStatus EXCEPT ![s] = result]
    BY DEF InitializeWork
  <1>6. LastWorkDone'
    BY DEF IInv, LastWorkDone, InitializeWork
  <1>7. ASSUME NEW x \in Suppliers, workStatus'[x] = WS_LOCKED
        PROVE  Has(stack', x, Busy)
    <2>1. x # s
      BY <1>5, <1>7 DEF IInv, TypeOK, WS_INIT, WS_FAILED, WS_LOCKED
    <2>2. workStatus[x] = WS_LOCKED
      BY <1>5, <1>7, <2>1 DEF IInv, TypeOK
    <2>3. Has(stack, x, Busy)
      BY <2>2, Holds
    <2>4. QED
      BY <1>2, <1>3, <1>4, <2>1, <2>3
  <1>8. ASSUME NEW x \in Suppliers, ~Has(stack', x, Producing)
        PROVE  product'[x] = "null" <=> lastWorkState'[x] = WS_INVALID
    <2>1. ~Has(stack, x, Producing)
      BY <1>2, <1>3, <1>4, <1>8
    <2>2. QED
      BY <2>1, Holds DEF InitializeWork
  <1>9. QED
    BY <1>4, <1>6, <1>7, <1>8, Established

(* A production descends into an input.  *)
LEMMA ReadInputSafe ==
    ASSUME IInv, TypeOK', ReadInput
    PROVE  IInv'
  <1> DEFINE top   == Head(stack)
             f(i)  == [top EXCEPT !.call = "read", !.input = i, !.todo = @ \ {i}]
             st(i) == <<f(i)>> \o Tail(stack)
  <1>1. PICK i \in top.todo : CallEnsureWorkFinished(i, st(i))
    BY DEF ReadInput
  <1>2. Stacked(stack) /\ Running("produce")
    BY DEF IInv, ReadInput
  <1>3. {"produce", "read"} \subseteq Busy /\ {"produce", "read"} \subseteq Producing
    BY DEF Busy, Producing
  <1>4. /\ top \in Frame /\ top.call = "produce"
        /\ top.s \in Suppliers /\ top.todo \in SUBSET Suppliers
        /\ WellFormed(top) /\ Fits(top, Tail(stack))
        /\ Stacked(Tail(stack)) /\ Higher(top.s, Tail(stack))
        /\ \A x, C : Has(stack, x, C) <=>
              (top.s = x /\ "produce" \in C) \/ Has(Tail(stack), x, C)
    BY <1>2, <1>3, Top
  <1>5. /\ f(i) \in Frame /\ f(i).call = "read" /\ f(i).s = top.s
        /\ f(i).todo \subseteq top.todo /\ f(i).input = i
    BY <1>4 DEF Frame, Calls
  <1>6. WellFormed(f(i)) /\ i \in Inputs[top.s]
    BY <1>4, <1>5 DEF WellFormed, Producing
  <1>7. Stacked(st(i))
    BY <1>3, <1>4, <1>5, <1>6, Replaced
  <1> HIDE DEF f
  <1>8. Tail(stack) \in Seq(Frame)
    BY <1>4 DEF Stacked
  <1>9. Head(st(i)) = f(i)
    BY <1>5, <1>8, Push
  <1>10. Kept(st(i))
    <2>1. \A x, C : Has(st(i), x, C) <=> (top.s = x /\ "read" \in C) \/ Has(Tail(stack), x, C)
      BY <1>5, <1>8, HasPush
    <2>2. QED
      BY <1>3, <1>4, <2>1 DEF Kept
  <1>11. i \in Suppliers /\ Higher(i, st(i))
    BY <1>4, <1>5, <1>6, InputLower
  <1>12. UNCHANGED <<lastWorkState, areParametersValid, notifierOpen>>
    BY DEF ReadInput
  <1>13. QED
    BY <1>1, <1>5, <1>7, <1>9, <1>10, <1>11, <1>12, AfterFinish

(* A production returns from an input.  *)
LEMMA GotInputSafe ==
    ASSUME IInv, TypeOK', GotInput
    PROVE  IInv'
  <1> DEFINE top  == Head(stack)
             read == WorkProduct(top.input)
             f    == [top EXCEPT
                         !.call = "produce",
                         !.got = IF @ = "null" \/ read = "current" THEN @ ELSE read]
  <1>1. Stacked(stack) /\ Running("read")
    BY DEF IInv, GotInput
  <1>2. {"produce", "read"} \subseteq Busy /\ {"produce", "read"} \subseteq Producing
    BY DEF Busy, Producing
  <1>3. /\ top \in Frame /\ top.call = "read"
        /\ WellFormed(top) /\ Fits(top, Tail(stack)) /\ Stacked(Tail(stack))
        /\ \A x, C : Has(stack, x, C) <=>
              (top.s = x /\ "read" \in C) \/ Has(Tail(stack), x, C)
    BY <1>1, Top
  <1>4. f \in Frame
    <2>1. top.input \in Suppliers
      BY <1>3 DEF Frame
    <2>2. read \in Products
      BY <2>1 DEF IInv, TypeOK, WorkProduct, Products
    <2>3. QED
      BY <1>3, <2>2 DEF Frame, Calls
  <1>5. f.call = "produce" /\ f.s = top.s /\ f.todo = top.todo
    BY <1>3 DEF Frame
  <1>6. WellFormed(f)
    BY <1>3, <1>5 DEF WellFormed, Producing
  <1>7. Tail(stack) \in Seq(Frame)
    BY <1>3 DEF Stacked
  <1>8. stack' = <<f>> \o Tail(stack)
    BY DEF GotInput
  <1> HIDE DEF f
  <1>9. Stacked(stack')
    BY <1>2, <1>3, <1>4, <1>5, <1>6, <1>8, Replaced
  <1>10. NotReading(stack')
    BY <1>4, <1>5, <1>7, <1>8, Push DEF NotReading
  <1>11. Kept(stack')
    <2>1. \A x, C : Has(<<f>> \o Tail(stack), x, C) <=>
                       (top.s = x /\ "produce" \in C) \/ Has(Tail(stack), x, C)
      BY <1>4, <1>5, <1>7, HasPush
    <2>2. QED
      BY <1>2, <1>3, <1>8, <2>1 DEF Kept
  <1>12. QED
    BY <1>9, <1>10, <1>11, Quiet DEF GotInput, attributes

(* A production ends: state, last state and product are written together.  *)
LEMMA FinishWorkSafe ==
    ASSUME IInv, TypeOK', NEW result \in WS_OK..WS_FAILED, FinishWork(result)
    PROVE  IInv'
  <1> DEFINE s    == Head(stack).s
             rest == Tail(stack)
  <1>1. Stacked(stack) /\ Running("produce")
    BY DEF IInv, FinishWork
  <1>2. "produce" \in Busy
    BY DEF Busy, Producing
  <1>3. /\ s \in Suppliers /\ Stacked(rest) /\ Fits(Head(stack), rest)
        /\ \A x, C : Has(stack, x, C) <=> (s = x /\ "produce" \in C) \/ Has(rest, x, C)
    BY <1>1, Top
  <1>4. /\ stack' = rest
        /\ lastWorkState' = [lastWorkState EXCEPT ![s] = result]
        /\ workStatus' = [workStatus EXCEPT ![s] = result]
    BY DEF FinishWork
  <1>5. /\ product'[s] # "null"
        /\ \A x \in Suppliers : x # s => product'[x] = product[x]
    BY <1>3 DEF FinishWork, IInv, TypeOK
  <1>6. result \in {WS_OK, WS_CANCELED, WS_FAILED}
    BY DEF WS_OK, WS_CANCELED, WS_FAILED
  <1>7. result # WS_LOCKED /\ result # WS_INVALID
    BY DEF WS_OK, WS_FAILED, WS_LOCKED, WS_INVALID
  <1>8. LastWorkDone'
    BY <1>4, <1>6 DEF IInv, LastWorkDone
  <1>9. workStatus'[s] = result /\ lastWorkState'[s] = result
    BY <1>3, <1>4 DEF IInv, TypeOK
  <1>10. NotReading(stack') \/
             workStatus'[Head(stack').input] = lastWorkState'[Head(stack').input]
    BY <1>3, <1>4, <1>9 DEF Fits, Serves, NotReading
  <1>11. ASSUME NEW x \in Suppliers, workStatus'[x] = WS_LOCKED
         PROVE  Has(stack', x, Busy)
    <2>1. x # s
      BY <1>7, <1>9, <1>11
    <2>2. workStatus[x] = WS_LOCKED
      BY <1>4, <1>11, <2>1 DEF IInv, TypeOK
    <2>3. QED
      BY <1>3, <1>4, <2>1, <2>2, Holds
  <1>12. ASSUME NEW x \in Suppliers, ~Has(stack', x, Producing)
         PROVE  product'[x] = "null" <=> lastWorkState'[x] = WS_INVALID
    <2>1. CASE x = s
      BY <1>5, <1>7, <1>9, <2>1
    <2>2. CASE x # s
      <3>1. ~Has(stack, x, Producing)
        BY <1>3, <1>4, <1>12, <2>2
      <3>2. lastWorkState'[x] = lastWorkState[x]
        BY <1>4, <2>2 DEF IInv, TypeOK
      <3>3. QED
        BY <1>5, <2>2, <3>1, <3>2, Holds
    <2>3. QED
      BY <2>1, <2>2
  <1>13. QED
    BY <1>3, <1>4, <1>8, <1>10, <1>11, <1>12, Established

(* The parameters or an input have changed.  *)
LEMMA ChangedSafe ==
    ASSUME IInv, TypeOK', ParamsObserverAfterUpdate \/ InputChanged
    PROVE  IInv'
  <1>1. Stacked(stack) /\ (Running("edit") \/ Running("trigger"))
    BY DEF IInv, ParamsObserverAfterUpdate, InputChanged
  <1>2. stack' = <<>> /\ Kept(stack')
    <2>1. Tail(stack) = <<>> /\ Kept(Tail(stack))
      BY <1>1, ClientKept DEF ClientCalls
    <2>2. QED
      BY <2>1 DEF ParamsObserverAfterUpdate, InputChanged
  <1>3. \A x \in Suppliers : product'[x] = "null" <=> product[x] = "null"
    BY DEF ParamsObserverAfterUpdate, InputChanged, Outdate
  <1>4. UNCHANGED <<workStatus, lastWorkState>>
    BY DEF ParamsObserverAfterUpdate, InputChanged
  <1>5. QED
    BY <1>2, <1>3, <1>4, EmptyStack, Quiet

(* ClearWorkResults resets state, last state and product together.  *)
LEMMA DropResultsSafe ==
    ASSUME IInv, TypeOK', DropResults
    PROVE  IInv'
  <1> DEFINE s == Head(stack).s
  <1>1. Stacked(stack) /\ Running("clear") /\ "clear" \in ClientCalls
    BY DEF IInv, DropResults, ClientCalls
  <1>2. s \in Suppliers
    BY <1>1, Top
  <1>3. Tail(stack) = <<>> /\ Kept(stack')
    BY <1>1, ClientKept
  <1>4. Stacked(stack') /\ NotReading(stack')
    BY <1>2, <1>3, EmptyStack, NotifyAfterStacked DEF DropResults
  <1>5. LastWorkDone'
    BY DEF IInv, LastWorkDone, DropResults
  <1>6. ASSUME NEW x \in Suppliers, workStatus'[x] = WS_LOCKED
        PROVE  Has(stack', x, Busy)
    <2>1. workStatus[x] = WS_LOCKED
      BY <1>6 DEF DropResults, IInv, TypeOK, WS_INVALID, WS_LOCKED
    <2>2. QED
      BY <1>3, <2>1, Holds DEF Kept
  <1>7. ASSUME NEW x \in Suppliers, ~Has(stack', x, Producing)
        PROVE  product'[x] = "null" <=> lastWorkState'[x] = WS_INVALID
    <2>1. ~Has(stack, x, Producing)
      BY <1>3, <1>7 DEF Kept
    <2>2. CASE x = s
      BY <1>2, <2>2 DEF DropResults, IInv, TypeOK, Outdate
    <2>3. CASE x # s
      <3>1. lastWorkState'[x] = lastWorkState[x]
        BY <2>3 DEF DropResults, IInv, TypeOK
      <3>2. product'[x] = "null" <=> product[x] = "null"
        BY <2>3 DEF DropResults, Outdate
      <3>3. QED
        BY <2>1, <3>1, <3>2, Holds
    <2>4. QED
      BY <2>2, <2>3
  <1>8. QED
    BY <1>4, <1>5, <1>6, <1>7, Established

(* DoTest initializes, finishes and returns.  *)
LEMMA TestSafe ==
    ASSUME IInv, TypeOK', TestInitialize \/ TestFinish \/ TestReturns
    PROVE  IInv'
  <1> DEFINE s == Head(stack).s
  <1>1. Stacked(stack) /\ {"testInit", "testFinish", "tested"} \subseteq ClientCalls
    BY DEF IInv, ClientCalls
  <1>2. Running("testInit") \/ Running("testFinish") \/ Running("tested")
    BY DEF TestInitialize, TestFinish, TestReturns
  <1>3. s \in Suppliers /\ Head(stack).todo \in SUBSET Suppliers
    BY <1>1, <1>2, Top
  <1>4. Tail(stack) = <<>> /\ \A st : Kept(st)
    BY <1>1, <1>2, ClientKept
  <1>5. CASE TestInitialize
    <2> DEFINE changed == IF MustInitialize(s) THEN {s} ELSE {}
               below   == <<F("testFinish", s, changed)>> \o Tail(stack)
    <2>1. changed \in SUBSET Suppliers
      BY <1>3
    <2>2. Stacked(below) /\ NotReading(below) /\ Higher(s, below)
      BY <1>1, <1>3, <1>4, <2>1, ClientFrame
    <2>3. CallEnsureWorkInitialized(s, below)
          /\ UNCHANGED <<lastWorkState, isInputValid, areParametersValid,
                         notifierOpen, product>>
      BY <1>5 DEF TestInitialize
    <2>4. QED
      BY <1>3, <1>4, <2>2, <2>3, AfterInitialize
  <1>6. CASE TestFinish
    <2> DEFINE below == <<F("tested", s, Head(stack).todo)>> \o Tail(stack)
    <2>1. Stacked(below) /\ NotReading(below) /\ Higher(s, below)
      BY <1>1, <1>3, <1>4, ClientFrame
    <2>2. CallEnsureWorkFinished(s, below)
          /\ UNCHANGED <<lastWorkState, areParametersValid, notifierOpen>>
      BY <1>6 DEF TestFinish
    <2>3. QED
      BY <1>3, <1>4, <2>1, <2>2, AfterFinish
  <1>7. CASE TestReturns
    <2>1. Stacked(NotifyAfter(s, <<>>)) /\ NotReading(NotifyAfter(s, <<>>))
      BY <1>3, EmptyStack, NotifyAfterStacked
    <2>2. Stacked(stack') /\ NotReading(stack')
      BY <1>4, <1>7, <2>1, EmptyStack DEF TestReturns
    <2>3. QED
      BY <1>4, <1>7, <2>2, Quiet DEF TestReturns, attributes
  <1>8. QED
    BY <1>5, <1>6, <1>7

(* A client starts a call.  *)
LEMMA ClientSafe ==
    ASSUME IInv, TypeOK', Client
    PROVE  IInv'
  <1>1. PICK s \in Suppliers :
           \/ EditParameters(s) \/ TriggerInput(s) \/ ClearWorkResults(s) \/ DoTest(s)
           \/ InvalidateSupplier(s) \/ EnsureWorkInitialized(s) \/ GetWorkProduct(s)
    BY DEF Client
  <1>2. stack = <<>>
    BY <1>1 DEF Idle, EditParameters, TriggerInput, ClearWorkResults, DoTest,
                InvalidateSupplier, EnsureWorkInitialized, GetWorkProduct
  <1>3. \A st : Kept(st)
    BY <1>2, IdleKept
  <1>4. \A call \in ClientCalls :
           Stacked(<<F(call, s, {})>>) /\ NotReading(<<F(call, s, {})>>)
    BY ClientFrame
  <1>5. {"edit", "trigger", "clear", "testInit"} \subseteq ClientCalls
    BY DEF ClientCalls
  <1>6. CASE EditParameters(s)
    BY <1>3, <1>4, <1>5, <1>6, AfterInvalidate DEF EditParameters
  <1>7. CASE TriggerInput(s)
    BY <1>3, <1>4, <1>5, <1>7, AfterInvalidate DEF TriggerInput
  <1>8. CASE DoTest(s)
    BY <1>3, <1>4, <1>5, <1>8, AfterInvalidate DEF DoTest
  <1>9. CASE InvalidateSupplier(s)
    BY <1>3, <1>9, EmptyStack, AfterInvalidate DEF InvalidateSupplier
  <1>10. CASE ClearWorkResults(s)
    <2> DEFINE below == <<F("clear", s, {})>>
    <2>1. Stacked(below) /\ NotReading(below) /\ Consumers(s) \in SUBSET Suppliers
      BY <1>4, <1>5 DEF Consumers
    <2>2. /\ Stacked(NotifyBefore(s, Consumers(s), below))
          /\ NotReading(NotifyBefore(s, Consumers(s), below))
      BY <2>1, NotifyBeforeStacked
    <2>3. Stacked(stack') /\ NotReading(stack')
      BY <1>10, <2>1, <2>2 DEF ClearWorkResults
    <2>4. QED
      BY <1>3, <1>10, <2>3, Quiet DEF ClearWorkResults, attributes
  <1>11. CASE EnsureWorkInitialized(s)
    BY <1>3, <1>11, EmptyStack, AfterInitialize DEF EnsureWorkInitialized
  <1>12. CASE GetWorkProduct(s)
    BY <1>3, <1>12, EmptyStack, AfterFinish DEF GetWorkProduct
  <1>13. QED
    BY <1>1, <1>6, <1>7, <1>8, <1>9, <1>10, <1>11, <1>12

(* Every step keeps IInv.  *)
LEMMA StepSafe ==
    ASSUME IInv, TypeOK', [Next]_vars
    PROVE  IInv'
  <1>1. CASE Client
    BY <1>1, ClientSafe
  <1>2. CASE Step
    BY <1>2, BeforeUpdateSafe, ObserverSafe, InitializeInputSafe, OpenProductChangeSafe,
       InitializeWorkSafe, ReadInputSafe, GotInputSafe, FinishWorkSafe, ChangedSafe,
       DropResultsSafe, TestSafe DEF Step
  <1>3. CASE UNCHANGED vars
    <2>1. /\ Stacked(stack') /\ LastWorkDone'
          /\ LockedOnlyInCall' /\ ProductMatchesLastWork' /\ ReadAnswered'
      BY <1>3 DEF IInv, vars, attributes, LastWorkDone, LockedOnlyInCall,
                  ProductMatchesLastWork, ReadAnswered, InProduction,
                  InInitialization, Running
    <2>2. QED
      BY <2>1 DEF IInv
  <1>4. QED
    BY <1>1, <1>2, <1>3 DEF Next

-----------------------------------------------------------------------------
(* The properties *)

(* The strengthened invariant holds in every behaviour of every acyclic network.  *)
THEOREM Invariance == Spec => []IInv
  <1>1. Init => IInv
    BY InitSafe
  <1>2. IInv /\ [Next]_vars => IInv'
    BY NextType, StepSafe DEF IInv
  <1>3. QED
    BY <1>1, <1>2, PTL DEF Spec

(* A supplier that says WS_LOCKED is inside EnsureWorkInitialized or ProcessWorkOutput.  *)
THEOREM LockedSafe == Spec => []LockedOnlyInCall
  <1>1. IInv => LockedOnlyInCall
    BY DEF IInv
  <1>2. QED
    BY <1>1, Invariance, PTL

(* m_lastWorkState and m_productPtr agree whenever no production is writing them.  *)
THEOREM ProductSafe == Spec => []ProductMatchesLastWork
  <1>1. IInv => ProductMatchesLastWork
    BY DEF IInv
  <1>2. QED
    BY <1>1, Invariance, PTL

(* No supplier is initialized or produced twice at the same time, in any network.  *)
THEOREM NestingSafe == Spec => []NotReentered
  <1>1. ASSUME IInv
        PROVE  NotReentered
    <2>1. SUFFICES ASSUME NEW k \in DOMAIN stack, NEW l \in DOMAIN stack, k # l,
                          stack[k].s = stack[l].s,
                          stack[k].call \in Busy, stack[l].call \in Busy
                   PROVE  FALSE
      BY DEF NotReentered, Busy, Producing
    <2>2. stack \in Seq(Frame) /\ k \in Nat /\ l \in Nat
      BY <1>1 DEF IInv, Stacked
    <2>3. stack[k] \in Frame /\ stack[l] \in Frame
      BY <2>2
    <2>4. Level[stack[k].s] \in Nat /\ Level[stack[l].s] \in Nat
      BY <2>3, AcyclicAssumption DEF Frame
    <2>5. k < l => Level[stack[k].s] < Level[stack[l].s]
      BY <1>1, <2>1 DEF IInv, Stacked, Over
    <2>6. l < k => Level[stack[l].s] < Level[stack[k].s]
      BY <1>1, <2>1 DEF IInv, Stacked, Over
    <2>7. QED
      BY <2>1, <2>2, <2>4, <2>5, <2>6
  <1>2. QED
    BY <1>1, Invariance, PTL

(* Neither an observer nor a production gets hold of a product that is being written, *)
(* or of one that no successful work has produced.                                    *)
THEOREM HandedOutSafe == Spec => []OnlyFinishedWorkHandedOut
  <1>1. ASSUME IInv, Running("after")
        PROVE  ~InProduction(Head(stack).s)
    <2>1. PICK s \in Suppliers : s = Head(stack).s
      BY <1>1, Top DEF IInv
    <2>2. /\ Higher(s, Tail(stack)) /\ Stacked(Tail(stack))
          /\ \A x, C : Has(stack, x, C) <=>
                (s = x /\ "after" \in C) \/ Has(Tail(stack), x, C)
      BY <1>1, <2>1, Top DEF IInv
    <2>3. ~Has(Tail(stack), s, Producing)
      BY <2>2, AcyclicAssumption DEF Has, Higher, Busy
    <2>4. ~Has(stack, s, Producing)
      BY <2>2, <2>3 DEF Producing
    <2>5. QED
      BY <2>1, <2>4 DEF Has, InProduction, Producing
  <1>2. ASSUME IInv, Running("read"), WorkProduct(Head(stack).input) # "null"
        PROVE  /\ lastWorkState[Head(stack).input] = WS_OK
               /\ ~InProduction(Head(stack).input)
    <2> DEFINE top == Head(stack)
               i   == top.input
    <2>1. /\ top \in Frame /\ top.call = "read" /\ WellFormed(top)
          /\ Stacked(Tail(stack)) /\ Higher(top.s, Tail(stack))
          /\ \A x, C : Has(stack, x, C) <=>
                (top.s = x /\ "read" \in C) \/ Has(Tail(stack), x, C)
      BY <1>2, Top DEF IInv, Busy, Producing
    <2>2. top.s \in Suppliers /\ i \in Inputs[top.s]
      BY <2>1 DEF Frame, WellFormed
    <2>3. /\ i \in Suppliers /\ Level[i] < Level[top.s]
          /\ Level[i] \in Nat /\ Level[top.s] \in Nat
      BY <2>2, NetworkAssumption, AcyclicAssumption
    <2>4. ~Has(Tail(stack), i, Producing)
      <3>1. SUFFICES ASSUME NEW l \in DOMAIN Tail(stack),
                            Tail(stack)[l].s = i, Tail(stack)[l].call \in Producing
                     PROVE  FALSE
        BY DEF Has
      <3>2. Level[top.s] < Level[i]
        BY <2>1, <3>1 DEF Higher, Busy
      <3>3. QED
        BY <2>3, <3>2
    <2>5. top.s # i
      BY <2>3
    <2>6. ~Has(stack, i, Producing)
      BY <2>1, <2>4, <2>5
    <2>7. ~InProduction(i)
      BY <2>6 DEF Has, InProduction, Producing
    <2>8. product[i] # "null" /\ workStatus[i] <= WS_OK
      BY <1>2 DEF WorkProduct
    <2>9. lastWorkState[i] # WS_INVALID
      BY <1>2, <2>3, <2>7, <2>8 DEF IInv, ProductMatchesLastWork
    <2>10. workStatus[i] = lastWorkState[i]
      BY <1>2 DEF IInv, ReadAnswered
    <2>11. lastWorkState[i] = WS_OK
      BY <1>2, <2>3, <2>8, <2>9, <2>10
         DEF IInv, LastWorkDone, WS_INVALID, WS_OK, WS_CANCELED, WS_FAILED
    <2>12. QED
      BY <2>7, <2>11
  <1>3. IInv => OnlyFinishedWorkHandedOut
    BY <1>1, <1>2 DEF OnlyFinishedWorkHandedOut
  <1>4. QED
    BY <1>3, Invariance, PTL
=============================================================================
