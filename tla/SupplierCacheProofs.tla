------------------------- MODULE SupplierCacheProofs -------------------------
(***************************************************************************)
(* Proofs about the results of Supplier: when a stored one may be used     *)
(* without calculating it again.                                           *)
(*                                                                         *)
(* Three inductive invariants build on IInv of SupplierProofs and on one   *)
(* another:                                                                *)
(*   Shape      what the calls under way say about each other, in every    *)
(*              network: announcements lie on top, initializations are     *)
(*              asked for, a busy supplier is locked;                      *)
(*   TrustInv   why a result is trusted: its inputs are settled, or the    *)
(*              change of one is still being announced; needs              *)
(*              SeparateInputs and DisciplinedClients;                     *)
(*   ProductInv what is trusted is current, and what a production has used *)
(*              is not outdated.                                           *)
(* From them follow the properties of single suppliers and, step by step,  *)
(* the promise of ResultCache.                                             *)
(***************************************************************************)
EXTENDS SupplierProofs

-----------------------------------------------------------------------------
(* The network *)

(* s and everything that is calculated from it.  *)
Reach(s) == {s} \cup Downstream(s)

(* Downstream is the smallest set that holds the consumers and is closed under them.  *)
LEMMA DownstreamLeast ==
    ASSUME NEW s \in Suppliers
    PROVE  /\ Downstream(s) \subseteq Suppliers
           /\ Consumers(s) \subseteq Downstream(s)
           /\ \A e \in Downstream(s) : Consumers(e) \subseteq Downstream(s)
           /\ \A S \in SUBSET Suppliers :
                 Consumers(s) \subseteq S /\ (\A e \in S : Consumers(e) \subseteq S)
                     => Downstream(s) \subseteq S
  <1> DEFINE Closed(S) == Consumers(s) \subseteq S /\ (\A e \in S : Consumers(e) \subseteq S)
  <1>1. Downstream(s) =
           {d \in Suppliers : \A S \in SUBSET Suppliers : Closed(S) => d \in S}
    BY DEF Downstream, FeedsInto
  <1>2. \A e \in Suppliers : Consumers(e) \subseteq Suppliers
    BY DEF Consumers
  <1>3. \A S \in SUBSET Suppliers : Closed(S) => Downstream(s) \subseteq S
    BY <1>1
  <1>4. ASSUME NEW e \in Downstream(s), NEW d \in Consumers(e)
        PROVE  d \in Downstream(s)
    <2>1. \A S \in SUBSET Suppliers : Closed(S) => d \in S
      BY <1>3
    <2>2. e \in Suppliers /\ d \in Suppliers
      BY <1>1, <1>2
    <2>3. QED
      BY <1>1, <2>1, <2>2
  <1>5. QED
    BY <1>1, <1>2, <1>3, <1>4

(* What is downstream of a supplier has a higher number.  *)
LEMMA DownstreamHigher ==
    ASSUME NEW s \in Suppliers, NEW d \in Downstream(s)
    PROVE  /\ d \in Suppliers
           /\ Level[s] < Level[d]
  <1> DEFINE S == {x \in Suppliers : Level[s] < Level[x]}
  <1>1. \A x \in Suppliers : Level[x] \in Nat
    BY AcyclicAssumption
  <1>2. Consumers(s) \subseteq S
    BY AcyclicAssumption DEF Consumers
  <1>3. \A e \in S : Consumers(e) \subseteq S
    BY <1>1, AcyclicAssumption DEF Consumers
  <1>4. Downstream(s) \subseteq S
    BY <1>2, <1>3, DownstreamLeast
  <1>5. QED
    BY <1>4

(* A supplier and those downstream of it, seen from the last step of the way there.  *)
LEMMA ReachLast ==
    ASSUME NEW s \in Suppliers, NEW d \in Downstream(s)
    PROVE  \E i \in Inputs[d] : i \in Reach(s)
  <1> DEFINE S == {x \in Downstream(s) : \E i \in Inputs[x] : i \in Reach(s)}
  <1>1. /\ Downstream(s) \subseteq Suppliers
        /\ Consumers(s) \subseteq Downstream(s)
        /\ \A e \in Downstream(s) : Consumers(e) \subseteq Downstream(s)
    BY DownstreamLeast
  <1>2. Consumers(s) \subseteq S
    BY <1>1 DEF Consumers, Reach
  <1>3. \A e \in S : Consumers(e) \subseteq S
    BY <1>1 DEF Consumers, Reach
  <1>4. S \in SUBSET Suppliers
    BY <1>1
  <1> HIDE DEF S
  <1>5. Downstream(s) \subseteq S
    BY <1>2, <1>3, <1>4, DownstreamLeast
  <1>6. QED
    BY <1>5 DEF S

(* What is reached from a reached supplier is reached, consumers first of all.  *)
LEMMA ReachFurther ==
    ASSUME NEW s \in Suppliers, NEW d \in Reach(s)
    PROVE  /\ d \in Suppliers
           /\ Level[s] <= Level[d]
           /\ Consumers(d) \subseteq Downstream(s)
           /\ Reach(d) \subseteq Reach(s)
  <1>1. d \in Suppliers /\ Level[s] <= Level[d]
    BY DownstreamHigher, AcyclicAssumption DEF Reach
  <1>2. Consumers(d) \subseteq Downstream(s)
    BY DownstreamLeast DEF Reach
  <1>3. \A e \in Downstream(s) : Consumers(e) \subseteq Downstream(s)
    BY DownstreamLeast
  <1>4. Downstream(s) \in SUBSET Suppliers
    BY DownstreamLeast
  <1>5. Downstream(d) \subseteq Downstream(s)
    BY <1>1, <1>2, <1>3, <1>4, DownstreamLeast
  <1>6. QED
    BY <1>1, <1>2, <1>5 DEF Reach

(* An input reaches its consumer and what the consumer reaches.  *)
LEMMA InputReaches ==
    ASSUME NEW s \in Suppliers, NEW i \in Inputs[s], NEW d \in Reach(s)
    PROVE  i \in Suppliers /\ d \in Downstream(i)
  <1>1. i \in Suppliers
    BY NetworkAssumption
  <1>2. s \in Consumers(i)
    BY DEF Consumers
  <1>3. s \in Downstream(i)
    BY <1>1, <1>2, DownstreamLeast
  <1>4. d # s => d \in Downstream(s)
    BY DEF Reach
  <1>5. Level[i] < Level[d] /\ d \in Reach(i)
    <2>1. Reach(s) \subseteq Reach(i)
      BY <1>1, <1>3, ReachFurther DEF Reach
    <2>2. Level[i] < Level[s] /\ Level[s] <= Level[d] /\ d \in Suppliers
      BY <1>1, <1>3, DownstreamHigher, ReachFurther
    <2>3. QED
      BY <1>1, <2>1, <2>2, AcyclicAssumption
  <1>6. d # i
    BY <1>1, <1>5, AcyclicAssumption
  <1>7. QED
    BY <1>1, <1>5, <1>6 DEF Reach

-----------------------------------------------------------------------------
(* The frames on a stack, and their order as far as the proofs need it *)

Frames(st) == {st[k] : k \in DOMAIN st}

(* Observers are called from the top: AfterUpdate calls nothing on top of itself, and  *)
(* from a change that is being announced only BeforeUpdate is called.                  *)
Announcing == {"before", "work"}

Layered(st) ==
    \A k, l \in DOMAIN st :
        k < l => st[l].call # "after" /\ (st[l].call \in Announcing => st[k].call = "before")

(* A call may be put on these frames without hiding a notification.  *)
Covers(call, W) ==
    \A g \in W : g.call # "after" /\ (g.call \in Announcing => call = "before")

(* All the work in W is further up the network than s.  *)
Below(s, W) == \A g \in W : g.call \in Busy => Level[s] < Level[g.s]

(* A frame more.  *)
LEMMA FramesPush ==
    ASSUME NEW f \in Frame, NEW below \in Seq(Frame)
    PROVE  /\ Frames(<<f>> \o below) = {f} \cup Frames(below)
           /\ Layered(below) /\ Covers(f.call, Frames(below)) => Layered(<<f>> \o below)
  <1> DEFINE st == <<f>> \o below
  <1>1. DOMAIN below = 1..Len(below) /\ Len(below) \in Nat
    OBVIOUS
  <1>2. /\ DOMAIN st = 1..(Len(below) + 1)
        /\ st[1] = f
        /\ \A k \in DOMAIN below : st[k + 1] = below[k]
    BY <1>1, Push
  <1>3. /\ \A k \in DOMAIN below : k + 1 \in DOMAIN st
        /\ \A k \in DOMAIN st : k # 1 => k - 1 \in DOMAIN below /\ st[k] = below[k - 1]
    <2>1. \A k \in DOMAIN st : k # 1 => k - 1 \in DOMAIN below /\ (k - 1) + 1 = k
      BY <1>1, <1>2
    <2>2. QED
      BY <1>1, <1>2, <2>1
  <1>4. 1 \in DOMAIN st
    BY <1>1, <1>2
  <1> HIDE DEF st
  <1>5. Frames(st) = {f} \cup Frames(below)
    <2>1. ASSUME NEW g \in Frames(st)
          PROVE  g \in {f} \cup Frames(below)
      BY <1>2, <1>3 DEF Frames
    <2>2. ASSUME NEW g \in Frames(below)
          PROVE  g \in Frames(st)
      <3>1. PICK k \in DOMAIN below : g = below[k]
        BY DEF Frames
      <3>2. k + 1 \in DOMAIN st /\ st[k + 1] = g
        BY <1>2, <1>3, <3>1
      <3>3. QED
        BY <3>2 DEF Frames
    <2>3. f \in Frames(st)
      BY <1>2, <1>4 DEF Frames
    <2>4. QED
      BY <2>1, <2>2, <2>3
  <1>6. ASSUME Layered(below), Covers(f.call, Frames(below)),
               NEW k \in DOMAIN st, NEW l \in DOMAIN st, k < l
        PROVE  st[l].call # "after" /\ (st[l].call \in Announcing => st[k].call = "before")
    <2>1. /\ l - 1 \in DOMAIN below /\ st[l] = below[l - 1]
          /\ k \in Nat /\ l \in Nat /\ k >= 1
      BY <1>1, <1>2, <1>3, <1>6
    <2>2. CASE k = 1
      BY <1>2, <1>6, <2>1, <2>2 DEF Covers, Frames
    <2>3. CASE k # 1
      <3>1. k - 1 \in DOMAIN below /\ st[k] = below[k - 1] /\ k - 1 < l - 1
        BY <1>3, <1>6, <2>1, <2>3
      <3>2. QED
        BY <1>6, <2>1, <3>1 DEF Layered
    <2>4. QED
      BY <2>2, <2>3
  <1>7. QED
    BY <1>5, <1>6 DEF Layered, st

(* A frame less.  *)
LEMMA FramesPop ==
    ASSUME NEW st, Stacked(st), st # <<>>
    PROVE  /\ Frames(st) = {Head(st)} \cup Frames(Tail(st))
           /\ Layered(st) => Layered(Tail(st)) /\ Covers(Head(st).call, Frames(Tail(st)))
  <1> DEFINE below == Tail(st)
  <1>1. /\ Head(st) \in Frame /\ below \in Seq(Frame)
        /\ st \in Seq(Frame) /\ st = <<Head(st)>> \o below
    BY StackedPop, Pop DEF Stacked
  <1>2. Frames(st) = {Head(st)} \cup Frames(below)
    BY <1>1, FramesPush
  <1>3. /\ DOMAIN below = 1..(Len(st) - 1)
        /\ DOMAIN st = 1..Len(st)
        /\ Len(st) \in Nat
        /\ Head(st) = st[1]
        /\ 1 \in DOMAIN st
        /\ \A k \in DOMAIN below : below[k] = st[k + 1]
    BY <1>1
  <1>4. \A k \in DOMAIN below : k + 1 \in DOMAIN st /\ 1 < k + 1
    BY <1>3
  <1>5. ASSUME Layered(st), NEW k \in DOMAIN below, NEW l \in DOMAIN below, k < l
        PROVE  below[l].call # "after" /\ (below[l].call \in Announcing => below[k].call = "before")
    <2>1. k + 1 < l + 1
      BY <1>3, <1>5
    <2>2. QED
      BY <1>3, <1>4, <1>5, <2>1 DEF Layered
  <1>6. ASSUME Layered(st), NEW g \in Frames(below)
        PROVE  g.call # "after" /\ (g.call \in Announcing => Head(st).call = "before")
    <2>1. PICK l \in DOMAIN below : g = below[l]
      BY DEF Frames
    <2>2. g = st[l + 1] /\ l + 1 \in DOMAIN st /\ 1 < l + 1
      BY <1>3, <1>4, <2>1
    <2>3. QED
      BY <1>3, <1>6, <2>2 DEF Layered
  <1>7. QED
    BY <1>2, <1>5, <1>6 DEF Layered, Covers

(* What Stacked says of the frames below the top and of the top.  *)
LEMMA FramesFit ==
    ASSUME NEW st, Stacked(st)
    PROVE  /\ Frames(st) \subseteq Frame
           /\ \A g \in Frames(st) : WellFormed(g)
           /\ \A s : Higher(s, st) <=> Below(s, Frames(st))
           /\ \A f : Fits(f, st) => \A g \in Frames(st) : Over(f, g)
  <1>1. Frames(st) \subseteq Frame
    BY DEF Frames, Stacked
  <1>2. \A g \in Frames(st) : WellFormed(g)
    BY DEF Frames, Stacked
  <1>3. \A s : Higher(s, st) <=> Below(s, Frames(st))
    BY DEF Frames, Higher, Below
  <1>4. \A f : Fits(f, st) => \A g \in Frames(st) : Over(f, g)
    BY DEF Frames, Fits
  <1>5. QED
    BY <1>1, <1>2, <1>3, <1>4

(* Nothing is on the empty stack.  *)
LEMMA FramesEmpty == Frames(<<>>) = {} /\ Layered(<<>>)
  BY DEF Frames, Layered

-----------------------------------------------------------------------------
(* What the calls do, in terms of frames *)

(* The frame of BeforeUpdate, if there is anyone to tell.  *)
Telling(s, todo) == IF todo = {} THEN {} ELSE {F("before", s, todo)}

(* The fields of a frame.  *)
LEMMA FrameFields ==
    ASSUME NEW call \in Calls, NEW s \in Suppliers, NEW todo \in SUBSET Suppliers
    PROVE  /\ F(call, s, todo) \in Frame
           /\ F(call, s, todo).call = call
           /\ F(call, s, todo).s = s
           /\ F(call, s, todo).todo = todo
           /\ F(call, s, todo).input = s
           /\ F(call, s, todo).got = "current"
  BY FrameType DEF F

(* The call an action is about, and the frames of the calls it returns to.  *)
LEMMA TopFrames ==
    ASSUME Stacked(stack), Layered(stack), NEW call, Running(call)
    PROVE  LET top  == Head(stack)
               rest == Frames(Tail(stack))
           IN  /\ top \in Frame
               /\ top.call = call
               /\ top.s \in Suppliers
               /\ top.todo \in SUBSET Suppliers
               /\ top.input \in Suppliers
               /\ WellFormed(top)
               /\ Frames(stack) = {top} \cup rest
               /\ rest \subseteq Frame
               /\ \A g \in rest : WellFormed(g) /\ Over(top, g)
               /\ Tail(stack) \in Seq(Frame)
               /\ Layered(Tail(stack))
               /\ Covers(call, rest)
               /\ call \in Busy \cup {"after"} => Below(top.s, rest)
               /\ call \in ClientCalls => Tail(stack) = <<>> /\ rest = {}
  <1> DEFINE top == Head(stack)
             rest == Frames(Tail(stack))
  <1>1. stack # <<>> /\ top.call = call
    BY DEF Running
  <1>2. /\ top \in Frame /\ top.s \in Suppliers /\ top.todo \in SUBSET Suppliers
        /\ WellFormed(top) /\ Stacked(Tail(stack)) /\ Fits(top, Tail(stack))
        /\ call \in Busy \cup {"after"} => Higher(top.s, Tail(stack))
        /\ call \in ClientCalls => Tail(stack) = <<>>
    BY Top
  <1>3. top.input \in Suppliers
    BY <1>2 DEF Frame
  <1>4. /\ Frames(stack) = {top} \cup rest
        /\ Layered(Tail(stack)) /\ Covers(call, rest)
    BY <1>1, FramesPop
  <1>5. /\ rest \subseteq Frame
        /\ \A g \in rest : WellFormed(g)
        /\ \A s : Higher(s, Tail(stack)) <=> Below(s, rest)
        /\ \A g \in rest : Over(top, g)
    BY <1>2, FramesFit
  <1>6. Tail(stack) \in Seq(Frame)
    BY <1>2 DEF Stacked
  <1>7. call \in ClientCalls => rest = {}
    BY <1>2, FramesEmpty
  <1>8. QED
    BY <1>1, <1>2, <1>3, <1>4, <1>5, <1>6, <1>7

(* BeforeUpdate.  *)
LEMMA NotifyBeforeFrames ==
    ASSUME NEW s \in Suppliers, NEW todo \in SUBSET Suppliers, NEW below \in Seq(Frame)
    PROVE  LET st == NotifyBefore(s, todo, below)
           IN  /\ st \in Seq(Frame)
               /\ Frames(st) = Telling(s, todo) \cup Frames(below)
               /\ Layered(below) /\ Covers("before", Frames(below)) =>
                      Layered(st) /\ Covers("before", Frames(st))
  <1> DEFINE f == F("before", s, todo)
  <1>1. f \in Frame /\ f.call = "before"
    BY FrameFields DEF Calls
  <1>2. CASE todo = {}
    BY <1>2 DEF NotifyBefore, Telling
  <1>3. CASE todo # {}
    <2>1. NotifyBefore(s, todo, below) = <<f>> \o below /\ Telling(s, todo) = {f}
      BY <1>3 DEF NotifyBefore, Telling
    <2>2. <<f>> \o below \in Seq(Frame)
      BY <1>1, Push
    <2>3. /\ Frames(<<f>> \o below) = {f} \cup Frames(below)
          /\ Layered(below) /\ Covers("before", Frames(below)) => Layered(<<f>> \o below)
      BY <1>1, FramesPush
    <2>4. Covers("before", Frames(below)) => Covers("before", {f} \cup Frames(below))
      BY <1>1 DEF Covers
    <2>5. QED
      BY <2>1, <2>2, <2>3, <2>4
  <1>4. QED
    BY <1>2, <1>3

(* AfterUpdate, which an initialization inside DoTest leaves to the end of the test.  *)
LEMMA NotifyAfterFrames ==
    ASSUME NEW s \in Suppliers, NEW below \in Seq(Frame),
           Layered(below), Covers("after", Frames(below))
    PROVE  LET st == NotifyAfter(s, below)
           IN  /\ Layered(st)
               /\ \/ st = below
                  \/ st = <<F("after", s, {})>> \o below
               /\ Frames(st) \subseteq {F("after", s, {})} \cup Frames(below)
               /\ Frames(below) \subseteq Frames(st)
               /\ below = <<>> => st # below
  <1> DEFINE f == F("after", s, {})
  <1>1. f \in Frame /\ f.call = "after"
    BY FrameFields DEF Calls
  <1>2. /\ Frames(<<f>> \o below) = {f} \cup Frames(below)
        /\ Layered(<<f>> \o below)
    BY <1>1, FramesPush
  <1>3. <<f>> \o below # <<>>
    BY <1>1, Push
  <1>4. QED
    BY <1>2, <1>3 DEF NotifyAfter

(* InvalidateSupplier.  *)
LEMMA InvalidateEffect ==
    ASSUME TypeOK, NEW s \in Suppliers, NEW below \in Seq(Frame),
           Layered(below), Covers("before", Frames(below)),
           CallInvalidateSupplier(s, below)
    PROVE  /\ Layered(stack')
           /\ Frames(stack') =
                  (IF isInputValid[s] /\ ~notifierOpen[s] THEN Telling(s, Consumers(s)) ELSE {})
                      \cup Frames(below)
           /\ \A x \in Suppliers :
                 /\ isInputValid'[x] <=> (isInputValid[x] /\ x # s)
                 /\ notifierOpen'[x] <=> (notifierOpen[x] \/ (x = s /\ isInputValid[s]))
  <1>1. Consumers(s) \in SUBSET Suppliers
    BY DEF Consumers
  <1>2. LET st == NotifyBefore(s, Consumers(s), below)
        IN  /\ Frames(st) = Telling(s, Consumers(s)) \cup Frames(below)
            /\ Layered(st)
    BY <1>1, NotifyBeforeFrames
  <1>3. /\ Layered(stack')
        /\ Frames(stack') =
               (IF isInputValid[s] /\ ~notifierOpen[s] THEN Telling(s, Consumers(s)) ELSE {})
                   \cup Frames(below)
    BY <1>2 DEF CallInvalidateSupplier
  <1>4. ASSUME NEW x \in Suppliers
        PROVE  /\ isInputValid'[x] <=> (isInputValid[x] /\ x # s)
               /\ notifierOpen'[x] <=> (notifierOpen[x] \/ (x = s /\ isInputValid[s]))
    BY Zenon DEF CallInvalidateSupplier, TypeOK
  <1>5. QED
    BY <1>3, <1>4

(* EnsureWorkInitialized.  *)
LEMMA InitializeEffect ==
    ASSUME TypeOK, NEW s \in Suppliers, NEW below \in Seq(Frame),
           Layered(below), Covers("init", Frames(below)),
           CallEnsureWorkInitialized(s, below)
    PROVE  /\ Layered(stack')
           /\ MustInitialize(s) =>
                 /\ Frames(stack') = {F("init", s, Inputs[s])} \cup Frames(below)
                 /\ \A x \in Suppliers :
                       workStatus'[x] = IF x = s THEN WS_LOCKED ELSE workStatus[x]
           /\ ~MustInitialize(s) =>
                 /\ stack' = below
                 /\ workStatus' = workStatus
  <1> DEFINE f == F("init", s, Inputs[s])
  <1>1. f \in Frame /\ f.call = "init"
    BY FrameFields, NetworkAssumption DEF Calls
  <1>2. /\ Frames(<<f>> \o below) = {f} \cup Frames(below)
        /\ Layered(<<f>> \o below)
    BY <1>1, FramesPush
  <1>3. CASE MustInitialize(s)
    BY <1>2, <1>3 DEF CallEnsureWorkInitialized, TypeOK
  <1>4. CASE ~MustInitialize(s)
    BY <1>4 DEF CallEnsureWorkInitialized
  <1>5. QED
    BY <1>3, <1>4

(* EnsureWorkFinished.  *)
LEMMA FinishEffect ==
    ASSUME TypeOK, NEW s \in Suppliers, NEW below \in Seq(Frame),
           Layered(below), Covers("produce", Frames(below)),
           CallEnsureWorkFinished(s, below)
    PROVE  /\ Layered(stack')
           /\ MustProduce(s) =>
                 /\ Frames(stack') = {F("produce", s, Inputs[s])} \cup Frames(below)
                 /\ \A x \in Suppliers :
                       workStatus'[x] = IF x = s THEN WS_LOCKED ELSE workStatus[x]
                 /\ isInputValid' = isInputValid
                 /\ product' = [Outdate(product, s) EXCEPT ![s] = "outdated"]
           /\ ~MustProduce(s) =>
                 /\ stack' = below
                 /\ \A x \in Suppliers :
                       workStatus'[x] = IF x = s THEN lastWorkState[s] ELSE workStatus[x]
                 /\ \A x \in Suppliers :
                       isInputValid'[x] <=> (x = s \/ isInputValid[x])
                 /\ product' = product
  <1> DEFINE f == F("produce", s, Inputs[s])
  <1>1. f \in Frame /\ f.call = "produce"
    BY FrameFields, NetworkAssumption DEF Calls
  <1>2. /\ Frames(<<f>> \o below) = {f} \cup Frames(below)
        /\ Layered(<<f>> \o below)
    BY <1>1, FramesPush
  <1>3. CASE MustProduce(s)
    BY <1>2, <1>3 DEF CallEnsureWorkFinished, TypeOK
  <1>4. CASE ~MustProduce(s)
    <2>1. \A x \in Suppliers :
             isInputValid'[x] <=> (x = s \/ isInputValid[x])
      BY Zenon, <1>4 DEF CallEnsureWorkFinished, TypeOK
    <2>2. QED
      BY <1>4, <2>1 DEF CallEnsureWorkFinished, TypeOK
  <1>5. QED
    BY <1>3, <1>4

-----------------------------------------------------------------------------
(***************************************************************************)
(* The shape of the stack, in every network and whatever its environment   *)
(* does.  What works on a supplier holds its WS_LOCKED; below an           *)
(* initialization there is nothing but the initializations that asked for  *)
(* it and the DoTest that started them; and the changes that are announced *)
(* come from one initialization, or from a client with nothing else under  *)
(* way.                                                                    *)
(***************************************************************************)
Start == {"edit", "clear", "trigger", "testInit"}

Initialization == {"init", "work"}

(* The suppliers a call relies on: the inputs it has initialized, those it is going *)
(* to read, or the supplier under test.                                             *)
Demands(f) ==
    CASE f.call = "init"           -> Inputs[f.s] \ f.todo
      [] f.call = "work"           -> Inputs[f.s]
      [] f.call \in Producing      -> f.todo
      [] f.call = "testFinish"     -> {f.s}
      [] OTHER                     -> {}

(* g, below the initialization of s, has asked for something that s goes into.  *)
AskedBy(g, s) == \E c \in Demands(g) : workStatus[c] = WS_LOCKED /\ c \in Reach(s)

BusyLocked(W) == \A f \in W : f.call \in Busy => workStatus[f.s] = WS_LOCKED

InitializationsAsked(W) ==
    \A f, g \in W :
        f.call \in Initialization =>
            /\ g.call \in Producing => Level[g.s] < Level[f.s]
            /\ g.call # "tested"
            /\ (g.call = "init" /\ Level[f.s] < Level[g.s]) \/ g.call = "testFinish"
                   => AskedBy(g, f.s)

(* A change of s is announced by a client, or from the initialization of something upstream.  *)
AnnouncedIn(s, W) ==
    \/ \A g \in W : g.call \in Start \cup {"before"}
    \/ /\ \A g \in W : g.call \in {"before", "work", "init", "testFinish"}
       /\ \E w \in W : w.call = "work" /\ s \in Reach(w.s)

ChangesAnnounced(W) ==
    \A f \in W : f.call = "before" => f.todo \subseteq Consumers(f.s) /\ AnnouncedIn(f.s, W)

StartsAlone(W) ==
    \A g \in W :
        g.call \in Start =>
            /\ \A f \in W : f = g \/ f.call = "before"
            /\ g.call \in {"edit", "trigger"} => ~isInputValid[g.s]

NotifierHeld(W) == \A f \in W : f.call = "work" => notifierOpen[f.s]

Shape ==
    /\ Layered(stack)
    /\ BusyLocked(Frames(stack))
    /\ InitializationsAsked(Frames(stack))
    /\ ChangesAnnounced(Frames(stack))
    /\ StartsAlone(Frames(stack))
    /\ NotifierHeld(Frames(stack))

(* What each kind of call relies on.  *)
LEMMA DemandsOf ==
    ASSUME NEW f \in Frame
    PROVE  /\ f.call = "init" => Demands(f) = Inputs[f.s] \ f.todo
           /\ f.call = "work" => Demands(f) = Inputs[f.s]
           /\ f.call \in Producing => Demands(f) = f.todo
           /\ f.call = "testFinish" => Demands(f) = {f.s}
           /\ f.call \notin Busy \cup {"testFinish"} => Demands(f) = {}
           /\ Demands(f) \subseteq Suppliers
  <1>1. f.s \in Suppliers /\ f.todo \subseteq Suppliers /\ Inputs[f.s] \subseteq Suppliers
    BY NetworkAssumption DEF Frame
  <1>2. QED
    BY <1>1 DEF Demands, Producing, Busy

(* Of the calls below one that is no notification, none is a notification, and if it  *)
(* is no client's call either, no client's first step is among them.                  *)
LEMMA QuietBelow ==
    ASSUME Stacked(stack), Shape, NEW call, Running(call), call # "before"
    PROVE  \A g \in Frames(Tail(stack)) :
               /\ g.call \in Calls
               /\ g.call \notin {"before", "work", "after"}
               /\ g.call \in Start => g = Head(stack)
  <1>1. /\ Frames(stack) = {Head(stack)} \cup Frames(Tail(stack))
        /\ Head(stack).call = call
        /\ Frames(Tail(stack)) \subseteq Frame
        /\ Covers(call, Frames(Tail(stack)))
    BY TopFrames DEF Shape
  <1>2. StartsAlone(Frames(stack))
    BY DEF Shape
  <1>3. QED
    BY <1>1, <1>2 DEF StartsAlone, Covers, Announcing, Frame

(* A witness of AskedBy outlives a change of the state of a lower supplier.  *)
LEMMA StillAsked ==
    ASSUME NEW s \in Suppliers, NEW f \in Frame, f.call \in Initialization,
           NEW g, AskedBy(g, f.s), Demands(g) \subseteq Suppliers,
           \/ Level[s] < Level[f.s]
           \/ workStatus'[s] = WS_LOCKED,
           \A x \in Suppliers : x # s => workStatus'[x] = workStatus[x]
    PROVE  AskedBy(g, f.s)'
  <1>1. PICK c \in Demands(g) : workStatus[c] = WS_LOCKED /\ c \in Reach(f.s)
    BY DEF AskedBy
  <1>2. f.s \in Suppliers
    BY DEF Frame
  <1>3. c \in Suppliers /\ Level[f.s] <= Level[c]
    BY <1>1, <1>2, ReachFurther
  <1>4. workStatus'[c] = WS_LOCKED
    <2>1. CASE c # s
      BY <1>1, <1>3, <2>1
    <2>2. CASE c = s /\ Level[s] < Level[f.s]
      BY <1>2, <1>3, <2>2, AcyclicAssumption
    <2>3. CASE c = s /\ workStatus'[s] = WS_LOCKED
      BY <2>3
    <2>4. QED
      BY <2>1, <2>2, <2>3
  <1>5. QED
    BY <1>1, <1>4 DEF AskedBy

(* Every frame of W0, called or not, holds what Shape asks of calls that work.  *)
ShapeBelow(W0) ==
    /\ W0 \subseteq Frame
    /\ \A g \in W0 : g.call \notin Start \cup {"before", "work", "after"}
    /\ BusyLocked(W0)
    /\ InitializationsAsked(W0)

(* EnsureWorkFinished keeps the shape, when it is called for something lower than all work.  *)
LEMMA FinishShape ==
    ASSUME TypeOK, NEW s \in Suppliers, NEW below \in Seq(Frame),
           Layered(below), ShapeBelow(Frames(below)), Below(s, Frames(below)),
           CallEnsureWorkFinished(s, below), UNCHANGED notifierOpen
    PROVE  Shape'
  <1> DEFINE W0 == Frames(below)
             W2 == Frames(stack')
             f0 == F("produce", s, Inputs[s])
  <1>1. f0 \in Frame /\ f0.call = "produce" /\ f0.s = s
    BY FrameFields, NetworkAssumption DEF Calls
  <1>2. Covers("produce", W0)
    BY DEF ShapeBelow, Covers, Announcing
  <1>3. /\ Layered(stack')
        /\ \/ W2 = {f0} \cup W0 /\ workStatus'[s] = WS_LOCKED
           \/ W2 = W0
        /\ \A x \in Suppliers : x # s => workStatus'[x] = workStatus[x]
    <2>1. CASE MustProduce(s)
      BY <1>2, <2>1, FinishEffect
    <2>2. CASE ~MustProduce(s)
      BY <1>2, <2>2, FinishEffect
    <2>3. QED
      BY <2>1, <2>2
  <1> HIDE DEF f0, W2
  <1>4. \A g \in W2 : g \in Frame /\ g.call \notin Start \cup {"before", "work", "after"}
    BY <1>1, <1>3 DEF ShapeBelow, Start
  <1>5. ASSUME NEW f \in W2, f.call \in Busy
        PROVE  workStatus'[f.s] = WS_LOCKED
    <2>1. CASE f \in W0
      <3>1. f.s \in Suppliers /\ Level[s] < Level[f.s]
        BY <1>5, <2>1 DEF ShapeBelow, Below, Frame
      <3>2. f.s # s
        BY <3>1, AcyclicAssumption
      <3>3. QED
        BY <1>3, <1>5, <2>1, <3>1, <3>2 DEF ShapeBelow, BusyLocked
    <2>2. CASE f \notin W0
      BY <1>1, <1>3, <1>5, <2>2
    <2>3. QED
      BY <2>1, <2>2
  <1>6. ASSUME NEW f \in W2, NEW g \in W2, f.call \in Initialization
        PROVE  /\ g.call \in Producing => Level[g.s] < Level[f.s]
               /\ g.call # "tested"
               /\ (g.call = "init" /\ Level[f.s] < Level[g.s]) \/ g.call = "testFinish"
                      => AskedBy(g, f.s)'
    <2>1. f \in W0 /\ f \in Frame /\ f.call \in Busy
      BY <1>1, <1>3, <1>4, <1>6 DEF Initialization, Busy
    <2>2. Level[s] < Level[f.s]
      BY <2>1 DEF Below
    <2>3. CASE g \in W0
      <3>1. Demands(g) \subseteq Suppliers
        BY <1>4, DemandsOf
      <3>2. /\ g.call \in Producing => Level[g.s] < Level[f.s]
            /\ g.call # "tested"
            /\ (g.call = "init" /\ Level[f.s] < Level[g.s]) \/ g.call = "testFinish"
                   => AskedBy(g, f.s)
        BY <1>6, <2>1, <2>3 DEF ShapeBelow, InitializationsAsked
      <3>3. QED
        BY <1>3, <1>6, <2>1, <2>2, <3>1, <3>2, StillAsked
    <2>4. CASE g \notin W0
      BY <1>1, <1>3, <2>2, <2>4
    <2>5. QED
      BY <2>3, <2>4
  <1>7. \A f \in W2 : f.call = "work" => notifierOpen'[f.s]
    BY <1>4
  <1>8. QED
    BY <1>3, <1>4, <1>5, <1>6, <1>7
       DEF Shape, BusyLocked, InitializationsAsked, ChangesAnnounced, StartsAlone,
           NotifierHeld, W2

(* EnsureWorkInitialized keeps the shape, when it is asked for by the calls below.  *)
LEMMA InitializeShape ==
    ASSUME TypeOK, NEW s \in Suppliers, NEW below \in Seq(Frame),
           Layered(below), ShapeBelow(Frames(below)), Below(s, Frames(below)),
           \A g \in Frames(below) :
               /\ g.call \notin Producing \cup {"tested"}
               /\ g.call \in {"init", "testFinish"} =>
                     \E c \in Demands(g) :
                         (c = s \/ workStatus[c] = WS_LOCKED) /\ c \in Reach(s),
           CallEnsureWorkInitialized(s, below), UNCHANGED notifierOpen
    PROVE  Shape'
  <1> DEFINE W0 == Frames(below)
             W2 == Frames(stack')
             f0 == F("init", s, Inputs[s])
  <1>1. f0 \in Frame /\ f0.call = "init" /\ f0.s = s
    BY FrameFields, NetworkAssumption DEF Calls
  <1>2. Covers("init", W0)
    BY DEF ShapeBelow, Covers, Announcing
  <1>3. /\ Layered(stack')
        /\ \/ /\ W2 = {f0} \cup W0
              /\ workStatus'[s] = WS_LOCKED
              /\ \A x \in Suppliers : x # s => workStatus'[x] = workStatus[x]
           \/ W2 = W0 /\ workStatus' = workStatus
    <2>1. CASE MustInitialize(s)
      BY <1>2, <2>1, InitializeEffect
    <2>2. CASE ~MustInitialize(s)
      BY <1>2, <2>2, InitializeEffect
    <2>3. QED
      BY <2>1, <2>2
  <1> HIDE DEF f0, W2
  <1>4. \A g \in W2 : g \in Frame /\ g.call \notin Start \cup {"before", "work", "after"}
    BY <1>1, <1>3 DEF ShapeBelow, Start
  <1>5. ASSUME NEW f \in W2, f.call \in Busy
        PROVE  workStatus'[f.s] = WS_LOCKED
    BY <1>1, <1>3, <1>5 DEF ShapeBelow, BusyLocked, Frame
  <1>6. ASSUME NEW f \in W2, NEW g \in W2, f.call \in Initialization
        PROVE  /\ g.call \in Producing => Level[g.s] < Level[f.s]
               /\ g.call # "tested"
               /\ (g.call = "init" /\ Level[f.s] < Level[g.s]) \/ g.call = "testFinish"
                      => AskedBy(g, f.s)'
    <2>1. f \in Frame /\ g \in Frame /\ f.s \in Suppliers /\ Level[s] \in Nat
          /\ Level[f.s] \in Nat
      BY <1>4, AcyclicAssumption DEF Frame
    <2>2. Demands(g) \subseteq Suppliers
      BY <2>1, DemandsOf
    <2>3. CASE f \in W0 /\ g \in W0
      <3>1. /\ g.call \in Producing => Level[g.s] < Level[f.s]
            /\ g.call # "tested"
            /\ (g.call = "init" /\ Level[f.s] < Level[g.s]) \/ g.call = "testFinish"
                   => AskedBy(g, f.s)
        BY <1>6, <2>3 DEF ShapeBelow, InitializationsAsked
      <3>2. CASE workStatus' = workStatus
        BY <3>1, <3>2 DEF AskedBy
      <3>3. CASE /\ workStatus'[s] = WS_LOCKED
                 /\ \A x \in Suppliers : x # s => workStatus'[x] = workStatus[x]
        BY <1>6, <2>1, <2>2, <3>1, <3>3, StillAsked
      <3>4. QED
        BY <1>3, <3>2, <3>3
    <2>4. CASE f \in W0 /\ g \notin W0
      <3>1. g = f0 /\ Level[s] < Level[f.s]
        BY <1>3, <1>6, <2>4 DEF Below, Initialization, Busy
      <3>2. QED
        BY <1>1, <2>1, <3>1 DEF Producing
    <2>5. CASE f \notin W0 /\ g \in W0
      <3>1. /\ f.s = s /\ workStatus'[s] = WS_LOCKED
            /\ \A x \in Suppliers : x # s => workStatus'[x] = workStatus[x]
        BY <1>1, <1>3, <2>5
      <3>2. ASSUME g.call \in {"init", "testFinish"}
            PROVE  AskedBy(g, f.s)'
        <4>1. PICK c \in Demands(g) :
                 (c = s \/ workStatus[c] = WS_LOCKED) /\ c \in Reach(s)
          BY <2>5, <3>2
        <4>2. workStatus'[c] = WS_LOCKED
          BY <2>2, <3>1, <4>1
        <4>3. QED
          BY <3>1, <4>1, <4>2 DEF AskedBy
      <3>3. QED
        BY <2>5, <3>2
    <2>6. CASE f \notin W0 /\ g \notin W0
      BY <1>1, <1>3, <2>1, <2>6 DEF Producing
    <2>7. QED
      BY <2>3, <2>4, <2>5, <2>6
  <1>7. \A f \in W2 : f.call = "work" => notifierOpen'[f.s]
    BY <1>4
  <1>8. QED
    BY <1>3, <1>4, <1>5, <1>6, <1>7
       DEF Shape, BusyLocked, InitializationsAsked, ChangesAnnounced, StartsAlone,
           NotifierHeld, W2

(* Taking the top off, unless it is a notification, leaves only calls that work.  *)
LEMMA RestShape ==
    ASSUME Stacked(stack), Shape, NEW call, Running(call), call # "before"
    PROVE  /\ ShapeBelow(Frames(Tail(stack)))
           /\ Tail(stack) \in Seq(Frame)
           /\ Layered(Tail(stack))
  <1> DEFINE rest == Frames(Tail(stack))
  <1>1. /\ Frames(stack) = {Head(stack)} \cup rest
        /\ Head(stack).call = call
        /\ rest \subseteq Frame
        /\ call \in ClientCalls => rest = {}
        /\ Tail(stack) \in Seq(Frame)
        /\ Layered(Tail(stack))
    BY TopFrames DEF Shape
  <1>2. \A g \in rest : g.call \notin {"before", "work", "after"} /\ (g.call \in Start => g = Head(stack))
    BY QuietBelow
  <1>3. Start \subseteq ClientCalls
    BY DEF Start, ClientCalls
  <1>4. \A g \in rest : g.call \notin Start \cup {"before", "work", "after"}
    BY <1>1, <1>2, <1>3
  <1>5. BusyLocked(rest) /\ InitializationsAsked(rest)
    BY <1>1 DEF Shape, BusyLocked, InitializationsAsked
  <1>6. QED
    BY <1>1, <1>4, <1>5 DEF ShapeBelow

(* A handler returns, and what it worked on is no longer WS_LOCKED.  *)
LEMMA ReturnShape ==
    ASSUME NEW s \in Suppliers, NEW W0, ShapeBelow(W0), Below(s, W0),
           Layered(stack'), Frames(stack') \subseteq {F("after", s, {})} \cup W0,
           \A x \in Suppliers :
               x # s => workStatus'[x] = workStatus[x] /\ notifierOpen'[x] = notifierOpen[x]
    PROVE  Shape'
  <1> DEFINE W2 == Frames(stack')
             f0 == F("after", s, {})
  <1>1. f0 \in Frame /\ f0.call = "after"
    BY FrameFields DEF Calls
  <1> HIDE DEF f0, W2
  <1>2. W2 \subseteq {f0} \cup W0
    BY DEF f0, W2
  <1>3. \A g \in W2 : g \in Frame /\ g.call \notin Start \cup {"before", "work"}
    BY <1>1, <1>2 DEF ShapeBelow, Start
  <1>4. ASSUME NEW f \in W2, f.call \in Busy
        PROVE  f \in W0 /\ f.s \in Suppliers /\ Level[s] < Level[f.s] /\ f.s # s
    <2>1. f \in W0 /\ f.s \in Suppliers
      BY <1>1, <1>2, <1>3, <1>4 DEF Busy, Producing, Frame
    <2>2. Level[s] < Level[f.s]
      BY <1>4, <2>1 DEF Below
    <2>3. QED
      BY <2>1, <2>2, AcyclicAssumption
  <1>5. \A f \in W2 : f.call \in Busy => workStatus'[f.s] = WS_LOCKED
    BY <1>4 DEF ShapeBelow, BusyLocked
  <1>6. \A f \in W2 : f.call = "work" => notifierOpen'[f.s]
    BY <1>3
  <1>7. ASSUME NEW f \in W2, NEW g \in W2, f.call \in Initialization
        PROVE  /\ g.call \in Producing => Level[g.s] < Level[f.s]
               /\ g.call # "tested"
               /\ (g.call = "init" /\ Level[f.s] < Level[g.s]) \/ g.call = "testFinish"
                      => AskedBy(g, f.s)'
    <2>1. f \in W0 /\ f \in Frame /\ Level[s] < Level[f.s]
      BY <1>3, <1>4, <1>7 DEF Initialization, Busy
    <2>2. CASE g \in W0
      <3>1. Demands(g) \subseteq Suppliers
        BY <1>3, DemandsOf
      <3>2. /\ g.call \in Producing => Level[g.s] < Level[f.s]
            /\ g.call # "tested"
            /\ (g.call = "init" /\ Level[f.s] < Level[g.s]) \/ g.call = "testFinish"
                   => AskedBy(g, f.s)
        BY <1>7, <2>1, <2>2 DEF ShapeBelow, InitializationsAsked
      <3>3. QED
        BY <1>7, <2>1, <3>1, <3>2, StillAsked
    <2>3. CASE g \notin W0
      BY <1>1, <1>2, <2>3 DEF Producing
    <2>4. QED
      BY <2>2, <2>3
  <1>8. QED
    BY <1>3, <1>5, <1>6, <1>7
       DEF Shape, BusyLocked, InitializationsAsked, ChangesAnnounced, StartsAlone,
           NotifierHeld, W2

(* BeforeUpdate of the next consumer.  *)
LEMMA BeforeUpdateEffect ==
    ASSUME IInv, Layered(stack), InputsObserverBeforeUpdate
    PROVE  LET top  == Head(stack)
               rest == Frames(Tail(stack))
           IN  \E d \in top.todo :
                  /\ d \in Suppliers
                  /\ Layered(stack')
                  /\ Frames(stack') =
                        (IF isInputValid[d] /\ ~notifierOpen[d]
                         THEN Telling(d, Consumers(d)) ELSE {})
                        \cup Telling(top.s, top.todo \ {d}) \cup rest
                  /\ \A x \in Suppliers :
                        /\ isInputValid'[x] <=> (isInputValid[x] /\ x # d)
                        /\ notifierOpen'[x] <=> (notifierOpen[x] \/ (x = d /\ isInputValid[d]))
  <1> DEFINE top  == Head(stack)
             rest == Frames(Tail(stack))
             below(d) == NotifyBefore(top.s, top.todo \ {d}, Tail(stack))
  <1>1. PICK d \in top.todo : CallInvalidateSupplier(d, below(d))
    BY DEF InputsObserverBeforeUpdate
  <1>2. Running("before")
    BY DEF InputsObserverBeforeUpdate
  <1>3. /\ top.s \in Suppliers /\ top.todo \in SUBSET Suppliers
        /\ Tail(stack) \in Seq(Frame) /\ Layered(Tail(stack)) /\ Covers("before", rest)
    BY <1>2, TopFrames DEF IInv
  <1>4. /\ below(d) \in Seq(Frame) /\ Layered(below(d))
        /\ Frames(below(d)) = Telling(top.s, top.todo \ {d}) \cup rest
        /\ Covers("before", Frames(below(d)))
    <2>1. top.todo \ {d} \in SUBSET Suppliers
      BY <1>3
    <2>2. /\ below(d) \in Seq(Frame)
          /\ Frames(below(d)) = Telling(top.s, top.todo \ {d}) \cup rest
          /\ Layered(Tail(stack)) /\ Covers("before", rest) =>
                 Layered(below(d)) /\ Covers("before", Frames(below(d)))
      BY <1>3, <2>1, NotifyBeforeFrames
    <2>3. QED
      BY <1>3, <2>2
  <1>5. d \in Suppliers
    BY <1>3
  <1> HIDE DEF below
  <1>6. /\ Layered(stack')
        /\ Frames(stack') =
               (IF isInputValid[d] /\ ~notifierOpen[d]
                THEN Telling(d, Consumers(d)) ELSE {}) \cup Frames(below(d))
        /\ \A x \in Suppliers :
              /\ isInputValid'[x] <=> (isInputValid[x] /\ x # d)
              /\ notifierOpen'[x] <=> (notifierOpen[x] \/ (x = d /\ isInputValid[d]))
    BY <1>1, <1>4, <1>5, InvalidateEffect DEF IInv
  <1>7. /\ d \in Suppliers
        /\ Layered(stack')
        /\ Frames(stack') =
              (IF isInputValid[d] /\ ~notifierOpen[d]
               THEN Telling(d, Consumers(d)) ELSE {})
              \cup Telling(top.s, top.todo \ {d}) \cup rest
        /\ \A x \in Suppliers :
              /\ isInputValid'[x] <=> (isInputValid[x] /\ x # d)
              /\ notifierOpen'[x] <=> (notifierOpen[x] \/ (x = d /\ isInputValid[d]))
    <2>1. \A A, B, C, D : A = B \cup C /\ C = D \cup rest => A = B \cup D \cup rest
      OBVIOUS
    <2>2. QED
      BY Zenon, <1>4, <1>5, <1>6, <2>1
  <1>8. QED
    BY Zenon, <1>7

(* The announcement of a change spreads.  *)
LEMMA BeforeUpdateShape ==
    ASSUME IInv, Shape, InputsObserverBeforeUpdate
    PROVE  Shape'
  <1> DEFINE top  == Head(stack)
             rest == Frames(Tail(stack))
             W    == Frames(stack)
             W2   == Frames(stack')
  <1>1. Running("before") /\ workStatus' = workStatus
    BY DEF InputsObserverBeforeUpdate
  <1>2. /\ W = {top} \cup rest /\ top \in Frame /\ top.call = "before"
        /\ top.s \in Suppliers /\ rest \subseteq Frame
    BY <1>1, TopFrames DEF IInv, Shape
  <1>3. PICK d \in top.todo :
           /\ d \in Suppliers
           /\ Layered(stack')
           /\ W2 =
                 (IF isInputValid[d] /\ ~notifierOpen[d] THEN Telling(d, Consumers(d)) ELSE {})
                 \cup Telling(top.s, top.todo \ {d}) \cup rest
           /\ \A x \in Suppliers :
                 /\ isInputValid'[x] <=> (isInputValid[x] /\ x # d)
                 /\ notifierOpen'[x] <=> (notifierOpen[x] \/ (x = d /\ isInputValid[d]))
    BY BeforeUpdateEffect DEF Shape
  <1> DEFINE f1 == F("before", d, Consumers(d))
             f2 == F("before", top.s, top.todo \ {d})
  <1>4. /\ f1.call = "before" /\ f1.s = d /\ f1.todo = Consumers(d)
        /\ f2.call = "before" /\ f2.s = top.s /\ f2.todo = top.todo \ {d}
    BY DEF F
  <1>5. W2 \subseteq {f1, f2} \cup rest /\ rest \subseteq W2
    BY <1>3 DEF Telling
  <1> HIDE DEF f1, f2, W2
  <1>6. \A f \in W2 : f.call # "before" => f \in W /\ f \in Frame
    BY <1>2, <1>4, <1>5
  <1>7. \A f \in W2 : f.call \in Busy => workStatus'[f.s] = WS_LOCKED
    BY <1>1, <1>6 DEF Shape, BusyLocked, Busy, Producing
  <1>8. ASSUME NEW f \in W2, NEW g \in W2, f.call \in Initialization
        PROVE  /\ g.call \in Producing => Level[g.s] < Level[f.s]
               /\ g.call # "tested"
               /\ (g.call = "init" /\ Level[f.s] < Level[g.s]) \/ g.call = "testFinish"
                      => AskedBy(g, f.s)'
    <2>1. f \in W
      BY <1>6, <1>8 DEF Initialization
    <2>2. CASE g.call = "before"
      BY <2>2 DEF Producing
    <2>3. CASE g.call # "before"
      <3>1. g \in W
        BY <1>6, <2>3
      <3>2. QED
        BY <1>1, <1>8, <2>1, <3>1 DEF Shape, InitializationsAsked, AskedBy
    <2>4. QED
      BY <2>2, <2>3
  <1>9. \A f \in W2 : f.call = "work" => notifierOpen'[f.s]
    BY <1>3, <1>6 DEF Shape, NotifierHeld, Frame
  <1>10. ASSUME NEW g \in W2, g.call \in Start
         PROVE  /\ \A f \in W2 : f = g \/ f.call = "before"
                /\ g.call \in {"edit", "trigger"} => ~isInputValid'[g.s]
    <2>1. g \in W /\ g \in Frame
      BY <1>6, <1>10 DEF Start
    <2>2. \A f \in W : f = g \/ f.call = "before"
      BY <1>10, <2>1 DEF Shape, StartsAlone
    <2>3. g.call \in {"edit", "trigger"} => ~isInputValid[g.s]
      BY <1>10, <2>1 DEF Shape, StartsAlone
    <2>4. QED
      BY <1>3, <1>6, <2>1, <2>2, <2>3 DEF Frame
  <1>11. ASSUME NEW f \in W2, f.call = "before"
         PROVE  f.todo \subseteq Consumers(f.s) /\ AnnouncedIn(f.s, W2)
    <2>1. top.todo \subseteq Consumers(top.s) /\ AnnouncedIn(top.s, W)
      BY <1>2 DEF Shape, ChangesAnnounced
    <2>2. \A s : AnnouncedIn(s, W) => AnnouncedIn(s, W2)
      <3>1. \A w \in W : w.call = "work" => w \in W2
        BY <1>2, <1>5
      <3>2. QED
        BY <1>6, <3>1 DEF AnnouncedIn
    <2>3. AnnouncedIn(d, W)
      <3>1. \A w \in W : top.s \in Reach(w.s) => d \in Reach(w.s)
        <4>1. SUFFICES ASSUME NEW w \in W, top.s \in Reach(w.s)
                       PROVE  d \in Reach(w.s)
          OBVIOUS
        <4>2. w.s \in Suppliers
          BY <1>2 DEF Frame
        <4>3. QED
          BY <2>1, <4>1, <4>2, ReachFurther DEF Reach
      <3>2. QED
        BY <2>1, <3>1 DEF AnnouncedIn
    <2>4. CASE f \in {f1, f2}
      BY <1>4, <2>1, <2>2, <2>3, <2>4
    <2>5. CASE f \in rest
      BY <1>2, <1>11, <2>2, <2>5 DEF Shape, ChangesAnnounced
    <2>6. QED
      BY <1>5, <2>4, <2>5
  <1>12. QED
    BY <1>3, <1>7, <1>8, <1>9, <1>10, <1>11
       DEF Shape, BusyLocked, InitializationsAsked, ChangesAnnounced, StartsAlone,
           NotifierHeld, W2

(* An observer reads the result, or not.  *)
LEMMA ObserverShape ==
    ASSUME IInv, Shape, ObserverReads \/ ObserverIgnores
    PROVE  Shape'
  <1> DEFINE s    == Head(stack).s
             rest == Frames(Tail(stack))
  <1>1. Running("after") /\ Stacked(stack)
    BY DEF ObserverReads, ObserverIgnores, IInv
  <1>2. s \in Suppliers /\ Below(s, rest)
    BY <1>1, TopFrames DEF Shape
  <1>3. ShapeBelow(rest) /\ Tail(stack) \in Seq(Frame) /\ Layered(Tail(stack))
    BY <1>1, RestShape
  <1>4. CASE ObserverReads
    BY <1>2, <1>3, <1>4, FinishShape DEF ObserverReads, IInv
  <1>5. CASE ObserverIgnores
    <2>1. stack' = Tail(stack) /\ workStatus' = workStatus /\ notifierOpen' = notifierOpen
      BY <1>5 DEF ObserverIgnores, attributes
    <2>2. QED
      BY <1>2, <1>3, <2>1, ReturnShape
  <1>6. QED
    BY <1>4, <1>5

(* The next input to be initialized.  *)
LEMMA InitializeInputEffect ==
    ASSUME IInv, Layered(stack), InitializeInput
    PROVE  LET top  == Head(stack)
               rest == Frames(Tail(stack))
           IN  \E i \in top.todo, f \in Frame :
                  /\ i \in Suppliers /\ i \in Inputs[top.s]
                  /\ f.call = "init" /\ f.s = top.s /\ f.todo = top.todo \ {i}
                  /\ <<f>> \o Tail(stack) \in Seq(Frame)
                  /\ Frames(<<f>> \o Tail(stack)) = {f} \cup rest
                  /\ Layered(<<f>> \o Tail(stack))
                  /\ Below(i, {f} \cup rest)
                  /\ CallEnsureWorkInitialized(i, <<f>> \o Tail(stack))
  <1> DEFINE top  == Head(stack)
             rest == Frames(Tail(stack))
             f(i) == [top EXCEPT !.todo = @ \ {i}]
  <1>1. PICK i \in top.todo : CallEnsureWorkInitialized(i, <<f(i)>> \o Tail(stack))
    BY DEF InitializeInput
  <1>2. Running("init")
    BY DEF InitializeInput
  <1>3. /\ top \in Frame /\ top.call = "init" /\ top.s \in Suppliers
        /\ top.todo \in SUBSET Suppliers /\ WellFormed(top)
        /\ Tail(stack) \in Seq(Frame) /\ Layered(Tail(stack))
        /\ Covers("init", rest) /\ Below(top.s, rest) /\ rest \subseteq Frame
    BY <1>2, TopFrames DEF IInv, Busy
  <1>4. f(i) \in Frame /\ f(i).call = "init" /\ f(i).s = top.s /\ f(i).todo = top.todo \ {i}
    BY <1>3 DEF Frame
  <1>5. i \in Inputs[top.s] /\ i \in Suppliers /\ Level[i] < Level[top.s]
    BY <1>3, NetworkAssumption, AcyclicAssumption DEF WellFormed
  <1> HIDE DEF f
  <1>6. /\ <<f(i)>> \o Tail(stack) \in Seq(Frame)
        /\ Frames(<<f(i)>> \o Tail(stack)) = {f(i)} \cup rest
        /\ Layered(<<f(i)>> \o Tail(stack))
    BY <1>3, <1>4, Push, FramesPush
  <1>7. Below(i, {f(i)} \cup rest)
    BY <1>3, <1>4, <1>5, AcyclicAssumption DEF Below, Frame
  <1>8. QED
    BY <1>1, <1>4, <1>5, <1>6, <1>7

(* EnsureWorkInitialized goes on to the next input.  *)
LEMMA InitializeInputShape ==
    ASSUME IInv, Shape, InitializeInput
    PROVE  Shape'
  <1> DEFINE top  == Head(stack)
             rest == Frames(Tail(stack))
             W    == Frames(stack)
  <1>1. PICK i \in top.todo, f \in Frame :
           /\ i \in Suppliers /\ i \in Inputs[top.s]
           /\ f.call = "init" /\ f.s = top.s /\ f.todo = top.todo \ {i}
           /\ <<f>> \o Tail(stack) \in Seq(Frame)
           /\ Frames(<<f>> \o Tail(stack)) = {f} \cup rest
           /\ Layered(<<f>> \o Tail(stack))
           /\ Below(i, {f} \cup rest)
           /\ CallEnsureWorkInitialized(i, <<f>> \o Tail(stack))
    BY InitializeInputEffect DEF Shape
  <1> DEFINE W0 == {f} \cup rest
  <1>2. Running("init") /\ Stacked(stack)
    BY DEF InitializeInput, IInv
  <1>3. /\ top \in Frame /\ top.call = "init" /\ top.s \in Suppliers
        /\ W = {top} \cup rest /\ Below(top.s, rest)
    BY <1>2, TopFrames DEF Shape, Busy
  <1>4. ShapeBelow(rest)
    BY <1>2, RestShape
  <1>5. Demands(f) = Inputs[top.s] \ (top.todo \ {i}) /\ Demands(top) = Inputs[top.s] \ top.todo
    BY <1>1, <1>3, DemandsOf
  <1>6. \A g \in rest :
           /\ g \in Frame /\ Level[top.s] \in Nat /\ Level[g.s] \in Nat
           /\ g.call \in Busy => Level[top.s] < Level[g.s]
    BY <1>3, <1>4, AcyclicAssumption DEF ShapeBelow, Below, Frame
  <1>7. ASSUME NEW g \in rest
        PROVE  /\ g.call \notin Producing \cup {"tested"}
               /\ g.call \in {"init", "testFinish"} => AskedBy(g, top.s)
    <2>1. /\ g.call \in Producing => Level[g.s] < Level[top.s]
          /\ g.call # "tested"
          /\ (g.call = "init" /\ Level[top.s] < Level[g.s]) \/ g.call = "testFinish"
                 => AskedBy(g, top.s)
      BY <1>3, <1>7 DEF Shape, InitializationsAsked, Initialization
    <2>2. QED
      BY <1>6, <1>7, <2>1 DEF Busy, Producing
  <1>8. ShapeBelow(W0)
    <2>1. \A g \in W0 : g \in Frame /\ g.call \notin Start \cup {"before", "work", "after"}
      BY <1>1, <1>4 DEF ShapeBelow, Start
    <2>2. BusyLocked(W0)
      BY <1>1, <1>3 DEF Shape, BusyLocked, Busy
    <2>3. ASSUME NEW h \in W0, NEW g \in W0, h.call \in Initialization
          PROVE  /\ g.call \in Producing => Level[g.s] < Level[h.s]
                 /\ g.call # "tested"
                 /\ (g.call = "init" /\ Level[h.s] < Level[g.s]) \/ g.call = "testFinish"
                        => AskedBy(g, h.s)
      <3>1. CASE g \in rest /\ h \in rest
        BY <1>4, <2>3, <3>1 DEF ShapeBelow, InitializationsAsked
      <3>2. CASE g \in rest /\ h = f
        BY <1>1, <1>7, <3>2
      <3>3. CASE g = f
        <4>1. ~(Level[h.s] < Level[g.s])
          <5>1. CASE h = f
            BY <1>1, <1>3, <3>3, <5>1, AcyclicAssumption
          <5>2. CASE h \in rest
            BY <1>1, <1>6, <2>3, <3>3, <5>2 DEF Initialization, Busy
          <5>3. QED
            BY <5>1, <5>2
        <4>2. QED
          BY <1>1, <3>3, <4>1 DEF Producing
      <3>4. QED
        BY <3>1, <3>2, <3>3
    <2>4. QED
      BY <2>1, <2>2, <2>3 DEF ShapeBelow, InitializationsAsked
  <1>9. Reach(top.s) \subseteq Reach(i) /\ i \in Reach(i)
    BY <1>1, <1>3, InputReaches, ReachFurther DEF Reach
  <1>10. \A g \in W0 :
            /\ g.call \notin Producing \cup {"tested"}
            /\ g.call \in {"init", "testFinish"} =>
                  \E c \in Demands(g) :
                      (c = i \/ workStatus[c] = WS_LOCKED) /\ c \in Reach(i)
    <2>1. i \in Demands(f)
      BY <1>1, <1>5
    <2>2. \A g \in rest :
             g.call \in {"init", "testFinish"} =>
                 \E c \in Demands(g) : workStatus[c] = WS_LOCKED /\ c \in Reach(i)
      BY <1>7, <1>9 DEF AskedBy
    <2>3. QED
      BY <1>1, <1>7, <1>9, <2>1, <2>2 DEF Producing
  <1>11. QED
    BY <1>1, <1>8, <1>10, InitializeShape DEF IInv, InitializeInput

(* The notifier is opened, and the consumers told unless they were told before.  *)
LEMMA OpenProductChangeEffect ==
    ASSUME IInv, Layered(stack), OpenProductChange
    PROVE  LET s    == Head(stack).s
               rest == Frames(Tail(stack))
           IN  /\ s \in Suppliers
               /\ Layered(stack')
               /\ Frames(stack') =
                     (IF notifierOpen[s] THEN {} ELSE Telling(s, Consumers(s)))
                         \cup ({F("work", s, {})} \cup rest)
               /\ \A x \in Suppliers : notifierOpen'[x] <=> (notifierOpen[x] \/ x = s)
  <1> DEFINE s     == Head(stack).s
             rest  == Frames(Tail(stack))
             f     == F("work", s, {})
             below == <<f>> \o Tail(stack)
  <1>1. Running("init")
    BY DEF OpenProductChange
  <1>2. /\ s \in Suppliers /\ Tail(stack) \in Seq(Frame) /\ Layered(Tail(stack))
        /\ Covers("init", rest)
    BY <1>1, TopFrames DEF IInv
  <1>3. f \in Frame /\ f.call = "work"
    BY <1>2, FrameFields DEF Calls
  <1>4. Covers(f.call, rest) /\ Covers("before", {f} \cup rest)
    BY <1>2, <1>3 DEF Covers, Announcing
  <1> HIDE DEF f
  <1>5. /\ below \in Seq(Frame) /\ Layered(below) /\ Frames(below) = {f} \cup rest
    BY <1>2, <1>3, <1>4, Push, FramesPush
  <1>6. Consumers(s) \in SUBSET Suppliers
    BY DEF Consumers
  <1>7. /\ Frames(NotifyBefore(s, Consumers(s), below)) =
              Telling(s, Consumers(s)) \cup Frames(below)
        /\ Layered(NotifyBefore(s, Consumers(s), below))
    BY <1>2, <1>4, <1>5, <1>6, NotifyBeforeFrames
  <1>8. /\ Layered(stack')
        /\ Frames(stack') =
              (IF notifierOpen[s] THEN {} ELSE Telling(s, Consumers(s))) \cup ({f} \cup rest)
    BY <1>5, <1>7 DEF OpenProductChange, f
  <1>9. \A x \in Suppliers : notifierOpen'[x] <=> (notifierOpen[x] \/ x = s)
    BY DEF OpenProductChange, IInv, TypeOK
  <1>10. QED
    BY <1>2, <1>8, <1>9 DEF f


(* What the work in an initialization is nested in.  *)
LEMMA UnderInitialization ==
    ASSUME IInv, Shape, NEW call \in Initialization, Running(call)
    PROVE  LET top  == Head(stack)
               rest == Frames(Tail(stack))
           IN  /\ ShapeBelow(rest) /\ Below(top.s, rest)
               /\ \A g \in rest :
                     /\ g.call \in {"init", "testFinish"}
                     /\ AskedBy(g, top.s)
  <1> DEFINE top  == Head(stack)
             rest == Frames(Tail(stack))
  <1>1. Stacked(stack) /\ call # "before" /\ call \in Busy
    BY DEF IInv, Initialization, Busy
  <1>2. ShapeBelow(rest)
    BY <1>1, RestShape
  <1>3. /\ top.call = call /\ top.s \in Suppliers /\ Frames(stack) = {top} \cup rest
        /\ Below(top.s, rest)
    BY <1>1, TopFrames DEF Shape
  <1>4. ASSUME NEW g \in rest
        PROVE  /\ g.call \in {"init", "testFinish"}
               /\ AskedBy(g, top.s)
    <2>1. /\ g.call \in Producing => Level[g.s] < Level[top.s]
          /\ g.call # "tested"
          /\ (g.call = "init" /\ Level[top.s] < Level[g.s]) \/ g.call = "testFinish"
                 => AskedBy(g, top.s)
      BY <1>3, <1>4 DEF Shape, InitializationsAsked
    <2>2. g \in Frame /\ g.call \in Calls /\ g.call \notin Start \cup {"before", "work", "after"}
      BY <1>2, <1>4 DEF ShapeBelow, Frame
    <2>3. g.call \in Busy => Level[top.s] < Level[g.s]
      BY <1>3, <1>4 DEF Below
    <2>4. Level[top.s] \in Nat /\ Level[g.s] \in Nat
      BY <1>3, <2>2, AcyclicAssumption DEF Frame
    <2>5. g.call \notin Producing
      BY <2>1, <2>3, <2>4 DEF Busy
    <2>6. g.call \in {"init", "testFinish"}
      BY <2>1, <2>2, <2>5 DEF Calls, Start, Producing
    <2>7. QED
      BY <2>1, <2>3, <2>6 DEF Busy
  <1>5. QED
    BY <1>2, <1>3, <1>4

(* The notifier is opened.  *)
LEMMA OpenProductChangeShape ==
    ASSUME IInv, Shape, OpenProductChange
    PROVE  Shape'
  <1> DEFINE s    == Head(stack).s
             rest == Frames(Tail(stack))
             W2   == Frames(stack')
             f0   == F("work", s, {})
             f1   == F("before", s, Consumers(s))
  <1>1. Running("init") /\ "init" \in Initialization /\ Stacked(stack)
    BY DEF OpenProductChange, Initialization, IInv
  <1>2. /\ s \in Suppliers
        /\ Layered(stack')
        /\ W2 = (IF notifierOpen[s] THEN {} ELSE Telling(s, Consumers(s))) \cup ({f0} \cup rest)
        /\ \A x \in Suppliers : notifierOpen'[x] <=> (notifierOpen[x] \/ x = s)
    BY OpenProductChangeEffect DEF Shape
  <1>3. /\ f0.call = "work" /\ f0.s = s
        /\ f1.call = "before" /\ f1.s = s /\ f1.todo = Consumers(s)
    BY DEF F
  <1>4. W2 \subseteq {f0, f1} \cup rest /\ f0 \in W2
    BY <1>2 DEF Telling
  <1>5. /\ ShapeBelow(rest)
        /\ \A g \in rest :
              /\ g.call \in {"init", "testFinish"}
              /\ AskedBy(g, s)
    BY <1>1, UnderInitialization
  <1>6. workStatus' = workStatus /\ workStatus[s] = WS_LOCKED
    <2>1. Head(stack) \in Frames(stack) /\ Head(stack).call \in Busy
      BY <1>1, TopFrames DEF Shape, Busy
    <2>2. QED
      BY <2>1 DEF Shape, BusyLocked, OpenProductChange
  <1> HIDE DEF f0, f1, W2
  <1>7. \A g \in W2 : g.call \in {"before", "work", "init", "testFinish"}
    BY <1>3, <1>4, <1>5
  <1>8. \A f \in W2 : f.call \in Busy => workStatus'[f.s] = WS_LOCKED
    BY <1>3, <1>4, <1>5, <1>6 DEF ShapeBelow, BusyLocked, Busy, Producing
  <1>9. ASSUME NEW f \in W2, f.call = "work"
        PROVE  notifierOpen'[f.s]
    BY <1>2, <1>3, <1>4, <1>5, <1>9
  <1>10. ASSUME NEW f \in W2, NEW g \in W2, f.call \in Initialization
         PROVE  /\ g.call \in Producing => Level[g.s] < Level[f.s]
                /\ g.call # "tested"
                /\ (g.call = "init" /\ Level[f.s] < Level[g.s]) \/ g.call = "testFinish"
                       => AskedBy(g, f.s)'
    <2>1. g.call \notin Producing \cup {"tested"}
      BY <1>7 DEF Producing
    <2>2. CASE g \in rest /\ f \in rest
      BY <1>5, <1>6, <1>10, <2>2 DEF ShapeBelow, InitializationsAsked, AskedBy
    <2>3. CASE g \in rest /\ f \notin rest
      <3>1. f.s = s
        BY <1>3, <1>4, <2>3
      <3>2. QED
        BY <1>5, <1>6, <2>1, <2>3, <3>1 DEF AskedBy
    <2>4. CASE g \notin rest
      BY <1>3, <1>4, <2>1, <2>4
    <2>5. QED
      BY <2>2, <2>3, <2>4
  <1>11. ASSUME NEW f \in W2, f.call = "before"
         PROVE  f.todo \subseteq Consumers(f.s) /\ AnnouncedIn(f.s, W2)
    <2>1. f.s = s /\ f.todo = Consumers(s)
      BY <1>3, <1>4, <1>5, <1>11
    <2>2. s \in Reach(f0.s)
      BY <1>3 DEF Reach
    <2>3. QED
      BY <1>3, <1>4, <1>7, <2>1, <2>2 DEF AnnouncedIn
  <1>12. QED
    BY <1>2, <1>7, <1>8, <1>9, <1>10, <1>11
       DEF Shape, BusyLocked, InitializationsAsked, ChangesAnnounced, StartsAlone,
           NotifierHeld, Start, W2

(* The initialization of a supplier or its production comes to its end.  *)
LEMMA WorkEndsShape ==
    ASSUME IInv, Shape,
           InitializeWork \/ \E result \in WS_OK..WS_FAILED : FinishWork(result)
    PROVE  Shape'
  <1> DEFINE s    == Head(stack).s
             rest == Frames(Tail(stack))
  <1>1. PICK call \in {"work", "produce"} : Running(call)
    BY DEF InitializeWork, FinishWork
  <1>2. Stacked(stack) /\ call # "before" /\ call \in Busy
    BY <1>1 DEF IInv, Busy, Producing
  <1>3. s \in Suppliers /\ Below(s, rest)
    BY <1>1, <1>2, TopFrames DEF Shape
  <1>4. ShapeBelow(rest) /\ Tail(stack) \in Seq(Frame) /\ Layered(Tail(stack))
    BY <1>1, <1>2, RestShape
  <1>5. stack' \in {NotifyAfter(s, Tail(stack)), Tail(stack)}
    BY DEF InitializeWork, FinishWork
  <1>6. \A x \in Suppliers :
           x # s => workStatus'[x] = workStatus[x] /\ notifierOpen'[x] = notifierOpen[x]
    BY <1>3 DEF InitializeWork, FinishWork, IInv, TypeOK
  <1>7. Covers("after", rest)
    BY <1>4 DEF ShapeBelow, Covers, Announcing
  <1>8. /\ Layered(stack')
        /\ Frames(stack') \subseteq {F("after", s, {})} \cup rest
    <2>1. CASE stack' = NotifyAfter(s, Tail(stack))
      BY <1>3, <1>4, <1>7, <2>1, NotifyAfterFrames
    <2>2. CASE stack' = Tail(stack)
      BY <1>4, <2>2
    <2>3. QED
      BY <1>5, <2>1, <2>2
  <1>9. QED
    BY <1>3, <1>4, <1>6, <1>8, ReturnShape

(* A client's call ends, or a notification at the bottom of the stack is left.  *)
LEMMA ClientEndsShape ==
    ASSUME IInv, Shape,
           ParamsObserverAfterUpdate \/ InputChanged \/ DropResults \/ TestReturns
    PROVE  Shape'
  <1> DEFINE s == Head(stack).s
  <1>1. PICK call \in ClientCalls : Running(call)
    BY DEF ParamsObserverAfterUpdate, InputChanged, DropResults, TestReturns, ClientCalls
  <1>2. s \in Suppliers /\ Tail(stack) = <<>>
    BY <1>1, Top DEF IInv
  <1>3. stack' \in {<<>>, NotifyAfter(s, <<>>)}
    BY <1>2 DEF ParamsObserverAfterUpdate, InputChanged, DropResults, TestReturns
  <1>4. /\ Layered(stack')
        /\ Frames(stack') \subseteq {F("after", s, {})} \cup {}
    <2>1. Covers("after", Frames(<<>>)) /\ Layered(<<>>) /\ <<>> \in Seq(Frame)
      BY FramesEmpty DEF Covers
    <2>2. /\ Layered(NotifyAfter(s, <<>>))
          /\ Frames(NotifyAfter(s, <<>>)) \subseteq {F("after", s, {})} \cup {}
      BY <1>2, <2>1, FramesEmpty, NotifyAfterFrames
    <2>3. QED
      BY <1>3, <2>2, FramesEmpty
  <1>5. \A x \in Suppliers :
           x # s => workStatus'[x] = workStatus[x] /\ notifierOpen'[x] = notifierOpen[x]
    BY DEF ParamsObserverAfterUpdate, InputChanged, DropResults, TestReturns, attributes,
           IInv, TypeOK
  <1>6. ShapeBelow({}) /\ Below(s, {})
    BY DEF ShapeBelow, BusyLocked, InitializationsAsked, Below
  <1>7. QED
    BY <1>2, <1>4, <1>5, <1>6, ReturnShape

(* A production goes on to the next input, or takes its product.  *)
LEMMA ReadInputEffect ==
    ASSUME IInv, Layered(stack), ReadInput
    PROVE  LET top  == Head(stack)
               rest == Frames(Tail(stack))
           IN  \E i \in top.todo, f \in Frame :
                  /\ i \in Suppliers /\ i \in Inputs[top.s]
                  /\ f.call = "read" /\ f.s = top.s /\ f.todo = top.todo \ {i}
                  /\ f.input = i /\ f.got = top.got
                  /\ <<f>> \o Tail(stack) \in Seq(Frame)
                  /\ Frames(<<f>> \o Tail(stack)) = {f} \cup rest
                  /\ Layered(<<f>> \o Tail(stack))
                  /\ Below(i, {f} \cup rest)
                  /\ CallEnsureWorkFinished(i, <<f>> \o Tail(stack))
  <1> DEFINE top  == Head(stack)
             rest == Frames(Tail(stack))
             f(i) == [top EXCEPT !.call = "read", !.input = i, !.todo = @ \ {i}]
  <1>1. PICK i \in top.todo : CallEnsureWorkFinished(i, <<f(i)>> \o Tail(stack))
    BY DEF ReadInput
  <1>2. Running("produce")
    BY DEF ReadInput
  <1>3. /\ top \in Frame /\ top.call = "produce" /\ top.s \in Suppliers
        /\ top.todo \in SUBSET Suppliers /\ WellFormed(top)
        /\ Tail(stack) \in Seq(Frame) /\ Layered(Tail(stack))
        /\ Covers("produce", rest) /\ Below(top.s, rest) /\ rest \subseteq Frame
    BY <1>2, TopFrames DEF IInv, Busy, Producing
  <1>4. /\ f(i) \in Frame /\ f(i).call = "read" /\ f(i).s = top.s
        /\ f(i).todo = top.todo \ {i} /\ f(i).input = i /\ f(i).got = top.got
    BY <1>3 DEF Frame, Calls
  <1>5. i \in Inputs[top.s] /\ i \in Suppliers /\ Level[i] < Level[top.s]
    BY <1>3, NetworkAssumption, AcyclicAssumption DEF WellFormed, Producing
  <1> HIDE DEF f
  <1>6. Covers("read", rest)
    BY <1>3 DEF Covers
  <1>7. /\ <<f(i)>> \o Tail(stack) \in Seq(Frame)
        /\ Frames(<<f(i)>> \o Tail(stack)) = {f(i)} \cup rest
        /\ Layered(<<f(i)>> \o Tail(stack))
    BY <1>3, <1>4, <1>6, Push, FramesPush
  <1>8. Below(i, {f(i)} \cup rest)
    BY <1>3, <1>4, <1>5, AcyclicAssumption DEF Below, Frame
  <1>9. QED
    BY <1>1, <1>4, <1>5, <1>7, <1>8

(* The product of the input is at hand.  *)
LEMMA GotInputEffect ==
    ASSUME IInv, Layered(stack), GotInput
    PROVE  LET top  == Head(stack)
               rest == Frames(Tail(stack))
               read == WorkProduct(top.input)
           IN  \E f \in Frame :
                  /\ f.call = "produce" /\ f.s = top.s /\ f.todo = top.todo
                  /\ f.got = (IF top.got = "null" \/ read = "current" THEN top.got ELSE read)
                  /\ Frames(stack') = {f} \cup rest
                  /\ Layered(stack')
  <1> DEFINE top  == Head(stack)
             rest == Frames(Tail(stack))
             read == WorkProduct(top.input)
             f    == [top EXCEPT
                         !.call = "produce",
                         !.got = IF @ = "null" \/ read = "current" THEN @ ELSE read]
  <1>1. Running("read") /\ stack' = <<f>> \o Tail(stack)
    BY DEF GotInput
  <1>2. /\ top \in Frame /\ top.call = "read" /\ top.s \in Suppliers
        /\ top.input \in Suppliers
        /\ Tail(stack) \in Seq(Frame) /\ Layered(Tail(stack))
        /\ Covers("read", rest)
    BY <1>1, TopFrames DEF IInv
  <1>3. read \in Products
    BY <1>2 DEF IInv, TypeOK, WorkProduct, Products
  <1> HIDE DEF read
  <1>4. /\ f \in Frame /\ f.call = "produce" /\ f.s = top.s /\ f.todo = top.todo
        /\ f.got = (IF top.got = "null" \/ read = "current" THEN top.got ELSE read)
    BY <1>2, <1>3 DEF Frame, Calls
  <1> HIDE DEF f
  <1>5. Covers("produce", rest)
    BY <1>2 DEF Covers
  <1>6. Frames(stack') = {f} \cup rest /\ Layered(stack')
    BY <1>1, <1>2, <1>4, <1>5, FramesPush
  <1>7. QED
    BY <1>4, <1>6 DEF read

(* The frame of a production may change, as long as it goes on.  *)
LEMMA ProductionGoesOn ==
    ASSUME IInv, Shape, NEW call \in Producing, Running(call),
           NEW f \in Frame, f.call \in Producing, f.s = Head(stack).s
    PROVE  ShapeBelow({f} \cup Frames(Tail(stack)))
  <1> DEFINE top  == Head(stack)
             rest == Frames(Tail(stack))
             W0   == {f} \cup rest
  <1>1. Stacked(stack) /\ call # "before" /\ call \in Busy
    BY DEF IInv, Busy, Producing
  <1>2. /\ top \in Frame /\ top.call = call /\ Frames(stack) = {top} \cup rest
    BY <1>1, TopFrames DEF Shape
  <1>3. ShapeBelow(rest)
    BY <1>1, RestShape
  <1>4. \A g \in W0 : g \in Frame /\ g.call \notin Start \cup {"before", "work", "after"}
    BY <1>3 DEF ShapeBelow, Start, Producing
  <1>5. BusyLocked(W0)
    BY <1>1, <1>2, <1>3 DEF Shape, ShapeBelow, BusyLocked
  <1>6. InitializationsAsked(W0)
    <2>1. SUFFICES ASSUME NEW h \in W0, NEW g \in W0, h.call \in Initialization
                   PROVE  /\ g.call \in Producing => Level[g.s] < Level[h.s]
                          /\ g.call # "tested"
                          /\ (g.call = "init" /\ Level[h.s] < Level[g.s])
                                   \/ g.call = "testFinish"
                                 => AskedBy(g, h.s)
      BY DEF InitializationsAsked
    <2>2. h \in rest
      BY <2>1 DEF Initialization, Producing
    <2>3. CASE g \in rest
      BY <1>3, <2>1, <2>2, <2>3 DEF ShapeBelow, InitializationsAsked
    <2>4. CASE g = f
      <3>1. Level[top.s] < Level[h.s]
        BY <1>2, <2>1, <2>2 DEF Shape, InitializationsAsked
      <3>2. QED
        BY <2>4, <3>1 DEF Producing
    <2>5. QED
      BY <2>3, <2>4
  <1>7. QED
    BY <1>3, <1>4, <1>5, <1>6 DEF ShapeBelow

(* ProcessWorkOutput reads its inputs.  *)
LEMMA ReadShape ==
    ASSUME IInv, Shape, ReadInput \/ GotInput
    PROVE  Shape'
  <1> DEFINE top  == Head(stack)
             rest == Frames(Tail(stack))
             W2   == Frames(stack')
  <1>1. CASE ReadInput
    <2>1. PICK i \in top.todo, f \in Frame :
             /\ i \in Suppliers
             /\ f.call = "read" /\ f.s = top.s
             /\ <<f>> \o Tail(stack) \in Seq(Frame)
             /\ Frames(<<f>> \o Tail(stack)) = {f} \cup rest
             /\ Layered(<<f>> \o Tail(stack))
             /\ Below(i, {f} \cup rest)
             /\ CallEnsureWorkFinished(i, <<f>> \o Tail(stack))
      BY <1>1, ReadInputEffect DEF Shape
    <2>2. ShapeBelow({f} \cup rest)
      <3>1. Running("produce") /\ {"produce", "read"} \subseteq Producing
        BY <1>1 DEF ReadInput, Producing
      <3>2. QED
        BY <2>1, <3>1, ProductionGoesOn
    <2>3. QED
      BY <1>1, <2>1, <2>2, FinishShape DEF IInv, ReadInput
  <1>2. CASE GotInput
    <2>1. PICK f \in Frame :
             /\ f.call = "produce" /\ f.s = top.s
             /\ W2 = {f} \cup rest
             /\ Layered(stack')
      BY <1>2, GotInputEffect DEF Shape
    <2>2. ShapeBelow({f} \cup rest)
      <3>1. Running("read") /\ {"produce", "read"} \subseteq Producing
        BY <1>2 DEF GotInput, Producing
      <3>2. QED
        BY <2>1, <3>1, ProductionGoesOn
    <2>3. workStatus' = workStatus /\ notifierOpen' = notifierOpen
      BY <1>2 DEF GotInput, attributes
    <2> HIDE DEF W2
    <2>4. ShapeBelow(W2)
      BY <2>1, <2>2
    <2>5. /\ \A g \in W2 : g.call \in Busy => workStatus'[g.s] = WS_LOCKED
          /\ \A g \in W2 : g.call # "work"
          /\ \A g, h \in W2 :
                g.call \in Initialization =>
                    /\ h.call \in Producing => Level[h.s] < Level[g.s]
                    /\ h.call # "tested"
                    /\ (h.call = "init" /\ Level[g.s] < Level[h.s]) \/ h.call = "testFinish"
                           => AskedBy(h, g.s)'
      BY <2>3, <2>4 DEF ShapeBelow, BusyLocked, InitializationsAsked, AskedBy
    <2>6. \A g \in W2 : g.call \notin Start \cup {"before"}
      BY <2>4 DEF ShapeBelow
    <2>7. QED
      BY <2>1, <2>5, <2>6
         DEF Shape, BusyLocked, InitializationsAsked, ChangesAnnounced, StartsAlone,
             NotifierHeld, W2
  <1>3. QED
    BY <1>1, <1>2

(* A client announces a change, or just invalidates, with nothing else under way.  *)
LEMMA AnnouncedShape ==
    ASSUME NEW call \in Start, NEW s \in Suppliers, Layered(stack'),
           Frames(stack') \subseteq Telling(s, Consumers(s)) \cup {F(call, s, {})},
           call \in {"edit", "trigger"} => ~isInputValid'[s]
    PROVE  Shape'
  <1> DEFINE W2 == Frames(stack')
             f0 == F(call, s, {})
             f1 == F("before", s, Consumers(s))
  <1>1. /\ f0.call = call /\ f0.s = s
        /\ f1.call = "before" /\ f1.s = s /\ f1.todo = Consumers(s)
    BY DEF F
  <1>2. W2 \subseteq {f0, f1}
    BY DEF Telling
  <1> HIDE DEF f0, f1, W2
  <1>3. \A f \in W2 : f.call \in Start \cup {"before"}
    BY <1>1, <1>2
  <1>4. \A f \in W2 : f.call \notin Busy /\ f.call # "work" /\ f.call \notin Initialization
    BY <1>3 DEF Start, Busy, Producing, Initialization
  <1>5. \A f \in W2 : f.call = "before" => f.todo \subseteq Consumers(f.s) /\ AnnouncedIn(f.s, W2)
    BY <1>1, <1>2, <1>3 DEF Start, AnnouncedIn
  <1>6. \A g \in W2 :
           g.call \in Start =>
               /\ \A f \in W2 : f = g \/ f.call = "before"
               /\ g.call \in {"edit", "trigger"} => ~isInputValid'[g.s]
    BY <1>1, <1>2 DEF Start
  <1>7. QED
    BY <1>4, <1>5, <1>6
       DEF Shape, BusyLocked, InitializationsAsked, ChangesAnnounced, StartsAlone,
           NotifierHeld, W2

(* On the frame of a client's call every other call can be nested.  *)
LEMMA ClientFrames ==
    ASSUME NEW f \in Frame, f.call \in ClientCalls
    PROVE  /\ <<f>> \in Seq(Frame) /\ <<f>> = <<f>> \o <<>>
           /\ Frames(<<f>>) = {f} /\ Layered(<<f>>)
           /\ \A c : Covers(c, {f})
           /\ \A s : Below(s, {f})
           /\ f.call \notin Start => ShapeBelow({f})
  <1>1. f.call \notin Busy \cup {"before", "work", "after"}
        /\ f.call \notin Initialization
    BY DEF ClientCalls, Busy, Producing, Initialization
  <1>2. <<>> \in Seq(Frame) /\ <<f>> = <<f>> \o <<>> /\ <<f>> \in Seq(Frame)
    OBVIOUS
  <1>3. \A c : Covers(c, {f}) /\ Covers(c, {})
    BY <1>1 DEF Covers, Announcing
  <1>4. Frames(<<f>> \o <<>>) = {f} \cup {} /\ Layered(<<f>> \o <<>>)
    BY <1>2, <1>3, FramesEmpty, FramesPush
  <1>5. \A s : Below(s, {f})
    BY <1>1 DEF Below
  <1>6. f.call \notin Start => ShapeBelow({f})
    BY <1>1 DEF ShapeBelow, BusyLocked, InitializationsAsked
  <1>7. QED
    BY <1>2, <1>3, <1>4, <1>5, <1>6

(* The empty stack lets every call in.  *)
LEMMA NoFrames ==
    /\ <<>> \in Seq(Frame) /\ Frames(<<>>) = {} /\ Layered(<<>>)
    /\ ShapeBelow(Frames(<<>>))
    /\ \A s \in Suppliers : Below(s, Frames(<<>>))
    /\ \A c : Covers(c, Frames(<<>>))
  BY FramesEmpty
     DEF ShapeBelow, BusyLocked, InitializationsAsked, Below, Covers

(* DoTest initializes and finishes.  *)
LEMMA TestShape ==
    ASSUME IInv, Shape, TestInitialize \/ TestFinish
    PROVE  Shape'
  <1> DEFINE s == Head(stack).s
  <1>1. PICK call \in {"testInit", "testFinish"} : Running(call)
    BY DEF TestInitialize, TestFinish
  <1>2. /\ s \in Suppliers /\ Head(stack).todo \in SUBSET Suppliers /\ Tail(stack) = <<>>
        /\ TypeOK
    BY <1>1, Top DEF IInv, ClientCalls
  <1>3. CASE TestInitialize
    <2> DEFINE changed == IF MustInitialize(s) THEN {s} ELSE {}
               f       == F("testFinish", s, changed)
    <2>1. changed \in SUBSET Suppliers /\ "testFinish" \in ClientCalls /\ "testFinish" \notin Start
      BY <1>2 DEF ClientCalls, Start
    <2>2. f \in Frame /\ f.call = "testFinish" /\ f.s = s
      BY <1>2, <2>1, FrameFields DEF Calls
    <2>3. CallEnsureWorkInitialized(s, <<f>> \o <<>>) /\ UNCHANGED notifierOpen
      BY <1>2, <1>3 DEF TestInitialize
    <2> HIDE DEF f
    <2>4. /\ <<f>> \in Seq(Frame) /\ <<f>> = <<f>> \o <<>>
          /\ Frames(<<f>>) = {f} /\ Layered(<<f>>)
          /\ ShapeBelow({f}) /\ Below(s, {f})
      BY <2>1, <2>2, ClientFrames
    <2>5. \A g \in {f} :
             /\ g.call \notin Producing \cup {"tested"}
             /\ g.call \in {"init", "testFinish"} =>
                   \E c \in Demands(g) :
                       (c = s \/ workStatus[c] = WS_LOCKED) /\ c \in Reach(s)
      <3>1. Demands(f) = {s} /\ s \in Reach(s)
        BY <2>2, DemandsOf DEF Reach
      <3>2. QED
        BY <2>2, <3>1 DEF Producing
    <2>6. CallEnsureWorkInitialized(s, <<f>>)
      BY <2>3, <2>4
    <2>7. QED
      BY <1>2, <2>3, <2>4, <2>5, <2>6, InitializeShape
  <1>4. CASE TestFinish
    <2> DEFINE f == F("tested", s, Head(stack).todo)
    <2>1. "tested" \in ClientCalls /\ "tested" \notin Start
      BY DEF ClientCalls, Start
    <2>2. f \in Frame /\ f.call = "tested"
      BY <1>2, FrameFields DEF Calls
    <2>3. CallEnsureWorkFinished(s, <<f>> \o <<>>) /\ UNCHANGED notifierOpen
      BY <1>2, <1>4 DEF TestFinish
    <2> HIDE DEF f
    <2>4. /\ <<f>> \in Seq(Frame) /\ <<f>> = <<f>> \o <<>>
          /\ Frames(<<f>>) = {f} /\ Layered(<<f>>)
          /\ ShapeBelow({f}) /\ Below(s, {f})
      BY <2>1, <2>2, ClientFrames
    <2>5. CallEnsureWorkFinished(s, <<f>>)
      BY <2>3, <2>4
    <2>6. QED
      BY <1>2, <2>3, <2>4, <2>5, FinishShape
  <1>5. QED
    BY <1>3, <1>4

(* A client starts a call.  *)
LEMMA ClientShape ==
    ASSUME IInv, Client
    PROVE  Shape'
  <1>1. PICK s \in Suppliers :
           \/ EditParameters(s) \/ TriggerInput(s) \/ ClearWorkResults(s) \/ DoTest(s)
           \/ InvalidateSupplier(s) \/ EnsureWorkInitialized(s) \/ GetWorkProduct(s)
    BY DEF Client
  <1>2. TypeOK /\ Consumers(s) \in SUBSET Suppliers
    BY DEF IInv, Consumers
  <1>3. ASSUME NEW call \in Start, CallInvalidateSupplier(s, <<F(call, s, {})>>)
        PROVE  Shape'
    <2> DEFINE f == F(call, s, {})
    <2>1. f \in Frame /\ f.call \in ClientCalls
      BY FrameFields DEF ClientCalls, Calls, Start
    <2>2. <<f>> \in Seq(Frame) /\ Frames(<<f>>) = {f} /\ Layered(<<f>>) /\ Covers("before", {f})
      BY <2>1, ClientFrames
    <2>3. /\ Layered(stack')
          /\ Frames(stack') \subseteq Telling(s, Consumers(s)) \cup {f}
          /\ ~isInputValid'[s]
      BY <1>2, <1>3, <2>2, InvalidateEffect
    <2>4. QED
      BY <2>3, AnnouncedShape
  <1>4. CASE EditParameters(s) \/ TriggerInput(s) \/ DoTest(s)
    <2>1. {"edit", "trigger", "testInit"} \subseteq Start
      BY DEF Start
    <2>2. QED
      BY <1>3, <1>4, <2>1 DEF EditParameters, TriggerInput, DoTest
  <1>5. CASE ClearWorkResults(s)
    <2> DEFINE f == F("clear", s, {})
               w == NotifyBefore(s, Consumers(s), <<f>>)
    <2>1. f \in Frame /\ f.call \in ClientCalls /\ "clear" \in Start
      BY FrameFields DEF ClientCalls, Calls, Start
    <2>2. <<f>> \in Seq(Frame) /\ Frames(<<f>>) = {f} /\ Layered(<<f>>) /\ Covers("before", {f})
      BY <2>1, ClientFrames
    <2>3. Frames(w) = Telling(s, Consumers(s)) \cup Frames(<<f>>) /\ Layered(w)
      <3> HIDE DEF f
      <3>1. QED
        BY <1>2, <2>2, NotifyBeforeFrames
    <2>4. /\ Layered(stack')
          /\ Frames(stack') \subseteq Telling(s, Consumers(s)) \cup {f}
      BY <1>5, <2>2, <2>3 DEF ClearWorkResults
    <2>5. QED
      BY <2>1, <2>4, AnnouncedShape
  <1>6. CASE InvalidateSupplier(s)
    <2>1. /\ Layered(stack')
          /\ Frames(stack') \subseteq Telling(s, Consumers(s)) \cup {F("clear", s, {})}
      BY <1>2, <1>6, NoFrames, InvalidateEffect DEF InvalidateSupplier
    <2>2. QED
      BY <2>1, AnnouncedShape DEF Start
  <1>7. CASE EnsureWorkInitialized(s)
    BY <1>2, <1>7, NoFrames, InitializeShape DEF EnsureWorkInitialized
  <1>8. CASE GetWorkProduct(s)
    BY <1>2, <1>8, NoFrames, FinishShape DEF GetWorkProduct
  <1>9. QED
    BY <1>1, <1>4, <1>5, <1>6, <1>7, <1>8

(* In the initial state there is no frame.  *)
LEMMA InitShape == Init => Shape
  BY FramesEmpty
     DEF Init, Shape, BusyLocked, InitializationsAsked, ChangesAnnounced, StartsAlone,
         NotifierHeld

(* Every step keeps the shape.  *)
LEMMA StepShape ==
    ASSUME IInv, Shape, [Next]_vars
    PROVE  Shape'
  <1>1. CASE Client
    BY <1>1, ClientShape
  <1>2. CASE Step
    BY <1>2, BeforeUpdateShape, ObserverShape, InitializeInputShape, OpenProductChangeShape,
       WorkEndsShape, ReadShape, ClientEndsShape, TestShape DEF Step
  <1>3. CASE UNCHANGED vars
    <2>1. UNCHANGED <<stack, workStatus, isInputValid, notifierOpen>>
      BY <1>3 DEF vars, attributes
    <2>2. QED
      BY <2>1
         DEF Shape, Layered, BusyLocked, InitializationsAsked, AskedBy, ChangesAnnounced,
             AnnouncedIn, StartsAlone, NotifierHeld, Frames
  <1>4. QED
    BY <1>1, <1>2, <1>3 DEF Next

(* Work is nested, and changes are announced, as Shape says in every network.  *)
THEOREM ShapeKept == Spec => []Shape
  <1>1. Init => Shape
    BY InitShape
  <1>2. IInv /\ Shape /\ [Next]_vars => Shape'
    BY StepShape
  <1>3. QED
    BY <1>1, <1>2, Invariance, PTL DEF Spec

-----------------------------------------------------------------------------
(***************************************************************************)
(* Trust in stored results, in networks whose suppliers take no two inputs *)
(* that have a common origin or go into one another, and among clients     *)
(* that change things and run DoTest and observers that read.  Both are    *)
(* needed: SupplierSharedInput.cfg, SupplierReadBeforeInit.cfg,            *)
(* SupplierPartialReads.cfg and SupplierInitFails.cfg show what happens    *)
(* otherwise.                                                              *)
(***************************************************************************)
SeparateInputs ==
    \A d \in Suppliers : \A i, j \in Inputs[d] :
        i # j => \A u \in Suppliers : ~(i \in Reach(u) /\ j \in Reach(u))

DisciplinedClients == Environment \subseteq {"observers read"}

(* Nothing has begun to change the trusted result of i.  *)
Settled(i) == Trusted(i) /\ ~notifierOpen[i] /\ workStatus[i] # WS_INIT

(* ... and the state of i says so.  *)
Answered(i) == Settled(i) /\ workStatus[i] = lastWorkState[i]

(* EnsureWorkFinished of i has, or will have, the right answer.  *)
Fresh(i) ==
    \/ workStatus[i] = WS_LOCKED
    \/ workStatus[i] = WS_INIT /\ ~notifierOpen[i]
    \/ Settled(i)

(* A BeforeUpdate from s still has to reach c.  *)
Pending(s, c) == \E f \in Frames(stack) : f.call = "before" /\ f.s = s /\ c \in f.todo

(* The supplier whose answer a call is about to use.  *)
Awaits(f) ==
    CASE f.call = "read"   -> {f.input}
      [] f.call = "tested" -> {f.s}
      [] OTHER             -> {}

(* The inputs a production has used already.  *)
Read(f) == IF f.call \in Producing THEN (Inputs[f.s] \ f.todo) \ Awaits(f) ELSE {}

(* A result is trusted only as long as its inputs are settled or the change still travels.  *)
TrustHeld ==
    \A e \in Suppliers : \A i \in Inputs[e] : Trusted(e) => Settled(i) \/ Pending(i, e)

(* Initialized work has its parameters, and inputs that will answer.  *)
InitialsReady ==
    \A s \in Suppliers :
        workStatus[s] = WS_INIT =>
            areParametersValid[s] /\ ~notifierOpen[s] /\ \A i \in Inputs[s] : Fresh(i)

(* Work is initialized only for the sake of a call that is going to finish it.  *)
InitialsDemanded ==
    \A u \in Suppliers :
        workStatus[u] = WS_INIT =>
            \E v \in Reach(u), f \in Frames(stack) : workStatus[v] = WS_INIT /\ v \in Demands(f)

(* So is every initialization under way.  *)
InitializationsWanted ==
    \A f \in Frames(stack) :
        f.call \in Initialization =>
            \E g \in Frames(stack) : g.call \in {"init", "testFinish"} /\ f.s \in Demands(g)

(* An observer that is woken finds an answer, or a supplier that was cleared.  *)
AfterFresh ==
    Running("after") =>
        \/ Fresh(Head(stack).s)
        \/ lastWorkState[Head(stack).s] = WS_INVALID /\ Tail(stack) = <<>>

(* What a call may rely on, whatever is nested in it.  *)
Relies(f) ==
    /\ \A i \in Demands(f) : Fresh(i)
    /\ \A i \in Awaits(f) : InProduction(i) \/ Answered(i)
    /\ \A i \in Read(f) : Settled(i) /\ (f.got # "null" => lastWorkState[i] = WS_OK)
    /\ f.call \in Producing =>
           areParametersValid[f.s] /\ ~notifierOpen[f.s] /\ ~Trusted(f.s)
    /\ f.call \in {"edit", "clear", "trigger"} =>
           \A c \in Consumers(f.s) : Trusted(c) => Pending(f.s, c)

TrustInv ==
    /\ TrustHeld
    /\ InitialsReady
    /\ InitialsDemanded
    /\ InitializationsWanted
    /\ AfterFresh
    /\ \A f \in Frames(stack) : Relies(f)

(* What these predicates say depends on the attributes of one supplier only.  *)
LEMMA SameTrust ==
    ASSUME NEW x,
           isInputValid'[x] <=> isInputValid[x],
           notifierOpen'[x] <=> notifierOpen[x],
           workStatus'[x] = workStatus[x],
           lastWorkState'[x] = lastWorkState[x]
    PROVE  /\ Trusted(x)' <=> Trusted(x)
           /\ Settled(x)' <=> Settled(x)
           /\ Answered(x)' <=> Answered(x)
           /\ Fresh(x)' <=> Fresh(x)
  BY Zenon DEF Trusted, Settled, Answered, Fresh

(* Productions, in terms of frames.  *)
LEMMA ProductionFrames ==
    ASSUME NEW i
    PROVE  /\ InProduction(i) <=> \E f \in Frames(stack) : f.s = i /\ f.call \in Producing
           /\ InProduction(i)' <=> \E f \in Frames(stack') : f.s = i /\ f.call \in Producing
  BY DEF InProduction, Frames, Producing

(* A supplier nothing works on is not locked.  *)
LEMMA NotLocked ==
    ASSUME IInv, NEW s \in Suppliers,
           \A f \in Frames(stack) : f.call \in Busy => f.s # s
    PROVE  workStatus[s] # WS_LOCKED
  BY DEF IInv, LockedOnlyInCall, InProduction, InInitialization, Frames, Busy, Producing

(* What a call awaits and has read.  *)
LEMMA AwaitsAndRead ==
    ASSUME NEW f \in Frame
    PROVE  /\ f.call = "read" => Awaits(f) = {f.input}
           /\ f.call = "tested" => Awaits(f) = {f.s}
           /\ f.call \notin {"read", "tested"} => Awaits(f) = {}
           /\ f.call \notin Producing => Read(f) = {}
           /\ f.call = "produce" => Read(f) = Inputs[f.s] \ f.todo
           /\ f.call = "read" => Read(f) = (Inputs[f.s] \ f.todo) \ {f.input}
  BY DEF Awaits, Read, Producing

(* While no change is being announced, nobody downstream of a supplier that is not  *)
(* settled trusts its own result.                                                   *)
LEMMA NobodyTrusts ==
    ASSUME TrustHeld, \A f \in Frames(stack) : f.call # "before", NEW s \in Suppliers,
           ~Settled(s) \/ \A c \in Consumers(s) : ~Trusted(c)
    PROVE  \A d \in Downstream(s) : ~Trusted(d)
  <1> DEFINE S == {d \in Suppliers : ~Trusted(d)}
  <1>1. \A e \in Suppliers : \A i \in Inputs[e] : Trusted(e) => Settled(i)
    BY DEF TrustHeld, Pending
  <1>2. Consumers(s) \subseteq S
    BY <1>1 DEF Consumers
  <1>3. \A e \in S : Consumers(e) \subseteq S
    BY <1>1 DEF Consumers, Settled
  <1>4. S \in SUBSET Suppliers
    OBVIOUS
  <1> HIDE DEF S
  <1>5. Downstream(s) \subseteq S
    BY <1>2, <1>3, <1>4, DownstreamLeast
  <1>6. QED
    BY <1>5 DEF S

(* A call whose change is announced works below every other.  *)
LEMMA WorkLowest ==
    ASSUME Stacked(stack), Layered(stack),
           NEW g \in Frames(stack), g.call = "work",
           NEW f \in Frames(stack), f.call \in Busy, f # g
    PROVE  Level[g.s] < Level[f.s]
  <1>1. PICK k \in DOMAIN stack : f = stack[k]
    BY DEF Frames
  <1>2. PICK l \in DOMAIN stack : g = stack[l]
    BY DEF Frames
  <1>3. k \in Nat /\ l \in Nat /\ k # l
    BY <1>1, <1>2 DEF Stacked
  <1>4. ~(k < l)
    BY <1>1, <1>2 DEF Layered, Announcing, Busy, Producing
  <1>5. l < k
    BY <1>3, <1>4
  <1>6. QED
    BY <1>1, <1>2, <1>5 DEF Stacked, Over, Busy

(* What is demanded downstream of an initialization is being initialized itself.  *)
LEMMA Apart ==
    ASSUME IInv, Shape, SeparateInputs,
           NEW f \in Frames(stack), f.call \in Initialization,
           NEW g \in Frames(stack), NEW v \in Demands(g), v \in Reach(f.s)
    PROVE  workStatus[v] = WS_LOCKED
  <1>1. /\ f \in Frame /\ g \in Frame /\ f.s \in Suppliers /\ g.s \in Suppliers
        /\ WellFormed(g)
    BY FramesFit DEF IInv, Frame
  <1>2. v \in Suppliers /\ Level[f.s] <= Level[v]
    BY <1>1, ReachFurther
  <1>3. Level[f.s] \in Nat /\ Level[g.s] \in Nat /\ Level[v] \in Nat
    BY <1>1, <1>2, AcyclicAssumption
  <1>4. g.call \in Busy \cup {"testFinish"}
    BY <1>1, DemandsOf
  <1>5. g.call \in Busy => v \in Inputs[g.s] /\ Level[v] < Level[g.s]
    <2>1. g.call \in Busy => v \in Inputs[g.s]
      BY <1>1, DemandsOf DEF Busy, Producing, WellFormed
    <2>2. QED
      BY <1>1, <2>1, AcyclicAssumption
  <1>6. /\ g.call \in Producing => Level[g.s] < Level[f.s]
        /\ (g.call = "init" /\ Level[f.s] < Level[g.s]) \/ g.call = "testFinish"
               => AskedBy(g, f.s)
    BY DEF Shape, InitializationsAsked
  <1>7. g.call \in {"init", "testFinish"}
    <2>1. g.call = "work" /\ f # g => Level[g.s] < Level[f.s]
      BY WorkLowest DEF IInv, Shape, Initialization, Busy
    <2>2. g.call # "work"
      BY <1>2, <1>3, <1>5, <2>1 DEF Busy
    <2>3. g.call \notin Producing
      BY <1>2, <1>3, <1>5, <1>6 DEF Busy
    <2>4. QED
      BY <1>4, <2>2, <2>3 DEF Busy
  <1>8. PICK c \in Demands(g) : workStatus[c] = WS_LOCKED /\ c \in Reach(f.s)
    <2>1. AskedBy(g, f.s)
      BY <1>2, <1>3, <1>5, <1>6, <1>7 DEF Busy
    <2>2. QED
      BY <2>1 DEF AskedBy
  <1>9. c = v
    <2>1. CASE g.call = "init"
      <3>1. c \in Inputs[g.s]
        BY <1>1, <2>1, DemandsOf
      <3>2. QED
        BY <1>1, <1>5, <1>8, <2>1, <3>1 DEF SeparateInputs, Busy
    <2>2. CASE g.call = "testFinish"
      BY <1>1, <2>2, DemandsOf
    <2>3. QED
      BY <1>7, <2>1, <2>2
  <1>10. QED
    BY <1>8, <1>9

(* No work is left initialized downstream of an initialization.  *)
LEMMA NoInitialDownstream ==
    ASSUME IInv, Shape, SeparateInputs, InitialsDemanded,
           NEW f \in Frames(stack), f.call \in Initialization, NEW u \in Reach(f.s)
    PROVE  workStatus[u] # WS_INIT
  <1>1. f.s \in Suppliers
    BY FramesFit DEF IInv, Frame
  <1>2. u \in Suppliers /\ Reach(u) \subseteq Reach(f.s)
    BY <1>1, ReachFurther
  <1>3. SUFFICES ASSUME workStatus[u] = WS_INIT
                 PROVE  FALSE
    OBVIOUS
  <1>4. PICK v \in Reach(u), g \in Frames(stack) : workStatus[v] = WS_INIT /\ v \in Demands(g)
    BY <1>2, <1>3 DEF InitialsDemanded
  <1>5. workStatus[v] = WS_LOCKED
    BY <1>2, <1>4, Apart
  <1>6. QED
    BY <1>4, <1>5 DEF WS_INIT, WS_LOCKED

(* Where no call demands anything, no work is initialized.  *)
LEMMA NoneInitial ==
    ASSUME InitialsDemanded, \A f \in Frames(stack) : Demands(f) = {}
    PROVE  \A u \in Suppliers : workStatus[u] # WS_INIT
  BY DEF InitialsDemanded

(* What a call may rely on stays, if fresh suppliers stay fresh and settled ones settled.  *)
LEMMA ReliesKept ==
    ASSUME NEW f \in Frame, Relies(f),
           f.call \notin {"edit", "clear", "trigger"},
           \A i \in Suppliers : Fresh(i) => Fresh(i)',
           \A i \in Suppliers :
               Settled(i) => Settled(i)' /\ lastWorkState'[i] = lastWorkState[i],
           \A i \in Suppliers :
               InProduction(i) \/ Answered(i) => InProduction(i)' \/ Answered(i)',
           f.call \in Producing =>
               /\ areParametersValid[f.s] => areParametersValid'[f.s]
               /\ notifierOpen'[f.s] => notifierOpen[f.s]
               /\ Trusted(f.s)' => Trusted(f.s)
    PROVE  Relies(f)'
  <1>1. /\ Demands(f) \subseteq Suppliers
        /\ Awaits(f) \subseteq Suppliers
        /\ Read(f) \subseteq Suppliers
    <2>1. f.s \in Suppliers /\ f.input \in Suppliers /\ Inputs[f.s] \subseteq Suppliers
      BY NetworkAssumption DEF Frame
    <2>2. QED
      BY <2>1, DemandsOf, AwaitsAndRead DEF Read
  <1>2. \A i \in Demands(f) : Fresh(i)'
    BY <1>1 DEF Relies
  <1>3. \A i \in Awaits(f) : InProduction(i)' \/ Answered(i)'
    BY <1>1 DEF Relies
  <1>4. \A i \in Read(f) : Settled(i)' /\ (f.got # "null" => lastWorkState'[i] = WS_OK)
    BY <1>1 DEF Relies
  <1>5. f.call \in Producing =>
            areParametersValid'[f.s] /\ ~notifierOpen'[f.s] /\ ~Trusted(f.s)'
    BY DEF Relies
  <1>6. QED
    BY <1>2, <1>3, <1>4, <1>5 DEF Relies

(* Trust that nobody has won and no settled supplier lost still holds.  *)
LEMMA TrustKept ==
    ASSUME TrustHeld, \A f \in Frames(stack) : f.call # "before",
           \A i \in Suppliers : Trusted(i)' => Trusted(i),
           \A i \in Suppliers : Settled(i) => Settled(i)'
    PROVE  TrustHeld'
  <1>1. \A e \in Suppliers : \A i \in Inputs[e] : i \in Suppliers
    BY NetworkAssumption
  <1>2. \A e \in Suppliers : \A i \in Inputs[e] : Trusted(e) => Settled(i)
    BY DEF TrustHeld, Pending
  <1>3. \A e \in Suppliers : \A i \in Inputs[e] : Trusted(e)' => Settled(i)'
    BY <1>1, <1>2
  <1>4. QED
    BY <1>3 DEF TrustHeld

(* Initialized work that was initialized before is still ready.  *)
LEMMA ReadyKept ==
    ASSUME InitialsReady,
           \A i \in Suppliers : Fresh(i) => Fresh(i)',
           \A u \in Suppliers :
               workStatus'[u] = WS_INIT =>
                   /\ workStatus[u] = WS_INIT
                   /\ areParametersValid[u] => areParametersValid'[u]
                   /\ notifierOpen'[u] => notifierOpen[u]
    PROVE  InitialsReady'
  <1>1. \A e \in Suppliers : \A i \in Inputs[e] : i \in Suppliers
    BY NetworkAssumption
  <1>2. QED
    BY <1>1 DEF InitialsReady

(* EnsureWorkFinished of a fresh supplier takes no trust away and gives none.  *)
LEMMA FinishKeeps ==
    ASSUME IInv, NEW s \in Suppliers, Fresh(s), workStatus[s] # WS_LOCKED,
           UNCHANGED <<lastWorkState, notifierOpen>>,
           MustProduce(s) =>
               /\ \A x \in Suppliers :
                     workStatus'[x] = IF x = s THEN WS_LOCKED ELSE workStatus[x]
               /\ isInputValid' = isInputValid,
           ~MustProduce(s) =>
               /\ \A x \in Suppliers :
                     workStatus'[x] = IF x = s THEN lastWorkState[s] ELSE workStatus[x]
               /\ \A x \in Suppliers : isInputValid'[x] <=> (x = s \/ isInputValid[x])
    PROVE  /\ \A i \in Suppliers : Trusted(i)' <=> Trusted(i)
           /\ \A i \in Suppliers : Settled(i) => Settled(i)'
           /\ \A i \in Suppliers : Fresh(i) => Fresh(i)'
           /\ \A i \in Suppliers : i # s => (Answered(i) => Answered(i)')
           /\ ~MustProduce(s) => Answered(s)' /\ Trusted(s)
  <1>1. \A x \in Suppliers :
           x # s => /\ isInputValid'[x] <=> isInputValid[x]
                    /\ notifierOpen'[x] <=> notifierOpen[x]
                    /\ workStatus'[x] = workStatus[x]
                    /\ lastWorkState'[x] = lastWorkState[x]
    BY Zenon
  <1>2. ASSUME NEW i \in Suppliers, i # s
        PROVE  /\ Trusted(i)' <=> Trusted(i)
               /\ Settled(i)' <=> Settled(i)
               /\ Answered(i)' <=> Answered(i)
               /\ Fresh(i)' <=> Fresh(i)
    BY <1>1, <1>2, SameTrust
  <1>3. CASE MustProduce(s)
    <2>1. Trusted(s)' <=> Trusted(s)
      BY <1>3 DEF Trusted
    <2>2. ~Settled(s)
      BY <1>3 DEF MustProduce, Settled
    <2>3. Fresh(s)'
      BY <1>3 DEF Fresh
    <2>4. QED
      BY <1>2, <1>3, <2>1, <2>2, <2>3
  <1>4. CASE ~MustProduce(s)
    <2>1. Trusted(s) /\ ~notifierOpen[s]
      <3>1. lastWorkState[s] \in Int
        BY DEF IInv, TypeOK, WorkStatus, WS_INVALID, WS_FAILED
      <3>2. CASE workStatus[s] = WS_INIT /\ ~notifierOpen[s]
        BY <1>4, <3>1, <3>2 DEF MustProduce, Trusted, WS_INIT
      <3>3. CASE Settled(s)
        BY <3>3 DEF Settled
      <3>4. QED
        BY <3>2, <3>3 DEF Fresh
    <2>2. isInputValid'[s] /\ ~notifierOpen'[s] /\ workStatus'[s] = lastWorkState'[s]
      BY <1>4, <2>1
    <2>3. Trusted(s)'
      BY <2>1, <2>2 DEF Trusted
    <2>4. workStatus'[s] # WS_INIT
      BY <2>2, <2>3 DEF Trusted, WS_INIT
    <2>5. Settled(s)' /\ Answered(s)' /\ Fresh(s)'
      BY <2>2, <2>3, <2>4 DEF Settled, Answered, Fresh
    <2>6. QED
      BY <1>2, <2>1, <2>3, <2>5
  <1>5. QED
    BY <1>3, <1>4

(* What is demanded downstream of the demanding call is demanded of it as well.  *)
LEMMA OtherWitness ==
    ASSUME IInv, TrustInv, \A h \in Frames(stack) : h.call # "before",
           NEW s \in Suppliers, workStatus[s] = WS_INIT, Below(s, Frames(stack)),
           NEW u \in Suppliers, workStatus[u] = WS_INIT, u # s, s \in Reach(u)
    PROVE  /\ ~Trusted(s)
           /\ \E j \in Inputs[s] : j \in Reach(u) /\ j \in Suppliers /\ workStatus[j] = WS_INIT
  <1>1. ~Settled(u)
    BY DEF Settled
  <1>2. \A d \in Downstream(u) : ~Trusted(d)
    BY <1>1, NobodyTrusts DEF TrustInv
  <1>3. s \in Downstream(u)
    BY DEF Reach
  <1>4. PICK j \in Inputs[s] : j \in Reach(u)
    BY <1>3, ReachLast
  <1>5. j \in Suppliers /\ Level[j] < Level[s] /\ Level[j] \in Nat /\ Level[s] \in Nat
    BY NetworkAssumption, AcyclicAssumption
  <1>6. ~Settled(j)
    <2>1. CASE j = u
      BY <1>1, <2>1
    <2>2. CASE j # u
      BY <1>2, <1>4, <2>2 DEF Reach, Settled
    <2>3. QED
      BY <2>1, <2>2
  <1>7. workStatus[j] # WS_LOCKED
    <2>1. ASSUME NEW h \in Frames(stack), h.call \in Busy
          PROVE  h.s # j
      <3>1. Level[s] < Level[h.s]
        BY <2>1 DEF Below
      <3>2. QED
        BY <1>5, <3>1
    <2>2. QED
      BY <1>5, <2>1, NotLocked
  <1>8. Fresh(j)
    BY DEF TrustInv, InitialsReady
  <1>9. workStatus[j] = WS_INIT
    BY <1>6, <1>7, <1>8 DEF Fresh
  <1>10. QED
    BY <1>2, <1>3, <1>4, <1>5, <1>9

(* The calls of W0 may rely on what they do, apart from what s will answer.  *)
ReadyBut(W0, s) ==
    \A f \in W0 :
        /\ \A i \in Demands(f) : Fresh(i)
        /\ \A i \in Awaits(f) : i = s \/ InProduction(i) \/ Answered(i)
        /\ \A i \in Read(f) : Settled(i) /\ (f.got # "null" => lastWorkState[i] = WS_OK)
        /\ f.call \in Producing =>
               areParametersValid[f.s] /\ ~notifierOpen[f.s] /\ ~Trusted(f.s)
        /\ f.call \in Initialization =>
               \E g \in W0 : g.call \in {"init", "testFinish"} /\ f.s \in Demands(g)

(* W0 still demands and produces what the calls on the stack do, apart from s.  *)
Continues(W0, s) ==
    /\ \A h \in Frames(stack) : \A v \in Demands(h) : v = s \/ \E g \in W0 : v \in Demands(g)
    /\ \A i : InProduction(i) => \E g \in W0 : g.s = i /\ g.call \in Producing

(* EnsureWorkFinished of a fresh supplier keeps the trust justified.  *)
LEMMA FinishTrust ==
    ASSUME IInv, TrustInv, \A h \in Frames(stack) : h.call # "before",
           NEW s \in Suppliers, NEW below \in Seq(Frame), Layered(below), Fresh(s),
           ShapeBelow(Frames(below)), Below(s, Frames(below)), Below(s, Frames(stack)),
           ReadyBut(Frames(below), s), Continues(Frames(below), s),
           CallEnsureWorkFinished(s, below),
           UNCHANGED <<lastWorkState, areParametersValid, notifierOpen>>
    PROVE  TrustInv'
  <1> DEFINE W  == Frames(stack)
             W0 == Frames(below)
             W2 == Frames(stack')
             f0 == F("produce", s, Inputs[s])
  <1>1. /\ f0 \in Frame /\ f0.call = "produce" /\ f0.s = s /\ f0.todo = Inputs[s]
        /\ Inputs[s] \subseteq Suppliers
    BY FrameFields, NetworkAssumption DEF Calls
  <1>2. /\ Layered(stack')
        /\ MustProduce(s) =>
              /\ W2 = {f0} \cup W0
              /\ \A x \in Suppliers :
                    workStatus'[x] = IF x = s THEN WS_LOCKED ELSE workStatus[x]
              /\ isInputValid' = isInputValid
        /\ ~MustProduce(s) =>
              /\ W2 = W0
              /\ \A x \in Suppliers :
                    workStatus'[x] = IF x = s THEN lastWorkState[s] ELSE workStatus[x]
              /\ \A x \in Suppliers : isInputValid'[x] <=> (x = s \/ isInputValid[x])
    <2>1. Covers("produce", W0) /\ TypeOK
      BY DEF ShapeBelow, Covers, Announcing, IInv
    <2>2. CASE MustProduce(s)
      BY <2>1, <2>2, FinishEffect
    <2>3. CASE ~MustProduce(s)
      BY <2>1, <2>3, FinishEffect
    <2>4. QED
      BY <2>2, <2>3
  <1>3. workStatus[s] # WS_LOCKED
    <2>1. ASSUME NEW h \in W, h.call \in Busy
          PROVE  h.s # s
      <3>1. Level[s] < Level[h.s] /\ Level[s] \in Nat
        BY <2>1, AcyclicAssumption DEF Below
      <3>2. QED
        BY <3>1
    <2>2. QED
      BY <2>1, NotLocked
  <1>4. /\ \A i \in Suppliers : Trusted(i)' <=> Trusted(i)
        /\ \A i \in Suppliers : Settled(i) => Settled(i)'
        /\ \A i \in Suppliers : Fresh(i) => Fresh(i)'
        /\ \A i \in Suppliers : i # s => (Answered(i) => Answered(i)')
        /\ ~MustProduce(s) => Answered(s)' /\ Trusted(s)
    <2>1. CASE MustProduce(s)
      BY <1>2, <1>3, <2>1, FinishKeeps
    <2>2. CASE ~MustProduce(s)
      BY <1>2, <1>3, <2>2, FinishKeeps
    <2>3. QED
      BY <2>1, <2>2
  <1>5. \A u \in Suppliers : workStatus'[u] = WS_INIT => u # s /\ workStatus[u] = WS_INIT
    <2>1. lastWorkState[s] # WS_INIT
      BY DEF IInv, LastWorkDone, WS_INVALID, WS_INIT, WS_OK, WS_CANCELED, WS_FAILED
    <2>2. QED
      BY <1>2, <2>1 DEF WS_LOCKED, WS_INIT
  <1> HIDE DEF f0, W0, W2
  <1>6. W0 \subseteq W2 /\ W2 \subseteq {f0} \cup W0 /\ (MustProduce(s) => f0 \in W2)
    BY <1>2
  <1>7. \A g \in W0 : g \in Frame /\ g.call \notin Start \cup {"before", "work", "after"}
    BY DEF ShapeBelow, W0
  <1>8. TrustHeld'
    BY <1>4, TrustKept DEF TrustInv
  <1>9. InitialsReady'
    BY <1>4, <1>5, ReadyKept DEF TrustInv
  <1>10. ASSUME NEW u \in Suppliers, workStatus'[u] = WS_INIT
         PROVE  \E v \in Reach(u), f \in W2 : workStatus'[v] = WS_INIT /\ v \in Demands(f)
    <2>1. u # s /\ workStatus[u] = WS_INIT
      BY <1>5, <1>10
    <2>2. PICK v \in Reach(u), h \in W : workStatus[v] = WS_INIT /\ v \in Demands(h)
      BY <2>1 DEF TrustInv, InitialsDemanded
    <2>3. v \in Suppliers
      BY <2>2, ReachFurther
    <2>4. CASE v # s
      <3>1. \E g \in W0 : v \in Demands(g)
        BY <2>2, <2>4 DEF Continues, W0
      <3>2. workStatus'[v] = WS_INIT
        BY <1>2, <2>2, <2>3, <2>4
      <3>3. QED
        BY <1>6, <2>2, <3>1, <3>2
    <2>5. CASE v = s
      <3>1. /\ ~Trusted(s)
            /\ \E j \in Inputs[s] : j \in Reach(u) /\ j \in Suppliers /\ workStatus[j] = WS_INIT
        BY <2>1, <2>2, <2>5, OtherWitness
      <3>2. MustProduce(s)
        BY <1>4, <3>1
      <3>3. PICK j \in Inputs[s] : j \in Reach(u) /\ j \in Suppliers /\ workStatus[j] = WS_INIT
        BY <3>1
      <3>4. j # s
        BY <3>3, AcyclicAssumption
      <3>5. workStatus'[j] = WS_INIT
        BY <1>2, <3>2, <3>3, <3>4
      <3>6. j \in Demands(f0)
        BY <1>1, <3>3, DemandsOf DEF Producing
      <3>7. QED
        BY <1>6, <3>2, <3>3, <3>5, <3>6
    <2>6. QED
      BY <2>4, <2>5
  <1>11. ASSUME NEW f \in W2, f.call \in Initialization
         PROVE  \E g \in W2 : g.call \in {"init", "testFinish"} /\ f.s \in Demands(g)
    <2>1. f \in W0
      BY <1>1, <1>6, <1>11 DEF Initialization
    <2>2. QED
      BY <1>6, <1>11, <2>1 DEF ReadyBut, W0
  <1>12. AfterFresh'
    <2>1. \A f \in W2 : f.call # "after"
      BY <1>1, <1>6, <1>7
    <2>2. ~Running("after")'
      <3>1. SUFFICES ASSUME Running("after")'
                     PROVE  FALSE
        OBVIOUS
      <3>2. stack' \in Seq(Frame)
        <4>1. <<f0>> \o below \in Seq(Frame)
          BY <1>1, Push
        <4>2. QED
          BY <4>1 DEF CallEnsureWorkFinished, f0
      <3>3. Head(stack') \in W2
        BY <3>1, <3>2 DEF Running, Frames, W2
      <3>4. QED
        BY <2>1, <3>1, <3>3 DEF Running
    <2>3. QED
      BY <2>2 DEF AfterFresh
  <1>13. InProduction(s)' \/ Answered(s)'
    <2>1. MustProduce(s) => InProduction(s)'
      BY <1>1, <1>6, ProductionFrames DEF Producing, W2
    <2>2. QED
      BY <1>4, <2>1
  <1>14. \A i \in Suppliers :
            i = s \/ InProduction(i) \/ Answered(i) => InProduction(i)' \/ Answered(i)'
    <2>1. \A i \in Suppliers : InProduction(i) => InProduction(i)'
      BY <1>6, ProductionFrames DEF Continues, W0, W2
    <2>2. QED
      BY <1>4, <1>13, <2>1
  <1>15. ASSUME NEW f \in W2
         PROVE  Relies(f)'
    <2>1. CASE f \in W0
      <3>1. f \in Frame /\ f.call \notin {"edit", "clear", "trigger"}
        BY <1>7, <2>1 DEF Start
      <3>2. /\ Demands(f) \subseteq Suppliers
            /\ Awaits(f) \subseteq Suppliers
            /\ Read(f) \subseteq Suppliers
            /\ f.s \in Suppliers
        BY <3>1, DemandsOf, AwaitsAndRead, NetworkAssumption DEF Read, Frame
      <3>3. \A i \in Demands(f) : Fresh(i)'
        BY <1>4, <2>1, <3>2 DEF ReadyBut, W0
      <3>4. \A i \in Awaits(f) : InProduction(i)' \/ Answered(i)'
        BY <1>14, <2>1, <3>2 DEF ReadyBut, W0
      <3>5. \A i \in Read(f) : Settled(i)' /\ (f.got # "null" => lastWorkState'[i] = WS_OK)
        BY <1>4, <2>1, <3>2 DEF ReadyBut, W0
      <3>6. f.call \in Producing =>
                areParametersValid'[f.s] /\ ~notifierOpen'[f.s] /\ ~Trusted(f.s)'
        BY <1>4, <2>1, <3>2 DEF ReadyBut, W0
      <3>7. QED
        BY <3>1, <3>3, <3>4, <3>5, <3>6 DEF Relies
    <2>2. CASE f = f0 /\ MustProduce(s)
      <3>1. workStatus[s] = WS_INIT
        BY <2>2 DEF MustProduce
      <3>2. areParametersValid[s] /\ ~notifierOpen[s] /\ \A i \in Inputs[s] : Fresh(i)
        BY <3>1 DEF TrustInv, InitialsReady
      <3>3. ~Trusted(s)
        <4>1. lastWorkState[s] \in Int
          BY DEF IInv, TypeOK, WorkStatus, WS_INVALID, WS_FAILED
        <4>2. QED
          BY <2>2, <4>1 DEF MustProduce, Trusted, WS_INIT
      <3>4. Demands(f0) = Inputs[s] /\ Awaits(f0) = {} /\ Read(f0) = {}
        BY <1>1, DemandsOf, AwaitsAndRead DEF Producing
      <3>5. QED
        BY <1>1, <1>4, <2>2, <3>2, <3>3, <3>4 DEF Relies
    <2>3. QED
      BY <1>2, <2>1, <2>2 DEF W2
  <1>16. QED
    BY <1>8, <1>9, <1>10, <1>11, <1>12, <1>15
       DEF TrustInv, InitialsDemanded, InitializationsWanted, W2

(* Under a call that announces nothing, nothing is being announced.  *)
LEMMA NothingAnnounced ==
    ASSUME IInv, Shape, NEW call, Running(call), call # "before"
    PROVE  \A h \in Frames(stack) : h.call # "before"
  <1>1. Stacked(stack)
    BY DEF IInv
  <1>2. /\ Frames(stack) = {Head(stack)} \cup Frames(Tail(stack))
        /\ Head(stack).call = call
    BY <1>1, TopFrames DEF Shape
  <1>3. QED
    BY <1>1, <1>2, QuietBelow

(* The calls an observer or a production was nested in go on as before.  *)
LEMMA RestReady ==
    ASSUME IInv, Shape, TrustInv, NEW call, Running(call), call \in {"after"} \cup Producing,
           NEW s \in Suppliers
    PROVE  ReadyBut(Frames(Tail(stack)), s)
  <1> DEFINE rest == Frames(Tail(stack))
  <1>1. Stacked(stack)
    BY DEF IInv
  <1>2. Frames(stack) = {Head(stack)} \cup rest /\ Head(stack).call = call
    BY <1>1, TopFrames DEF Shape
  <1>3. Head(stack).call \notin {"init", "testFinish"}
    BY <1>2 DEF Producing
  <1>4. \A f \in rest : Relies(f)
    BY <1>2 DEF TrustInv
  <1>5. \A f \in rest :
           f.call \in Initialization =>
               \E g \in rest : g.call \in {"init", "testFinish"} /\ f.s \in Demands(g)
    BY <1>2, <1>3 DEF TrustInv, InitializationsWanted
  <1>6. QED
    BY <1>4, <1>5 DEF ReadyBut, Relies

(* With no call under way but AfterUpdate, and no work initialized, there is only the  *)
(* trust to justify.                                                                   *)
LEMMA IdleTrust ==
    ASSUME \A f \in Frames(stack') : f.call = "after",
           AfterFresh', TrustHeld', \A u \in Suppliers : workStatus'[u] # WS_INIT
    PROVE  TrustInv'
  <1>1. InitialsReady' /\ InitialsDemanded'
    BY DEF InitialsReady, InitialsDemanded
  <1>2. InitializationsWanted'
    BY DEF InitializationsWanted, Initialization
  <1>3. ASSUME NEW f, f.call = "after"
        PROVE  Demands(f) = {} /\ Awaits(f) = {} /\ Read(f) = {} /\ f.call \notin Producing
    BY <1>3 DEF Demands, Awaits, Read, Producing
  <1>4. \A f \in Frames(stack') : Relies(f)'
    BY <1>3 DEF Relies
  <1>5. QED
    BY <1>1, <1>2, <1>4 DEF TrustInv

(* An observer reads.  *)
LEMMA ObserverReadsTrust ==
    ASSUME IInv, Shape, TrustInv, ObserverReads
    PROVE  TrustInv'
  <1> DEFINE s    == Head(stack).s
             top  == Head(stack)
             rest == Frames(Tail(stack))
  <1>1. /\ Running("after") /\ Stacked(stack) /\ CallEnsureWorkFinished(s, Tail(stack))
        /\ UNCHANGED <<lastWorkState, areParametersValid, notifierOpen>>
    BY DEF ObserverReads, IInv
  <1>2. /\ top \in Frame /\ top.call = "after" /\ s \in Suppliers
        /\ Frames(stack) = {top} \cup rest /\ Below(s, rest)
    BY <1>1, TopFrames DEF Shape
  <1>3. /\ ShapeBelow(rest) /\ Tail(stack) \in Seq(Frame) /\ Layered(Tail(stack))
        /\ \A h \in Frames(stack) : h.call # "before"
    BY <1>1, RestShape, NothingAnnounced
  <1>4. Below(s, Frames(stack))
    BY <1>2 DEF Below, Busy, Producing
  <1>5. Demands(top) = {} /\ ~(top.call \in Producing)
    BY <1>2, DemandsOf DEF Busy, Producing
  <1>6. CASE Fresh(s)
    <2>1. ReadyBut(rest, s)
      BY <1>1, <1>2, RestReady
    <2>2. Continues(rest, s)
      BY <1>2, <1>5, ProductionFrames DEF Continues
    <2>3. QED
      BY <1>1, <1>2, <1>3, <1>4, <1>6, <2>1, <2>2, FinishTrust
  <1>7. CASE ~Fresh(s)
    <2>1. lastWorkState[s] = WS_INVALID /\ Tail(stack) = <<>> /\ rest = {}
      BY <1>1, <1>7, FramesEmpty DEF TrustInv, AfterFresh
    <2>2. \A u \in Suppliers : workStatus[u] # WS_INIT
      BY <1>2, <1>5, <2>1, NoneInitial DEF TrustInv
    <2>3. /\ stack' = <<>>
          /\ \A x \in Suppliers :
                workStatus'[x] = IF x = s THEN lastWorkState[s] ELSE workStatus[x]
          /\ \A x \in Suppliers : isInputValid'[x] <=> (x = s \/ isInputValid[x])
      <3>1. Covers("produce", rest) /\ TypeOK
        BY <2>1 DEF Covers, IInv
      <3>2. ~MustProduce(s)
        BY <1>2, <2>2 DEF MustProduce
      <3>3. QED
        BY <1>1, <1>2, <1>3, <2>1, <3>1, <3>2, FinishEffect
    <2>4. \A u \in Suppliers : workStatus'[u] # WS_INIT
      BY <2>1, <2>2, <2>3 DEF WS_INVALID, WS_INIT
    <2>5. ASSUME NEW i \in Suppliers
          PROVE  (Trusted(i)' <=> Trusted(i)) /\ (Settled(i) => Settled(i)')
      <3>1. CASE i # s
        BY Zenon, <1>1, <2>3, <2>5, <3>1, SameTrust
      <3>2. CASE i = s
        BY <1>1, <2>1, <3>2 DEF Trusted, Settled, WS_INVALID, WS_INIT
      <3>3. QED
        BY <3>1, <3>2
    <2>6. TrustHeld'
      BY <1>3, <2>5, TrustKept DEF TrustInv
    <2>7. AfterFresh' /\ \A f \in Frames(stack') : f.call = "after"
      BY <2>3, FramesEmpty DEF AfterFresh, Running
    <2>8. QED
      BY <2>4, <2>6, <2>7, IdleTrust
  <1>8. QED
    BY <1>6, <1>7

(* DoTest asks for the result.  *)
LEMMA TestFinishTrust ==
    ASSUME IInv, Shape, TrustInv, TestFinish
    PROVE  TrustInv'
  <1> DEFINE s   == Head(stack).s
             top == Head(stack)
             f   == F("tested", s, top.todo)
  <1>1. /\ Running("testFinish") /\ Stacked(stack)
        /\ CallEnsureWorkFinished(s, <<f>> \o Tail(stack))
        /\ UNCHANGED <<lastWorkState, areParametersValid, notifierOpen>>
    BY DEF TestFinish, IInv
  <1>2. /\ top \in Frame /\ top.call = "testFinish" /\ s \in Suppliers
        /\ top.todo \in SUBSET Suppliers
        /\ Frames(stack) = {top} /\ Tail(stack) = <<>>
    BY <1>1, TopFrames DEF Shape, ClientCalls
  <1>3. f \in Frame /\ f.call = "tested" /\ f.s = s
    BY <1>2, FrameFields DEF Calls
  <1> HIDE DEF f
  <1>4. /\ <<f>> \in Seq(Frame) /\ <<f>> = <<f>> \o <<>>
        /\ Frames(<<f>>) = {f} /\ Layered(<<f>>)
        /\ ShapeBelow({f}) /\ Below(s, {f})
    BY <1>3, ClientFrames DEF ClientCalls, Start
  <1>5. Below(s, Frames(stack)) /\ \A h \in Frames(stack) : h.call # "before"
    BY <1>2 DEF Below, Busy, Producing
  <1>6. Demands(top) = {s} /\ Demands(f) = {} /\ Awaits(f) = {s} /\ Read(f) = {}
    BY <1>2, <1>3, DemandsOf, AwaitsAndRead DEF Busy, Producing
  <1>7. Fresh(s)
    BY <1>2, <1>6 DEF TrustInv, Relies
  <1>8. ReadyBut({f}, s)
    BY <1>3, <1>6 DEF ReadyBut, Producing, Initialization
  <1>9. Continues({f}, s)
    BY <1>2, <1>6, ProductionFrames DEF Continues, Producing
  <1>10. CallEnsureWorkFinished(s, <<f>>)
    BY <1>1, <1>2, <1>4
  <1>11. QED
    BY <1>1, <1>2, <1>4, <1>5, <1>7, <1>8, <1>9, <1>10, FinishTrust

(* A production asks an input for its result.  *)
LEMMA ReadInputTrust ==
    ASSUME IInv, Shape, TrustInv, ReadInput
    PROVE  TrustInv'
  <1> DEFINE top  == Head(stack)
             rest == Frames(Tail(stack))
  <1>1. PICK i \in top.todo, f \in Frame :
           /\ i \in Suppliers /\ i \in Inputs[top.s]
           /\ f.call = "read" /\ f.s = top.s /\ f.todo = top.todo \ {i}
           /\ f.input = i /\ f.got = top.got
           /\ <<f>> \o Tail(stack) \in Seq(Frame)
           /\ Frames(<<f>> \o Tail(stack)) = {f} \cup rest
           /\ Layered(<<f>> \o Tail(stack))
           /\ Below(i, {f} \cup rest)
           /\ CallEnsureWorkFinished(i, <<f>> \o Tail(stack))
    BY ReadInputEffect DEF Shape
  <1>2. /\ Running("produce") /\ Stacked(stack) /\ "produce" \in Producing
        /\ UNCHANGED <<lastWorkState, areParametersValid, notifierOpen>>
    BY DEF ReadInput, IInv, Producing
  <1>3. /\ top \in Frame /\ top.call = "produce" /\ top.s \in Suppliers
        /\ Frames(stack) = {top} \cup rest
    BY <1>2, TopFrames DEF Shape
  <1>4. \A h \in Frames(stack) : h.call # "before"
    BY <1>2, NothingAnnounced
  <1>5. ShapeBelow({f} \cup rest)
    BY <1>1, <1>2, ProductionGoesOn DEF Producing
  <1>6. /\ Demands(f) = top.todo \ {i} /\ Demands(top) = top.todo
        /\ Awaits(f) = {i} /\ Read(f) = (Inputs[top.s] \ (top.todo \ {i})) \ {i}
        /\ Read(top) = Inputs[top.s] \ top.todo
    BY <1>1, <1>3, DemandsOf, AwaitsAndRead DEF Producing
  <1>7. Relies(top)
    BY <1>3 DEF TrustInv
  <1>8. Fresh(i)
    BY <1>6, <1>7 DEF Relies
  <1>9. Below(i, Frames(stack))
    BY <1>1, <1>3 DEF Below, Busy, Producing
  <1>10. ReadyBut({f} \cup rest, i)
    <2>1. ReadyBut(rest, i)
      BY <1>1, <1>2, RestReady
    <2>2. /\ \A j \in Demands(f) : Fresh(j)
          /\ \A j \in Read(f) : Settled(j) /\ (f.got # "null" => lastWorkState[j] = WS_OK)
          /\ areParametersValid[f.s] /\ ~notifierOpen[f.s] /\ ~Trusted(f.s)
      BY <1>1, <1>2, <1>3, <1>6, <1>7 DEF Relies
    <2>3. QED
      BY <1>1, <1>6, <2>1, <2>2 DEF ReadyBut, Initialization
  <1>11. Continues({f} \cup rest, i)
    BY <1>1, <1>3, <1>6, ProductionFrames DEF Continues, Producing
  <1>12. QED
    BY <1>1, <1>2, <1>4, <1>5, <1>8, <1>9, <1>10, <1>11, FinishTrust

-----------------------------------------------------------------------------
(* Every step keeps the trust justified *)

(* Trust is the same everywhere as long as nobody changes its attributes.  *)
LEMMA SameAttributes ==
    ASSUME UNCHANGED <<isInputValid, notifierOpen, workStatus, lastWorkState>>
    PROVE  \A x : /\ Trusted(x)' <=> Trusted(x)
                  /\ Settled(x)' <=> Settled(x)
                  /\ Answered(x)' <=> Answered(x)
                  /\ Fresh(x)' <=> Fresh(x)
  BY SameTrust

(* A step leaves a stack of frames.  *)
LEMMA StackStays ==
    ASSUME IInv, Step
    PROVE  stack' \in Seq(Frame)
  <1>1. [Next]_vars
    BY DEF Next
  <1>2. TypeOK'
    BY <1>1, NextType DEF IInv
  <1>3. QED
    BY <1>2 DEF TypeOK

(* With no AfterUpdate under way there is nothing to be shown of one.  *)
LEMMA NoAfter ==
    ASSUME stack' \in Seq(Frame), \A f \in Frames(stack') : f.call # "after"
    PROVE  AfterFresh'
  <1>1. stack' # <<>> => Head(stack') \in Frames(stack')
    BY DEF Frames
  <1>2. QED
    BY <1>1 DEF AfterFresh, Running

(* Calls that neither await nor use a product rely on what they demand.  *)
LEMMA ReliesOnDemands ==
    ASSUME NEW f \in Frame,
           f.call \in {"init", "work", "before", "after", "testInit", "testFinish"},
           \A i \in Demands(f) : Fresh(i)'
    PROVE  Relies(f)'
  <1>1. f.call \notin Producing
    BY DEF Producing
  <1>2. Awaits(f) = {} /\ Read(f) = {}
    BY <1>1, AwaitsAndRead
  <1>3. QED
    BY <1>1, <1>2 DEF Relies

(* The calls may change, as long as they go on with what was demanded and awaited.  *)
LEMMA CallsGoOn ==
    ASSUME TrustInv, \A h \in Frames(stack) : h.call # "before",
           UNCHANGED attributes, stack' \in Seq(Frame),
           \A f \in Frames(stack') :
               f.call \notin {"before", "after", "edit", "clear", "trigger"},
           \A f \in Frames(stack') : f \in Frames(stack) \/ Relies(f),
           \A f \in Frames(stack') : f.call \in Initialization => f \in Frames(stack),
           \A h \in Frames(stack) : h.call \in {"init", "testFinish"} => h \in Frames(stack'),
           \A h \in Frames(stack) :
               h.call \in Producing =>
                   \E g \in Frames(stack') : g.s = h.s /\ g.call \in Producing,
           \A h \in Frames(stack) : \A v \in Demands(h) :
               \E g \in Frames(stack') : v \in Demands(g)
    PROVE  TrustInv'
  <1> DEFINE W2 == Frames(stack')
  <1>1. UNCHANGED <<isInputValid, notifierOpen, workStatus, lastWorkState, areParametersValid>>
    BY DEF attributes
  <1>2. \A x : /\ Trusted(x)' <=> Trusted(x)
               /\ Settled(x)' <=> Settled(x)
               /\ Answered(x)' <=> Answered(x)
               /\ Fresh(x)' <=> Fresh(x)
    BY <1>1, SameAttributes
  <1>3. TrustHeld'
    BY <1>2, TrustKept DEF TrustInv
  <1>4. InitialsReady'
    BY <1>1, <1>2, ReadyKept DEF TrustInv
  <1>5. InitialsDemanded'
    <2>1. ASSUME NEW u \in Suppliers, workStatus'[u] = WS_INIT
          PROVE  \E v \in Reach(u), g \in W2 : workStatus'[v] = WS_INIT /\ v \in Demands(g)
      <3>1. PICK v \in Reach(u), h \in Frames(stack) : workStatus[v] = WS_INIT /\ v \in Demands(h)
        BY <1>1, <2>1 DEF TrustInv, InitialsDemanded
      <3>2. \E g \in W2 : v \in Demands(g)
        BY <3>1
      <3>3. QED
        BY <1>1, <3>1, <3>2
    <2>2. QED
      BY <2>1 DEF InitialsDemanded
  <1>6. InitializationsWanted'
    BY DEF TrustInv, InitializationsWanted
  <1>7. AfterFresh'
    BY NoAfter
  <1>8. \A i : InProduction(i) => InProduction(i)'
    BY ProductionFrames
  <1>9. ASSUME NEW f \in W2
        PROVE  Relies(f)'
    <2>1. f \in Frame
      BY <1>9 DEF Frames
    <2>2. Relies(f)
      BY <1>9 DEF TrustInv
    <2>3. QED
      BY <1>1, <1>2, <1>8, <1>9, <2>1, <2>2, ReliesKept
  <1>10. QED
    BY <1>3, <1>4, <1>5, <1>6, <1>7, <1>9 DEF TrustInv

(* An observer looks elsewhere.  *)
LEMMA ObserverIgnoresTrust ==
    ASSUME IInv, Shape, TrustInv, ObserverIgnores
    PROVE  TrustInv'
  <1> DEFINE top  == Head(stack)
             rest == Frames(Tail(stack))
  <1>1. /\ Running("after") /\ Stacked(stack)
        /\ stack' = Tail(stack) /\ UNCHANGED attributes
    BY DEF ObserverIgnores, IInv
  <1>2. top \in Frame /\ top.call = "after" /\ Frames(stack) = {top} \cup rest
    BY <1>1, TopFrames DEF Shape
  <1>3. /\ ShapeBelow(rest) /\ Tail(stack) \in Seq(Frame)
        /\ \A h \in Frames(stack) : h.call # "before"
    BY <1>1, RestShape, NothingAnnounced
  <1>4. \A f \in rest : f.call \notin {"before", "after", "edit", "clear", "trigger"}
    BY <1>3 DEF ShapeBelow, Start
  <1>5. Demands(top) = {} /\ top.call \notin Producing \cup {"init", "testFinish"}
    BY <1>2, DemandsOf DEF Busy, Producing
  <1>6. QED
    BY <1>1, <1>2, <1>3, <1>4, <1>5, CallsGoOn

(* What a production gets of an input is the answer of its last work, and that a good one.  *)
LEMMA ReadIsAnswered ==
    ASSUME IInv, Shape, TrustInv, Running("read")
    PROVE  LET i == Head(stack).input
           IN  /\ Answered(i) /\ Trusted(i)
               /\ WorkProduct(i) # "null" => lastWorkState[i] = WS_OK
  <1> DEFINE top  == Head(stack)
             rest == Frames(Tail(stack))
             i    == top.input
  <1>1. /\ top \in Frame /\ top.call = "read" /\ top.s \in Suppliers /\ i \in Inputs[top.s]
        /\ Frames(stack) = {top} \cup rest /\ Below(top.s, rest) /\ rest \subseteq Frame
    <2>1. "read" \in Busy
      BY DEF Busy, Producing
    <2>2. QED
      BY <2>1, TopFrames DEF IInv, Shape, WellFormed
  <1>2. Awaits(top) = {i} /\ Relies(top)
    BY <1>1, AwaitsAndRead DEF TrustInv
  <1>3. Answered(i)
    <2>1. ~InProduction(i)
      <3>1. i \in Suppliers /\ Level[i] < Level[top.s] /\ Level[i] \in Nat /\ Level[top.s] \in Nat
        BY <1>1, NetworkAssumption, AcyclicAssumption
      <3>2. ASSUME NEW g \in Frames(stack), g.call \in Producing
            PROVE  g.s # i
        <4>1. g = top \/ (Level[top.s] < Level[g.s] /\ g.s \in Suppliers)
          BY <1>1, <3>2 DEF Below, Busy, Frame
        <4>2. QED
          BY <3>1, <4>1
      <3>3. QED
        BY <3>2, ProductionFrames
    <2>2. QED
      BY <1>2, <2>1 DEF Relies
  <1>4. Trusted(i)
    BY <1>3 DEF Answered, Settled
  <1>5. WorkProduct(i) # "null" => lastWorkState[i] = WS_OK
    <2>1. WorkProduct(i) # "null" => workStatus[i] <= WS_OK
      BY DEF WorkProduct
    <2>2. i \in Suppliers
      BY <1>1, NetworkAssumption
    <2>3. lastWorkState[i] \in {WS_INVALID, WS_OK, WS_CANCELED, WS_FAILED}
      BY <2>2 DEF IInv, LastWorkDone
    <2>4. workStatus[i] = lastWorkState[i] /\ lastWorkState[i] > WS_INIT
      BY <1>3 DEF Answered, Settled, Trusted
    <2>5. QED
      BY <2>1, <2>3, <2>4 DEF WS_INVALID, WS_INIT, WS_OK, WS_CANCELED, WS_FAILED
  <1>6. QED
    BY <1>3, <1>4, <1>5

(* A production takes the product of an input.  *)
LEMMA GotInputTrust ==
    ASSUME IInv, Shape, TrustInv, GotInput
    PROVE  TrustInv'
  <1> DEFINE top  == Head(stack)
             rest == Frames(Tail(stack))
             i    == top.input
  <1>1. Running("read") /\ Stacked(stack) /\ UNCHANGED attributes /\ "read" \in Producing
    BY DEF GotInput, IInv, Producing
  <1>2. /\ top \in Frame /\ top.call = "read" /\ top.s \in Suppliers /\ i \in Inputs[top.s]
        /\ Frames(stack) = {top} \cup rest /\ Below(top.s, rest) /\ rest \subseteq Frame
    BY <1>1, TopFrames DEF Shape, Busy, WellFormed
  <1>3. PICK f \in Frame :
           /\ f.call = "produce" /\ f.s = top.s /\ f.todo = top.todo
           /\ f.got = (IF top.got = "null" \/ WorkProduct(i) = "current"
                       THEN top.got ELSE WorkProduct(i))
           /\ Frames(stack') = {f} \cup rest
    BY GotInputEffect DEF Shape
  <1>4. /\ \A h \in Frames(stack) : h.call # "before"
        /\ ShapeBelow(rest)
    BY <1>1, NothingAnnounced, RestShape
  <1>5. stack' \in Seq(Frame)
    <2>1. Step
      BY DEF Step
    <2>2. QED
      BY <2>1, StackStays
  <1>6. \A g \in rest : g.call \notin {"before", "after", "edit", "clear", "trigger"}
    BY <1>4 DEF ShapeBelow, Start
  <1>7. /\ Demands(f) = top.todo /\ Demands(top) = top.todo
        /\ Awaits(f) = {} /\ Read(f) = Inputs[top.s] \ top.todo
        /\ Awaits(top) = {i} /\ Read(top) = (Inputs[top.s] \ top.todo) \ {i}
    BY <1>2, <1>3, DemandsOf, AwaitsAndRead DEF Producing
  <1>8. Relies(top)
    BY <1>2 DEF TrustInv
  <1>9. Answered(i)
    BY <1>1, ReadIsAnswered
  <1>10. WorkProduct(i) # "null" => lastWorkState[i] = WS_OK
    BY <1>1, ReadIsAnswered
  <1>11. f.got # "null" => top.got # "null" /\ WorkProduct(i) # "null"
    BY <1>3
  <1>12. Relies(f)
    <2>1. /\ \A j \in Demands(top) : Fresh(j)
          /\ \A j \in Read(top) : Settled(j) /\ (top.got # "null" => lastWorkState[j] = WS_OK)
          /\ areParametersValid[top.s] /\ ~notifierOpen[top.s] /\ ~Trusted(top.s)
      BY <1>1, <1>2, <1>8 DEF Relies
    <2>2. \A j \in Read(f) : j \in Read(top) \/ j = i
      BY <1>7
    <2>3. Settled(i)
      BY <1>9 DEF Answered
    <2>4. \A j \in Read(f) : Settled(j) /\ (f.got # "null" => lastWorkState[j] = WS_OK)
      BY <1>10, <1>11, <2>1, <2>2, <2>3
    <2>5. QED
      BY <1>3, <1>7, <2>1, <2>4 DEF Relies
  <1>13. QED
    <2>1. \A h \in Frames(stack') :
             /\ h.call \notin {"before", "after", "edit", "clear", "trigger"}
             /\ h \in Frames(stack) \/ Relies(h)
             /\ h.call \in Initialization => h \in Frames(stack)
      BY <1>2, <1>3, <1>6, <1>12 DEF Initialization
    <2>2. \A h \in Frames(stack) :
             /\ h.call \in {"init", "testFinish"} => h \in Frames(stack')
             /\ h.call \in Producing =>
                    \E g \in Frames(stack') : g.s = h.s /\ g.call \in Producing
             /\ \A v \in Demands(h) : \E g \in Frames(stack') : v \in Demands(g)
      BY <1>2, <1>3, <1>7 DEF Producing
    <2>3. QED
      BY <1>1, <1>4, <1>5, <2>1, <2>2, CallsGoOn

(* What EnsureWorkInitialized goes on to has not been initialized yet, by this call or  *)
(* through another way up the network.                                                  *)
LEMMA NotYetInitialized ==
    ASSUME IInv, Shape, SeparateInputs, InitialsDemanded, Running("init"),
           NEW i \in Head(stack).todo
    PROVE  MustInitialize(i) /\ workStatus[i] # WS_INIT
  <1> DEFINE top  == Head(stack)
             rest == Frames(Tail(stack))
  <1>1. "init" \in Initialization
    BY DEF Initialization
  <1>2. /\ top \in Frame /\ top.call = "init" /\ top.s \in Suppliers
        /\ top.todo \subseteq Inputs[top.s]
        /\ Frames(stack) = {top} \cup rest /\ rest \subseteq Frame
    BY TopFrames DEF IInv, Shape, WellFormed
  <1>3. /\ Below(top.s, rest)
        /\ \A g \in rest : g.call \in {"init", "testFinish"} /\ AskedBy(g, top.s)
    BY <1>1, UnderInitialization
  <1>4. i \in Inputs[top.s] /\ i \in Suppliers /\ Level[i] < Level[top.s]
        /\ Level[i] \in Nat /\ Level[top.s] \in Nat
    BY <1>2, NetworkAssumption, AcyclicAssumption
  <1>5. workStatus[i] # WS_LOCKED
    <2>1. ASSUME NEW g \in Frames(stack), g.call \in Busy
          PROVE  g.s # i
      <3>1. g = top \/ (Level[top.s] < Level[g.s] /\ g.s \in Suppliers)
        BY <1>2, <1>3, <2>1 DEF Below, Frame
      <3>2. QED
        BY <1>4, <3>1
    <2>2. QED
      BY <1>4, <2>1, NotLocked
  <1>6. workStatus[i] # WS_INIT
    <2>1. SUFFICES ASSUME workStatus[i] = WS_INIT
                   PROVE  FALSE
      OBVIOUS
    <2>2. PICK v \in Reach(i), g \in Frames(stack) : workStatus[v] = WS_INIT /\ v \in Demands(g)
      BY <1>4, <2>1 DEF InitialsDemanded
    <2>3. i \in Reach(i)
      BY DEF Reach
    <2>4. CASE g = top
      <3>1. v \in Inputs[top.s] /\ v # i
        BY <1>2, <2>2, <2>4, DemandsOf
      <3>2. QED
        BY <1>2, <1>4, <2>2, <2>3, <3>1 DEF SeparateInputs
    <2>5. CASE g \in rest
      <3>1. PICK c \in Demands(g) : workStatus[c] = WS_LOCKED /\ c \in Reach(top.s)
        BY <1>3, <2>5 DEF AskedBy
      <3>2. c \in Reach(i)
        BY <1>2, <1>4, <3>1, InputReaches DEF Reach
      <3>3. c = v
        <4>1. g \in Frame /\ g.s \in Suppliers /\ g.call \in {"init", "testFinish"}
          BY <1>2, <1>3, <2>5 DEF Frame
        <4>2. CASE g.call = "init"
          <5>1. c \in Inputs[g.s] /\ v \in Inputs[g.s]
            BY <2>2, <3>1, <4>1, <4>2, DemandsOf
          <5>2. QED
            BY <1>4, <2>2, <3>2, <4>1, <5>1 DEF SeparateInputs
        <4>3. CASE g.call = "testFinish"
          BY <2>2, <3>1, <4>1, <4>3, DemandsOf
        <4>4. QED
          BY <4>1, <4>2, <4>3
      <3>4. QED
        BY <2>2, <3>1, <3>3 DEF WS_INIT, WS_LOCKED
    <2>6. QED
      BY <1>2, <2>2, <2>4, <2>5
  <1>7. workStatus[i] \in Int
    BY <1>4 DEF IInv, TypeOK, WorkStatus, WS_INVALID, WS_FAILED
  <1>8. QED
    BY <1>5, <1>6, <1>7 DEF MustInitialize, WS_INIT, WS_LOCKED

(* Locking a supplier that is not initialized takes nothing from anybody.  *)
LEMMA LockKeeps ==
    ASSUME NEW i \in Suppliers, workStatus[i] # WS_INIT,
           UNCHANGED <<lastWorkState, notifierOpen, isInputValid>>,
           \A x \in Suppliers : workStatus'[x] = IF x = i THEN WS_LOCKED ELSE workStatus[x]
    PROVE  \A x \in Suppliers :
              /\ Trusted(x)' <=> Trusted(x)
              /\ Settled(x) => Settled(x)'
              /\ Fresh(x) => Fresh(x)'
              /\ workStatus'[x] = WS_INIT => x # i /\ workStatus[x] = WS_INIT
  <1>1. ASSUME NEW x \in Suppliers
        PROVE  /\ Trusted(x)' <=> Trusted(x)
               /\ Settled(x) => Settled(x)'
               /\ Fresh(x) => Fresh(x)'
               /\ workStatus'[x] = WS_INIT => x # i /\ workStatus[x] = WS_INIT
    BY DEF Trusted, Settled, Fresh, WS_INIT, WS_LOCKED
  <1>2. QED
    BY <1>1

(* EnsureWorkInitialized goes on to the next input.  *)
LEMMA InitializeInputTrust ==
    ASSUME IInv, Shape, TrustInv, SeparateInputs, InitializeInput
    PROVE  TrustInv'
  <1> DEFINE top  == Head(stack)
             rest == Frames(Tail(stack))
             W    == Frames(stack)
             W2   == Frames(stack')
  <1>1. PICK i \in top.todo, f \in Frame :
           /\ i \in Suppliers /\ i \in Inputs[top.s]
           /\ f.call = "init" /\ f.s = top.s /\ f.todo = top.todo \ {i}
           /\ <<f>> \o Tail(stack) \in Seq(Frame)
           /\ Frames(<<f>> \o Tail(stack)) = {f} \cup rest
           /\ Layered(<<f>> \o Tail(stack))
           /\ Below(i, {f} \cup rest)
           /\ CallEnsureWorkInitialized(i, <<f>> \o Tail(stack))
    BY InitializeInputEffect DEF Shape
  <1> DEFINE f0 == F("init", i, Inputs[i])
  <1>2. /\ Running("init") /\ "init" \in Initialization
        /\ UNCHANGED <<lastWorkState, isInputValid, areParametersValid, notifierOpen>>
    BY DEF InitializeInput, Initialization
  <1>3. /\ top \in Frame /\ top.call = "init" /\ top.s \in Suppliers
        /\ W = {top} \cup rest /\ rest \subseteq Frame
    BY <1>2, TopFrames DEF IInv, Shape
  <1>4. \A g \in rest : g.call \in {"init", "testFinish"}
    BY <1>2, UnderInitialization
  <1>5. MustInitialize(i) /\ workStatus[i] # WS_INIT
    BY <1>2, NotYetInitialized DEF TrustInv
  <1>6. f0 \in Frame /\ f0.call = "init" /\ f0.s = i /\ f0.todo = Inputs[i]
    BY <1>1, FrameFields, NetworkAssumption DEF Calls
  <1>7. /\ W2 = {f0} \cup ({f} \cup rest)
        /\ \A x \in Suppliers : workStatus'[x] = IF x = i THEN WS_LOCKED ELSE workStatus[x]
    <2>1. Covers("init", {f} \cup rest) /\ TypeOK
      BY <1>1, <1>4 DEF Covers, Announcing, IInv
    <2>2. QED
      BY <1>1, <1>5, <2>1, InitializeEffect
  <1>8. \A x \in Suppliers :
           /\ Trusted(x)' <=> Trusted(x)
           /\ Settled(x) => Settled(x)'
           /\ Fresh(x) => Fresh(x)'
           /\ workStatus'[x] = WS_INIT => x # i /\ workStatus[x] = WS_INIT
    BY <1>1, <1>2, <1>5, <1>7, LockKeeps
  <1>9. stack' \in Seq(Frame)
    <2>1. Step
      BY DEF Step
    <2>2. QED
      BY <2>1, StackStays
  <1> HIDE DEF f0, W2, W
  <1>10. \A g \in W2 : g \in Frame /\ g.call \in {"init", "testFinish"}
    BY <1>1, <1>3, <1>4, <1>6, <1>7
  <1>11. /\ Demands(top) = Inputs[top.s] \ top.todo
         /\ Demands(f) = Demands(top) \cup {i}
         /\ Demands(f0) = {}
    BY <1>1, <1>3, <1>6, DemandsOf
  <1>12. \A h \in W : \A v \in Demands(h) :
            \E g \in W2 : g.call \in {"init", "testFinish"} /\ v \in Demands(g)
    BY <1>3, <1>7, <1>10, <1>11
  <1>13. \A h \in W : h.call # "before"
    BY <1>3, <1>4
  <1>14. TrustHeld'
    BY <1>8, <1>13, TrustKept DEF TrustInv, W
  <1>15. InitialsReady'
    BY <1>2, <1>8, ReadyKept DEF TrustInv
  <1>16. InitialsDemanded'
    <2>1. ASSUME NEW u \in Suppliers, workStatus'[u] = WS_INIT
          PROVE  \E v \in Reach(u), g \in W2 : workStatus'[v] = WS_INIT /\ v \in Demands(g)
      <3>1. PICK v \in Reach(u), h \in W : workStatus[v] = WS_INIT /\ v \in Demands(h)
        BY <1>8, <2>1 DEF TrustInv, InitialsDemanded, W
      <3>2. v \in Suppliers
        BY <3>1, ReachFurther
      <3>3. workStatus'[v] = WS_INIT
        BY <1>5, <1>7, <3>1, <3>2
      <3>4. QED
        BY <1>12, <3>1, <3>3
    <2>2. QED
      BY <2>1 DEF InitialsDemanded, W2
  <1>17. InitializationsWanted'
    <2>1. ASSUME NEW h \in W2, h.call \in Initialization
          PROVE  \E g \in W2 : g.call \in {"init", "testFinish"} /\ h.s \in Demands(g)
      <3>1. CASE h = f0
        BY <1>1, <1>6, <1>7, <1>11, <3>1
      <3>2. CASE h \in {f} \cup rest
        <4>1. \E h2 \in W : h2.call \in Initialization /\ h2.s = h.s
          BY <1>1, <1>2, <1>3, <2>1, <3>2
        <4>2. \E g \in W : h.s \in Demands(g)
          BY <4>1 DEF TrustInv, InitializationsWanted, W
        <4>3. QED
          BY <1>12, <4>2
      <3>3. QED
        BY <1>7, <3>1, <3>2
    <2>2. QED
      BY <2>1 DEF InitializationsWanted, W2
  <1>18. AfterFresh'
    BY <1>9, <1>10, NoAfter DEF W2
  <1>19. ASSUME NEW h \in W2
         PROVE  Relies(h)'
    <2>1. \A j \in Demands(h) : Fresh(j)'
      <3>1. Fresh(i)'
        BY <1>1, <1>7 DEF Fresh
      <3>2. \A g \in W : \A j \in Demands(g) : Fresh(j)'
        BY <1>3, <1>8, DemandsOf DEF TrustInv, Relies, W
      <3>3. QED
        BY <1>3, <1>7, <1>11, <3>1, <3>2
    <2>2. QED
      BY <1>10, <2>1, ReliesOnDemands
  <1>20. QED
    BY <1>14, <1>15, <1>16, <1>17, <1>18, <1>19 DEF TrustInv, W2

(* DoTest initializes.  *)
LEMMA TestInitializeTrust ==
    ASSUME IInv, Shape, TrustInv, TestInitialize
    PROVE  TrustInv'
  <1> DEFINE top == Head(stack)
             s   == top.s
             f   == F("testFinish", s, {s})
             f0  == F("init", s, Inputs[s])
             W2  == Frames(stack')
  <1>1. /\ Running("testInit") /\ Stacked(stack) /\ TypeOK
        /\ UNCHANGED <<lastWorkState, isInputValid, areParametersValid, notifierOpen>>
    BY DEF TestInitialize, IInv
  <1>2. /\ top \in Frame /\ top.call = "testInit" /\ s \in Suppliers
        /\ Frames(stack) = {top} /\ Tail(stack) = <<>>
    BY <1>1, TopFrames DEF Shape, ClientCalls
  <1>3. Demands(top) = {} /\ top.call \notin Busy \cup {"before"}
    BY <1>2, DemandsOf DEF Busy, Producing
  <1>4. \A u \in Suppliers : workStatus[u] # WS_INIT
    BY <1>2, <1>3, NoneInitial DEF TrustInv
  <1>5. MustInitialize(s)
    <2>1. workStatus[s] # WS_LOCKED
      BY <1>2, <1>3, NotLocked
    <2>2. workStatus[s] \in Int
      BY <1>1, <1>2 DEF TypeOK, WorkStatus, WS_INVALID, WS_FAILED
    <2>3. QED
      BY <1>2, <1>4, <2>1, <2>2 DEF MustInitialize, WS_INIT, WS_LOCKED
  <1>6. /\ f \in Frame /\ f.call = "testFinish" /\ f.s = s
        /\ f0 \in Frame /\ f0.call = "init" /\ f0.s = s /\ f0.todo = Inputs[s]
    BY <1>2, FrameFields, NetworkAssumption DEF Calls
  <1>7. CallEnsureWorkInitialized(s, <<f>> \o <<>>)
    BY <1>2, <1>5 DEF TestInitialize
  <1> HIDE DEF f
  <1>8. /\ <<f>> \in Seq(Frame) /\ <<f>> = <<f>> \o <<>>
        /\ Frames(<<f>>) = {f} /\ Layered(<<f>>) /\ Covers("init", {f})
    BY <1>6, ClientFrames DEF ClientCalls
  <1>9. CallEnsureWorkInitialized(s, <<f>>)
    BY <1>7, <1>8
  <1>10. /\ W2 = {f0} \cup {f}
         /\ \A x \in Suppliers : workStatus'[x] = IF x = s THEN WS_LOCKED ELSE workStatus[x]
    BY <1>1, <1>2, <1>5, <1>8, <1>9, InitializeEffect
  <1>11. \A x \in Suppliers :
            /\ Trusted(x)' <=> Trusted(x)
            /\ Settled(x) => Settled(x)'
            /\ workStatus'[x] # WS_INIT
    BY <1>1, <1>2, <1>4, <1>10, LockKeeps
  <1>12. stack' \in Seq(Frame)
    <2>1. Step
      BY DEF Step
    <2>2. QED
      BY <2>1, StackStays
  <1> HIDE DEF f0, W2
  <1>13. Demands(f) = {s} /\ Demands(f0) = {}
    BY <1>6, DemandsOf
  <1>14. TrustHeld'
    BY <1>2, <1>3, <1>11, TrustKept DEF TrustInv
  <1>15. InitialsReady' /\ InitialsDemanded'
    BY <1>11 DEF InitialsReady, InitialsDemanded
  <1>16. InitializationsWanted'
    BY <1>6, <1>10, <1>13 DEF InitializationsWanted, Initialization, W2
  <1>17. AfterFresh'
    BY <1>6, <1>10, <1>12, NoAfter DEF W2
  <1>18. ASSUME NEW h \in W2
         PROVE  Relies(h)'
    <2>1. \A j \in Demands(h) : Fresh(j)'
      BY <1>2, <1>10, <1>13 DEF Fresh
    <2>2. QED
      BY <1>6, <1>10, <2>1, ReliesOnDemands
  <1>19. QED
    BY <1>14, <1>15, <1>16, <1>17, <1>18 DEF TrustInv, W2

(* The notifier is opened and, unless they were told before, the consumers are told.  *)
LEMMA OpenProductChangeTrust ==
    ASSUME IInv, Shape, TrustInv, OpenProductChange
    PROVE  TrustInv'
  <1> DEFINE top  == Head(stack)
             s    == top.s
             rest == Frames(Tail(stack))
             W    == Frames(stack)
             W2   == Frames(stack')
             f0   == F("work", s, {})
             f1   == F("before", s, Consumers(s))
  <1>1. /\ Running("init") /\ "init" \in Initialization /\ top.todo = {}
        /\ UNCHANGED <<workStatus, lastWorkState, isInputValid, areParametersValid>>
    BY DEF OpenProductChange, Initialization
  <1>2. /\ top \in Frame /\ top.call = "init" /\ s \in Suppliers
        /\ W = {top} \cup rest /\ rest \subseteq Frame
    BY <1>1, TopFrames DEF IInv, Shape
  <1>3. /\ Below(s, rest)
        /\ \A g \in rest : g.call \in {"init", "testFinish"}
    BY <1>1, UnderInitialization
  <1>4. /\ W2 = (IF notifierOpen[s] THEN {} ELSE Telling(s, Consumers(s))) \cup ({f0} \cup rest)
        /\ \A x \in Suppliers : notifierOpen'[x] <=> (notifierOpen[x] \/ x = s)
    BY OpenProductChangeEffect DEF Shape
  <1>5. /\ f0 \in Frame /\ f0.call = "work" /\ f0.s = s
        /\ f1 \in Frame /\ f1.call = "before" /\ f1.s = s /\ f1.todo = Consumers(s)
    <2>1. Consumers(s) \in SUBSET Suppliers
      BY DEF Consumers
    <2>2. QED
      BY <1>2, <2>1, FrameFields DEF Calls
  <1>6. /\ {f0} \cup rest \subseteq W2 /\ W2 \subseteq {f0, f1} \cup rest
        /\ ~notifierOpen[s] /\ Consumers(s) # {} => f1 \in W2
    BY <1>4 DEF Telling
  <1>7. workStatus[s] = WS_LOCKED
    BY <1>2 DEF Shape, BusyLocked, Busy
  <1>8. stack' \in Seq(Frame)
    <2>1. Step
      BY DEF Step
    <2>2. QED
      BY <2>1, StackStays
  <1> HIDE DEF f0, f1, W2, W
  <1>9. ASSUME NEW x \in Suppliers
        PROVE  /\ Trusted(x)' <=> Trusted(x)
               /\ x # s => (Settled(x) => Settled(x)')
               /\ Fresh(x) => Fresh(x)'
    <2>1. CASE x = s
      BY <1>1, <1>7, <2>1 DEF Trusted, Fresh
    <2>2. CASE x # s
      <3>1. /\ isInputValid'[x] <=> isInputValid[x]
            /\ notifierOpen'[x] <=> notifierOpen[x]
            /\ workStatus'[x] = workStatus[x]
            /\ lastWorkState'[x] = lastWorkState[x]
        BY <1>1, <1>4, <2>2
      <3>2. QED
        BY <3>1, SameTrust
    <2>3. QED
      BY <2>1, <2>2
  <1>10. \A h \in W : h.call # "before"
    BY <1>2, <1>3
  <1>11. TrustHeld'
    <2>1. ASSUME NEW e \in Suppliers, NEW i \in Inputs[e], Trusted(e)'
          PROVE  Settled(i)' \/ \E h \in W2 : h.call = "before" /\ h.s = i /\ e \in h.todo
      <3>1. i \in Suppliers /\ Trusted(e)
        BY <1>9, <2>1, NetworkAssumption
      <3>2. Settled(i)
        BY <1>10, <2>1, <3>1 DEF TrustInv, TrustHeld, Pending, W
      <3>3. CASE i # s
        BY <1>9, <3>1, <3>2, <3>3
      <3>4. CASE i = s
        <4>1. ~notifierOpen[s]
          BY <3>2, <3>4 DEF Settled
        <4>2. e \in Consumers(s)
          BY <2>1, <3>4 DEF Consumers
        <4>3. QED
          BY <1>5, <1>6, <3>4, <4>1, <4>2
      <3>5. QED
        BY <3>3, <3>4
    <2>2. QED
      BY <2>1 DEF TrustHeld, Pending, W2
  <1>12. InitialsReady'
    <2>1. \A u \in Suppliers : workStatus'[u] = WS_INIT =>
             /\ workStatus[u] = WS_INIT /\ u # s
             /\ areParametersValid[u] => areParametersValid'[u]
             /\ notifierOpen'[u] => notifierOpen[u]
      BY <1>1, <1>4, <1>7 DEF WS_INIT, WS_LOCKED
    <2>2. QED
      BY <1>9, <2>1, ReadyKept DEF TrustInv
  <1>13. Demands(top) = Inputs[s] /\ Demands(f0) = Inputs[s] /\ Demands(f1) = {}
    BY <1>1, <1>2, <1>5, DemandsOf DEF Busy, Producing
  <1>14. \A h \in W : \A v \in Demands(h) : \E g \in W2 : v \in Demands(g)
    BY <1>2, <1>6, <1>13
  <1>15. InitialsDemanded'
    <2>1. ASSUME NEW u \in Suppliers, workStatus'[u] = WS_INIT
          PROVE  \E v \in Reach(u), g \in W2 : workStatus'[v] = WS_INIT /\ v \in Demands(g)
      <3>1. PICK v \in Reach(u), h \in W : workStatus[v] = WS_INIT /\ v \in Demands(h)
        BY <1>1, <2>1 DEF TrustInv, InitialsDemanded, W
      <3>2. QED
        BY <1>1, <1>14, <3>1
    <2>2. QED
      BY <2>1 DEF InitialsDemanded, W2
  <1>16. InitializationsWanted'
    <2>1. ASSUME NEW h \in W2, h.call \in Initialization
          PROVE  \E g \in W2 : g.call \in {"init", "testFinish"} /\ h.s \in Demands(g)
      <3>1. PICK h2 \in W : h2.call \in Initialization /\ h2.s = h.s
        BY <1>1, <1>2, <1>5, <1>6, <2>1 DEF Initialization
      <3>2. PICK g \in W : g.call \in {"init", "testFinish"} /\ h.s \in Demands(g)
        BY <3>1 DEF TrustInv, InitializationsWanted, W
      <3>3. g # top
        <4>1. h.s = s \/ (Level[s] < Level[h.s] /\ h.s \in Suppliers)
          BY <1>2, <1>3, <1>5, <1>6, <2>1 DEF Below, Initialization, Busy, Frame
        <4>2. h.s \notin Inputs[s]
          BY <1>2, <4>1, AcyclicAssumption
        <4>3. QED
          BY <1>13, <3>2, <4>2
      <3>4. QED
        BY <1>2, <1>6, <3>2, <3>3
    <2>2. QED
      BY <2>1 DEF InitializationsWanted, W2
  <1>17. \A h \in W2 : h \in Frame /\ h.call \in {"before", "work", "init", "testFinish"}
    BY <1>2, <1>3, <1>5, <1>6
  <1>18. AfterFresh'
    BY <1>8, <1>17, NoAfter DEF W2
  <1>19. ASSUME NEW h \in W2
         PROVE  Relies(h)'
    <2>1. \A g \in W : \A j \in Demands(g) : Fresh(j)'
      BY <1>2, <1>9, DemandsOf DEF TrustInv, Relies, W
    <2>2. \A j \in Demands(h) : Fresh(j)'
      BY <1>2, <1>6, <1>13, <2>1
    <2>3. QED
      BY <1>17, <2>2, ReliesOnDemands
  <1>20. QED
    BY <1>11, <1>12, <1>15, <1>16, <1>18, <1>19 DEF TrustInv, W2

(* What disciplined clients leave out.  *)
LEMMA Disciplined ==
    ASSUME DisciplinedClients
    PROVE  /\ "init fails" \notin Environment
           /\ "partial reads" \notin Environment
           /\ "clients step" \notin Environment
           /\ "clients read" \notin Environment
  BY Zenon DEF DisciplinedClients

(* So an initialization succeeds, ...  *)
LEMMA InitializeWorkSucceeds ==
    ASSUME DisciplinedClients, InitializeWork
    PROVE  workStatus' = [workStatus EXCEPT ![Head(stack).s] = WS_INIT]
  BY Zenon, Disciplined DEF InitializeWork

(* ... a production reads all its inputs, ...  *)
LEMMA FinishWorkComplete ==
    ASSUME DisciplinedClients, NEW result, FinishWork(result)
    PROVE  Head(stack).todo = {}
  BY Zenon, Disciplined DEF FinishWork

(* ... and nobody interferes from outside.  *)
LEMMA NobodyInterferes ==
    ASSUME DisciplinedClients, NEW s
    PROVE  ~InvalidateSupplier(s) /\ ~EnsureWorkInitialized(s) /\ ~GetWorkProduct(s)
  BY Zenon, Disciplined DEF InvalidateSupplier, EnsureWorkInitialized, GetWorkProduct

(* The work is initialized.  *)
LEMMA InitializeWorkTrust ==
    ASSUME IInv, Shape, TrustInv, DisciplinedClients, InitializeWork
    PROVE  TrustInv'
  <1> DEFINE top  == Head(stack)
             s    == top.s
             rest == Frames(Tail(stack))
             W    == Frames(stack)
             W2   == Frames(stack')
             f0   == F("after", s, {})
  <1>1. /\ Running("work") /\ "work" \in Initialization /\ Stacked(stack)
        /\ UNCHANGED <<lastWorkState, isInputValid>>
        /\ areParametersValid' = [areParametersValid EXCEPT ![s] = TRUE]
        /\ notifierOpen' = [notifierOpen EXCEPT ![s] = FALSE]
        /\ stack' = NotifyAfter(s, Tail(stack))
    BY DEF InitializeWork, Initialization, IInv
  <1>2. /\ top \in Frame /\ top.call = "work" /\ s \in Suppliers
        /\ W = {top} \cup rest /\ rest \subseteq Frame
        /\ Tail(stack) \in Seq(Frame) /\ Layered(Tail(stack))
    BY <1>1, TopFrames DEF Shape
  <1>3. /\ Below(s, rest)
        /\ \A g \in rest : g.call \in {"init", "testFinish"}
    BY <1>1, UnderInitialization
  <1>4. f0 \in Frame /\ f0.call = "after" /\ f0.s = s
    BY <1>2, FrameFields DEF Calls
  <1>5. /\ rest \subseteq W2 /\ W2 \subseteq {f0} \cup rest
        /\ stack' = Tail(stack) \/ stack' = <<f0>> \o Tail(stack)
    <2>1. Covers("after", rest)
      BY <1>3 DEF Covers, Announcing
    <2>2. QED
      BY <1>1, <1>2, <2>1, NotifyAfterFrames
  <1>6. /\ \A x \in Suppliers : workStatus'[x] = IF x = s THEN WS_INIT ELSE workStatus[x]
        /\ \A x \in Suppliers : areParametersValid'[x] <=> (x = s \/ areParametersValid[x])
        /\ \A x \in Suppliers : notifierOpen'[x] <=> (x # s /\ notifierOpen[x])
    <2>1. workStatus' = [workStatus EXCEPT ![s] = WS_INIT]
      BY InitializeWorkSucceeds
    <2>2. \A x \in Suppliers : workStatus'[x] = IF x = s THEN WS_INIT ELSE workStatus[x]
      BY <2>1 DEF IInv, TypeOK
    <2>3. \A x \in Suppliers : areParametersValid'[x] <=> (x = s \/ areParametersValid[x])
      BY Zenon, <1>1 DEF IInv, TypeOK
    <2>4. \A x \in Suppliers : notifierOpen'[x] <=> (x # s /\ notifierOpen[x])
      BY Zenon, <1>1 DEF IInv, TypeOK
    <2>5. QED
      BY <2>2, <2>3, <2>4
  <1>7. workStatus[s] = WS_LOCKED /\ notifierOpen[s]
    BY <1>2 DEF Shape, BusyLocked, NotifierHeld, Busy
  <1>8. stack' \in Seq(Frame)
    <2>1. Step
      BY DEF Step
    <2>2. QED
      BY <2>1, StackStays
  <1> HIDE DEF f0, W2, W
  <1>9. ASSUME NEW x \in Suppliers
        PROVE  /\ Trusted(x)' <=> Trusted(x)
               /\ Settled(x) => Settled(x)'
               /\ Fresh(x) => Fresh(x)'
    <2>1. CASE x = s
      <3>1. (Trusted(x)' <=> Trusted(x)) /\ ~Settled(x)
        BY <1>1, <1>7, <2>1 DEF Trusted, Settled
      <3>2. Fresh(x)'
        BY <1>2, <1>6, <2>1 DEF Fresh
      <3>3. QED
        BY <3>1, <3>2
    <2>2. CASE x # s
      <3>1. /\ isInputValid'[x] <=> isInputValid[x]
            /\ notifierOpen'[x] <=> notifierOpen[x]
            /\ workStatus'[x] = workStatus[x]
            /\ lastWorkState'[x] = lastWorkState[x]
        BY <1>1, <1>6, <2>2
      <3>2. QED
        BY <3>1, SameTrust
    <2>3. QED
      BY <2>1, <2>2
  <1>10. workStatus'[s] = WS_INIT /\ ~notifierOpen'[s]
    BY <1>2, <1>6
  <1>11. \A h \in W : h.call # "before"
    BY <1>2, <1>3
  <1>12. TrustHeld'
    BY <1>9, <1>11, TrustKept DEF TrustInv, W
  <1>13. Demands(top) = Inputs[s] /\ Demands(f0) = {}
    BY <1>2, <1>4, DemandsOf DEF Busy, Producing
  <1>14. \A h \in W : \A j \in Demands(h) : j \in Suppliers /\ Fresh(j)'
    BY <1>2, <1>9, DemandsOf DEF TrustInv, Relies, W
  <1>15. InitialsReady'
    <2>1. ASSUME NEW u \in Suppliers, workStatus'[u] = WS_INIT
          PROVE  areParametersValid'[u] /\ ~notifierOpen'[u] /\ \A i \in Inputs[u] : Fresh(i)'
      <3>1. CASE u = s
        BY <1>2, <1>6, <1>13, <1>14, <3>1
      <3>2. CASE u # s
        <4>1. workStatus[u] = WS_INIT
          BY <1>6, <2>1, <3>2
        <4>2. areParametersValid[u] /\ ~notifierOpen[u] /\ \A i \in Inputs[u] : Fresh(i)
          BY <4>1 DEF TrustInv, InitialsReady
        <4>3. QED
          BY <1>6, <1>9, <4>2, NetworkAssumption
      <3>3. QED
        BY <3>1, <3>2
    <2>2. QED
      BY <2>1 DEF InitialsReady
  <1>16. PICK g \in rest : g.call \in {"init", "testFinish"} /\ s \in Demands(g)
    BY <1>1, <1>2 DEF TrustInv, InitializationsWanted, W
  <1>17. InitialsDemanded'
    <2>1. ASSUME NEW u \in Suppliers, workStatus'[u] = WS_INIT
          PROVE  \E v \in Reach(u), h \in W2 : workStatus'[v] = WS_INIT /\ v \in Demands(h)
      <3>1. CASE s \in Reach(u)
        BY <1>2, <1>5, <1>6, <1>16, <3>1
      <3>2. CASE s \notin Reach(u)
        <4>1. u # s
          BY <3>2 DEF Reach
        <4>2. workStatus[u] = WS_INIT
          BY <1>6, <2>1, <4>1
        <4>3. PICK v \in Reach(u), h \in W : workStatus[v] = WS_INIT /\ v \in Demands(h)
          BY <4>2 DEF TrustInv, InitialsDemanded, W
        <4>4. v \in Suppliers /\ Consumers(v) \subseteq Reach(u)
          BY <4>3, ReachFurther DEF Reach
        <4>5. h # top
          BY <1>2, <1>13, <3>2, <4>3, <4>4 DEF Consumers
        <4>6. workStatus'[v] = WS_INIT
          BY <1>6, <4>3, <4>4
        <4>7. QED
          BY <1>2, <1>5, <4>3, <4>5, <4>6
      <3>3. QED
        BY <3>1, <3>2
    <2>2. QED
      BY <2>1 DEF InitialsDemanded, W2
  <1>18. InitializationsWanted'
    <2>1. ASSUME NEW h \in W2, h.call \in Initialization
          PROVE  \E k \in W2 : k.call \in {"init", "testFinish"} /\ h.s \in Demands(k)
      <3>1. h \in W
        BY <1>2, <1>4, <1>5, <2>1 DEF Initialization
      <3>2. PICK k \in W : k.call \in {"init", "testFinish"} /\ h.s \in Demands(k)
        BY <2>1, <3>1 DEF TrustInv, InitializationsWanted, W
      <3>3. QED
        BY <1>2, <1>5, <3>2
    <2>2. QED
      BY <2>1 DEF InitializationsWanted, W2
  <1>19. AfterFresh'
    <2>1. ASSUME Running("after")'
          PROVE  Head(stack').s = s
      <3>1. stack' # Tail(stack)
        <4>1. Head(stack') \in W2 /\ Head(stack').call = "after"
          BY <1>8, <2>1 DEF Running, Frames, W2
        <4>2. stack' = Tail(stack) => Head(stack') \in rest
          BY <4>1 DEF W2
        <4>3. QED
          BY <1>3, <4>1, <4>2
      <3>2. Head(stack') = f0
        BY <1>2, <1>4, <1>5, <3>1, Push
      <3>3. QED
        BY <1>4, <3>2
    <2>2. QED
      BY <1>10, <2>1 DEF AfterFresh, Fresh
  <1>20. ASSUME NEW h \in W2
         PROVE  Relies(h)'
    <2>1. \A j \in Demands(h) : Fresh(j)'
      BY <1>2, <1>5, <1>13, <1>14
    <2>2. h \in Frame /\ h.call \in {"after", "init", "testFinish"}
      BY <1>2, <1>3, <1>4, <1>5
    <2>3. QED
      BY <2>1, <2>2, ReliesOnDemands
  <1>21. QED
    BY <1>12, <1>15, <1>17, <1>18, <1>19, <1>20 DEF TrustInv, W2

(* A production ends.  *)
LEMMA FinishWorkTrust ==
    ASSUME IInv, Shape, TrustInv, DisciplinedClients,
           NEW result \in WS_OK..WS_FAILED, FinishWork(result)
    PROVE  TrustInv'
  <1> DEFINE top  == Head(stack)
             s    == top.s
             rest == Frames(Tail(stack))
             W    == Frames(stack)
  <1>1. /\ Running("produce") /\ Stacked(stack) /\ "produce" \in Producing
        /\ UNCHANGED <<areParametersValid, notifierOpen>>
        /\ isInputValid' = [isInputValid EXCEPT ![s] = TRUE]
        /\ workStatus' = [workStatus EXCEPT ![s] = result]
        /\ lastWorkState' = [lastWorkState EXCEPT ![s] = result]
        /\ stack' = Tail(stack)
    BY DEF FinishWork, IInv, Producing
  <1>2. /\ top \in Frame /\ top.call = "produce" /\ s \in Suppliers
        /\ W = {top} \cup rest /\ rest \subseteq Frame /\ Below(s, rest)
        /\ Tail(stack) \in Seq(Frame)
    BY <1>1, TopFrames DEF Shape, Busy
  <1>3. /\ ShapeBelow(rest)
        /\ \A h \in W : h.call # "before"
    BY <1>1, RestShape, NothingAnnounced
  <1>4. top.todo = {}
    BY FinishWorkComplete
  <1>5. /\ \A x \in Suppliers : workStatus'[x] = IF x = s THEN result ELSE workStatus[x]
        /\ \A x \in Suppliers : lastWorkState'[x] = IF x = s THEN result ELSE lastWorkState[x]
        /\ \A x \in Suppliers : isInputValid'[x] <=> (x = s \/ isInputValid[x])
    <2>1. \A x \in Suppliers : workStatus'[x] = IF x = s THEN result ELSE workStatus[x]
      BY <1>1 DEF IInv, TypeOK
    <2>2. \A x \in Suppliers : lastWorkState'[x] = IF x = s THEN result ELSE lastWorkState[x]
      BY <1>1 DEF IInv, TypeOK
    <2>3. \A x \in Suppliers : isInputValid'[x] <=> (x = s \/ isInputValid[x])
      BY Zenon, <1>1 DEF IInv, TypeOK
    <2>4. QED
      BY <2>1, <2>2, <2>3
  <1>6. result > WS_INIT /\ result # WS_INIT
    BY DEF WS_OK, WS_FAILED, WS_INIT
  <1>7. workStatus[s] = WS_LOCKED
    BY <1>2 DEF Shape, BusyLocked, Busy, Producing
  <1>8. Relies(top)
    BY <1>2 DEF TrustInv
  <1>9. /\ ~notifierOpen[s] /\ ~Trusted(s)
        /\ \A i \in Inputs[s] : Settled(i)
    <2>1. Read(top) = Inputs[s]
      BY <1>2, <1>4, AwaitsAndRead
    <2>2. QED
      BY <1>1, <1>2, <1>8, <2>1 DEF Relies
  <1> HIDE DEF W
  <1>10. ASSUME NEW x \in Suppliers
         PROVE  /\ x # s => (Trusted(x)' <=> Trusted(x))
                /\ Settled(x) \/ x = s => Settled(x)'
                /\ Fresh(x) => Fresh(x)'
                /\ Answered(x) \/ x = s => Answered(x)'
                /\ Settled(x) => lastWorkState'[x] = lastWorkState[x]
    <2>1. CASE x = s
      <3>1. /\ isInputValid'[x] /\ ~notifierOpen'[x]
            /\ workStatus'[x] = result /\ lastWorkState'[x] = result
        BY <1>1, <1>2, <1>5, <1>9, <2>1
      <3>2. Trusted(x)' /\ Settled(x)' /\ Answered(x)' /\ Fresh(x)'
        BY <1>6, <3>1 DEF Trusted, Settled, Answered, Fresh
      <3>3. ~Settled(x)
        BY <1>9, <2>1 DEF Settled
      <3>4. QED
        BY <2>1, <3>2, <3>3
    <2>2. CASE x # s
      <3>1. /\ isInputValid'[x] <=> isInputValid[x]
            /\ notifierOpen'[x] <=> notifierOpen[x]
            /\ workStatus'[x] = workStatus[x]
            /\ lastWorkState'[x] = lastWorkState[x]
        BY <1>1, <1>5, <2>2
      <3>2. QED
        BY <2>2, <3>1, SameTrust
    <2>3. QED
      BY <2>1, <2>2
  <1>11. TrustHeld'
    <2>1. ASSUME NEW e \in Suppliers, NEW i \in Inputs[e], Trusted(e)'
          PROVE  Settled(i)'
      <3>1. i \in Suppliers
        BY NetworkAssumption
      <3>2. CASE e = s
        BY <1>9, <1>10, <3>1, <3>2
      <3>3. CASE e # s
        <4>1. Trusted(e)
          BY <1>10, <2>1, <3>3
        <4>2. Settled(i)
          BY <1>3, <4>1 DEF TrustInv, TrustHeld, Pending, W
        <4>3. QED
          BY <1>10, <3>1, <4>2
      <3>4. QED
        BY <3>2, <3>3
    <2>2. QED
      BY <2>1 DEF TrustHeld
  <1>12. \A u \in Suppliers : workStatus'[u] = WS_INIT => u # s /\ workStatus[u] = WS_INIT
    BY <1>5, <1>6
  <1>13. InitialsReady'
    BY <1>1, <1>10, <1>12, ReadyKept DEF TrustInv
  <1>14. Demands(top) = {} /\ top.call \notin Initialization \cup {"init", "testFinish"}
    BY <1>2, <1>4, DemandsOf DEF Producing, Initialization
  <1>15. InitialsDemanded'
    <2>1. ASSUME NEW u \in Suppliers, workStatus'[u] = WS_INIT
          PROVE  \E v \in Reach(u), h \in rest : workStatus'[v] = WS_INIT /\ v \in Demands(h)
      <3>1. PICK v \in Reach(u), h \in W : workStatus[v] = WS_INIT /\ v \in Demands(h)
        BY <1>12, <2>1 DEF TrustInv, InitialsDemanded, W
      <3>2. v \in Suppliers
        BY <3>1, ReachFurther
      <3>3. workStatus'[v] = WS_INIT
        BY <1>5, <1>7, <3>1, <3>2 DEF WS_INIT, WS_LOCKED
      <3>4. QED
        BY <1>2, <1>14, <3>1, <3>3
    <2>2. QED
      BY <1>1, <2>1 DEF InitialsDemanded
  <1>16. InitializationsWanted'
    BY <1>1, <1>2, <1>14 DEF TrustInv, InitializationsWanted, W
  <1>17. AfterFresh'
    BY <1>1, <1>2, <1>3, NoAfter DEF ShapeBelow
  <1>18. \A i : InProduction(i) => i = s \/ InProduction(i)'
    BY <1>1, <1>2, ProductionFrames DEF W
  <1>19. ASSUME NEW f \in rest
         PROVE  Relies(f)'
    <2>1. /\ f \in Frame /\ Relies(f) /\ f.s \in Suppliers
          /\ f.call \notin {"edit", "clear", "trigger"}
      BY <1>2, <1>3, <1>19 DEF TrustInv, ShapeBelow, Start, W, Frame
    <2>2. f.call \in Producing => f.s # s
      <3>1. f.call \in Producing => Level[s] < Level[f.s] /\ Level[s] \in Nat
        BY <1>2, <1>19, AcyclicAssumption DEF Below, Busy
      <3>2. QED
        BY <3>1
    <2>3. f.call \in Producing => (Trusted(f.s)' => Trusted(f.s))
      BY <1>10, <2>1, <2>2
    <2>4. \A i \in Suppliers : InProduction(i) \/ Answered(i) => InProduction(i)' \/ Answered(i)'
      BY <1>10, <1>18
    <2>5. QED
      BY <1>1, <1>10, <2>1, <2>3, <2>4, ReliesKept
  <1>20. QED
    BY <1>1, <1>11, <1>13, <1>15, <1>16, <1>17, <1>19 DEF TrustInv

(* A client's call ends.  *)
LEMMA ClientEndsTrust ==
    ASSUME IInv, Shape, TrustInv,
           ParamsObserverAfterUpdate \/ InputChanged \/ DropResults \/ TestReturns
    PROVE  TrustInv'
  <1> DEFINE top == Head(stack)
             s   == top.s
  <1>1. PICK call \in {"edit", "trigger", "clear", "tested"} :
           /\ Running(call)
           /\ ParamsObserverAfterUpdate => call = "edit"
           /\ InputChanged => call = "trigger"
           /\ DropResults => call = "clear"
           /\ TestReturns => call = "tested"
    BY DEF ParamsObserverAfterUpdate, InputChanged, DropResults, TestReturns, Running
  <1>2. /\ top \in Frame /\ top.call = call /\ s \in Suppliers
        /\ Frames(stack) = {top} /\ Tail(stack) = <<>> /\ Stacked(stack)
    BY <1>1, TopFrames DEF IInv, Shape, ClientCalls
  <1>3. Demands(top) = {} /\ \A h \in Frames(stack) : h.call # "before"
    BY <1>1, <1>2, DemandsOf DEF Busy, Producing
  <1>4. \A u \in Suppliers : workStatus[u] # WS_INIT
    BY <1>2, <1>3, NoneInitial DEF TrustInv
  <1>5. Relies(top)
    BY <1>2 DEF TrustInv
  <1> DEFINE f0 == F("after", s, {})
  <1>6. /\ f0 \in Frame /\ f0.call = "after" /\ f0.s = s
        /\ NotifyAfter(s, <<>>) = <<f0>> \o <<>>
    BY <1>2, FrameFields DEF Calls, NotifyAfter
  <1>7. stack' \in {<<>>, <<f0>> \o <<>>}
    BY <1>2, <1>6 DEF ParamsObserverAfterUpdate, InputChanged, DropResults, TestReturns
  <1> HIDE DEF f0
  <1>8. /\ \A f \in Frames(stack') : f.call = "after"
        /\ Running("after")' => Head(stack').s = s /\ Tail(stack') = <<>> /\ stack' # <<>>
    <2>1. <<>> \in Seq(Frame) /\ Frames(<<>>) = {} /\ Covers(f0.call, Frames(<<>>)) /\ Layered(<<>>)
      BY NoFrames
    <2>2. Frames(<<f0>> \o <<>>) = {f0}
      BY <1>6, <2>1, FramesPush
    <2>3. Head(<<f0>> \o <<>>) = f0 /\ Tail(<<f0>> \o <<>>) = <<>>
      BY <1>6, <2>1, Push
    <2>4. QED
      BY <1>6, <1>7, <2>1, <2>2, <2>3 DEF Running
  <1>9. CASE ParamsObserverAfterUpdate \/ InputChanged \/ TestReturns
    <2>1. UNCHANGED <<isInputValid, notifierOpen, workStatus, lastWorkState>>
      BY <1>9 DEF ParamsObserverAfterUpdate, InputChanged, TestReturns, attributes
    <2>2. TrustHeld'
      BY <1>3, <2>1, SameAttributes, TrustKept DEF TrustInv
    <2>3. AfterFresh'
      <3>1. CASE TestReturns
        <4>1. ~InProduction(s) /\ Awaits(top) = {s}
          BY <1>1, <1>2, <3>1, ProductionFrames, AwaitsAndRead DEF Producing
        <4>2. Answered(s)
          BY <1>5, <4>1 DEF Relies
        <4>3. \A x : x = s => Fresh(x)'
          BY <2>1, <4>2, SameAttributes DEF Answered, Fresh
        <4>4. QED
          BY <1>8, <4>3 DEF AfterFresh
      <3>2. CASE ~TestReturns
        <4>1. stack' = <<>>
          BY <1>2, <1>9, <3>2 DEF ParamsObserverAfterUpdate, InputChanged
        <4>2. QED
          BY <4>1 DEF AfterFresh, Running
      <3>3. QED
        BY <3>1, <3>2
    <2>4. QED
      BY <1>4, <1>8, <2>1, <2>2, <2>3, IdleTrust
  <1>10. CASE DropResults
    <2>1. /\ \A x \in Suppliers : workStatus'[x] = IF x = s THEN WS_INVALID ELSE workStatus[x]
          /\ \A x \in Suppliers :
                lastWorkState'[x] = IF x = s THEN WS_INVALID ELSE lastWorkState[x]
          /\ \A x \in Suppliers : x # s =>
                /\ isInputValid'[x] <=> isInputValid[x]
                /\ notifierOpen'[x] <=> notifierOpen[x]
      BY <1>10 DEF DropResults, IInv, TypeOK
    <2>2. ASSUME NEW x \in Suppliers
          PROVE  /\ Trusted(x)' => Trusted(x) /\ x # s
                 /\ x # s => (Settled(x) => Settled(x)')
                 /\ workStatus'[x] # WS_INIT
      <3>1. CASE x = s
        BY <2>1, <3>1 DEF Trusted, WS_INVALID, WS_INIT
      <3>2. CASE x # s
        <4>1. /\ isInputValid'[x] <=> isInputValid[x]
              /\ notifierOpen'[x] <=> notifierOpen[x]
              /\ workStatus'[x] = workStatus[x]
              /\ lastWorkState'[x] = lastWorkState[x]
          BY <2>1, <3>2
        <4>2. QED
          BY <1>4, <3>2, <4>1, SameTrust
      <3>3. QED
        BY <3>1, <3>2
    <2>3. TrustHeld'
      <3>1. ASSUME NEW e \in Suppliers, NEW i \in Inputs[e], Trusted(e)'
            PROVE  Settled(i)'
        <4>1. i \in Suppliers /\ Trusted(e)
          BY <2>2, <3>1, NetworkAssumption
        <4>2. Settled(i)
          BY <1>3, <4>1 DEF TrustInv, TrustHeld, Pending
        <4>3. i # s
          <5>1. i = s => e \in Consumers(s)
            BY DEF Consumers
          <5>2. top.call = "clear"
            BY <1>1, <1>2, <1>10
          <5>3. \A c \in Consumers(s) : ~Trusted(c)
            BY <1>3, <1>5, <5>2 DEF Relies, Pending
          <5>4. QED
            BY <4>1, <5>1, <5>3
        <4>4. QED
          BY <2>2, <4>1, <4>2, <4>3
      <3>2. QED
        BY <3>1 DEF TrustHeld
    <2>4. AfterFresh'
      BY <1>2, <1>8, <2>1 DEF AfterFresh
    <2>5. QED
      BY <1>8, <2>2, <2>3, <2>4, IdleTrust
  <1>11. QED
    BY <1>9, <1>10

(* Around a change that is being announced, nothing that could lose its freshness is  *)
(* relied on: what feeds from it is locked, or not initialized.                       *)
LEMMA AnnouncedApart ==
    ASSUME IInv, Shape, SeparateInputs, InitialsDemanded, Running("before"),
           NEW d \in Head(stack).todo
    PROVE  /\ d \in Suppliers
           /\ \A c \in {d} \cup Consumers(d) : workStatus[c] # WS_INIT
           /\ \A f \in Frames(stack) :
                 /\ f.call \in Start \cup {"before", "work", "init", "testFinish"}
                 /\ d \in Demands(f) => workStatus[d] = WS_LOCKED
  <1> DEFINE top == Head(stack)
             W   == Frames(stack)
  <1>1. top \in W /\ top.call = "before" /\ top.s \in Suppliers /\ W \subseteq Frame
    BY TopFrames, FramesFit DEF IInv, Shape
  <1>2. d \in Consumers(top.s) /\ AnnouncedIn(top.s, W)
    BY <1>1 DEF Shape, ChangesAnnounced
  <1>3. d \in Suppliers /\ Consumers(d) \subseteq Suppliers
    BY <1>2 DEF Consumers
  <1>4. CASE \A g \in W : g.call \in Start \cup {"before"}
    <2>1. \A g \in W : Demands(g) = {}
      <3>1. \A g \in W : g.call \notin Busy \cup {"testFinish"}
        BY <1>4 DEF Start, Busy, Producing
      <3>2. QED
        BY <1>1, <3>1, DemandsOf
    <2>2. \A u \in Suppliers : workStatus[u] # WS_INIT
      BY <2>1, NoneInitial
    <2>3. QED
      BY <1>3, <1>4, <2>1, <2>2
  <1>5. CASE /\ \A g \in W : g.call \in {"before", "work", "init", "testFinish"}
             /\ \E w \in W : w.call = "work" /\ top.s \in Reach(w.s)
    <2>1. PICK w \in W : w.call = "work" /\ top.s \in Reach(w.s)
      BY <1>5
    <2>2. w.s \in Suppliers /\ w.call \in Initialization
      BY <1>1, <2>1 DEF Frame, Initialization
    <2>3. d \in Reach(w.s)
      BY <1>2, <2>1, <2>2, ReachFurther DEF Reach
    <2>4. Consumers(d) \subseteq Reach(w.s)
      BY <2>2, <2>3, ReachFurther DEF Reach
    <2>5. \A c \in {d} \cup Consumers(d) : workStatus[c] # WS_INIT
      BY <2>2, <2>3, <2>4, NoInitialDownstream
    <2>6. \A g \in W : d \in Demands(g) => workStatus[d] = WS_LOCKED
      BY <2>2, <2>3, Apart
    <2>7. QED
      BY <1>3, <1>5, <2>5, <2>6
  <1>6. QED
    BY <1>2, <1>4, <1>5 DEF AnnouncedIn

(* The announcement of a change spreads.  *)
LEMMA BeforeUpdateTrust ==
    ASSUME IInv, Shape, TrustInv, SeparateInputs, InputsObserverBeforeUpdate
    PROVE  TrustInv'
  <1> DEFINE top  == Head(stack)
             s    == top.s
             rest == Frames(Tail(stack))
             W    == Frames(stack)
             W2   == Frames(stack')
  <1>1. /\ Running("before")
        /\ UNCHANGED <<workStatus, lastWorkState, areParametersValid>>
    BY DEF InputsObserverBeforeUpdate
  <1>2. /\ top \in Frame /\ top.call = "before" /\ s \in Suppliers
        /\ top.todo \in SUBSET Suppliers
        /\ W = {top} \cup rest /\ rest \subseteq Frame
    BY <1>1, TopFrames DEF IInv, Shape
  <1>3. PICK d \in top.todo :
           /\ d \in Suppliers
           /\ W2 = (IF isInputValid[d] /\ ~notifierOpen[d]
                    THEN Telling(d, Consumers(d)) ELSE {})
                   \cup Telling(s, top.todo \ {d}) \cup rest
           /\ \A x \in Suppliers :
                 /\ isInputValid'[x] <=> (isInputValid[x] /\ x # d)
                 /\ notifierOpen'[x] <=> (notifierOpen[x] \/ (x = d /\ isInputValid[d]))
    BY BeforeUpdateEffect DEF Shape
  <1>4. /\ \A c \in {d} \cup Consumers(d) : workStatus[c] # WS_INIT
        /\ \A f \in W :
              /\ f.call \in Start \cup {"before", "work", "init", "testFinish"}
              /\ d \in Demands(f) => workStatus[d] = WS_LOCKED
    BY <1>1, AnnouncedApart DEF TrustInv
  <1> DEFINE f1 == F("before", d, Consumers(d))
             f2 == F("before", s, top.todo \ {d})
  <1>5. /\ f1 \in Frame /\ f1.call = "before" /\ f1.s = d /\ f1.todo = Consumers(d)
        /\ f2 \in Frame /\ f2.call = "before" /\ f2.s = s /\ f2.todo = top.todo \ {d}
    <2>1. Consumers(d) \in SUBSET Suppliers /\ top.todo \ {d} \in SUBSET Suppliers
      BY <1>2 DEF Consumers
    <2>2. QED
      BY <1>2, <1>3, <2>1, FrameFields DEF Calls
  <1>6. /\ rest \subseteq W2 /\ W2 \subseteq {f1, f2} \cup rest
        /\ isInputValid[d] /\ ~notifierOpen[d] /\ Consumers(d) # {} => f1 \in W2
        /\ top.todo \ {d} # {} => f2 \in W2
    BY <1>3 DEF Telling
  <1>7. stack' \in Seq(Frame)
    <2>1. Step
      BY DEF Step
    <2>2. QED
      BY <2>1, StackStays
  <1> HIDE DEF f1, f2, W2, W
  <1>8. ASSUME NEW x \in Suppliers
        PROVE  /\ Trusted(x)' => Trusted(x) /\ x # d
               /\ x # d => (Settled(x) => Settled(x)')
               /\ x # d \/ workStatus[x] = WS_LOCKED => (Fresh(x) => Fresh(x)')
    <2>1. CASE x = d
      BY <1>1, <1>3, <2>1 DEF Trusted, Fresh
    <2>2. CASE x # d
      <3>1. /\ isInputValid'[x] <=> isInputValid[x]
            /\ notifierOpen'[x] <=> notifierOpen[x]
            /\ workStatus'[x] = workStatus[x]
            /\ lastWorkState'[x] = lastWorkState[x]
        BY <1>1, <1>3, <2>2
      <3>2. QED
        BY <2>2, <3>1, SameTrust
    <2>3. QED
      BY <2>1, <2>2
  <1>9. ASSUME NEW i, NEW c, c # d, \E f \in W : f.call = "before" /\ f.s = i /\ c \in f.todo
        PROVE  \E f \in W2 : f.call = "before" /\ f.s = i /\ c \in f.todo
    <2>1. PICK f \in W : f.call = "before" /\ f.s = i /\ c \in f.todo
      BY <1>9
    <2>2. CASE f = top
      BY <1>5, <1>6, <1>9, <2>1, <2>2
    <2>3. CASE f \in rest
      BY <1>6, <2>1, <2>3
    <2>4. QED
      BY <1>2, <2>2, <2>3
  <1>10. TrustHeld'
    <2>1. ASSUME NEW e \in Suppliers, NEW i \in Inputs[e], Trusted(e)'
          PROVE  Settled(i)' \/ \E f \in W2 : f.call = "before" /\ f.s = i /\ e \in f.todo
      <3>1. i \in Suppliers /\ Trusted(e) /\ e # d
        BY <1>8, <2>1, NetworkAssumption
      <3>2. CASE \E f \in W : f.call = "before" /\ f.s = i /\ e \in f.todo
        BY <1>9, <3>1, <3>2
      <3>3. CASE Settled(i)
        <4>1. CASE i # d
          BY <1>8, <3>1, <3>3, <4>1
        <4>2. CASE i = d
          <5>1. isInputValid[d] /\ ~notifierOpen[d]
            BY <3>3, <4>2 DEF Settled, Trusted
          <5>2. e \in Consumers(d)
            BY <4>2 DEF Consumers
          <5>3. QED
            BY <1>5, <1>6, <4>2, <5>1, <5>2
        <4>3. QED
          BY <4>1, <4>2
      <3>4. QED
        BY <3>1, <3>2, <3>3 DEF TrustInv, TrustHeld, Pending, W
    <2>2. QED
      BY <2>1 DEF TrustHeld, Pending, W2
  <1>11. InitialsReady'
    <2>1. ASSUME NEW u \in Suppliers, workStatus'[u] = WS_INIT
          PROVE  areParametersValid'[u] /\ ~notifierOpen'[u] /\ \A i \in Inputs[u] : Fresh(i)'
      <3>1. workStatus[u] = WS_INIT /\ u # d /\ u \notin Consumers(d)
        BY <1>1, <1>4, <2>1
      <3>2. areParametersValid[u] /\ ~notifierOpen[u] /\ \A i \in Inputs[u] : Fresh(i)
        BY <3>1 DEF TrustInv, InitialsReady
      <3>3. \A i \in Inputs[u] : i \in Suppliers /\ i # d
        BY <3>1, NetworkAssumption DEF Consumers
      <3>4. QED
        BY <1>1, <1>3, <1>8, <3>1, <3>2, <3>3
    <2>2. QED
      BY <2>1 DEF InitialsReady
  <1>12. Demands(top) = {} /\ top.call \notin Initialization \cup {"init", "testFinish"}
    BY <1>2, DemandsOf DEF Initialization, Busy, Producing
  <1>13. InitialsDemanded'
    BY <1>1, <1>2, <1>6, <1>12 DEF TrustInv, InitialsDemanded, W, W2
  <1>14. InitializationsWanted'
    <2>1. \A f \in W2 : f.call \in Initialization => f \in W
      BY <1>2, <1>5, <1>6 DEF Initialization
    <2>2. QED
      BY <1>2, <1>6, <1>12, <2>1 DEF TrustInv, InitializationsWanted, W, W2
  <1>15. \A f \in W2 :
            /\ f \in Frame
            /\ f \in rest \/ f.call = "before"
            /\ f.call \in Start \cup {"before", "work", "init", "testFinish"}
    BY <1>2, <1>4, <1>5, <1>6
  <1>16. AfterFresh'
    BY <1>7, <1>15, NoAfter DEF W2, Start
  <1>17. ASSUME NEW f \in W2
         PROVE  Relies(f)'
    <2>1. \A j \in Demands(f) : Fresh(j)'
      <3>1. CASE f \in rest
        <4>1. Relies(f) /\ f \in W /\ Demands(f) \subseteq Suppliers
          BY <1>2, <3>1, DemandsOf DEF TrustInv, W
        <4>2. QED
          BY <1>4, <1>8, <4>1 DEF Relies
      <3>2. CASE f.call = "before"
        <4>1. Demands(f) = {}
          BY <1>15, <3>2, DemandsOf DEF Busy, Producing
        <4>2. QED
          BY <4>1
      <3>3. QED
        BY <1>15, <3>1, <3>2
    <2>2. CASE f.call \in {"init", "work", "before", "testInit", "testFinish"}
      BY <1>15, <2>1, <2>2, ReliesOnDemands
    <2>3. CASE f.call \in {"edit", "clear", "trigger"}
      <3>1. f \in rest /\ Relies(f) /\ f.call \notin Producing
        BY <1>2, <1>15, <2>3 DEF TrustInv, Producing, W
      <3>2. Awaits(f) = {} /\ Read(f) = {}
        BY <1>15, <2>3, <3>1, AwaitsAndRead
      <3>3. ASSUME NEW c \in Consumers(f.s), Trusted(c)'
            PROVE  Pending(f.s, c)'
        <4>1. Trusted(c) /\ c # d
          BY <1>8, <3>3 DEF Consumers
        <4>2. \E h \in W : h.call = "before" /\ h.s = f.s /\ c \in h.todo
          BY <2>3, <3>1, <4>1 DEF Relies, Pending, W
        <4>3. QED
          BY <1>9, <4>1, <4>2 DEF Pending, W2
      <3>4. QED
        BY <2>1, <3>1, <3>2, <3>3 DEF Relies, Consumers
    <2>4. QED
      BY <1>15, <2>2, <2>3 DEF Start
  <1>18. QED
    BY <1>10, <1>11, <1>13, <1>14, <1>16, <1>17 DEF TrustInv, W2

(* A client starts a call.  *)
LEMMA ClientTrust ==
    ASSUME IInv, TrustInv, DisciplinedClients, Client
    PROVE  TrustInv'
  <1>1. PICK s \in Suppliers :
           \/ EditParameters(s) \/ TriggerInput(s) \/ ClearWorkResults(s) \/ DoTest(s)
           \/ InvalidateSupplier(s) \/ EnsureWorkInitialized(s) \/ GetWorkProduct(s)
    BY DEF Client
  <1>2. EditParameters(s) \/ TriggerInput(s) \/ ClearWorkResults(s) \/ DoTest(s)
    BY <1>1, NobodyInterferes
  <1>3. TypeOK /\ Consumers(s) \in SUBSET Suppliers
    BY DEF IInv, Consumers
  <1>4. PICK call \in Start :
           \/ CallInvalidateSupplier(s, <<F(call, s, {})>>)
           \/ /\ call = "clear"
              /\ UNCHANGED attributes
              /\ stack' = LET below == <<F(call, s, {})>>
                          IN  IF notifierOpen[s] THEN below
                              ELSE NotifyBefore(s, Consumers(s), below)
    BY <1>2 DEF EditParameters, TriggerInput, ClearWorkResults, DoTest, Start
  <1>5. Frames(stack) = {} /\ UNCHANGED <<workStatus, lastWorkState, areParametersValid>>
    BY <1>2, FramesEmpty
       DEF EditParameters, TriggerInput, ClearWorkResults, DoTest, Idle, attributes
  <1> DEFINE f  == F(call, s, {})
             f1 == F("before", s, Consumers(s))
             W2 == Frames(stack')
  <1>6. /\ f \in Frame /\ f.call = call /\ f.s = s /\ f.call \in ClientCalls
        /\ f1 \in Frame /\ f1.call = "before" /\ f1.s = s /\ f1.todo = Consumers(s)
    BY <1>3, FrameFields DEF ClientCalls, Calls, Start
  <1> HIDE DEF f
  <1>7. <<f>> \in Seq(Frame) /\ Frames(<<f>>) = {f} /\ Layered(<<f>>) /\ Covers("before", {f})
    BY <1>6, ClientFrames
  <1>8. Frames(NotifyBefore(s, Consumers(s), <<f>>)) = Telling(s, Consumers(s)) \cup {f}
    <2>1. Frames(NotifyBefore(s, Consumers(s), <<f>>)) =
             Telling(s, Consumers(s)) \cup Frames(<<f>>)
      BY <1>3, <1>7, NotifyBeforeFrames
    <2>2. QED
      BY <1>7, <2>1
  <1>9. /\ W2 \subseteq {f, f1}
        /\ \A x \in Suppliers :
              /\ x # s => (isInputValid'[x] <=> isInputValid[x])
              /\ x # s => (notifierOpen'[x] <=> notifierOpen[x])
              /\ isInputValid'[x] => isInputValid[x]
        /\ Settled(s) => Consumers(s) = {} \/ f1 \in W2
    <2>1. CASE CallInvalidateSupplier(s, <<f>>)
      <3>1. /\ W2 = (IF isInputValid[s] /\ ~notifierOpen[s]
                     THEN Telling(s, Consumers(s)) ELSE {}) \cup {f}
            /\ \A x \in Suppliers :
                  /\ isInputValid'[x] <=> (isInputValid[x] /\ x # s)
                  /\ notifierOpen'[x] <=> (notifierOpen[x] \/ (x = s /\ isInputValid[s]))
        BY <1>3, <1>7, <2>1, InvalidateEffect
      <3>2. Settled(s) => isInputValid[s] /\ ~notifierOpen[s]
        BY DEF Settled, Trusted
      <3>3. QED
        BY <3>1, <3>2 DEF Telling
    <2>2. CASE /\ UNCHANGED attributes
               /\ stack' = LET below == <<f>>
                           IN  IF notifierOpen[s] THEN below
                               ELSE NotifyBefore(s, Consumers(s), below)
      <3>1. Settled(s) => ~notifierOpen[s]
        BY DEF Settled
      <3>2. W2 = (IF notifierOpen[s] THEN {} ELSE Telling(s, Consumers(s))) \cup {f}
        BY <1>7, <1>8, <2>2
      <3>3. QED
        BY <2>2, <3>1, <3>2 DEF Telling, attributes
    <2>3. QED
      BY <1>4, <2>1, <2>2 DEF f
  <1>10. stack' \in Seq(Frame)
    <2>1. [Next]_vars
      BY DEF Next
    <2>2. TypeOK'
      BY <1>3, <2>1, NextType
    <2>3. QED
      BY <2>2 DEF TypeOK
  <1> HIDE DEF f1, W2
  <1>11. \A u \in Suppliers : workStatus'[u] # WS_INIT
    BY <1>5, NoneInitial DEF TrustInv
  <1>12. ASSUME NEW e \in Suppliers, NEW i \in Inputs[e], Trusted(e)'
         PROVE  Settled(i)' \/ \E g \in W2 : g.call = "before" /\ g.s = i /\ e \in g.todo
    <2>1. i \in Suppliers /\ Trusted(e)
      BY <1>5, <1>9, <1>12, NetworkAssumption DEF Trusted
    <2>2. Settled(i)
      BY <1>5, <2>1 DEF TrustInv, TrustHeld, Pending
    <2>3. CASE i # s
      <3>1. /\ isInputValid'[i] <=> isInputValid[i]
            /\ notifierOpen'[i] <=> notifierOpen[i]
            /\ workStatus'[i] = workStatus[i]
            /\ lastWorkState'[i] = lastWorkState[i]
        BY <1>5, <1>9, <2>1, <2>3
      <3>2. QED
        BY <2>2, <3>1, SameTrust
    <2>4. CASE i = s
      <3>1. e \in Consumers(s)
        BY <2>4 DEF Consumers
      <3>2. f1 \in W2
        BY <1>9, <2>2, <2>4, <3>1
      <3>3. QED
        BY <1>6, <2>4, <3>1, <3>2
    <2>5. QED
      BY <2>3, <2>4
  <1>13. TrustHeld'
    BY <1>12 DEF TrustHeld, Pending, W2
  <1>14. InitialsReady' /\ InitialsDemanded'
    BY <1>11 DEF InitialsReady, InitialsDemanded
  <1>15. InitializationsWanted'
    BY <1>6, <1>9 DEF InitializationsWanted, Initialization, Start, W2
  <1>16. AfterFresh'
    BY <1>6, <1>9, <1>10, NoAfter DEF W2, Start
  <1>17. ASSUME NEW h \in W2
         PROVE  Relies(h)'
    <2>1. h \in Frame /\ h.call \in Start \cup {"before"} /\ (h = f \/ h = f1)
      BY <1>6, <1>9
    <2>2. Demands(h) = {} /\ Awaits(h) = {} /\ Read(h) = {} /\ h.call \notin Producing
      BY <2>1, DemandsOf, AwaitsAndRead DEF Start, Busy, Producing
    <2>3. ASSUME h.call \in {"edit", "clear", "trigger"}, NEW c \in Consumers(h.s), Trusted(c)'
          PROVE  Pending(h.s, c)'
      <3>1. h = f
        BY <1>6, <2>1, <2>3
      <3>2. c \in Suppliers /\ s \in Inputs[c] /\ Trusted(c)
        BY <1>5, <1>6, <1>9, <2>3, <3>1 DEF Consumers, Trusted
      <3>3. Settled(s)
        BY <1>5, <3>2 DEF TrustInv, TrustHeld, Pending
      <3>4. f1 \in W2
        BY <1>6, <1>9, <2>3, <3>1, <3>3
      <3>5. QED
        BY <1>6, <2>3, <3>1, <3>4 DEF Pending, W2
    <2>4. QED
      BY <2>2, <2>3 DEF Relies, Consumers
  <1>18. QED
    BY <1>13, <1>14, <1>15, <1>16, <1>17 DEF TrustInv, W2

(* At first nothing is trusted.  *)
LEMMA InitTrust == Init => TrustInv
  <1>1. SUFFICES ASSUME Init
                 PROVE  TrustInv
    OBVIOUS
  <1>2. \A s \in Suppliers : ~Trusted(s) /\ workStatus[s] # WS_INIT
    <2>1. \A s \in Suppliers : ~isInputValid[s] /\ workStatus[s] = WS_INVALID
      BY Zenon, <1>1 DEF Init
    <2>2. WS_INVALID # WS_INIT
      BY DEF WS_INVALID, WS_INIT
    <2>3. QED
      BY <2>1, <2>2 DEF Trusted
  <1>3. Frames(stack) = {} /\ ~Running("after")
    BY <1>1, FramesEmpty DEF Init, Running
  <1>4. QED
    BY <1>2, <1>3
       DEF TrustInv, TrustHeld, InitialsReady, InitialsDemanded, InitializationsWanted, AfterFresh

(* Every step keeps the trust justified.  *)
LEMMA StepTrust ==
    ASSUME IInv, Shape, TrustInv, SeparateInputs, DisciplinedClients, [Next]_vars
    PROVE  TrustInv'
  <1>1. CASE Client
    BY <1>1, ClientTrust
  <1>2. CASE Step
    BY <1>2, BeforeUpdateTrust, ObserverReadsTrust, ObserverIgnoresTrust,
       InitializeInputTrust, OpenProductChangeTrust, InitializeWorkTrust, ReadInputTrust,
       GotInputTrust, FinishWorkTrust, ClientEndsTrust, TestInitializeTrust, TestFinishTrust
       DEF Step
  <1>3. CASE UNCHANGED vars
    <2>1. UNCHANGED <<stack, workStatus, lastWorkState, isInputValid, areParametersValid,
                      notifierOpen>>
      BY <1>3 DEF vars, attributes
    <2>2. QED
      BY <2>1
         DEF TrustInv, TrustHeld, InitialsReady, InitialsDemanded, InitializationsWanted,
             AfterFresh, Relies, Pending, Fresh, Answered, Settled, Trusted, InProduction,
             Running, Frames
  <1>4. QED
    BY <1>1, <1>2, <1>3 DEF Next

(* In a network of separate inputs and among disciplined clients every trusted result is *)
(* trusted for a reason.                                                                 *)
THEOREM TrustJustified ==
    ASSUME SeparateInputs, DisciplinedClients
    PROVE  Spec => [](IInv /\ Shape /\ TrustInv)
  <1>1. Init => TrustInv
    BY InitTrust
  <1>2. IInv /\ Shape /\ TrustInv /\ [Next]_vars => TrustInv'
    BY StepTrust
  <1>3. QED
    BY <1>1, <1>2, Invariance, ShapeKept, PTL DEF Spec

-----------------------------------------------------------------------------
(***************************************************************************)
(* The promise of ResultCache.  On top of the trust: a trusted result is   *)
(* current, and while a result is being calculated nothing calculated from *)
(* it is current and no outdated input has been used.                      *)
(***************************************************************************)
Good(s) == Trusted(s) /\ lastWorkState[s] = WS_OK

ProductionsSound ==
    \A f \in Frames(stack) :
        f.call \in Producing =>
            f.got # "outdated" /\ \A d \in Downstream(f.s) : product[d] # "current"

ProductInv == CacheCoherent /\ ProductionsSound

(* The step keeps ProductInv, and the promise.  *)
Promise == ProductInv' /\ [Cache!Next]_(Cache!vars)

(* Nothing that the promise is about happens.  *)
LEMMA NothingHappens ==
    ASSUME product' = product, \A x \in Suppliers : Good(x)' <=> Good(x)
    PROVE  [Cache!Next]_(Cache!vars)
  BY DEF Cache!vars, Good

(* An invalidation.  *)
LEMMA Distrusts ==
    ASSUME NEW s \in Suppliers, product' = product,
           \A x \in Suppliers : Good(x)' <=> (Good(x) /\ x # s)
    PROVE  [Cache!Next]_(Cache!vars)
  <1>1. Cache!Distrust(s)
    BY DEF Cache!Distrust, Good
  <1>2. QED
    BY <1>1 DEF Cache!Next

(* A new result, or none.  *)
LEMMA Replaces ==
    ASSUME TypeOK, NEW s \in Suppliers, NEW r,
           product' = [Outdate(product, s) EXCEPT ![s] = r]
    PROVE  Cache!Replace(s, r)
  BY DEF Cache!Replace, Outdate, TypeOK

(* What it changes.  *)
LEMMA Outdates ==
    ASSUME TypeOK, NEW s \in Suppliers, NEW r,
           product' = [Outdate(product, s) EXCEPT ![s] = r]
    PROVE  \A x \in Suppliers :
              /\ x # s => (product'[x] = "current" => product[x] = "current")
              /\ x \in Downstream(s) => product'[x] # "current" \/ x = s
              /\ x \notin Reach(s) => product'[x] = product[x]
              /\ x = s => product'[x] = r
  BY DEF Outdate, TypeOK, Reach

(* It outdates what is calculated from it, which nobody trusts.  *)
LEMMA StillCoherent ==
    ASSUME TypeOK, CacheCoherent, NEW s \in Suppliers, NEW r,
           product' = [Outdate(product, s) EXCEPT ![s] = r],
           \A d \in Downstream(s) : ~Trusted(d),
           \A x \in Suppliers : x # s => (Trusted(x)' => Trusted(x)),
           \A x \in Suppliers : x # s => lastWorkState'[x] = lastWorkState[x],
           isInputValid'[s] /\ lastWorkState'[s] = WS_OK => r = "current"
    PROVE  CacheCoherent'
  <1>1. SUFFICES ASSUME NEW x \in Suppliers, Trusted(x)', lastWorkState'[x] = WS_OK
                 PROVE  product'[x] = "current"
    BY DEF CacheCoherent
  <1>2. CASE x = s
    <2>1. isInputValid'[s]
      BY <1>1, <1>2 DEF Trusted
    <2>2. r = "current"
      BY <1>1, <1>2, <2>1
    <2>3. QED
      BY <1>2, <2>2, Outdates
  <1>3. CASE x # s
    <2>1. Trusted(x) /\ lastWorkState[x] = WS_OK
      BY <1>1, <1>3
    <2>2. x \notin Reach(s)
      BY <1>3, <2>1 DEF Reach
    <2>3. QED
      BY <2>1, <2>2, Outdates DEF CacheCoherent
  <1>4. QED
    BY <1>2, <1>3

(* What is not told to the consumers does not change the results.  *)
LEMMA QuietPromise ==
    ASSUME ProductInv, UNCHANGED <<product, isInputValid, lastWorkState>>,
           \A f \in Frames(stack') :
               f.call \in Producing =>
                   \E g \in Frames(stack) : g.call \in Producing /\ g.s = f.s /\ g.got = f.got
    PROVE  Promise
  <1>1. \A x : (Trusted(x)' <=> Trusted(x)) /\ (Good(x)' <=> Good(x))
    BY DEF Trusted, Good
  <1>2. CacheCoherent'
    BY <1>1 DEF ProductInv, CacheCoherent
  <1>3. ProductionsSound'
    BY DEF ProductInv, ProductionsSound
  <1>4. [Cache!Next]_(Cache!vars)
    BY <1>1, NothingHappens
  <1>5. QED
    BY <1>2, <1>3, <1>4 DEF Promise, ProductInv

(* An invalidation takes trust away, and nothing else.  *)
LEMMA InvalidatePromise ==
    ASSUME ProductInv, NEW s \in Suppliers, UNCHANGED <<product, lastWorkState>>,
           \A x \in Suppliers : isInputValid'[x] <=> (isInputValid[x] /\ x # s),
           \A f \in Frames(stack') : f.call \in Producing => f \in Frames(stack)
    PROVE  Promise
  <1>1. \A x \in Suppliers : Trusted(x)' <=> (Trusted(x) /\ x # s)
    BY DEF Trusted
  <1>2. \A x \in Suppliers : Good(x)' <=> (Good(x) /\ x # s)
    BY <1>1 DEF Good
  <1>3. CacheCoherent'
    BY <1>1 DEF ProductInv, CacheCoherent
  <1>4. ProductionsSound'
    BY DEF ProductInv, ProductionsSound
  <1>5. [Cache!Next]_(Cache!vars)
    BY <1>2, Distrusts
  <1>6. QED
    BY <1>3, <1>4, <1>5 DEF Promise, ProductInv

(* EnsureWorkFinished neither gives nor takes trust.  *)
LEMMA FinishTrusts ==
    ASSUME IInv, NEW s \in Suppliers, Below(s, Frames(stack)),
           Fresh(s) \/ lastWorkState[s] = WS_INVALID,
           lastWorkState' = lastWorkState,
           MustProduce(s) => isInputValid' = isInputValid,
           ~MustProduce(s) =>
               \A x \in Suppliers : isInputValid'[x] <=> (x = s \/ isInputValid[x])
    PROVE  \A x \in Suppliers : Trusted(x)' <=> Trusted(x)
  <1>1. workStatus[s] # WS_LOCKED
    <2>1. ASSUME NEW h \in Frames(stack), h.call \in Busy
          PROVE  h.s # s
      <3>1. Level[s] < Level[h.s] /\ Level[s] \in Nat
        BY <2>1, AcyclicAssumption DEF Below
      <3>2. QED
        BY <3>1
    <2>2. QED
      BY <2>1, NotLocked
  <1>2. lastWorkState[s] \in Int
    BY DEF IInv, TypeOK, WorkStatus, WS_INVALID, WS_FAILED
  <1>3. CASE MustProduce(s)
    BY <1>3 DEF Trusted
  <1>4. CASE ~MustProduce(s)
    <2>1. lastWorkState[s] > WS_INIT => Trusted(s)
      <3>1. CASE workStatus[s] = WS_INIT
        BY <1>2, <1>4, <3>1 DEF MustProduce, Trusted, WS_INIT
      <3>2. CASE Settled(s)
        BY <3>2 DEF Settled
      <3>3. CASE lastWorkState[s] = WS_INVALID
        BY <3>3 DEF WS_INVALID, WS_INIT
      <3>4. QED
        BY <1>1, <3>1, <3>2, <3>3 DEF Fresh
    <2>2. \A x \in Suppliers : isInputValid'[x] <=> (x = s \/ isInputValid[x])
      BY <1>4
    <2>3. QED
      BY <2>1, <2>2 DEF Trusted
  <1>5. QED
    BY <1>3, <1>4

(* EnsureWorkFinished starts to overwrite a result, or hands it out.  *)
LEMMA FinishPromise ==
    ASSUME IInv, TrustInv, ProductInv, \A h \in Frames(stack) : h.call # "before",
           NEW s \in Suppliers, Below(s, Frames(stack)),
           NEW below \in Seq(Frame), Layered(below), Covers("produce", Frames(below)),
           \A f \in Frames(below) :
               f.call \in Producing =>
                   \E g \in Frames(stack) : g.call \in Producing /\ g.s = f.s /\ g.got = f.got,
           Fresh(s) \/ lastWorkState[s] = WS_INVALID,
           CallEnsureWorkFinished(s, below), lastWorkState' = lastWorkState
    PROVE  Promise
  <1> DEFINE f0 == F("produce", s, Inputs[s])
             W0 == Frames(below)
             W2 == Frames(stack')
  <1>1. /\ MustProduce(s) =>
              /\ W2 = {f0} \cup W0
              /\ isInputValid' = isInputValid
              /\ product' = [Outdate(product, s) EXCEPT ![s] = "outdated"]
        /\ ~MustProduce(s) =>
              /\ W2 = W0
              /\ \A x \in Suppliers : isInputValid'[x] <=> (x = s \/ isInputValid[x])
              /\ product' = product
    <2>1. TypeOK
      BY DEF IInv
    <2>2. CASE MustProduce(s)
      BY <2>1, <2>2, FinishEffect
    <2>3. CASE ~MustProduce(s)
      BY <2>1, <2>3, FinishEffect, FramesEmpty
    <2>4. QED
      BY <2>2, <2>3
  <1>2. /\ f0.call = "produce" /\ f0.s = s /\ f0.got = "current"
    BY DEF F
  <1>3. \A x \in Suppliers : Trusted(x)' <=> Trusted(x)
    <2>1. CASE MustProduce(s)
      BY <1>1, <2>1, FinishTrusts
    <2>2. CASE ~MustProduce(s)
      BY <1>1, <2>2, FinishTrusts
    <2>3. QED
      BY <2>1, <2>2
  <1>4. \A x \in Suppliers : Good(x)' <=> Good(x)
    BY <1>3 DEF Good
  <1> HIDE DEF f0, W0, W2
  <1>5. ASSUME NEW f \in W0, f.call \in Producing
        PROVE  f.got # "outdated" /\ \A d \in Downstream(f.s) : product[d] # "current"
    BY <1>5 DEF ProductInv, ProductionsSound, W0
  <1>6. CASE MustProduce(s)
    <2>1. ~Trusted(s) /\ ~Settled(s)
      <3>1. lastWorkState[s] \in Int
        BY DEF IInv, TypeOK, WorkStatus, WS_INVALID, WS_FAILED
      <3>2. QED
        BY <1>6, <3>1 DEF MustProduce, Trusted, Settled, WS_INIT
    <2>2. \A d \in Downstream(s) : ~Trusted(d)
      BY <2>1, NobodyTrusts DEF TrustInv
    <2>3. product' = [Outdate(product, s) EXCEPT ![s] = "outdated"] /\ TypeOK
      BY <1>1, <1>6 DEF IInv
    <2>4. CacheCoherent'
      <3>1. ~(isInputValid'[s] /\ lastWorkState'[s] = WS_OK)
        BY <1>1, <1>6, <2>1 DEF Trusted, WS_OK, WS_INIT
      <3>2. QED
        BY <1>3, <2>2, <2>3, <3>1, StillCoherent DEF ProductInv
    <2>5. /\ \A x \in Suppliers : product'[x] = "current" => product[x] = "current"
          /\ \A d \in Downstream(s) : product'[d] # "current"
      <3>1. \A d \in Downstream(s) : d \in Suppliers
        BY DownstreamLeast
      <3>2. \A x \in Suppliers :
               /\ x # s => (product'[x] = "current" => product[x] = "current")
               /\ x \in Downstream(s) => product'[x] # "current" \/ x = s
               /\ x = s => product'[x] = "outdated"
        BY <2>3 DEF Outdate, TypeOK
      <3>3. QED
        BY <3>1, <3>2
    <2>6. ASSUME NEW f \in W2, f.call \in Producing
          PROVE  f.got # "outdated" /\ \A d \in Downstream(f.s) : product'[d] # "current"
      <3>1. CASE f = f0
        BY <1>2, <2>5, <3>1
      <3>2. CASE f \in W0
        <4>1. f \in Frame
          BY <3>2 DEF Frames, W0
        <4>2. Downstream(f.s) \subseteq Suppliers
          BY <4>1, DownstreamLeast DEF Frame
        <4>3. QED
          BY <1>5, <2>5, <2>6, <3>2, <4>2
      <3>3. QED
        BY <1>1, <1>6, <3>1, <3>2
    <2>7. ProductionsSound'
      BY <2>6 DEF ProductionsSound, W2
    <2>8. [Cache!Next]_(Cache!vars)
      <3>1. Cache!Replace(s, "outdated")
        BY <2>3, Replaces
      <3>2. Cache!Overwrite(s)
        BY <1>4, <2>1, <2>2, <3>1, DownstreamLeast DEF Cache!Overwrite, Cache!NobodyTrusts, Good
      <3>3. QED
        BY <3>2 DEF Cache!Next
    <2>9. QED
      BY <2>4, <2>7, <2>8 DEF Promise, ProductInv
  <1>7. CASE ~MustProduce(s)
    <2>1. product' = product /\ W2 = W0
      BY <1>1, <1>7
    <2>2. CacheCoherent'
      BY <1>3, <2>1 DEF ProductInv, CacheCoherent
    <2>3. ProductionsSound'
      BY <1>5, <2>1 DEF ProductionsSound, W2
    <2>4. [Cache!Next]_(Cache!vars)
      BY <1>4, <2>1, NothingHappens
    <2>5. QED
      BY <2>2, <2>3, <2>4 DEF Promise, ProductInv
  <1>8. QED
    BY <1>6, <1>7

(* EnsureWorkFinished, called by an observer, by DoTest or by a production.  *)
LEMMA ReadPromise ==
    ASSUME IInv, Shape, TrustInv, ProductInv, ObserverReads \/ TestFinish \/ ReadInput
    PROVE  Promise
  <1> DEFINE top  == Head(stack)
             rest == Frames(Tail(stack))
  <1>1. PICK call \in {"after", "testFinish", "produce"} :
           /\ Running(call)
           /\ ObserverReads => call = "after"
           /\ TestFinish => call = "testFinish"
           /\ ReadInput => call = "produce"
    BY DEF ObserverReads, TestFinish, ReadInput, Running
  <1>2. /\ top \in Frame /\ top.call = call /\ top.s \in Suppliers
        /\ top.todo \in SUBSET Suppliers
        /\ Frames(stack) = {top} \cup rest
        /\ Tail(stack) \in Seq(Frame) /\ Layered(Tail(stack))
        /\ call \in {"after", "produce"} => Below(top.s, rest)
        /\ call = "testFinish" => Tail(stack) = <<>> /\ rest = {}
    BY <1>1, TopFrames DEF IInv, Shape, Busy, Producing, ClientCalls
  <1>3. \A h \in Frames(stack) : h.call # "before"
    BY <1>1, NothingAnnounced
  <1>4. lastWorkState' = lastWorkState
    BY DEF ObserverReads, TestFinish, ReadInput
  <1>5. Relies(top)
    BY <1>2 DEF TrustInv
  <1>6. CASE ObserverReads
    <2>1. call = "after" /\ Covers("produce", rest)
      <3>1. ShapeBelow(rest)
        BY <1>1, <1>6, RestShape DEF IInv
      <3>2. QED
        BY <1>1, <1>6, <3>1 DEF ShapeBelow, Covers, Announcing
    <2>2. Fresh(top.s) \/ lastWorkState[top.s] = WS_INVALID
      BY <1>1, <2>1 DEF TrustInv, AfterFresh
    <2>3. Below(top.s, Frames(stack))
      BY <1>2, <2>1 DEF Below, Busy, Producing
    <2>4. CallEnsureWorkFinished(top.s, Tail(stack))
      BY <1>6 DEF ObserverReads
    <2>5. QED
      BY <1>2, <1>3, <1>4, <2>1, <2>2, <2>3, <2>4, FinishPromise
  <1>7. CASE TestFinish
    <2> DEFINE f == F("tested", top.s, top.todo)
    <2>1. call = "testFinish"
      BY <1>1, <1>7
    <2>2. f \in Frame /\ f.call = "tested"
      BY <1>2, FrameFields DEF Calls
    <2>3. CallEnsureWorkFinished(top.s, <<f>> \o <<>>)
      BY <1>2, <1>7, <2>1 DEF TestFinish
    <2> HIDE DEF f
    <2>4. /\ <<f>> \in Seq(Frame) /\ <<f>> = <<f>> \o <<>>
          /\ Frames(<<f>>) = {f} /\ Layered(<<f>>) /\ Covers("produce", {f})
      BY <2>2, ClientFrames DEF ClientCalls
    <2>5. Fresh(top.s)
      BY <1>2, <1>5, <2>1, DemandsOf DEF Relies
    <2>6. Below(top.s, Frames(stack))
      BY <1>2, <2>1 DEF Below, Busy, Producing
    <2>7. f.call \notin Producing
      BY <2>2 DEF Producing
    <2>8. CallEnsureWorkFinished(top.s, <<f>>)
      BY <2>3, <2>4
    <2>9. QED
      BY <1>2, <1>3, <1>4, <2>4, <2>5, <2>6, <2>7, <2>8, FinishPromise
  <1>8. CASE ReadInput
    <2>1. PICK i \in top.todo, f \in Frame :
             /\ i \in Suppliers
             /\ f.call = "read" /\ f.s = top.s /\ f.got = top.got
             /\ <<f>> \o Tail(stack) \in Seq(Frame)
             /\ Frames(<<f>> \o Tail(stack)) = {f} \cup rest
             /\ Layered(<<f>> \o Tail(stack))
             /\ Below(i, {f} \cup rest)
             /\ CallEnsureWorkFinished(i, <<f>> \o Tail(stack))
      BY <1>8, ReadInputEffect DEF Shape
    <2>2. call = "produce"
      BY <1>1, <1>8
    <2>3. Covers("produce", {f} \cup rest)
      <3>1. ShapeBelow(rest)
        BY <1>1, <2>2, RestShape DEF IInv
      <3>2. QED
        BY <2>1, <3>1 DEF ShapeBelow, Covers, Announcing
    <2>4. Fresh(i)
      BY <1>2, <1>5, <2>2, DemandsOf DEF Relies, Producing
    <2>5. Below(i, Frames(stack))
      BY <1>2, <2>1, <2>2 DEF Below, Busy, Producing
    <2>6. \A h \in {f} \cup rest :
             h.call \in Producing =>
                 \E g \in Frames(stack) : g.call \in Producing /\ g.s = h.s /\ g.got = h.got
      BY <1>2, <2>1, <2>2 DEF Producing
    <2>7. QED
      BY <1>3, <1>4, <2>1, <2>3, <2>4, <2>5, <2>6, FinishPromise
  <1>9. QED
    BY <1>6, <1>7, <1>8

(* A production takes what an input has handed out.  *)
LEMMA GotInputPromise ==
    ASSUME IInv, Shape, TrustInv, ProductInv, GotInput
    PROVE  Promise
  <1> DEFINE top  == Head(stack)
             rest == Frames(Tail(stack))
             i    == top.input
             read == WorkProduct(i)
  <1>1. Running("read") /\ UNCHANGED attributes /\ "read" \in Producing
    BY DEF GotInput, Producing
  <1>2. /\ top \in Frame /\ top.call = "read" /\ i \in Suppliers
        /\ Frames(stack) = {top} \cup rest
    BY <1>1, TopFrames DEF IInv, Shape
  <1>3. PICK f \in Frame :
           /\ f.call = "produce" /\ f.s = top.s
           /\ f.got = (IF top.got = "null" \/ read = "current" THEN top.got ELSE read)
           /\ Frames(stack') = {f} \cup rest
    BY GotInputEffect DEF Shape
  <1>4. top.got # "outdated" /\ \A d \in Downstream(top.s) : product[d] # "current"
    BY <1>1, <1>2 DEF ProductInv, ProductionsSound
  <1>5. read # "outdated"
    <2>1. SUFFICES ASSUME read = "outdated"
                   PROVE  FALSE
      OBVIOUS
    <2>2. product[i] = "outdated"
      BY <2>1 DEF WorkProduct
    <2>3. lastWorkState[i] = WS_OK /\ Trusted(i)
      BY <1>1, <2>1, ReadIsAnswered
    <2>4. QED
      BY <1>2, <2>2, <2>3 DEF ProductInv, CacheCoherent
  <1> HIDE DEF read
  <1>6. f.got # "outdated"
    BY <1>3, <1>4, <1>5
  <1>7. UNCHANGED <<product, isInputValid, lastWorkState>>
    BY <1>1 DEF attributes
  <1>8. CacheCoherent'
    BY <1>7 DEF ProductInv, CacheCoherent, Trusted
  <1>9. ProductionsSound'
    BY <1>2, <1>3, <1>4, <1>6, <1>7 DEF ProductInv, ProductionsSound
  <1>10. [Cache!Next]_(Cache!vars)
    BY <1>7, NothingHappens DEF Good, Trusted
  <1>11. QED
    BY <1>8, <1>9, <1>10 DEF Promise, ProductInv

(* The steps of the promise this part takes.  *)
LEMMA PromisedStep ==
    ASSUME NEW s \in Suppliers,
           Cache!Change(s) \/ Cache!Overwrite(s) \/ Cache!Deliver(s) \/ Cache!Drop(s)
    PROVE  [Cache!Next]_(Cache!vars)
  BY DEF Cache!Next

(* A production delivers, or leaves an outdated result.  *)
LEMMA FinishWorkPromise ==
    ASSUME IInv, Shape, TrustInv, ProductInv, DisciplinedClients,
           NEW result \in WS_OK..WS_FAILED, FinishWork(result)
    PROVE  Promise
  <1> DEFINE top  == Head(stack)
             s    == top.s
             rest == Frames(Tail(stack))
             made == IF result = WS_OK /\ top.got = "current" /\ areParametersValid[s]
                     THEN "current" ELSE "outdated"
  <1>1. /\ Running("produce") /\ "produce" \in Producing /\ TypeOK
        /\ isInputValid' = [isInputValid EXCEPT ![s] = TRUE]
        /\ lastWorkState' = [lastWorkState EXCEPT ![s] = result]
        /\ product' = [product EXCEPT ![s] = made]
        /\ stack' = Tail(stack)
        /\ top.got = "null" => result # WS_OK
    BY DEF FinishWork, IInv, Producing
  <1>2. /\ top \in Frame /\ top.call = "produce" /\ s \in Suppliers
        /\ Frames(stack) = {top} \cup rest /\ rest \subseteq Frame /\ Below(s, rest)
    BY <1>1, TopFrames DEF IInv, Shape, Busy
  <1>3. \A h \in Frames(stack) : h.call # "before"
    BY <1>1, NothingAnnounced
  <1>4. /\ ~Trusted(s) /\ areParametersValid[s]
        /\ \A i \in Inputs[s] :
              Trusted(i) /\ (top.got # "null" => lastWorkState[i] = WS_OK)
    <2>1. Relies(top)
      BY <1>2 DEF TrustInv
    <2>2. Read(top) = Inputs[s]
      BY <1>2, FinishWorkComplete, AwaitsAndRead
    <2>3. QED
      BY <1>1, <1>2, <2>1, <2>2 DEF Relies, Settled
  <1>5. top.got # "outdated" /\ \A d \in Downstream(s) : product[d] # "current"
    BY <1>1, <1>2 DEF ProductInv, ProductionsSound
  <1>6. result = WS_OK => top.got = "current" /\ made = "current"
    BY <1>1, <1>2, <1>4, <1>5 DEF Frame, Products
  <1>7. made = "current" => result = WS_OK
    OBVIOUS
  <1>8. \A d \in Downstream(s) : ~Trusted(d)
    <2>1. ~Settled(s)
      BY <1>4 DEF Settled
    <2>2. QED
      BY <1>2, <1>3, <2>1, NobodyTrusts DEF TrustInv
  <1>9. product' = [Outdate(product, s) EXCEPT ![s] = made]
    <2>1. Outdate(product, s) = product
      BY <1>1, <1>5 DEF Outdate, TypeOK
    <2>2. QED
      BY <1>1, <2>1
  <1>10. /\ \A x \in Suppliers : x # s => lastWorkState'[x] = lastWorkState[x]
         /\ lastWorkState'[s] = result
         /\ \A x \in Suppliers : isInputValid'[x] <=> (x = s \/ isInputValid[x])
    <2>1. \A x \in Suppliers : lastWorkState'[x] = IF x = s THEN result ELSE lastWorkState[x]
      BY <1>1 DEF TypeOK
    <2>2. \A x \in Suppliers : isInputValid'[x] <=> (x = s \/ isInputValid[x])
      BY Zenon, <1>1 DEF TypeOK
    <2>3. QED
      BY <1>2, <2>1, <2>2
  <1> HIDE DEF made
  <1>11. /\ \A x \in Suppliers : x # s => (Trusted(x)' <=> Trusted(x))
         /\ \A x \in Suppliers : Good(x)' <=> (Good(x) \/ (x = s /\ result = WS_OK))
    <2>1. \A x \in Suppliers : x # s => (Trusted(x)' <=> Trusted(x))
      BY <1>10 DEF Trusted
    <2>2. \A x \in Suppliers : x # s => (Good(x)' <=> Good(x))
      BY <1>10, <2>1 DEF Good
    <2>3. \A x \in Suppliers : x = s => (Good(x)' <=> result = WS_OK) /\ ~Good(x)
      BY <1>2, <1>4, <1>10 DEF Good, Trusted, WS_OK, WS_INIT
    <2>4. QED
      <3>1. ASSUME NEW x \in Suppliers
            PROVE  Good(x)' <=> (Good(x) \/ (x = s /\ result = WS_OK))
        <4>1. CASE x = s
          BY <2>3, <4>1
        <4>2. CASE x # s
          BY <2>2, <4>2
        <4>3. QED
          BY <4>1, <4>2
      <3>2. QED
        BY <2>1, <3>1
  <1>12. CacheCoherent'
    <2>1. isInputValid'[s] /\ lastWorkState'[s] = WS_OK => made = "current"
      BY <1>6, <1>10
    <2>2. \A x \in Suppliers : x # s => (Trusted(x)' => Trusted(x))
      BY <1>11
    <2>3. /\ \A x \in Suppliers : x # s => lastWorkState'[x] = lastWorkState[x]
          /\ CacheCoherent /\ TypeOK
      BY <1>1, <1>10 DEF ProductInv
    <2>4. QED
      BY <1>2, <1>8, <1>9, <2>1, <2>2, <2>3, StillCoherent
  <1>13. ProductionsSound'
    <2>1. ASSUME NEW f \in rest, f.call \in Producing
          PROVE  f.got # "outdated" /\ \A d \in Downstream(f.s) : product'[d] # "current"
      <3>1. f.got # "outdated" /\ \A d \in Downstream(f.s) : product[d] # "current"
        BY <1>2, <2>1 DEF ProductInv, ProductionsSound
      <3>2. f.s \in Suppliers /\ Level[s] < Level[f.s]
        BY <1>2, <2>1 DEF Below, Busy, Frame
      <3>3. s \notin Downstream(f.s)
        BY <1>2, <3>2, DownstreamHigher, AcyclicAssumption
      <3>4. \A x \in Suppliers : x # s => product'[x] = product[x]
        BY <1>1 DEF TypeOK
      <3>5. QED
        BY <3>1, <3>2, <3>3, <3>4, DownstreamLeast
    <2>2. QED
      BY <1>1, <2>1 DEF ProductionsSound
  <1>14. [Cache!Next]_(Cache!vars)
    <2>1. Cache!Replace(s, made)
      BY <1>1, <1>2, <1>9, Replaces
    <2>2. ~Good(s) /\ \A d \in Downstream(s) : d \in Suppliers /\ ~Good(d)
      BY <1>2, <1>4, <1>8, DownstreamLeast DEF Good
    <2>3. CASE result = WS_OK
      <3>1. \A i \in Inputs[s] : product[i] = "current"
        <4>1. \A i \in Inputs[s] : i \in Suppliers /\ Trusted(i) /\ lastWorkState[i] = WS_OK
          BY <1>2, <1>4, <1>6, <2>3, NetworkAssumption
        <4>2. QED
          BY <4>1 DEF ProductInv, CacheCoherent
      <3>2. \A x \in Suppliers : x = s => Cache!Deliver(x)
        BY <1>2, <1>6, <1>11, <2>1, <2>2, <2>3, <3>1
           DEF Cache!Deliver, Cache!NobodyTrusts, Good
      <3>3. QED
        BY <1>2, <3>2, PromisedStep
    <2>4. CASE result # WS_OK
      <3>1. made = "outdated"
        BY <2>4 DEF made
      <3>2. \A x \in Suppliers : x = s => Cache!Overwrite(x)
        BY <1>2, <1>11, <2>1, <2>2, <2>4, <3>1
           DEF Cache!Overwrite, Cache!NobodyTrusts, Good
      <3>3. QED
        BY <1>2, <3>2, PromisedStep
    <2>5. QED
      BY <2>3, <2>4
  <1>15. QED
    BY <1>12, <1>13, <1>14 DEF Promise, ProductInv

(* While something changes, nobody trusts what is calculated from it.  *)
LEMMA ChangeUntrusted ==
    ASSUME IInv, Shape, TrustInv,
           NEW call \in {"edit", "trigger", "clear"}, Running(call)
    PROVE  LET s == Head(stack).s
           IN  /\ \A d \in Downstream(s) : ~Trusted(d)
               /\ \A c \in Consumers(s) : ~Trusted(c)
               /\ call \in {"edit", "trigger"} => ~Trusted(s)
  <1> DEFINE top == Head(stack)
             s   == top.s
  <1>1. /\ top.call = call /\ s \in Suppliers /\ Frames(stack) = {top}
    BY TopFrames DEF IInv, Shape, ClientCalls
  <1>2. \A h \in Frames(stack) : h.call # "before"
    BY <1>1
  <1>3. \A c \in Consumers(s) : ~Trusted(c)
    BY <1>1, <1>2 DEF TrustInv, Relies, Pending
  <1>4. call \in {"edit", "trigger"} => ~Trusted(s)
    BY <1>1 DEF Shape, StartsAlone, Start, Trusted
  <1>5. \A d \in Downstream(s) : ~Trusted(d)
    BY <1>1, <1>2, <1>3, NobodyTrusts DEF TrustInv
  <1>6. QED
    BY <1>3, <1>4, <1>5

(* The parameters or an input of a supplier change, or its result is dropped.  *)
LEMMA ChangePromise ==
    ASSUME IInv, Shape, TrustInv, ProductInv,
           ParamsObserverAfterUpdate \/ InputChanged \/ DropResults
    PROVE  Promise
  <1> DEFINE top == Head(stack)
             s   == top.s
             r   == IF DropResults THEN "null"
                    ELSE IF product[s] = "current" THEN "outdated" ELSE product[s]
  <1>1. PICK call \in {"edit", "trigger", "clear"} :
           /\ Running(call)
           /\ ParamsObserverAfterUpdate => call = "edit"
           /\ InputChanged => call = "trigger"
           /\ DropResults => call = "clear"
    BY DEF ParamsObserverAfterUpdate, InputChanged, DropResults, Running
  <1>2. /\ top \in Frame /\ top.call = call /\ s \in Suppliers /\ TypeOK
        /\ Frames(stack) = {top} /\ Tail(stack) = <<>>
    BY <1>1, TopFrames DEF IInv, Shape, ClientCalls
  <1>3. /\ \A d \in Downstream(s) : d \in Suppliers /\ ~Trusted(d)
        /\ call \in {"edit", "trigger"} => ~Trusted(s)
    BY <1>1, <1>2, ChangeUntrusted, DownstreamLeast
  <1>4. ~DropResults =>
           /\ UNCHANGED <<isInputValid, lastWorkState>>
           /\ stack' = <<>>
           /\ ~Trusted(s)
    BY <1>1, <1>2, <1>3 DEF ParamsObserverAfterUpdate, InputChanged
  <1>5. DropResults =>
           /\ isInputValid' = [isInputValid EXCEPT ![s] = FALSE]
           /\ lastWorkState' = [lastWorkState EXCEPT ![s] = WS_INVALID]
           /\ product' = [Outdate(product, s) EXCEPT ![s] = "null"]
           /\ stack' = <<F("after", s, {})>> \o <<>>
    BY <1>2 DEF DropResults, NotifyAfter
  <1>6. product' = [Outdate(product, s) EXCEPT ![s] = r]
    <2>1. CASE DropResults
      BY <1>5, <2>1
    <2>2. CASE ~DropResults
      <3>1. product' = [Outdate(product, s) EXCEPT
                           ![s] = IF @ = "current" THEN "outdated" ELSE @]
        BY <2>2 DEF ParamsObserverAfterUpdate, InputChanged
      <3>2. s \notin Downstream(s)
        BY <1>2, DownstreamHigher, AcyclicAssumption
      <3>3. Outdate(product, s)[s] = product[s]
        BY <1>2, <3>2 DEF Outdate
      <3>4. QED
        BY <2>2, <3>1, <3>3
    <2>3. QED
      BY <2>1, <2>2
  <1>7. /\ \A x \in Suppliers : x # s => lastWorkState'[x] = lastWorkState[x]
        /\ \A x \in Suppliers : x # s => (Trusted(x)' <=> Trusted(x))
        /\ \A x \in Suppliers : x = s => ~Trusted(x)'
    <2>1. CASE DropResults
      <3>1. /\ \A x \in Suppliers :
                  lastWorkState'[x] = IF x = s THEN WS_INVALID ELSE lastWorkState[x]
        BY <1>2, <1>5, <2>1 DEF TypeOK
      <3>2. \A x \in Suppliers : isInputValid'[x] <=> (isInputValid[x] /\ x # s)
        BY Zenon, <1>2, <1>5, <2>1 DEF TypeOK
      <3>3. QED
        BY <3>1, <3>2 DEF Trusted
    <2>2. CASE ~DropResults
      BY <1>4, <2>2 DEF Trusted
    <2>3. QED
      BY <2>1, <2>2
  <1>8. \A x \in Suppliers : Good(x)' <=> (Good(x) /\ x # s)
    BY <1>7 DEF Good
  <1>9. \A f \in Frames(stack') : f.call \notin Producing
    <2>1. CASE DropResults
      <3> DEFINE f == F("after", s, {})
      <3>1. f \in Frame /\ f.call = "after"
        BY <1>2, FrameFields DEF Calls
      <3>2. stack' = <<f>> \o <<>>
        BY <1>5, <2>1
      <3> HIDE DEF f
      <3>3. Frames(stack') = {f}
        BY <3>1, <3>2, NoFrames, FramesPush, FramesEmpty
      <3>4. QED
        BY <3>1, <3>3 DEF Producing
    <2>2. CASE ~DropResults
      BY <1>4, <2>2, FramesEmpty
    <2>3. QED
      BY <2>1, <2>2
  <1>10. Cache!Replace(s, r) /\ (DropResults => r = "null")
    BY <1>2, <1>6, Replaces
  <1> HIDE DEF r
  <1>11. CacheCoherent'
    <2>1. ~(isInputValid'[s] /\ lastWorkState'[s] = WS_OK)
      BY <1>2, <1>7 DEF Trusted, WS_OK, WS_INIT
    <2>2. \A x \in Suppliers : x # s => (Trusted(x)' => Trusted(x))
      BY <1>7
    <2>3. /\ \A x \in Suppliers : x # s => lastWorkState'[x] = lastWorkState[x]
          /\ CacheCoherent /\ \A d \in Downstream(s) : ~Trusted(d)
      BY <1>3, <1>7 DEF ProductInv
    <2>4. QED
      BY <1>2, <1>6, <2>1, <2>2, <2>3, StillCoherent
  <1>12. ProductionsSound'
    BY <1>9 DEF ProductionsSound
  <1>13. \A d \in Downstream(s) : ~Good(d)
    BY <1>3 DEF Good
  <1>14. [Cache!Next]_(Cache!vars)
    <2>1. CASE DropResults
      <3>1. \A x \in Suppliers : x = s => Cache!Drop(x)
        <4>1. \A x \in Suppliers : x = s => Cache!Replace(x, "null")
          BY <1>10, <2>1
        <4>2. \A x \in Suppliers : x = s => Cache!NobodyTrusts(Downstream(x))
          BY <1>3, <1>13 DEF Cache!NobodyTrusts, Good
        <4>3. ASSUME NEW x \in Suppliers, x = s
              PROVE  [y \in Suppliers |-> (Trusted(y) /\ lastWorkState[y] = WS_OK)'] =
                     [[y \in Suppliers |-> Trusted(y) /\ lastWorkState[y] = WS_OK]
                         EXCEPT ![x] = FALSE]
          BY <1>8, <4>3 DEF Good
        <4>4. QED
          BY <4>1, <4>2, <4>3 DEF Cache!Drop
      <3>2. QED
        BY <1>2, <3>1, PromisedStep
    <2>2. CASE ~DropResults
      <3>1. ~Good(s)
        BY <1>4, <2>2 DEF Good
      <3>2. \A x \in Suppliers : x = s => Cache!Change(x)
        BY <1>2, <1>3, <1>8, <1>10, <1>13, <2>2, <3>1
           DEF Cache!Change, Cache!NobodyTrusts, Good, r
      <3>3. QED
        BY <1>2, <3>2, PromisedStep
    <2>3. QED
      BY <2>1, <2>2
  <1>15. QED
    BY <1>11, <1>12, <1>14 DEF Promise, ProductInv

(* Initializing, and returning to a client, puts no production on the stack.  *)
LEMMA NoNewProduction ==
    ASSUME IInv, Shape,
           \/ ObserverIgnores \/ InitializeInput \/ OpenProductChange
           \/ InitializeWork \/ TestInitialize \/ TestReturns
    PROVE  \A f \in Frames(stack') : f.call \in Producing => f \in Frames(stack)
  <1> DEFINE top  == Head(stack)
             s    == top.s
             rest == Frames(Tail(stack))
             fa   == F("after", s, {})
             fw   == F("work", s, {})
             fb   == F("before", s, Consumers(s))
             ft   == F("testFinish", s, IF MustInitialize(s) THEN {s} ELSE {})
  <1>1. PICK call \in {"after", "init", "work", "testInit", "tested"} :
           /\ Running(call)
           /\ ObserverIgnores => call = "after"
           /\ InitializeInput \/ OpenProductChange => call = "init"
           /\ InitializeWork => call = "work"
           /\ TestInitialize => call = "testInit"
           /\ TestReturns => call = "tested"
    BY DEF ObserverIgnores, InitializeInput, OpenProductChange, InitializeWork, TestInitialize,
           TestReturns, Running
  <1>2. /\ top \in Frame /\ top.call = call /\ s \in Suppliers
        /\ Frames(stack) = {top} \cup rest /\ rest \subseteq Frame
        /\ Tail(stack) \in Seq(Frame) /\ Layered(Tail(stack))
        /\ call \in {"testInit", "tested"} => Tail(stack) = <<>> /\ rest = {}
    BY <1>1, TopFrames DEF IInv, Shape, ClientCalls
  <1>3. /\ Consumers(s) \in SUBSET Suppliers
        /\ (IF MustInitialize(s) THEN {s} ELSE {}) \in SUBSET Suppliers
    BY <1>2 DEF Consumers
  <1>4. /\ fa \in Frame /\ fa.call = "after"
        /\ fw \in Frame /\ fw.call = "work"
        /\ fb \in Frame /\ fb.call = "before"
        /\ ft \in Frame /\ ft.call = "testFinish"
    BY <1>2, <1>3, FrameFields DEF Calls
  <1>5. \A f : f.call \in {"after", "work", "before", "testFinish", "init"} => f.call \notin Producing
    BY DEF Producing
  <1>6. call \in {"init", "work"} => \A g \in rest : g.call \in {"init", "testFinish"}
    BY <1>1, UnderInitialization DEF Initialization
  <1>7. TypeOK
    BY DEF IInv
  <1>8. CASE ObserverIgnores
    BY <1>2, <1>8 DEF ObserverIgnores
  <1>9. CASE InitializeInput
    <2>1. PICK i \in top.todo, f \in Frame :
             /\ i \in Suppliers
             /\ f.call = "init"
             /\ <<f>> \o Tail(stack) \in Seq(Frame)
             /\ Frames(<<f>> \o Tail(stack)) = {f} \cup rest
             /\ Layered(<<f>> \o Tail(stack))
             /\ CallEnsureWorkInitialized(i, <<f>> \o Tail(stack))
      BY <1>9, InitializeInputEffect DEF Shape
    <2> DEFINE f0 == F("init", i, Inputs[i])
    <2>2. f0 \in Frame /\ f0.call = "init"
      BY <2>1, FrameFields, NetworkAssumption DEF Calls
    <2>3. Covers("init", {f} \cup rest)
      BY <1>1, <1>6, <1>9, <2>1 DEF Covers, Announcing
    <2>4. Frames(stack') \subseteq {f0, f} \cup rest
      <3>1. CASE MustInitialize(i)
        <4>1. Frames(stack') = {f0} \cup ({f} \cup rest)
          BY <1>7, <2>1, <2>3, <3>1, InitializeEffect
        <4>2. QED
          BY <4>1
      <3>2. CASE ~MustInitialize(i)
        <4>1. Frames(stack') = {f} \cup rest
          BY <1>7, <2>1, <2>3, <3>2, InitializeEffect
        <4>2. QED
          BY <4>1
      <3>3. QED
        BY <3>1, <3>2
    <2> HIDE DEF f0
    <2>5. QED
      BY <1>2, <1>5, <2>1, <2>2, <2>4
  <1>10. CASE OpenProductChange
    <2>1. Frames(stack') = (IF notifierOpen[s] THEN {} ELSE Telling(s, Consumers(s)))
                           \cup ({fw} \cup rest)
      BY <1>10, OpenProductChangeEffect DEF Shape
    <2>2. Frames(stack') \subseteq {fb, fw} \cup rest
      BY <2>1 DEF Telling
    <2> HIDE DEF fb, fw
    <2>3. QED
      BY <1>2, <1>4, <1>5, <2>2
  <1>11. CASE InitializeWork
    <2>1. stack' = NotifyAfter(s, Tail(stack))
      BY <1>11 DEF InitializeWork
    <2>2. Covers("after", rest)
      BY <1>1, <1>6, <1>11 DEF Covers, Announcing
    <2>3. Frames(stack') \subseteq {fa} \cup rest
      BY <1>2, <2>1, <2>2, NotifyAfterFrames
    <2> HIDE DEF fa
    <2>4. QED
      BY <1>2, <1>4, <1>5, <2>3
  <1>12. CASE TestInitialize
    <2> HIDE DEF ft
    <2>1. /\ <<ft>> \in Seq(Frame) /\ <<ft>> = <<ft>> \o <<>>
          /\ Frames(<<ft>>) = {ft} /\ Layered(<<ft>>) /\ Covers("init", {ft})
      BY <1>4, ClientFrames DEF ClientCalls
    <2>2. CallEnsureWorkInitialized(s, <<ft>> \o <<>>)
      BY <1>1, <1>2, <1>12 DEF TestInitialize, ft
    <2>3. CallEnsureWorkInitialized(s, <<ft>>)
      BY <2>1, <2>2
    <2> DEFINE f0 == F("init", s, Inputs[s])
    <2>4. f0 \in Frame /\ f0.call = "init"
      BY <1>2, FrameFields, NetworkAssumption DEF Calls
    <2>5. Frames(stack') \subseteq {f0, ft}
      <3>1. CASE MustInitialize(s)
        <4>1. stack' = <<f0>> \o <<ft>>
          BY <2>3, <3>1 DEF CallEnsureWorkInitialized
        <4> HIDE DEF f0
        <4>2. Frames(stack') = {f0} \cup {ft}
          BY <2>1, <2>4, <4>1, FramesPush
        <4>3. QED
          BY <4>2
      <3>2. CASE ~MustInitialize(s)
        <4>1. stack' = <<ft>>
          BY <2>3, <3>2 DEF CallEnsureWorkInitialized
        <4>2. QED
          BY <2>1, <4>1
      <3>3. QED
        BY <3>1, <3>2
    <2> HIDE DEF f0
    <2>6. QED
      BY <1>4, <1>5, <2>4, <2>5
  <1>13. CASE TestReturns
    <2>1. stack' = <<>> \/ stack' = NotifyAfter(s, <<>>)
      BY <1>1, <1>2, <1>13 DEF TestReturns
    <2>2. Frames(NotifyAfter(s, <<>>)) \subseteq {fa}
      BY <1>2, NoFrames, NotifyAfterFrames
    <2> HIDE DEF fa
    <2>3. Frames(stack') \subseteq {fa}
      BY <2>1, <2>2, NoFrames
    <2>4. QED
      BY <1>4, <1>5, <2>3
  <1>14. QED
    BY <1>8, <1>9, <1>10, <1>11, <1>12, <1>13

(* So the results are not touched by it.  *)
LEMMA QuietStepPromise ==
    ASSUME IInv, Shape, ProductInv,
           \/ ObserverIgnores \/ InitializeInput \/ OpenProductChange
           \/ InitializeWork \/ TestInitialize \/ TestReturns
    PROVE  Promise
  <1>1. UNCHANGED <<product, isInputValid, lastWorkState>>
    BY DEF ObserverIgnores, InitializeInput, OpenProductChange, InitializeWork, TestInitialize,
           TestReturns, attributes
  <1>2. QED
    BY <1>1, NoNewProduction, QuietPromise

(* BeforeUpdate takes the trust of one consumer away.  *)
LEMMA BeforeUpdatePromise ==
    ASSUME IInv, Shape, ProductInv, InputsObserverBeforeUpdate
    PROVE  Promise
  <1> DEFINE top  == Head(stack)
             s    == top.s
             rest == Frames(Tail(stack))
  <1>1. Running("before") /\ UNCHANGED <<product, lastWorkState>>
    BY DEF InputsObserverBeforeUpdate
  <1>2. /\ top \in Frame /\ s \in Suppliers /\ top.todo \in SUBSET Suppliers
        /\ Frames(stack) = {top} \cup rest
    BY <1>1, TopFrames DEF IInv, Shape
  <1>3. PICK d \in top.todo :
           /\ d \in Suppliers
           /\ Frames(stack') = (IF isInputValid[d] /\ ~notifierOpen[d]
                                THEN Telling(d, Consumers(d)) ELSE {})
                               \cup Telling(s, top.todo \ {d}) \cup rest
           /\ \A x \in Suppliers : isInputValid'[x] <=> (isInputValid[x] /\ x # d)
    BY BeforeUpdateEffect DEF Shape
  <1> DEFINE f1 == F("before", d, Consumers(d))
             f2 == F("before", s, top.todo \ {d})
  <1>4. f1.call = "before" /\ f2.call = "before"
    <2>1. Consumers(d) \in SUBSET Suppliers /\ top.todo \ {d} \in SUBSET Suppliers
      BY <1>2 DEF Consumers
    <2>2. QED
      BY <1>2, <1>3, <2>1, FrameFields DEF Calls
  <1>5. Frames(stack') \subseteq {f1, f2} \cup rest
    BY <1>3 DEF Telling
  <1> HIDE DEF f1, f2
  <1>6. \A f \in Frames(stack') : f.call \in Producing => f \in Frames(stack)
    BY <1>2, <1>4, <1>5 DEF Producing
  <1>7. QED
    BY <1>1, <1>3, <1>6, InvalidatePromise

(* A client starts a call, that takes the trust of one supplier away at most.  *)
LEMMA ClientPromise ==
    ASSUME IInv, ProductInv, DisciplinedClients, Client
    PROVE  Promise
  <1>1. PICK s \in Suppliers :
           \/ EditParameters(s) \/ TriggerInput(s) \/ ClearWorkResults(s) \/ DoTest(s)
           \/ InvalidateSupplier(s) \/ EnsureWorkInitialized(s) \/ GetWorkProduct(s)
    BY DEF Client
  <1>2. EditParameters(s) \/ TriggerInput(s) \/ ClearWorkResults(s) \/ DoTest(s)
    BY <1>1, NobodyInterferes
  <1>3. /\ TypeOK /\ Consumers(s) \in SUBSET Suppliers
        /\ UNCHANGED <<product, lastWorkState>>
    BY <1>2
       DEF IInv, Consumers, EditParameters, TriggerInput, ClearWorkResults, DoTest, attributes
  <1>4. PICK call \in Start :
           \/ CallInvalidateSupplier(s, <<F(call, s, {})>>)
           \/ /\ UNCHANGED attributes
              /\ stack' = LET below == <<F(call, s, {})>>
                          IN  IF notifierOpen[s] THEN below
                              ELSE NotifyBefore(s, Consumers(s), below)
    BY <1>2 DEF EditParameters, TriggerInput, ClearWorkResults, DoTest, Start
  <1> DEFINE f  == F(call, s, {})
             f1 == F("before", s, Consumers(s))
  <1>5. /\ f \in Frame /\ f.call = call /\ f.call \in ClientCalls
        /\ f1.call = "before" /\ call \notin Producing
    BY <1>3, FrameFields DEF ClientCalls, Calls, Start, Producing
  <1> HIDE DEF f
  <1>6. <<f>> \in Seq(Frame) /\ Frames(<<f>>) = {f} /\ Layered(<<f>>) /\ Covers("before", {f})
    BY <1>5, ClientFrames
  <1>7. CASE CallInvalidateSupplier(s, <<f>>)
    <2>1. /\ Frames(stack') = (IF isInputValid[s] /\ ~notifierOpen[s]
                               THEN Telling(s, Consumers(s)) ELSE {}) \cup {f}
          /\ \A x \in Suppliers : isInputValid'[x] <=> (isInputValid[x] /\ x # s)
      BY <1>3, <1>6, <1>7, InvalidateEffect
    <2>2. Frames(stack') \subseteq {f1, f}
      BY <2>1 DEF Telling
    <2> HIDE DEF f1
    <2>3. \A h \in Frames(stack') : h.call \notin Producing
      BY <1>5, <2>2 DEF Producing
    <2>4. QED
      BY <1>3, <2>1, <2>3, InvalidatePromise
  <1>8. CASE /\ UNCHANGED attributes
             /\ stack' = LET below == <<f>>
                         IN  IF notifierOpen[s] THEN below
                             ELSE NotifyBefore(s, Consumers(s), below)
    <2>1. Frames(NotifyBefore(s, Consumers(s), <<f>>)) =
             Telling(s, Consumers(s)) \cup Frames(<<f>>)
      BY <1>3, <1>6, NotifyBeforeFrames
    <2>2. Frames(stack') \subseteq {f1, f}
      BY <1>6, <1>8, <2>1 DEF Telling
    <2> HIDE DEF f1
    <2>3. \A h \in Frames(stack') : h.call \notin Producing
      BY <1>5, <2>2 DEF Producing
    <2>4. UNCHANGED <<product, isInputValid, lastWorkState>>
      BY <1>8 DEF attributes
    <2>5. QED
      BY <2>3, <2>4, QuietPromise
  <1>9. QED
    BY <1>4, <1>7, <1>8 DEF f

(* At first there is no result, and nobody trusts one.  *)
LEMMA InitPromise == Init => ProductInv /\ Cache!Init
  <1>1. SUFFICES ASSUME Init
                 PROVE  ProductInv /\ Cache!Init
    OBVIOUS
  <1>2. \A s \in Suppliers : ~isInputValid[s]
    BY Zenon, <1>1 DEF Init
  <1>3. \A s \in Suppliers : ~Trusted(s) /\ ~Good(s)
    BY <1>2 DEF Trusted, Good
  <1>4. ProductInv
    BY <1>1, <1>3, FramesEmpty DEF Init, ProductInv, CacheCoherent, ProductionsSound
  <1>5. [s \in Suppliers |-> Trusted(s) /\ lastWorkState[s] = WS_OK] =
        [s \in Suppliers |-> FALSE]
    BY <1>3 DEF Good
  <1>6. product = [s \in Suppliers |-> "null"]
    BY <1>1 DEF Init
  <1>7. QED
    BY <1>4, <1>5, <1>6 DEF Cache!Init

(* Every step keeps the promise.  *)
LEMMA StepPromise ==
    ASSUME IInv, Shape, TrustInv, ProductInv, DisciplinedClients, [Next]_vars
    PROVE  Promise
  <1>1. CASE Client
    BY <1>1, ClientPromise
  <1>2. CASE Step
    BY <1>2, BeforeUpdatePromise, ReadPromise, GotInputPromise, FinishWorkPromise,
       ChangePromise, QuietStepPromise
       DEF Step
  <1>3. CASE UNCHANGED vars
    <2>1. UNCHANGED <<stack, product, isInputValid, lastWorkState>>
      BY <1>3 DEF vars, attributes
    <2>2. Frames(stack') = Frames(stack)
      BY <2>1
    <2>3. QED
      BY <2>1, <2>2, QuietPromise
  <1>4. QED
    BY <1>1, <1>2, <1>3 DEF Next

(* All of it, of every behaviour.  *)
LEMMA PromiseKept ==
    ASSUME SeparateInputs, DisciplinedClients
    PROVE  Spec => [](IInv /\ Shape /\ TrustInv /\ ProductInv)
  <1>1. Init => ProductInv
    BY InitPromise
  <1>2. IInv /\ Shape /\ TrustInv /\ ProductInv /\ [Next]_vars => ProductInv'
    BY StepPromise DEF Promise
  <1>3. QED
    BY <1>1, <1>2, TrustJustified, PTL DEF Spec

-----------------------------------------------------------------------------
(***************************************************************************)
(* What follows for the clients, in a network of separate inputs and among *)
(* disciplined clients.                                                    *)
(***************************************************************************)

(* A result that EnsureWorkFinished would hand out without calculating it is calculated *)
(* from the present parameters and the present products of the inputs.                  *)
THEOREM TrustedResultsCurrent ==
    ASSUME SeparateInputs, DisciplinedClients
    PROVE  Spec => []CacheCoherent
  <1>1. ProductInv => CacheCoherent
    BY DEF ProductInv
  <1>2. QED
    BY <1>1, PromiseKept, PTL

(* When DoTest returns with success, the product it shows is current.  *)
THEOREM TestedIsCurrent ==
    ASSUME SeparateInputs, DisciplinedClients
    PROVE  Spec => []TestDeliversCurrent
  <1>1. IInv /\ Shape /\ TrustInv /\ ProductInv => TestDeliversCurrent
    <2>1. SUFFICES ASSUME IInv, Shape, TrustInv, ProductInv, Running("tested"),
                          workStatus[Head(stack).s] = WS_OK
                   PROVE  product[Head(stack).s] = "current"
      BY DEF TestDeliversCurrent
    <2> DEFINE top == Head(stack)
               s   == top.s
    <2>2. top \in Frame /\ top.call = "tested" /\ s \in Suppliers /\ Frames(stack) = {top}
      BY <2>1, TopFrames DEF IInv, Shape, ClientCalls
    <2>3. InProduction(s) \/ Answered(s)
      BY <2>1, <2>2, AwaitsAndRead DEF TrustInv, Relies
    <2>4. ~InProduction(s)
      BY <2>2 DEF InProduction, Frames
    <2>5. Trusted(s) /\ lastWorkState[s] = WS_OK
      BY <2>1, <2>3, <2>4 DEF Answered, Settled
    <2>6. QED
      BY <2>1, <2>2, <2>5 DEF ProductInv, CacheCoherent
  <1>2. QED
    BY <1>1, PromiseKept, PTL

(* ProduceObject works with parameters that OnParametersChanged has seen.  *)
THEOREM ProducesWithParameters ==
    ASSUME SeparateInputs, DisciplinedClients
    PROVE  Spec => []ParametersApplied
  <1>1. IInv /\ Shape /\ TrustInv => ParametersApplied
    <2>1. SUFFICES ASSUME IInv, Shape, TrustInv, Running("produce")
                   PROVE  areParametersValid[Head(stack).s]
      BY DEF ParametersApplied
    <2>2. Head(stack).call = "produce" /\ Head(stack) \in Frames(stack)
      BY <2>1, TopFrames DEF IInv, Shape
    <2>3. QED
      BY <2>1, <2>2 DEF TrustInv, Relies, Producing
  <1>2. QED
    BY <1>1, TrustJustified, PTL

(* When the parameters or another input of a supplier change, every consumer has been  *)
(* told: none of them trusts its result any more.                                      *)
THEOREM ConsumersAreTold ==
    ASSUME SeparateInputs, DisciplinedClients
    PROVE  Spec => InputChangeInvalidates
  <1>1. IInv /\ Shape /\ TrustInv =>
           (Running("edit") \/ Running("trigger") =>
               \A d \in Consumers(Head(stack).s) : ~Trusted(d))
    BY ChangeUntrusted
  <1>2. QED
    BY <1>1, TrustJustified, PTL DEF InputChangeInvalidates

(* Between two calls of clients every input of a supplier whose result is trusted will   *)
(* announce its next change: nothing that was called has left it invalidated, or with a  *)
(* change open that would make the next one silent.                                      *)
THEOREM NextChangeTold ==
    ASSUME SeparateInputs, DisciplinedClients
    PROVE  Spec => []NextChangeAnnounced
  <1>1. TrustInv => NextChangeAnnounced
    <2>1. SUFFICES ASSUME TrustInv, Idle, NEW d \in Suppliers, Trusted(d), NEW i \in Inputs[d]
                   PROVE  isInputValid[i] /\ ~notifierOpen[i]
      BY DEF NextChangeAnnounced
    <2>2. ~Pending(i, d)
      BY <2>1 DEF Idle, Pending, Frames
    <2>3. Settled(i)
      BY <2>1, <2>2 DEF TrustInv, TrustHeld
    <2>4. QED
      BY <2>3 DEF Settled, Trusted
  <1>2. QED
    BY <1>1, TrustJustified, PTL

(* The network of suppliers implements ResultCache: whatever happens inside, its clients *)
(* see results that are trusted only while nothing they depend on has changed.           *)
THEOREM NetworkImplementsResultCache ==
    ASSUME SeparateInputs, DisciplinedClients
    PROVE  Spec => ImplementsResultCache
  <1>1. Init => Cache!Init
    BY InitPromise
  <1>2. IInv /\ Shape /\ TrustInv /\ ProductInv /\ [Next]_vars => [Cache!Next]_(Cache!vars)
    BY StepPromise DEF Promise
  <1>3. QED
    BY <1>1, <1>2, PromiseKept, PTL DEF Spec, Cache!Spec, ImplementsResultCache
=============================================================================
