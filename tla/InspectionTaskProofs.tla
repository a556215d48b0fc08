------------------------ MODULE InspectionTaskProofs ------------------------
(***************************************************************************)
(* Proofs about InspectionTask, for any number of subtasks and additional  *)
(* suppliers, any of them behind a proxy: the types; that the cached       *)
(* summary and the work status are up to date; that a test calculates      *)
(* everything once, from whatever state it is begun in; and that the loop  *)
(* of EnsureStatusKnown computes the summary it is specified by.           *)
(***************************************************************************)
EXTENDS InspectionTask, SequenceTheorems, FiniteSetTheorems, TLAPS

-----------------------------------------------------------------------------
(***************************************************************************)
(* The invariant.  A test is six calls of every supplier, which come in    *)
(* the order of their ranks.                                               *)
(***************************************************************************)
Ops == Operations \cup {"open", "close"}
CallSet == [op : Ops, supplier : Suppliers, proxy : BOOLEAN]

Rank(op) ==
    CASE op = "clear"      -> 1
      [] op = "invalidate" -> 2
      [] op = "open"       -> 3
      [] op = "initialize" -> 4
      [] op = "finish"     -> 5
      [] op = "close"      -> 6

Pending(op, s) == \E i \in 1..Len(calls) : calls[i].op = op /\ calls[i].supplier = s

(* What is left of a test: every supplier has the rest of its six calls before it.  *)
Ordered ==
    \A i, j \in 1..Len(calls) :
        i < j /\ calls[i].supplier = calls[j].supplier => Rank(calls[i].op) < Rank(calls[j].op)

Complete ==
    \A i \in 1..Len(calls), op \in Ops :
        Rank(calls[i].op) < Rank(op) => Pending(op, calls[i].supplier)

Through == \A i \in 1..Len(calls) : calls[i].proxy

Sequenced == inTest => Ordered /\ Complete /\ Through

(* How far a supplier is that is not switched off.  *)
BeforeInitialize(s) ==
    Pending("initialize", s) =>
        /\ runs[s] = 0 /\ s \notin refused
        /\ ~Pending("clear", s) =>
             lastState[s] = WS_INVALID /\ status[s] \in {WS_INVALID, WS_LOCKED}

BeforeFinish(s) ==
    Pending("finish", s) /\ ~Pending("initialize", s) =>
        /\ runs[s] = 0
        /\ lastState[s] = WS_INVALID
        /\ IF s \in refused THEN status[s] = WS_FAILED ELSE status[s] \in {WS_INIT, WS_LOCKED}

AfterFinish(s) ==
    ~Pending("finish", s) =>
        IF s \in refused THEN runs[s] = 0 /\ status[s] = WS_INVALID ELSE runs[s] = 1

Progress(s) ==
    IF IsOff(s) THEN runs[s] = 0 /\ s \notin refused
    ELSE BeforeInitialize(s) /\ BeforeFinish(s) /\ AfterFinish(s)

(* A change that was opened will be closed.  *)
Closing == \A s \in notifiers : Pending("close", s)

Tested == inTest => Closing /\ \A s \in Suppliers : Progress(s)

IInv == TypeOK /\ CategoryCurrent /\ WorkStatusCurrent /\ Sequenced /\ Tested

-----------------------------------------------------------------------------
(* The worst of some values *)

(* A set of a few small numbers has a greatest one.  *)
LEMMA WorstIsIn ==
    ASSUME NEW S \in SUBSET (0..5), S # {}
    PROVE  Worst(S) \in S /\ \A v \in S : v <= Worst(S)
  <1>1. \E w \in S : \A v \in S : v <= w
    <2>1. CASE 5 \in S
      BY <2>1
    <2>2. CASE 5 \notin S /\ 4 \in S
      BY <2>2
    <2>3. CASE 5 \notin S /\ 4 \notin S /\ 3 \in S
      BY <2>3
    <2>4. CASE 5 \notin S /\ 4 \notin S /\ 3 \notin S /\ 2 \in S
      BY <2>4
    <2>5. CASE 5 \notin S /\ 4 \notin S /\ 3 \notin S /\ 2 \notin S /\ 1 \in S
      BY <2>5
    <2>6. CASE 5 \notin S /\ 4 \notin S /\ 3 \notin S /\ 2 \notin S /\ 1 \notin S
      <3>1. \A v \in S : v = 0
        BY <2>6
      <3>2. PICK w \in S : TRUE
        OBVIOUS
      <3>3. QED
        BY <3>1, <3>2
    <2>7. QED
      BY <2>1, <2>2, <2>3, <2>4, <2>5, <2>6
  <1>2. QED
    BY <1>1 DEF Worst

(* Subtasks are suppliers.  *)
LEMMA SubtasksAreSuppliers == Subtasks \subseteq Suppliers
  BY TaskAssumption DEF Subtasks, Suppliers

(* The category is one, and it is the worst of those told.  *)
LEMMA SummaryIsWorst ==
    ASSUME TypeOK
    PROVE  LET base == IF \E s \in Subtasks : IsMissing(s) THEN IC_NONE ELSE IC_INFO
           IN  /\ Summary \in Categories
               /\ Summary = base \/ \E s \in Subtasks : Counts(s) /\ Summary = CategoryOf(s)
               /\ base <= Summary
               /\ \A s \in Subtasks : Counts(s) => CategoryOf(s) <= Summary
  <1> DEFINE base == IF \E s \in Subtasks : IsMissing(s) THEN IC_NONE ELSE IC_INFO
             told == {CategoryOf(s) : s \in {p \in Subtasks : Counts(p)}}
  <1>1. base \in 0..4
    BY DEF IC_NONE, IC_INFO
  <1>2. \A s \in Subtasks : CategoryOf(s) \in 0..4
    BY SubtasksAreSuppliers DEF TypeOK, CategoryOf, Categories, IC_NONE, IC_CRITICAL
  <1>3. Summary = Worst({base} \cup told)
    BY DEF Summary
  <1> HIDE DEF base
  <1>4. {base} \cup told \in SUBSET (0..5) /\ {base} \cup told # {}
    BY <1>1, <1>2
  <1>5. /\ Summary \in {base} \cup told
        /\ \A v \in {base} \cup told : v <= Summary
    BY <1>3, <1>4, WorstIsIn
  <1>6. Summary \in 0..4
    BY <1>1, <1>2, <1>5
  <1>7. QED
    BY <1>5, <1>6 DEF base, Categories, IC_NONE, IC_CRITICAL

(* The summary depends on the subtasks only.  *)
LEMMA SummarySame ==
    ASSUME \A s \in Subtasks : /\ status'[s] = status[s] /\ result'[s] = result[s]
                               /\ IsOff(s)' = IsOff(s)
    PROVE  Summary' = Summary
  <1>1. \A s \in Subtasks : IsMissing(s)' = IsMissing(s) /\ CategoryOf(s)' = CategoryOf(s)
    BY DEF IsMissing, StatusIn, CategoryOf
  <1>2. \A s \in Subtasks : Counts(s)' = Counts(s)
    BY <1>1 DEF Counts, StatusIn
  <1>3. (\E s \in Subtasks : IsMissing(s)') <=> (\E s \in Subtasks : IsMissing(s))
    BY <1>1
  <1>4. {CategoryOf(s)' : s \in {p \in Subtasks : Counts(p)'}}
            = {CategoryOf(s) : s \in {p \in Subtasks : Counts(p)}}
    BY <1>1, <1>2
  <1>5. QED
    BY <1>3, <1>4 DEF Summary

(* So does the work status.  *)
LEMMA WorstStatusSame ==
    ASSUME enabled' = enabled, \A s \in Subtasks : status'[s] = status[s]
    PROVE  WorstStatus(status)' = WorstStatus(status)
  <1>1. \A s \in Subtasks : StatusIn(status, s)' = StatusIn(status, s)
    BY DEF StatusIn, IsOff
  <1>2. {StatusIn(status, s)' : s \in Subtasks} = {StatusIn(status, s) : s \in Subtasks}
    BY <1>1
  <1>3. QED
    BY <1>2 DEF WorstStatus

(* The work status is one.  *)
LEMMA WorstStatusType ==
    ASSUME NEW st \in [Suppliers -> WorkStatus]
    PROVE  WorstStatus(st) \in WorkStatus
  <1> DEFINE all == {WS_INVALID} \cup {StatusIn(st, s) : s \in Subtasks}
  <1>1. all \in SUBSET (0..5) /\ all # {}
    BY SubtasksAreSuppliers DEF StatusIn, WorkStatus, WS_INVALID, WS_FAILED
  <1>2. Worst(all) \in 0..5
    BY <1>1, WorstIsIn
  <1>3. QED
    BY <1>2 DEF WorstStatus, WorkStatus, WS_INVALID, WS_FAILED

(* A new state of a supplier.  *)
LEMMA StateSet ==
    ASSUME TypeOK, WorkStatusCurrent, enabled' = enabled,
           NEW s \in Suppliers, NEW w \in WorkStatus, SetSupplierState(s, w)
    PROVE  /\ status' \in [Suppliers -> WorkStatus]
           /\ status'[s] = w
           /\ \A t \in Suppliers : t # s => status'[t] = status[t]
           /\ workStatus' \in WorkStatus
           /\ switched' \in BOOLEAN
           /\ WorkStatusCurrent'
  <1>1. /\ status' \in [Suppliers -> WorkStatus]
        /\ status'[s] = w
        /\ \A t \in Suppliers : t # s => status'[t] = status[t]
    BY DEF TypeOK, SetSupplierState
  <1>2. CASE w # status[s] /\ s \in Subtasks
    <2>1. workStatus' = WorstStatus(status') /\ switched' = FALSE
      BY <1>2 DEF SetSupplierState
    <2>2. WorstStatus(status') = WorstStatus(status)'
      BY DEF WorstStatus, StatusIn, IsOff
    <2>3. WorstStatus(status') \in WorkStatus
      BY <1>1, WorstStatusType
    <2>4. QED
      BY <1>1, <2>1, <2>2, <2>3 DEF WorkStatusCurrent
  <1>3. CASE ~(w # status[s] /\ s \in Subtasks)
    <2>1. workStatus' = workStatus /\ switched' = switched
      BY <1>3 DEF SetSupplierState
    <2>2. \A t \in Subtasks : status'[t] = status[t]
      BY <1>1, <1>3, SubtasksAreSuppliers
    <2>3. WorstStatus(status)' = WorstStatus(status)
      BY <2>2, WorstStatusSame
    <2>4. QED
      BY <1>1, <2>1, <2>3 DEF TypeOK, WorkStatusCurrent
  <1>4. QED
    BY <1>2, <1>3

(* A change of a supplier and the observer that is told of it.  *)
LEMMA CategoryKept ==
    ASSUME TypeOK, CategoryCurrent, enabled' = enabled, resultCategory' = resultCategory,
           NEW s \in Suppliers, NEW isTold \in BOOLEAN, AfterUpdate(s, isTold),
           \A t \in Suppliers : t # s => status'[t] = status[t] /\ result'[t] = result[t],
           isTold \/ (status'[s] = status[s] /\ result'[s] = result[s]),
           SwitchHeld => SwitchHeld' \/ (isTold /\ s \in Subtasks)
    PROVE  CategoryCurrent' /\ isStatusKnown' \in BOOLEAN
  <1>1. CASE isTold /\ s \in Subtasks
    BY <1>1 DEF AfterUpdate, CategoryCurrent
  <1>2. CASE ~(isTold /\ s \in Subtasks)
    <2>1. \A t \in Subtasks : status'[t] = status[t] /\ result'[t] = result[t]
      BY <1>2, SubtasksAreSuppliers
    <2>2. Summary' = Summary
      BY <2>1, SummarySame DEF IsOff
    <2>3. isStatusKnown' = isStatusKnown
      BY <1>2 DEF AfterUpdate, TypeOK
    <2>4. SwitchHeld => SwitchHeld'
      BY <1>2
    <2>5. isStatusKnown' \in BOOLEAN
      BY <2>3 DEF TypeOK
    <2>6. CategoryCurrent'
      BY <2>2, <2>3, <2>4 DEF CategoryCurrent
    <2>7. QED
      BY <2>5, <2>6
  <1>3. QED
    BY <1>1, <1>2

(* Nothing about the suppliers has changed.  *)
LEMMA NothingChanged ==
    ASSUME status' = status, result' = result, enabled' = enabled, workStatus' = workStatus,
           isStatusKnown' = isStatusKnown, resultCategory' = resultCategory,
           switched' = switched, notifiers \subseteq notifiers',
           CategoryCurrent, WorkStatusCurrent
    PROVE  CategoryCurrent' /\ WorkStatusCurrent'
  <1>1. Summary' = Summary
    BY SummarySame DEF IsOff
  <1>2. WorstStatus(status)' = WorstStatus(status)
    BY WorstStatusSame
  <1>3. SwitchHeld => SwitchHeld'
    BY DEF SwitchHeld
  <1>4. QED
    BY <1>1, <1>2, <1>3 DEF CategoryCurrent, WorkStatusCurrent

-----------------------------------------------------------------------------
(* The calls *)

(* The same call of every supplier.  *)
LEMMA ForEachFacts ==
    ASSUME NEW op \in Ops, NEW n, n = SubtasksCount + AdditionalCount
    PROVE  /\ ForEach(op) \in Seq(CallSet)
           /\ Len(ForEach(op)) = n
           /\ \A s \in 1..n : ForEach(op)[s] = Call(op, s)
  <1>1. n \in Nat /\ Suppliers = 1..n
    BY TaskAssumption DEF Suppliers
  <1>2. \A s \in 1..n : Call(op, s) \in CallSet
    BY <1>1 DEF Call, CallSet
  <1>3. ForEach(op) = [s \in 1..n |-> Call(op, s)]
    BY <1>1 DEF ForEach
  <1>4. QED
    BY <1>1, <1>2, <1>3

(* Finishing and announcing in turn.  *)
LEMMA FinishFacts ==
    ASSUME NEW n, n = SubtasksCount + AdditionalCount
    PROVE  /\ CallsOf("finish") \in Seq(CallSet)
           /\ Len(CallsOf("finish")) = 2 * n
           /\ \A s \in 1..n : /\ CallsOf("finish")[2 * s - 1] = Call("finish", s)
                              /\ CallsOf("finish")[2 * s] = Call("close", s)
  <1> DEFINE f == [k \in 1..(2 * n) |->
                        Call(IF k % 2 = 1 THEN "finish" ELSE "close", (k + 1) \div 2)]
  <1>1. n \in Nat /\ Suppliers = 1..n /\ 2 * n \in Nat
    BY TaskAssumption DEF Suppliers
  <1>2. CallsOf("finish") = [k \in 1..(2 * (SubtasksCount + AdditionalCount)) |->
                        Call(IF k % 2 = 1 THEN "finish" ELSE "close", (k + 1) \div 2)]
    BY DEF CallsOf
  <1>3. CallsOf("finish") = f
    BY <1>2
  <1>4. \A k \in 1..(2 * n) : (k + 1) \div 2 \in Suppliers
    BY <1>1
  <1>5. \A k \in 1..(2 * n) : f[k] \in CallSet
    BY <1>4 DEF Call, CallSet, Ops, Operations
  <1>6. \A s \in 1..n : /\ 2 * s - 1 \in 1..(2 * n) /\ 2 * s \in 1..(2 * n)
                        /\ (2 * s - 1) % 2 = 1 /\ (2 * s) % 2 = 0
                        /\ (2 * s - 1 + 1) \div 2 = s /\ (2 * s + 1) \div 2 = s
    BY <1>1
  <1>7. \A s \in 1..n : f[2 * s - 1] = Call("finish", s) /\ f[2 * s] = Call("close", s)
    BY <1>6
  <1> DEFINE m == 2 * n
  <1>8. f \in Seq(CallSet) /\ Len(f) = m
    <2>1. f = [k \in 1..m |-> f[k]]
      OBVIOUS
    <2> HIDE DEF f, m
    <2>2. m \in Nat /\ \A k \in 1..m : f[k] \in CallSet
      BY <1>1, <1>5 DEF m
    <2>3. QED
      BY <2>1, <2>2
  <1> HIDE DEF f
  <1>9. QED
    BY <1>3, <1>7, <1>8

(* The operations of the task as sequences.  *)
LEMMA CallsAreTyped ==
    ASSUME NEW op \in Operations
    PROVE  CallsOf(op) \in Seq(CallSet)
  <1>1. CASE op = "initialize"
    <2>1. CallsOf(op) = ForEach("open") \o ForEach("initialize")
      BY <1>1 DEF CallsOf
    <2>2. "open" \in Ops /\ "initialize" \in Ops
      BY DEF Ops, Operations
    <2>3. QED
      BY <2>1, <2>2, ForEachFacts, ConcatProperties
  <1>2. CASE op = "finish"
    BY <1>2, FinishFacts
  <1>3. CASE op \notin {"initialize", "finish"}
    <2>1. CallsOf(op) = ForEach(op)
      BY <1>3 DEF CallsOf
    <2>2. op \in Ops
      BY DEF Ops
    <2>3. QED
      BY <2>1, <2>2, ForEachFacts
  <1>4. QED
    BY <1>1, <1>2, <1>3

(* Where a test calls what.  *)
Place(op, s) ==
    LET N == SubtasksCount + AdditionalCount
    IN  CASE op = "clear"      -> s
          [] op = "invalidate" -> N + s
          [] op = "open"       -> 2 * N + s
          [] op = "initialize" -> 3 * N + s
          [] op = "finish"     -> 4 * N + 2 * s - 1
          [] op = "close"      -> 4 * N + 2 * s

(* A test is its four operations, one behind the other.  *)
TestCalls ==
    CallsOf("clear") \o CallsOf("invalidate") \o CallsOf("initialize") \o CallsOf("finish")

(* Every supplier is called six times in it, each time at its place.  *)
LEMMA TestPlaces ==
    /\ TestCalls \in Seq(CallSet)
    /\ \A op \in Ops, s \in Suppliers :
           Place(op, s) \in 1..Len(TestCalls) /\ TestCalls[Place(op, s)] = Call(op, s)
    /\ \A i \in 1..Len(TestCalls) : \E op \in Ops, s \in Suppliers :
           i = Place(op, s) /\ TestCalls[i] = Call(op, s)
  <1> DEFINE c == TestCalls
  <1> DEFINE N == SubtasksCount + AdditionalCount
             a == CallsOf("clear")
             b == CallsOf("invalidate")
             d == CallsOf("initialize")
             e == CallsOf("finish")
  <1>0. N \in Nat /\ Suppliers = 1..N
    BY TaskAssumption DEF Suppliers
  <1>1. a \in Seq(CallSet) /\ b \in Seq(CallSet) /\ d \in Seq(CallSet) /\ e \in Seq(CallSet)
    BY CallsAreTyped DEF Operations
  <1> DEFINE o == ForEach("open")
             t == ForEach("initialize")
  <1>2. /\ a = ForEach("clear") /\ b = ForEach("invalidate")
        /\ d = o \o t
        /\ "clear" \in Ops /\ "invalidate" \in Ops /\ "open" \in Ops /\ "initialize" \in Ops
    BY DEF CallsOf, Ops, Operations
  <1>3. /\ Len(a) = N /\ \A s \in 1..N : a[s] = Call("clear", s)
        /\ Len(b) = N /\ \A s \in 1..N : b[s] = Call("invalidate", s)
        /\ o \in Seq(CallSet) /\ Len(o) = N /\ \A s \in 1..N : o[s] = Call("open", s)
        /\ t \in Seq(CallSet) /\ Len(t) = N /\ \A s \in 1..N : t[s] = Call("initialize", s)
    BY <1>2, ForEachFacts
  <1>5. /\ Len(e) = 2 * N
        /\ \A s \in 1..N : e[2 * s - 1] = Call("finish", s) /\ e[2 * s] = Call("close", s)
    BY FinishFacts
  <1>6. c = ((a \o b) \o d) \o e
    BY DEF TestCalls
  <1> HIDE DEF N, a, b, c, d, e, o, t
  <1>c. \A u, v \in Seq(CallSet) :
            /\ u \o v \in Seq(CallSet)
            /\ Len(u \o v) = Len(u) + Len(v)
            /\ \A k \in 1..Len(u) : (u \o v)[k] = u[k]
            /\ \A k \in 1..Len(v) : (u \o v)[Len(u) + k] = v[k]
    BY ConcatProperties
  <1>4. /\ Len(d) = 2 * N
        /\ \A s \in 1..N : d[s] = Call("open", s) /\ d[N + s] = Call("initialize", s)
    <2>1. /\ Len(o \o t) = Len(o) + Len(t)
          /\ \A k \in 1..Len(o) : (o \o t)[k] = o[k]
          /\ \A k \in 1..Len(t) : (o \o t)[Len(o) + k] = t[k]
      BY <1>c, <1>3
    <2>2. QED
      BY <1>0, <1>2, <1>3, <2>1
  <1> DEFINE ab == a \o b
  <1>7. /\ ab \in Seq(CallSet) /\ Len(ab) = 2 * N
        /\ \A s \in 1..N : ab[s] = Call("clear", s) /\ ab[N + s] = Call("invalidate", s)
    <2>1. /\ ab \in Seq(CallSet)
          /\ Len(ab) = Len(a) + Len(b)
          /\ \A k \in 1..Len(a) : ab[k] = a[k]
          /\ \A k \in 1..Len(b) : ab[Len(a) + k] = b[k]
      BY <1>c, <1>1
    <2> HIDE DEF ab
    <2>2. QED
      BY <1>0, <1>3, <2>1
  <1> HIDE DEF ab
  <1> DEFINE abd == ab \o d
  <1>8. /\ abd \in Seq(CallSet) /\ Len(abd) = 4 * N
        /\ \A s \in 1..N : /\ abd[s] = Call("clear", s)
                           /\ abd[N + s] = Call("invalidate", s)
                           /\ abd[2 * N + s] = Call("open", s)
                           /\ abd[3 * N + s] = Call("initialize", s)
    <2>1. /\ abd \in Seq(CallSet)
          /\ Len(abd) = Len(ab) + Len(d)
          /\ \A k \in 1..Len(ab) : abd[k] = ab[k]
          /\ \A k \in 1..Len(d) : abd[Len(ab) + k] = d[k]
      BY <1>c, <1>1, <1>7
    <2> HIDE DEF abd
    <2>2. Len(abd) = 4 * N
      BY <1>0, <1>4, <1>7, <2>1
    <2>3. ASSUME NEW s \in 1..N
          PROVE  /\ abd[s] = Call("clear", s) /\ abd[N + s] = Call("invalidate", s)
                 /\ abd[2 * N + s] = Call("open", s)
                 /\ abd[3 * N + s] = Call("initialize", s)
      <3>1. s \in 1..(2 * N) /\ N + s \in 1..(2 * N)
        BY <1>0
      <3>2. abd[s] = Call("clear", s) /\ abd[N + s] = Call("invalidate", s)
        BY <1>7, <2>1, <3>1
      <3>3. abd[2 * N + s] = d[s] /\ abd[2 * N + (N + s)] = d[N + s]
        BY <1>4, <1>7, <2>1, <3>1
      <3>4. 2 * N + (N + s) = 3 * N + s
        BY <1>0
      <3>5. QED
        BY <1>4, <3>2, <3>3, <3>4
    <2>4. QED
      BY <2>1, <2>2, <2>3
  <1> HIDE DEF abd
  <1>e. /\ c \in Seq(CallSet)
        /\ Len(c) = Len(abd) + Len(e)
        /\ \A k \in 1..Len(abd) : c[k] = abd[k]
        /\ \A k \in 1..Len(e) : c[Len(abd) + k] = e[k]
    <2>1. c = abd \o e
      BY <1>6 DEF ab, abd
    <2>2. /\ abd \o e \in Seq(CallSet)
          /\ Len(abd \o e) = Len(abd) + Len(e)
          /\ \A k \in 1..Len(abd) : (abd \o e)[k] = abd[k]
          /\ \A k \in 1..Len(e) : (abd \o e)[Len(abd) + k] = e[k]
      BY <1>c, <1>1, <1>8
    <2>3. QED
      BY <2>1, <2>2
  <1>9. c \in Seq(CallSet) /\ Len(c) = 6 * N
    BY <1>0, <1>5, <1>8, <1>e
  <1>10. \A s \in 1..N : /\ c[s] = Call("clear", s)
                         /\ c[N + s] = Call("invalidate", s)
                         /\ c[2 * N + s] = Call("open", s)
                         /\ c[3 * N + s] = Call("initialize", s)
    <2>1. TAKE s \in 1..N
    <2>2. /\ s \in 1..(4 * N) /\ N + s \in 1..(4 * N)
          /\ 2 * N + s \in 1..(4 * N) /\ 3 * N + s \in 1..(4 * N)
      BY <1>0
    <2>3. QED
      BY <1>8, <1>e, <2>2
  <1>11. \A s \in 1..N : /\ c[4 * N + 2 * s - 1] = Call("finish", s)
                         /\ c[4 * N + 2 * s] = Call("close", s)
    <2>1. TAKE s \in 1..N
    <2>2. 2 * s - 1 \in 1..(2 * N) /\ 2 * s \in 1..(2 * N)
      BY <1>0
    <2>3. c[4 * N + (2 * s - 1)] = e[2 * s - 1] /\ c[4 * N + 2 * s] = e[2 * s]
      BY <1>5, <1>8, <1>e, <2>2
    <2>4. 4 * N + 2 * s - 1 = 4 * N + (2 * s - 1)
      BY <1>0
    <2>5. QED
      BY <1>5, <2>3, <2>4
  <1>12. \A op \in Ops, s \in Suppliers :
                  Place(op, s) \in 1..Len(c) /\ c[Place(op, s)] = Call(op, s)
    <2>1. TAKE op \in Ops, s \in Suppliers
    <2>2. CASE op = "clear"
      BY <1>0, <1>9, <1>10, <2>2 DEF Place, N
    <2>3. CASE op = "invalidate"
      BY <1>0, <1>9, <1>10, <2>3 DEF Place, N
    <2>4. CASE op = "open"
      BY <1>0, <1>9, <1>10, <2>4 DEF Place, N
    <2>5. CASE op = "initialize"
      BY <1>0, <1>9, <1>10, <2>5 DEF Place, N
    <2>6. CASE op = "finish"
      <3>1. Place(op, s) = 4 * N + 2 * s - 1
        BY <2>6 DEF Place, N
      <3>2. s \in 1..N
        BY <1>0
      <3>3. 4 * N + 2 * s - 1 \in 1..(6 * N)
        BY <1>0, <3>2
      <3>4. QED
        BY <1>9, <1>11, <2>6, <3>1, <3>2, <3>3
    <2>7. CASE op = "close"
      <3>1. Place(op, s) = 4 * N + 2 * s
        BY <2>7 DEF Place, N
      <3>2. s \in 1..N
        BY <1>0
      <3>3. 4 * N + 2 * s \in 1..(6 * N)
        BY <1>0, <3>2
      <3>4. QED
        BY <1>9, <1>11, <2>7, <3>1, <3>2, <3>3
    <2>8. QED
      BY <2>2, <2>3, <2>4, <2>5, <2>6, <2>7 DEF Ops, Operations
  <1>13. \A i \in 1..Len(c) : \E op \in Ops, s \in Suppliers : i = Place(op, s)
    <2>1. TAKE i \in 1..Len(c)
    <2>2. i \in Int /\ i >= 1 /\ i <= 6 * N
      BY <1>0, <1>9
    <2>3. CASE i <= N
      <3>1. i \in Suppliers /\ i = Place("clear", i)
        BY <1>0, <2>2, <2>3 DEF Place
      <3>2. QED
        BY <3>1 DEF Ops, Operations
    <2>4. CASE i > N /\ i <= 2 * N
      <3>1. i - N \in Suppliers /\ i = Place("invalidate", i - N)
        BY <1>0, <2>2, <2>4 DEF Place, N
      <3>2. QED
        BY <3>1 DEF Ops, Operations
    <2>5. CASE i > 2 * N /\ i <= 3 * N
      <3>1. i - 2 * N \in Suppliers /\ i = Place("open", i - 2 * N)
        BY <1>0, <2>2, <2>5 DEF Place, N
      <3>2. QED
        BY <3>1 DEF Ops, Operations
    <2>6. CASE i > 3 * N /\ i <= 4 * N
      <3>1. i - 3 * N \in Suppliers /\ i = Place("initialize", i - 3 * N)
        BY <1>0, <2>2, <2>6 DEF Place, N
      <3>2. QED
        BY <3>1 DEF Ops, Operations
    <2>7. CASE i > 4 * N
      <3>1. PICK k \in 1..N : i = 4 * N + 2 * k - 1 \/ i = 4 * N + 2 * k
        <4>1. (i - 4 * N + 1) \div 2 \in 1..N
          BY <1>0, <2>2, <2>7
        <4>2. \/ i = 4 * N + 2 * ((i - 4 * N + 1) \div 2) - 1
              \/ i = 4 * N + 2 * ((i - 4 * N + 1) \div 2)
          BY <1>0, <2>2, <2>7
        <4>3. QED
          BY <4>1, <4>2
      <3>2. k \in Suppliers /\ (i = Place("finish", k) \/ i = Place("close", k))
        BY <1>0, <3>1 DEF Place, N
      <3>3. QED
        BY <3>2 DEF Ops, Operations
    <2>8. QED
      BY <1>0, <2>2, <2>3, <2>4, <2>5, <2>6, <2>7
  <1>14. ASSUME NEW i \in 1..Len(c)
         PROVE  \E op \in Ops, s \in Suppliers : i = Place(op, s) /\ c[i] = Call(op, s)
    <2>1. PICK op \in Ops, s \in Suppliers : i = Place(op, s)
      BY <1>13
    <2>2. c[i] = Call(op, s)
      BY <1>12, <2>1
    <2>3. QED
      BY <2>1, <2>2
  <1>15. QED
    BY <1>9, <1>12, <1>14 DEF c

(* At the beginning of a test everything is still to be called.  *)
LEMMA TestIsSequenced ==
    ASSUME Test
    PROVE  /\ calls' \in Seq(CallSet)
           /\ Ordered' /\ Complete' /\ Through'
           /\ \A op \in Ops, s \in Suppliers : Pending(op, s)'
  <1> DEFINE c == TestCalls
  <1>1. calls' = c
    BY DEF Test, TestCalls
  <1> HIDE DEF c
  <1>2. /\ c \in Seq(CallSet)
        /\ \A op \in Ops, s \in Suppliers :
               /\ Place(op, s) \in 1..Len(c)
               /\ c[Place(op, s)] = Call(op, s)
        /\ \A i \in 1..Len(c) : \E op \in Ops, s \in Suppliers :
               i = Place(op, s) /\ c[i] = Call(op, s)
    BY TestPlaces DEF c
  <1>3. \A i \in 1..Len(c) :
            /\ c[i].op \in Ops /\ c[i].supplier \in Suppliers /\ c[i].proxy
            /\ i = Place(c[i].op, c[i].supplier)
    <2>1. TAKE i \in 1..Len(c)
    <2>2. PICK op \in Ops, s \in Suppliers : i = Place(op, s) /\ c[i] = Call(op, s)
      BY <1>2
    <2>3. c[i].op = op /\ c[i].supplier = s /\ c[i].proxy
      BY <2>2 DEF Call
    <2>4. QED
      BY <2>2, <2>3
  <1>4. \A op \in Ops, s \in Suppliers : Pending(op, s)'
    <2>1. TAKE op \in Ops, s \in Suppliers
    <2>2. c[Place(op, s)].op = op /\ c[Place(op, s)].supplier = s
      <3>1. c[Place(op, s)] = Call(op, s)
        BY <1>2
      <3>2. QED
        BY <3>1 DEF Call
    <2>3. QED
      BY <1>1, <1>2, <2>2 DEF Pending
  <1>5. \A op1, op2 \in Ops, s \in Suppliers :
            Place(op1, s) < Place(op2, s) => Rank(op1) < Rank(op2)
    <2>1. SubtasksCount + AdditionalCount \in Nat /\ Suppliers = 1..(SubtasksCount + AdditionalCount)
      BY TaskAssumption DEF Suppliers
    <2>2. QED
      BY SMTT(30), <2>1 DEF Place, Rank, Ops, Operations
  <1>6. Ordered'
    <2>1. SUFFICES ASSUME NEW i \in 1..Len(c), NEW j \in 1..Len(c),
                          i < j, c[i].supplier = c[j].supplier
                   PROVE  Rank(c[i].op) < Rank(c[j].op)
      BY <1>1 DEF Ordered
    <2>2. QED
      BY <1>3, <1>5, <2>1
  <1>7. Complete'
    BY <1>1, <1>3, <1>4 DEF Complete
  <1>8. Through'
    BY <1>1, <1>3 DEF Through
  <1>9. QED
    BY <1>1, <1>2, <1>4, <1>6, <1>7, <1>8

(* The ranks are numbers.  *)
LEMMA RankType == \A op \in Ops : Rank(op) \in 1..6
  BY DEF Rank, Ops, Operations

(* A call that returns is the first of those left.  *)
LEMMA Returned ==
    ASSUME calls \in Seq(CallSet), calls # <<>>, Return
    PROVE  /\ calls' \in Seq(CallSet)
           /\ Head(calls) = calls[1] /\ calls[1] \in CallSet
           /\ Len(calls) \in Nat /\ Len(calls) >= 1 /\ Len(calls') = Len(calls) - 1
           /\ \A k \in 1..Len(calls') : k + 1 \in 1..Len(calls) /\ calls'[k] = calls[k + 1]
  <1>1. /\ Head(calls) \in CallSet
        /\ Tail(calls) \in Seq(CallSet)
        /\ Len(Tail(calls)) = Len(calls) - 1
        /\ \A k \in 1..(Len(calls) - 1) : Tail(calls)[k] = calls[k + 1]
    BY HeadTailProperties
  <1>2. Head(calls) = calls[1] /\ Len(calls) \in Nat /\ Len(calls) >= 1
    OBVIOUS
  <1>3. QED
    BY <1>1, <1>2 DEF Return

(* In a test, a supplier that is called next has nothing of a lower rank left.  *)
LEMMA FirstIsLowest ==
    ASSUME calls \in Seq(CallSet), calls # <<>>, Ordered, Complete
    PROVE  \A op \in Ops :
                  Pending(op, Head(calls).supplier) <=> Rank(Head(calls).op) <= Rank(op)
  <1> DEFINE n == Len(calls)
             h == calls[1]
  <1>1. /\ Head(calls) = h /\ n \in Nat /\ n >= 1
        /\ \A i \in 1..n : calls[i].op \in Ops /\ calls[i].supplier \in Suppliers
    <2>1. \A i \in 1..n : calls[i] \in CallSet
      OBVIOUS
    <2>2. QED
      BY <2>1 DEF CallSet
  <1>2. 1 \in 1..n
    BY <1>1
  <1> HIDE DEF n, h
  <1>3. ASSUME NEW op \in Ops
        PROVE  Pending(op, h.supplier) <=> Rank(h.op) <= Rank(op)
    <2>1. h.op \in Ops /\ Rank(h.op) \in Int /\ Rank(op) \in Int
      BY <1>1, <1>2, RankType DEF h
    <2>2. ASSUME Rank(h.op) < Rank(op) PROVE Pending(op, h.supplier)
      BY <1>2, <2>2 DEF Complete, n, h
    <2>3. ASSUME Rank(h.op) = Rank(op) PROVE Pending(op, h.supplier)
      <3>1. h.op = op
        BY <2>1, <2>3 DEF Rank, Ops, Operations
      <3>2. QED
        BY <1>2, <3>1 DEF Pending, n, h
    <2>4. ASSUME Pending(op, h.supplier) PROVE Rank(h.op) <= Rank(op)
      <3>1. PICK i \in 1..n : calls[i].op = op /\ calls[i].supplier = h.supplier
        BY <2>4 DEF Pending, n
      <3>2. CASE i = 1
        BY <2>1, <3>1, <3>2 DEF h
      <3>3. CASE i # 1
        <4>1. 1 < i
          BY <1>1, <3>1, <3>3
        <4>2. Rank(calls[1].op) < Rank(calls[i].op)
          BY <1>2, <3>1, <4>1 DEF Ordered, n, h
        <4>3. QED
          BY <2>1, <3>1, <4>2 DEF h
      <3>4. QED
        BY <3>2, <3>3
    <2>5. QED
      BY <2>1, <2>2, <2>3, <2>4
  <1>4. QED
    BY <1>1, <1>3

(* In a test, what is left is left in its order.  *)
LEMMA ReturnIsSequenced ==
    ASSUME calls \in Seq(CallSet), calls # <<>>, Return, Ordered, Complete, Through
    PROVE  /\ Ordered' /\ Complete' /\ Through'
           /\ \A op \in Ops, s \in Suppliers :
                  Pending(op, s)' <=>
                    Pending(op, s) /\ ~(op = Head(calls).op /\ s = Head(calls).supplier)
  <1> DEFINE n == Len(calls)
             h == calls[1]
  <1>1. /\ Head(calls) = h /\ h \in CallSet /\ n \in Nat /\ n >= 1 /\ Len(calls') = n - 1
        /\ \A k \in 1..Len(calls') : k + 1 \in 1..n /\ calls'[k] = calls[k + 1]
    BY Returned
  <1>2. \A i \in 1..n : calls[i].op \in Ops /\ calls[i].supplier \in Suppliers
    <2>1. \A i \in 1..n : calls[i] \in CallSet
      OBVIOUS
    <2>2. QED
      BY <2>1 DEF CallSet
  <1>3. \A i \in 2..n : i - 1 \in 1..Len(calls') /\ calls'[i - 1] = calls[i]
    BY <1>1
  <1>4. 1 \in 1..n
    BY <1>1
  <1> HIDE DEF n, h
  <1>5. ASSUME NEW op \in Ops, NEW s \in Suppliers
        PROVE  Pending(op, s)' <=> Pending(op, s) /\ ~(op = h.op /\ s = h.supplier)
    <2>1. ASSUME Pending(op, s)'
          PROVE  Pending(op, s) /\ ~(op = h.op /\ s = h.supplier)
      <3>1. PICK k \in 1..Len(calls') : calls'[k].op = op /\ calls'[k].supplier = s
        BY <2>1 DEF Pending
      <3>2. k + 1 \in 1..n /\ calls[k + 1].op = op /\ calls[k + 1].supplier = s
        BY <1>1, <3>1
      <3>3. Pending(op, s)
        BY <3>2 DEF Pending, n
      <3>4. ASSUME op = h.op, s = h.supplier PROVE FALSE
        <4>1. 1 < k + 1
          BY <1>1, <3>1
        <4>2. Rank(calls[1].op) < Rank(calls[k + 1].op)
          BY <1>4, <3>2, <3>4, <4>1 DEF Ordered, n, h
        <4>3. calls[k + 1].op = calls[1].op
          BY <3>2, <3>4 DEF h
        <4>4. QED
          BY <1>2, <1>4, <4>2, <4>3, RankType
      <3>5. QED
        BY <3>3, <3>4
    <2>2. ASSUME Pending(op, s), ~(op = h.op /\ s = h.supplier)
          PROVE  Pending(op, s)'
      <3>1. PICK i \in 1..n : calls[i].op = op /\ calls[i].supplier = s
        BY <2>2 DEF Pending, n
      <3>2. i # 1
        BY <2>2, <3>1 DEF h
      <3>3. i \in 2..n
        BY <1>1, <3>1, <3>2
      <3>4. QED
        BY <1>3, <3>1, <3>3 DEF Pending
    <2>3. QED
      BY <2>1, <2>2
  <1>6. Ordered'
    <2>1. SUFFICES ASSUME NEW i \in 1..Len(calls'), NEW j \in 1..Len(calls'),
                          i < j, calls'[i].supplier = calls'[j].supplier
                   PROVE  Rank(calls'[i].op) < Rank(calls'[j].op)
      BY DEF Ordered
    <2>2. /\ i + 1 \in 1..n /\ calls'[i] = calls[i + 1]
          /\ j + 1 \in 1..n /\ calls'[j] = calls[j + 1] /\ i + 1 < j + 1
      BY <1>1, <2>1
    <2>3. QED
      BY <2>1, <2>2 DEF Ordered, n
  <1>7. Complete'
    <2>1. SUFFICES ASSUME NEW i \in 1..Len(calls'), NEW op \in Ops,
                          Rank(calls'[i].op) < Rank(op)
                   PROVE  Pending(op, calls[i].supplier)'
      BY DEF Complete
    <2>2. i + 1 \in 1..n /\ calls'[i] = calls[i + 1]
      BY <1>1
    <2>3. Pending(op, calls[i + 1].supplier)
      BY <2>1, <2>2 DEF Complete, n
    <2>9. PICK p \in Suppliers : p = calls[i + 1].supplier
      BY <1>2, <2>2
    <2>6. Pending(op, calls[i].supplier)' <=> Pending(op, p)'
      BY <2>2, <2>9 DEF Pending
    <2>4. ASSUME op = h.op, calls[i + 1].supplier = h.supplier PROVE FALSE
      <3>1. 1 < i + 1
        BY <1>1
      <3>2. Rank(calls[1].op) < Rank(calls[i + 1].op)
        BY <1>4, <2>2, <2>4, <3>1 DEF Ordered, n, h
      <3>3. Rank(calls[i + 1].op) < Rank(calls[1].op)
        BY <2>1, <2>2, <2>4 DEF h
      <3>4. Rank(calls[1].op) \in Int /\ Rank(calls[i + 1].op) \in Int
        BY <1>2, <1>4, <2>2, RankType
      <3>5. QED
        BY <3>2, <3>3, <3>4
    <2>8. Pending(op, p)'
      BY <1>5, <2>3, <2>4, <2>9
    <2>5. QED
      BY <2>6, <2>8
  <1>8. Through'
    BY <1>1 DEF Through, n
  <1>9. QED
    BY <1>1, <1>5, <1>6, <1>7, <1>8

-----------------------------------------------------------------------------
(* Types, category and work status *)

Current == TypeOK /\ CategoryCurrent /\ WorkStatusCurrent

(* Nothing is out of date at the beginning.  *)
LEMMA InitCurrent == Init => Current
  <1> SUFFICES ASSUME Init PROVE Current
    OBVIOUS
  <1>1. TypeOK
    <2>1. calls \in Seq([op : Operations \cup {"open", "close"},
                         supplier : Suppliers, proxy : BOOLEAN])
      BY DEF Init
    <2>2. [s \in Suppliers |-> 0] \in [Suppliers -> 0..2]
      OBVIOUS
    <2>3. /\ status \in [Suppliers -> WorkStatus] /\ lastState \in [Suppliers -> WorkStatus]
          /\ isInputValid \in [Suppliers -> BOOLEAN] /\ result \in [Suppliers -> Categories]
          /\ enabled \in [Proxies -> BOOLEAN]
      BY DEF Init, WorkStatus, Categories, WS_INVALID, WS_FAILED, IC_NONE, IC_CRITICAL
    <2>4. /\ isStatusKnown \in BOOLEAN /\ inTest \in BOOLEAN /\ switched \in BOOLEAN
          /\ notifiers \in SUBSET Suppliers /\ refused \in SUBSET Suppliers
      BY DEF Init
    <2>5. QED
      BY <2>1, <2>2, <2>3, <2>4 DEF Init, TypeOK, WorkStatus, Categories, WS_INVALID, WS_FAILED, IC_NONE, IC_CRITICAL
  <1>2. CategoryCurrent
    BY DEF Init, CategoryCurrent
  <1>3. WorkStatusCurrent
    <2>1. \A s \in Subtasks : StatusIn(status, s) = WS_INVALID
      BY SubtasksAreSuppliers DEF Init, StatusIn
    <2>2. {WS_INVALID} \cup {StatusIn(status, s) : s \in Subtasks} = {0}
      BY <2>1 DEF WS_INVALID
    <2>3. Worst({0}) = 0
      BY WorstIsIn, {0} \in SUBSET (0..5)
    <2>4. QED
      BY <2>2, <2>3 DEF WorkStatusCurrent, WorstStatus, Init, WS_INVALID
  <1>4. QED
    BY <1>1, <1>2, <1>3 DEF Current

(* Another operation ends a test.  *)
LEMMA EndTestType ==
    ASSUME EndTest
    PROVE  inTest' \in BOOLEAN /\ runs' \in [Suppliers -> 0..2] /\ refused' \in SUBSET Suppliers
  <1>1. inTest' \in BOOLEAN /\ refused' \in SUBSET Suppliers
    BY DEF EndTest
  <1>2. [s \in Suppliers |-> 0] \in [Suppliers -> 0..2]
    OBVIOUS
  <1>3. QED
    BY <1>1, <1>2 DEF EndTest

(* A client begins something.  *)
LEMMA ClientCurrent == Current /\ Client => Current'
  <1> SUFFICES ASSUME Current, Client PROVE Current'
    OBVIOUS
  <1>0. TypeOK /\ CategoryCurrent /\ WorkStatusCurrent
    BY DEF Current
  <1>1. ASSUME NEW op \in Operations, Operation(op) PROVE Current'
    <2>1. calls' \in Seq(CallSet)
      BY <1>1, CallsAreTyped DEF Operation
    <2>2. TypeOK'
      BY <1>0, <1>1, <2>1, EndTestType DEF Operation, TypeOK, supplierVars, taskVars, CallSet, Ops
    <2>3. QED
      BY <1>0, <1>1, <2>2, NothingChanged DEF Operation, supplierVars, taskVars, Current
  <1>2. ASSUME Test PROVE Current'
    <2>1. calls' \in Seq(CallSet)
      BY <1>2, TestIsSequenced
    <2>2. TypeOK'
      BY <1>0, <1>2, <2>1 DEF Test, TypeOK, supplierVars, taskVars, CallSet, Ops
    <2>3. QED
      BY <1>0, <1>2, <2>2, NothingChanged DEF Test, supplierVars, taskVars, Current
  <1>3. ASSUME NEW s \in Suppliers, TestSupplier(s) PROVE Current'
    <2>1. calls' \in Seq(CallSet)
      <3>1. \A n \in 1..3 : <<"invalidate", "initialize", "finish">>[n] \in Ops
        BY DEF Ops, Operations
      <3>2. calls' = [n \in 1..3 |-> [op |-> <<"invalidate", "initialize", "finish">>[n],
                                      supplier |-> s, proxy |-> FALSE]]
        BY <1>3 DEF TestSupplier
      <3>3. \A n \in 1..3 : [op |-> <<"invalidate", "initialize", "finish">>[n],
                             supplier |-> s, proxy |-> FALSE] \in CallSet
        BY <3>1 DEF CallSet
      <3> DEFINE f == [n \in 1..3 |-> [op |-> <<"invalidate", "initialize", "finish">>[n],
                                       supplier |-> s, proxy |-> FALSE]]
      <3>4. \A n \in 1..3 : f[n] \in CallSet
        BY <3>3
      <3>5. f = [n \in 1..3 |-> f[n]]
        OBVIOUS
      <3>6. calls' = f
        BY <3>2
      <3> HIDE DEF f
      <3>7. f \in Seq(CallSet)
        BY <3>4, <3>5
      <3>8. QED
        BY <3>6, <3>7
    <2>2. TypeOK'
      BY <1>0, <1>3, <2>1, EndTestType DEF TestSupplier, TypeOK, supplierVars, taskVars, CallSet, Ops
    <2>3. QED
      BY <1>0, <1>3, <2>2, NothingChanged DEF TestSupplier, supplierVars, taskVars, Current
  <1>4. ASSUME NEW s \in Suppliers, SetSupplierEnabled(s) PROVE Current'
    <2>1. /\ isStatusKnown' \in BOOLEAN
          /\ isStatusKnown' => isStatusKnown /\ (s \notin Subtasks \/ s \in notifiers)
      BY <1>0, <1>4 DEF SetSupplierEnabled, AfterUpdate, TypeOK
    <2>2. TypeOK'
      BY <1>0, <1>4, <2>1, EndTestType DEF SetSupplierEnabled, TypeOK, supplierVars
    <2>3. CategoryCurrent'
      <3>1. CASE isStatusKnown' /\ ~SwitchHeld'
        <4>0. s \in Proxies /\ notifiers' = notifiers /\ switched'
          BY <1>4 DEF SetSupplierEnabled
        <4>1. s \notin Subtasks /\ ~SwitchHeld
          BY <2>1, <3>1, <4>0 DEF SwitchHeld
        <4>2. \A t \in Subtasks : IsOff(t)' = IsOff(t)
          BY <1>0, <1>4, <4>1 DEF SetSupplierEnabled, IsOff, TypeOK
        <4>3. Summary' = Summary
          BY <1>4, <4>2, SummarySame DEF SetSupplierEnabled, supplierVars
        <4>4. QED
          BY <1>0, <1>4, <2>1, <3>1, <4>1, <4>3 DEF SetSupplierEnabled, CategoryCurrent
      <3>2. QED
        BY <3>1 DEF CategoryCurrent
    <2>4. WorkStatusCurrent'
      BY <1>4 DEF SetSupplierEnabled, WorkStatusCurrent
    <2>5. QED
      BY <2>2, <2>3, <2>4 DEF Current
  <1>5. ASSUME NEW s \in Suppliers, ParamsChange(s) PROVE Current'
    <2>1. TypeOK'
      BY <1>0, <1>5 DEF ParamsChange, TypeOK, taskVars, testVars
    <2>2. QED
      BY <1>0, <1>5, <2>1, NothingChanged DEF ParamsChange, taskVars, testVars, Current
  <1>6. QED
    BY <1>1, <1>2, <1>3, <1>4, <1>5 DEF Client

(* A call that sets no state.  *)
LEMMA QuietCurrent ==
    ASSUME Current, NEW s \in Suppliers,
           CallDisabled(s) \/ InvalidateSupplier(s) \/ OpenChange(s) \/ SkipInitialize(s)
    PROVE  Current'
  <1>0. TypeOK /\ CategoryCurrent /\ WorkStatusCurrent /\ calls \in Seq(CallSet)
    BY DEF Current, TypeOK, CallSet, Ops
  <1>1. calls' \in Seq(CallSet)
    BY <1>0, Returned DEF CallDisabled, InvalidateSupplier, OpenChange, SkipInitialize,
                          IsCalled, IsNext
  <1>2. TypeOK'
    BY <1>0, <1>1 DEF CallDisabled, InvalidateSupplier, OpenChange, SkipInitialize, TypeOK,
                      supplierVars, taskVars, testVars, CallSet, Ops
  <1>3. CategoryCurrent' /\ WorkStatusCurrent'
    BY <1>0, NothingChanged DEF CallDisabled, InvalidateSupplier, OpenChange, SkipInitialize,
                                supplierVars, taskVars, testVars
  <1>4. QED
    BY <1>2, <1>3 DEF Current

(* A call that does.  *)
LEMMA LoudCurrent ==
    ASSUME Current, NEW s \in Suppliers, NEW w \in WorkStatus, NEW isTold \in BOOLEAN,
           SetSupplierState(s, w), AfterUpdate(s, isTold),
           enabled' = enabled, resultCategory' = resultCategory, notifiers' = notifiers,
           \A t \in Suppliers : t # s => result'[t] = result[t],
           isTold \/ (w = status[s] /\ result'[s] = result[s])
    PROVE  /\ status' \in [Suppliers -> WorkStatus]
           /\ status'[s] = w
           /\ \A t \in Suppliers : t # s => status'[t] = status[t]
           /\ workStatus' \in WorkStatus
           /\ switched' \in BOOLEAN
           /\ isStatusKnown' \in BOOLEAN
           /\ CategoryCurrent'
           /\ WorkStatusCurrent'
  <1>1. /\ status' \in [Suppliers -> WorkStatus]
        /\ status'[s] = w
        /\ \A t \in Suppliers : t # s => status'[t] = status[t]
        /\ workStatus' \in WorkStatus
        /\ switched' \in BOOLEAN
        /\ WorkStatusCurrent'
    BY StateSet DEF Current
  <1>2. SwitchHeld => SwitchHeld' \/ (isTold /\ s \in Subtasks)
    BY DEF SwitchHeld, SetSupplierState
  <1>3. CategoryCurrent' /\ isStatusKnown' \in BOOLEAN
    BY <1>1, <1>2, CategoryKept DEF Current
  <1>4. QED
    BY <1>1, <1>3

(* A call in the middle of which a supplier is locked.  *)
LEMMA LockCurrent ==
    ASSUME Current, NEW s \in Suppliers, LockToInitialize(s) \/ LockToProduce(s)
    PROVE  Current'
  <1>1. /\ SetSupplierState(s, WS_LOCKED) /\ AfterUpdate(s, TRUE)
        /\ UNCHANGED <<lastState, isInputValid, result, enabled, resultCategory, notifiers,
                       calls, inTest, runs, refused>>
    BY DEF LockToInitialize, LockToProduce, testVars
  <1>2. WS_LOCKED \in WorkStatus
    BY DEF WS_LOCKED, WorkStatus, WS_INVALID, WS_FAILED
  <1>3. /\ status' \in [Suppliers -> WorkStatus]
        /\ workStatus' \in WorkStatus
        /\ switched' \in BOOLEAN
        /\ isStatusKnown' \in BOOLEAN
        /\ CategoryCurrent'
        /\ WorkStatusCurrent'
    BY <1>1, <1>2, LoudCurrent
  <1>4. QED
    BY <1>1, <1>3 DEF Current, TypeOK

(* A call that ends with a state.  *)
LEMMA ReturnCurrent ==
    ASSUME Current, NEW s \in Suppliers, NEW w \in WorkStatus,
           \/ ClearWorkResults(s) /\ w = WS_INVALID
           \/ InitializeWork(s, w)
           \/ \E c \in {IC_INFO, IC_ERROR} : ProduceObject(s, w, c)
           \/ KeepResult(s) /\ w = lastState[s]
    PROVE  Current'
  <1>0. TypeOK /\ CategoryCurrent /\ WorkStatusCurrent /\ calls \in Seq(CallSet)
    BY DEF Current, TypeOK, CallSet, Ops
  <1>1. calls' \in Seq(CallSet)
    BY <1>0, Returned DEF ClearWorkResults, InitializeWork, ProduceObject, KeepResult, FinishWork,
                          IsCalled, IsNext
  <1>2. SetSupplierState(s, w) /\ enabled' = enabled /\ resultCategory' = resultCategory
    BY DEF ClearWorkResults, InitializeWork, ProduceObject, KeepResult, FinishWork
  <1>3. /\ result' \in [Suppliers -> Categories]
        /\ \A t \in Suppliers : t # s => result'[t] = result[t]
        /\ (KeepResult(s) => result' = result)
    <2>0. result \in [Suppliers -> Categories] /\ {IC_NONE, IC_INFO, IC_ERROR} \subseteq Categories
      BY <1>0 DEF TypeOK, Categories, IC_NONE, IC_INFO, IC_ERROR, IC_CRITICAL
    <2>1. CASE ClearWorkResults(s) \/ InitializeWork(s, w) \/ KeepResult(s)
      BY <2>0, <2>1 DEF ClearWorkResults, InitializeWork, KeepResult
    <2>2. CASE \E c \in {IC_INFO, IC_ERROR} : ProduceObject(s, w, c)
      <3>1. PICK c \in {IC_INFO, IC_ERROR} :
                result' = [result EXCEPT ![s] = IF w = WS_OK THEN c ELSE IC_NONE]
        BY <2>2 DEF ProduceObject
      <3>2. \A t \in Suppliers : t # s => result'[t] = result[t]
        BY <2>0, <3>1
      <3>3. result' \in [Suppliers -> Categories]
        BY <2>0, <3>1
      <3>4. ~KeepResult(s) \/ result' = result
        BY DEF KeepResult
      <3>5. QED
        BY <3>2, <3>3, <3>4
    <2>3. QED
      BY <2>1, <2>2
  <1>4. \E isTold \in BOOLEAN :
            AfterUpdate(s, isTold) /\ (isTold \/ (w = status[s] /\ result'[s] = result[s]))
    <2>0. CASE ClearWorkResults(s) /\ w = WS_INVALID
      <3> DEFINE told == s \notin notifiers \/ status[s] # WS_INVALID
      <3>1. AfterUpdate(s, told) /\ result' = result
        BY <2>0 DEF ClearWorkResults
      <3>2. told \/ w = status[s]
        BY <2>0
      <3>3. WITNESS told \in BOOLEAN
      <3>4. QED
        BY <3>1, <3>2
    <2>1. CASE InitializeWork(s, w)
      <3>1. AfterUpdate(s, TRUE)
        BY <2>1 DEF InitializeWork
      <3>2. WITNESS TRUE \in BOOLEAN
      <3>3. QED
        BY <3>1 DEF AfterUpdate
    <2>2. CASE \E c \in {IC_INFO, IC_ERROR} : ProduceObject(s, w, c)
      <3>1. AfterUpdate(s, w # status[s])
        BY <2>2 DEF ProduceObject, FinishWork
      <3>2. status[s] = WS_LOCKED /\ w \in WS_OK..WS_FAILED
        BY <2>2 DEF ProduceObject
      <3>3. w # status[s]
        BY <3>2 DEF WS_LOCKED, WS_OK, WS_FAILED
      <3>4. WITNESS (w # status[s]) \in BOOLEAN
      <3>5. QED
        BY <3>1, <3>3 DEF AfterUpdate
    <2>3. CASE KeepResult(s) /\ w = lastState[s]
      <3>1. AfterUpdate(s, w # status[s]) /\ result' = result
        BY <2>3 DEF KeepResult, FinishWork
      <3>2. WITNESS (w # status[s]) \in BOOLEAN
      <3>3. QED
        BY <2>3, <3>1
    <2>4. QED
      BY <2>0, <2>1, <2>2, <2>3
  <1>5. PICK isTold \in BOOLEAN :
            AfterUpdate(s, isTold) /\ (isTold \/ (w = status[s] /\ result'[s] = result[s]))
    BY <1>4
  <1>6. notifiers' = notifiers /\ inTest' = inTest
    BY DEF ClearWorkResults, InitializeWork, ProduceObject, KeepResult, FinishWork, testVars
  <1>7. /\ status' \in [Suppliers -> WorkStatus]
        /\ workStatus' \in WorkStatus
        /\ switched' \in BOOLEAN
        /\ isStatusKnown' \in BOOLEAN
        /\ CategoryCurrent'
        /\ WorkStatusCurrent'
    BY <1>2, <1>3, <1>5, <1>6, LoudCurrent
  <1>8. /\ isInputValid' \in [Suppliers -> BOOLEAN]
        /\ lastState' \in [Suppliers -> WorkStatus]
    <2>1. isInputValid \in [Suppliers -> BOOLEAN] /\ lastState \in [Suppliers -> WorkStatus]
      BY <1>0 DEF TypeOK
    <2>2. \/ isInputValid' = isInputValid
          \/ isInputValid' = [isInputValid EXCEPT ![s] = FALSE]
          \/ isInputValid' = [isInputValid EXCEPT ![s] = TRUE]
      BY DEF ClearWorkResults, InitializeWork, ProduceObject, KeepResult, FinishWork
    <2>3. lastState' = lastState \/ lastState' = [lastState EXCEPT ![s] = w]
      BY DEF ClearWorkResults, InitializeWork, ProduceObject, KeepResult
    <2>4. QED
      BY <2>1, <2>2, <2>3
  <1>9. refused' \in SUBSET Suppliers
    BY <1>0 DEF ClearWorkResults, InitializeWork, ProduceObject, KeepResult, FinishWork, testVars,
                TypeOK
  <1>10. runs' \in [Suppliers -> 0..2]
    <2>1. CASE runs' = runs
      BY <1>0, <2>1 DEF TypeOK
    <2>2. CASE \E c \in {IC_INFO, IC_ERROR} : ProduceObject(s, w, c)
      <3>1. runs' = [runs EXCEPT ![s] = IF inTest /\ runs[s] < 2 THEN runs[s] + 1 ELSE runs[s]]
        BY <2>2 DEF ProduceObject
      <3>2. runs[s] \in 0..2
        BY <1>0 DEF TypeOK
      <3>3. (IF inTest /\ runs[s] < 2 THEN runs[s] + 1 ELSE runs[s]) \in 0..2
        BY <3>2
      <3>4. QED
        BY <1>0, <3>1, <3>3 DEF TypeOK
    <2>3. QED
      BY <2>1, <2>2 DEF ClearWorkResults, InitializeWork, KeepResult, FinishWork, testVars
  <1>11. TypeOK'
    BY <1>0, <1>1, <1>2, <1>3, <1>6, <1>7, <1>8, <1>9, <1>10 DEF TypeOK, CallSet, Ops
  <1>12. QED
    BY <1>7, <1>11 DEF Current

(* The announcement of a change.  *)
LEMMA CloseCurrent ==
    ASSUME Current, NEW s \in Suppliers, CloseChange(s)
    PROVE  Current'
  <1>0. TypeOK /\ CategoryCurrent /\ WorkStatusCurrent /\ calls \in Seq(CallSet)
    BY DEF Current, TypeOK, CallSet, Ops
  <1>1. calls' \in Seq(CallSet)
    BY <1>0, Returned DEF CloseChange, IsNext
  <1>2. /\ UNCHANGED <<supplierVars, enabled, workStatus, resultCategory, testVars, switched>>
        /\ AfterUpdate(s, s \in notifiers) /\ notifiers' = notifiers \ {s}
    BY DEF CloseChange
  <1>3. (s \in notifiers) \in BOOLEAN
    OBVIOUS
  <1>4. status' = status /\ result' = result
    BY <1>2 DEF supplierVars
  <1>5. CategoryCurrent' /\ isStatusKnown' \in BOOLEAN
    <2>1. SwitchHeld => SwitchHeld' \/ (s \in notifiers /\ s \in Subtasks)
      BY <1>2 DEF SwitchHeld
    <2>2. QED
      BY <1>0, <1>2, <1>3, <1>4, <2>1, CategoryKept
  <1>6. WorkStatusCurrent'
    <2>1. WorstStatus(status)' = WorstStatus(status)
      BY <1>2, <1>4, WorstStatusSame
    <2>2. QED
      BY <1>0, <1>2, <2>1 DEF WorkStatusCurrent
  <1>7. TypeOK'
    BY <1>0, <1>1, <1>2, <1>5 DEF TypeOK, CallSet, Ops, supplierVars, testVars
  <1>8. QED
    BY <1>5, <1>6, <1>7 DEF Current

(* Nothing gets out of date by a step.  *)
LEMMA NextCurrent == Current /\ [Next]_vars => Current'
  <1> SUFFICES ASSUME Current, [Next]_vars PROVE Current'
    OBVIOUS
  <1>1. CASE Client
    BY <1>1, ClientCurrent
  <1>2. CASE Step
    <2>1. PICK s \in Suppliers :
            \/ CallDisabled(s)
            \/ InvalidateSupplier(s) \/ ClearWorkResults(s)
            \/ OpenChange(s) \/ CloseChange(s)
            \/ SkipInitialize(s) \/ LockToInitialize(s)
            \/ \E w \in {WS_INIT, WS_FAILED} : InitializeWork(s, w)
            \/ LockToProduce(s) \/ KeepResult(s)
            \/ \E w \in WS_OK..WS_FAILED, c \in {IC_INFO, IC_ERROR} : ProduceObject(s, w, c)
      BY <1>2 DEF Step
    <2>2. CASE CallDisabled(s) \/ InvalidateSupplier(s) \/ OpenChange(s) \/ SkipInitialize(s)
      BY <2>2, QuietCurrent
    <2>3. CASE LockToInitialize(s) \/ LockToProduce(s)
      BY <2>3, LockCurrent
    <2>4. CASE ClearWorkResults(s)
      <3>1. WS_INVALID \in WorkStatus
        BY DEF WorkStatus, WS_INVALID, WS_FAILED
      <3>2. QED
        BY <2>4, <3>1, ReturnCurrent
    <2>5. CASE \E w \in {WS_INIT, WS_FAILED} : InitializeWork(s, w)
      <3>1. {WS_INIT, WS_FAILED} \subseteq WorkStatus
        BY DEF WorkStatus, WS_INVALID, WS_INIT, WS_FAILED
      <3>2. QED
        BY <2>5, <3>1, ReturnCurrent
    <2>6. CASE KeepResult(s)
      <3>1. lastState[s] \in WorkStatus
        BY DEF Current, TypeOK
      <3>2. QED
        BY <2>6, <3>1, ReturnCurrent
    <2>7. CASE \E w \in WS_OK..WS_FAILED, c \in {IC_INFO, IC_ERROR} : ProduceObject(s, w, c)
      <3>1. WS_OK..WS_FAILED \subseteq WorkStatus
        BY DEF WorkStatus, WS_INVALID, WS_OK, WS_FAILED
      <3>2. QED
        BY <2>7, <3>1, ReturnCurrent
    <2>8. CASE CloseChange(s)
      BY <2>8, CloseCurrent
    <2>9. QED
      BY <2>1, <2>2, <2>3, <2>4, <2>5, <2>6, <2>7, <2>8
  <1>3. CASE EnsureStatusKnown
    <2>1. Summary \in Categories /\ TypeOK /\ WorkStatusCurrent
      BY SummaryIsWorst DEF Current
    <2>2. TypeOK'
      BY <1>3, <2>1 DEF EnsureStatusKnown, TypeOK, supplierVars, testVars
    <2>3. Summary' = Summary
      BY <1>3, SummarySame DEF EnsureStatusKnown, supplierVars, IsOff
    <2>4. WorstStatus(status)' = WorstStatus(status)
      BY <1>3, WorstStatusSame DEF EnsureStatusKnown, supplierVars
    <2>5. QED
      BY <1>3, <2>1, <2>2, <2>3, <2>4
         DEF EnsureStatusKnown, CategoryCurrent, WorkStatusCurrent, Current
  <1>4. CASE UNCHANGED vars
    <2>1. TypeOK'
      BY <1>4 DEF vars, supplierVars, taskVars, testVars, Current, TypeOK
    <2>2. QED
      BY <1>4, <2>1, NothingChanged DEF vars, supplierVars, taskVars, Current
  <1>5. QED
    BY <1>1, <1>2, <1>3, <1>4 DEF Next

-----------------------------------------------------------------------------
(* Tests *)

(* What is left of the calls of the supplier that is called next.  *)
LEMMA NextFacts ==
    ASSUME TypeOK, Sequenced, inTest, NEW s \in Suppliers, NEW op \in Ops, IsNext(op, s)
    PROVE  /\ Head(calls).proxy
           /\ \A o \in Ops : Pending(o, s) <=> Rank(op) <= Rank(o)
  <1>1. /\ calls \in Seq(CallSet) /\ calls # <<>> /\ Ordered /\ Complete /\ Through
        /\ Head(calls).op = op /\ Head(calls).supplier = s
    BY DEF TypeOK, CallSet, Ops, Sequenced, IsNext
  <1>2. Head(calls) = calls[1] /\ 1 \in 1..Len(calls)
    BY <1>1
  <1>3. \A o \in Ops : Pending(o, s) <=> Rank(op) <= Rank(o)
    BY <1>1, FirstIsLowest
  <1>4. QED
    BY <1>1, <1>2, <1>3 DEF Through

(* What is left after it.  *)
LEMMA ReturnFacts ==
    ASSUME TypeOK, Sequenced, inTest, NEW s \in Suppliers, NEW op \in Ops, IsNext(op, s), Return
    PROVE  /\ Sequenced'
           /\ \A o \in Ops : Pending(o, s)' <=> Rank(op) < Rank(o)
           /\ \A o \in Ops, t \in Suppliers : t # s => (Pending(o, t)' <=> Pending(o, t))
  <1>1. /\ calls \in Seq(CallSet) /\ calls # <<>> /\ Ordered /\ Complete /\ Through
        /\ Head(calls).op = op /\ Head(calls).supplier = s
    BY DEF TypeOK, CallSet, Ops, Sequenced, IsNext
  <1>2. /\ Ordered' /\ Complete' /\ Through'
        /\ \A o \in Ops, t \in Suppliers :
                  Pending(o, t)' <=> Pending(o, t) /\ ~(o = op /\ t = s)
    BY <1>1, ReturnIsSequenced
  <1>3. \A o \in Ops : Pending(o, s) <=> Rank(op) <= Rank(o)
    BY NextFacts
  <1>4. \A o \in Ops : Rank(op) = Rank(o) <=> o = op
    BY DEF Rank, Ops, Operations
  <1>5. \A o \in Ops : Rank(o) \in Int
    BY RankType
  <1>6. \A o \in Ops : Pending(o, s)' <=> Rank(op) < Rank(o)
    BY <1>2, <1>3, <1>4, <1>5
  <1>7. QED
    BY <1>2, <1>6 DEF Sequenced

(* A supplier about which nothing has changed.  *)
LEMMA ProgressSame ==
    ASSUME NEW t \in Suppliers, Progress(t), IsOff(t)' <=> IsOff(t),
           \A o \in {"clear", "initialize", "finish"} : Pending(o, t)' <=> Pending(o, t),
           status'[t] = status[t], lastState'[t] = lastState[t], runs'[t] = runs[t],
           t \in refused' <=> t \in refused
    PROVE  Progress(t)'
  BY DEF Progress, BeforeInitialize, BeforeFinish, AfterFinish

(* A step of a test that changes nothing but its own supplier.  *)
LEMMA TestReturn ==
    ASSUME TypeOK, Sequenced, Tested, inTest,
           NEW s \in Suppliers, NEW op \in Ops, IsNext(op, s), Return, enabled' = enabled,
           \A t \in Suppliers : t # s =>
                /\ status'[t] = status[t] /\ lastState'[t] = lastState[t] /\ runs'[t] = runs[t]
                /\ t \in refused' <=> t \in refused,
           notifiers' \subseteq Suppliers,
           \A t \in notifiers' : t \in notifiers \/ (op = "open" /\ t = s),
           op = "close" => s \notin notifiers',
           Progress(s)'
    PROVE  Sequenced' /\ Tested'
  <1>1. /\ Sequenced'
        /\ \A o \in Ops : Pending(o, s)' <=> Rank(op) < Rank(o)
        /\ \A o \in Ops, t \in Suppliers : t # s => (Pending(o, t)' <=> Pending(o, t))
    BY ReturnFacts
  <1>2. \A o \in Ops : Pending(o, s) <=> Rank(op) <= Rank(o)
    BY NextFacts
  <1>3. {"clear", "initialize", "finish", "open", "close"} \subseteq Ops
    BY DEF Ops, Operations
  <1>4. \A t \in Suppliers : Progress(t)'
    <2>1. TAKE t \in Suppliers
    <2>2. CASE t # s
      <3>1. Progress(t)
        BY DEF Tested
      <3>2. IsOff(t)' <=> IsOff(t)
        BY DEF IsOff
      <3>3. QED
        BY <1>1, <1>3, <2>2, <3>1, <3>2, ProgressSame
    <2>3. QED
      BY <2>2
  <1>5. Closing'
    <2>1. SUFFICES ASSUME NEW t \in notifiers' PROVE Pending("close", t)'
      BY DEF Closing
    <2>2. CASE t # s
      BY <1>1, <1>3, <2>1, <2>2 DEF Tested, Closing
    <2>3. CASE t = s
      <3>1. op # "close"
        BY <2>1, <2>3
      <3>2. Rank(op) < Rank("close")
        BY <3>1 DEF Rank, Ops, Operations
      <3>3. QED
        BY <1>1, <1>3, <2>3, <3>2
    <2>4. QED
      BY <2>2, <2>3
  <1>6. QED
    BY <1>1, <1>4, <1>5 DEF Tested

(* What the ranks are.  *)
LEMMA Ranks ==
    /\ Rank("clear") = 1 /\ Rank("invalidate") = 2 /\ Rank("open") = 3
    /\ Rank("initialize") = 4 /\ Rank("finish") = 5 /\ Rank("close") = 6
    /\ {"clear", "invalidate", "open", "initialize", "finish", "close"} \subseteq Ops
  BY DEF Rank, Ops, Operations

(* A call of a test is made unless its proxy is disabled.  *)
LEMMA CalledIsOn ==
    ASSUME TypeOK, Sequenced, inTest, NEW s \in Suppliers, NEW op \in Ops, IsNext(op, s)
    PROVE  IsCalled(op, s) <=> ~IsOff(s)
  BY NextFacts DEF IsCalled

(* Clearing.  *)
LEMMA ClearTested ==
    ASSUME IInv, inTest, NEW s \in Suppliers, ClearWorkResults(s)
    PROVE  Sequenced' /\ Tested'
  <1>1. /\ TypeOK /\ Sequenced /\ Tested /\ Progress(s)
        /\ IsNext("clear", s) /\ IsCalled("clear", s) /\ Return
    BY DEF IInv, Tested, ClearWorkResults, IsCalled
  <1>2. \A o \in Ops : /\ Pending(o, s) <=> Rank("clear") <= Rank(o)
                       /\ Pending(o, s)' <=> Rank("clear") < Rank(o)
    BY <1>1, NextFacts, ReturnFacts, Ranks
  <1>3. ~IsOff(s) /\ ~IsOff(s)'
    BY <1>1, CalledIsOn, Ranks DEF ClearWorkResults, IsOff
  <1>4. /\ UNCHANGED <<enabled, notifiers, inTest, runs, refused>>
        /\ status' = [status EXCEPT ![s] = WS_INVALID]
        /\ lastState' = [lastState EXCEPT ![s] = WS_INVALID]
    BY DEF ClearWorkResults, SetSupplierState, testVars
  <1>5. status \in [Suppliers -> WorkStatus] /\ lastState \in [Suppliers -> WorkStatus]
        /\ notifiers \subseteq Suppliers
    BY <1>1 DEF TypeOK
  <1>6. Progress(s)'
    <2>1. Pending("initialize", s) /\ Pending("initialize", s)' /\ Pending("finish", s)'
      BY <1>2, Ranks
    <2>2. runs[s] = 0 /\ s \notin refused
      BY <1>1, <1>3, <2>1 DEF Progress, BeforeInitialize
    <2>3. QED
      BY <1>3, <1>4, <1>5, <2>1, <2>2 DEF Progress, BeforeInitialize, BeforeFinish, AfterFinish
  <1>7. QED
    BY <1>1, <1>4, <1>5, <1>6, TestReturn, Ranks

(* Calls that change neither state nor result.  *)
LEMMA QuietTested ==
    ASSUME IInv, inTest, NEW s \in Suppliers,
           \/ CallDisabled(s) \/ InvalidateSupplier(s)
           \/ OpenChange(s) \/ CloseChange(s) \/ SkipInitialize(s)
    PROVE  Sequenced' /\ Tested'
  <1>1. TypeOK /\ Sequenced /\ Tested /\ Progress(s) /\ Return
    BY DEF IInv, Tested, CallDisabled, InvalidateSupplier, OpenChange, CloseChange, SkipInitialize
  <1>2. UNCHANGED <<status, lastState, enabled, inTest, runs, refused>>
    BY DEF CallDisabled, InvalidateSupplier, OpenChange, CloseChange, SkipInitialize,
           supplierVars, testVars
  <1>3. IsOff(s)' <=> IsOff(s)
    BY <1>2 DEF IsOff
  <1>4. notifiers \subseteq Suppliers
    BY <1>1 DEF TypeOK
  <1>5. CASE CallDisabled(s)
    <2>1. PICK op \in Operations : IsNext(op, s) /\ ~IsCalled(op, s)
      BY <1>5 DEF CallDisabled
    <2>2. op \in Ops /\ op # "close"
      BY DEF Ops, Operations
    <2>3. IsOff(s)
      BY <1>1, <2>1, <2>2, CalledIsOn
    <2>4. Progress(s)'
      BY <1>1, <1>2, <1>3, <2>3 DEF Progress
    <2>5. notifiers' = notifiers
      BY <1>5 DEF CallDisabled, taskVars
    <2>6. QED
      BY <1>1, <1>2, <1>4, <2>1, <2>2, <2>4, <2>5, TestReturn
  <1>6. ASSUME NEW op \in {"invalidate", "open", "close"}, IsNext(op, s)
        PROVE  Progress(s)'
    <2>1. \A o \in Ops : /\ Pending(o, s) <=> Rank(op) <= Rank(o)
                         /\ Pending(o, s)' <=> Rank(op) < Rank(o)
      BY <1>1, <1>6, NextFacts, ReturnFacts, Ranks
    <2>2. \A o \in {"clear", "initialize", "finish"} : Pending(o, s)' <=> Pending(o, s)
      BY <2>1, Ranks
    <2>3. QED
      BY <1>1, <1>2, <1>3, <2>2, ProgressSame
  <1>7. CASE InvalidateSupplier(s)
    <2>1. IsNext("invalidate", s) /\ notifiers' = notifiers
      BY <1>7 DEF InvalidateSupplier, IsCalled, taskVars
    <2>2. QED
      BY <1>1, <1>2, <1>4, <1>6, <2>1, TestReturn, Ranks
  <1>8. CASE OpenChange(s)
    <2>1. IsNext("open", s) /\ notifiers' = notifiers \cup {s}
      BY <1>8 DEF OpenChange
    <2>2. QED
      BY <1>1, <1>2, <1>4, <1>6, <2>1, TestReturn, Ranks
  <1>9. CASE CloseChange(s)
    <2>1. IsNext("close", s) /\ notifiers' = notifiers \ {s}
      BY <1>9 DEF CloseChange
    <2>2. QED
      BY <1>1, <1>2, <1>4, <1>6, <2>1, TestReturn, Ranks
  <1>10. CASE SkipInitialize(s)
    <2>1. IsNext("initialize", s) /\ IsCalled("initialize", s) /\ status[s] = WS_INIT
      BY <1>10 DEF SkipInitialize, IsCalled, IsInitialized
    <2>2. Pending("initialize", s) /\ ~Pending("clear", s)
      BY <1>1, <2>1, NextFacts, Ranks
    <2>3. ~IsOff(s)
      BY <1>1, <2>1, CalledIsOn, Ranks
    <2>4. status[s] \in {WS_INVALID, WS_LOCKED}
      BY <1>1, <2>2, <2>3 DEF Progress, BeforeInitialize
    <2>5. QED
      BY <2>1, <2>4 DEF WS_INIT, WS_INVALID, WS_LOCKED
  <1>11. QED
    BY <1>5, <1>7, <1>8, <1>9, <1>10

(* Locking.  *)
LEMMA LockTested ==
    ASSUME IInv, inTest, NEW s \in Suppliers, LockToInitialize(s) \/ LockToProduce(s)
    PROVE  Sequenced' /\ Tested'
  <1>1. /\ TypeOK /\ Sequenced /\ Tested
        /\ \A t \in Suppliers : Progress(t)
    BY DEF IInv, Tested
  <1>2. /\ UNCHANGED <<lastState, enabled, notifiers, calls, inTest, runs, refused>>
        /\ status' = [status EXCEPT ![s] = WS_LOCKED]
    BY DEF LockToInitialize, LockToProduce, SetSupplierState, testVars
  <1>3. status \in [Suppliers -> WorkStatus]
    BY <1>1 DEF TypeOK
  <1>4. \A o, t : Pending(o, t)' <=> Pending(o, t)
    BY <1>2 DEF Pending
  <1>5. \A t : IsOff(t)' <=> IsOff(t)
    BY <1>2 DEF IsOff
  <1>6. Sequenced'
    BY <1>1, <1>2, <1>4 DEF Sequenced, Ordered, Complete, Through
  <1>7. Closing'
    BY <1>1, <1>2, <1>4 DEF Tested, Closing
  <1>8. ASSUME NEW t \in Suppliers PROVE Progress(t)'
    <2>1. CASE t # s
      <3>1. status'[t] = status[t]
        BY <1>2, <1>3, <2>1
      <3>2. QED
        BY <1>1, <1>2, <1>4, <1>5, <3>1, ProgressSame
    <2>2. CASE t = s /\ LockToInitialize(s)
      <3>1. IsNext("initialize", s) /\ IsCalled("initialize", s)
        BY <2>2 DEF LockToInitialize, IsCalled
      <3>2. ~IsOff(s)
        BY <1>1, <3>1, CalledIsOn, Ranks
      <3>3. Pending("initialize", s) /\ ~Pending("clear", s) /\ Pending("finish", s)
        BY <1>1, <3>1, NextFacts, Ranks
      <3>4. BeforeInitialize(s)
        BY <1>1, <3>2 DEF Progress
      <3>5. status'[s] = WS_LOCKED
        BY <1>2, <1>3
      <3>6. BeforeInitialize(s)'
        BY <1>2, <1>4, <3>3, <3>4, <3>5 DEF BeforeInitialize
      <3>7. BeforeFinish(s)' /\ AfterFinish(s)'
        BY <1>4, <3>3 DEF BeforeFinish, AfterFinish
      <3>8. QED
        BY <1>5, <2>2, <3>2, <3>6, <3>7 DEF Progress
    <2>3. CASE t = s /\ LockToProduce(s)
      <3>1. IsNext("finish", s) /\ IsCalled("finish", s) /\ status[s] = WS_INIT
        BY <2>3 DEF LockToProduce, IsCalled, MustProduce
      <3>2. ~IsOff(s)
        BY <1>1, <3>1, CalledIsOn, Ranks
      <3>3. ~Pending("initialize", s) /\ Pending("finish", s)
        BY <1>1, <3>1, NextFacts, Ranks
      <3>4. BeforeFinish(s)
        BY <1>1, <3>2 DEF Progress
      <3>5. s \notin refused
        BY <3>1, <3>3, <3>4 DEF BeforeFinish, WS_INIT, WS_FAILED
      <3>6. status'[s] = WS_LOCKED
        BY <1>2, <1>3
      <3>7. BeforeFinish(s)'
        BY <1>2, <1>4, <3>3, <3>4, <3>5, <3>6 DEF BeforeFinish
      <3>8. BeforeInitialize(s)' /\ AfterFinish(s)'
        BY <1>4, <3>3 DEF BeforeInitialize, AfterFinish
      <3>9. QED
        BY <1>5, <2>3, <3>2, <3>7, <3>8 DEF Progress
    <2>4. QED
      BY <2>1, <2>2, <2>3
  <1>9. QED
    BY <1>6, <1>7, <1>8 DEF Tested

(* Initializing.  *)
LEMMA InitializeTested ==
    ASSUME IInv, inTest, NEW s \in Suppliers, NEW w \in {WS_INIT, WS_FAILED},
           InitializeWork(s, w)
    PROVE  Sequenced' /\ Tested'
  <1>1. /\ TypeOK /\ Sequenced /\ Tested /\ Progress(s)
        /\ IsNext("initialize", s) /\ IsCalled("initialize", s) /\ Return
    BY DEF IInv, Tested, InitializeWork, IsCalled
  <1>2. \A o \in Ops : /\ Pending(o, s) <=> Rank("initialize") <= Rank(o)
                       /\ Pending(o, s)' <=> Rank("initialize") < Rank(o)
    BY <1>1, NextFacts, ReturnFacts, Ranks
  <1>3. ~IsOff(s) /\ ~IsOff(s)'
    BY <1>1, CalledIsOn, Ranks DEF InitializeWork, IsOff
  <1>4. /\ UNCHANGED <<enabled, lastState, notifiers, inTest, runs>>
        /\ status' = [status EXCEPT ![s] = w]
        /\ refused' = IF w = WS_FAILED THEN refused \cup {s} ELSE refused
    BY DEF InitializeWork, SetSupplierState
  <1>5. status \in [Suppliers -> WorkStatus] /\ notifiers \subseteq Suppliers
    BY <1>1 DEF TypeOK
  <1>6. Progress(s)'
    <2>1. /\ Pending("initialize", s) /\ ~Pending("clear", s)
          /\ ~Pending("initialize", s)' /\ Pending("finish", s)'
      BY <1>2, Ranks
    <2>2. runs[s] = 0 /\ s \notin refused /\ lastState[s] = WS_INVALID
      BY <1>1, <1>3, <2>1 DEF Progress, BeforeInitialize
    <2>3. status'[s] = w
      BY <1>4, <1>5
    <2>4. s \in refused' <=> w = WS_FAILED
      BY <1>4, <2>2
    <2>5. IF s \in refused' THEN status'[s] = WS_FAILED ELSE status'[s] \in {WS_INIT, WS_LOCKED}
      BY <2>3, <2>4
    <2>6. BeforeFinish(s)'
      BY <1>4, <2>2, <2>5 DEF BeforeFinish
    <2>7. BeforeInitialize(s)' /\ AfterFinish(s)'
      BY <2>1 DEF BeforeInitialize, AfterFinish
    <2>8. QED
      BY <1>3, <2>6, <2>7 DEF Progress
  <1>7. QED
    BY <1>1, <1>4, <1>5, <1>6, TestReturn, Ranks

(* Finishing.  *)
LEMMA FinishTested ==
    ASSUME IInv, inTest, NEW s \in Suppliers,
           \/ KeepResult(s)
           \/ \E w \in WS_OK..WS_FAILED, c \in {IC_INFO, IC_ERROR} : ProduceObject(s, w, c)
    PROVE  Sequenced' /\ Tested'
  <1>1. /\ TypeOK /\ Sequenced /\ Tested /\ Progress(s)
        /\ IsNext("finish", s) /\ IsCalled("finish", s) /\ Return
    BY DEF IInv, Tested, KeepResult, ProduceObject, FinishWork, IsCalled
  <1>2. \A o \in Ops : /\ Pending(o, s) <=> Rank("finish") <= Rank(o)
                       /\ Pending(o, s)' <=> Rank("finish") < Rank(o)
    BY <1>1, NextFacts, ReturnFacts, Ranks
  <1>3. ~IsOff(s) /\ ~IsOff(s)'
    BY <1>1, CalledIsOn, Ranks DEF KeepResult, ProduceObject, FinishWork, IsOff
  <1>4. UNCHANGED <<enabled, notifiers, inTest, refused>>
    BY DEF KeepResult, ProduceObject, FinishWork
  <1>5. /\ status \in [Suppliers -> WorkStatus] /\ lastState \in [Suppliers -> WorkStatus]
        /\ runs \in [Suppliers -> 0..2] /\ notifiers \subseteq Suppliers
    BY <1>1 DEF TypeOK
  <1>6. \A t \in Suppliers : t # s =>
            status'[t] = status[t] /\ lastState'[t] = lastState[t] /\ runs'[t] = runs[t]
    BY <1>5 DEF KeepResult, ProduceObject, FinishWork, SetSupplierState
  <1>7. ~Pending("initialize", s) /\ Pending("finish", s) /\ ~Pending("finish", s)'
        /\ ~Pending("initialize", s)'
    BY <1>2, Ranks
  <1>8. /\ runs[s] = 0 /\ lastState[s] = WS_INVALID
        /\ IF s \in refused THEN status[s] = WS_FAILED ELSE status[s] \in {WS_INIT, WS_LOCKED}
    BY <1>1, <1>3, <1>7 DEF Progress, BeforeFinish
  <1>9. IF s \in refused' THEN runs'[s] = 0 /\ status'[s] = WS_INVALID ELSE runs'[s] = 1
    <2>1. CASE KeepResult(s)
      <3>1. status[s] # WS_INIT /\ status[s] # WS_LOCKED
        BY <1>8, <2>1 DEF KeepResult, MustProduce, WS_INVALID, WS_INIT
      <3>2. s \in refused
        BY <1>8, <3>1
      <3>3. status'[s] = lastState[s] /\ runs' = runs
        BY <1>5, <2>1 DEF KeepResult, FinishWork, SetSupplierState
      <3>4. QED
        BY <1>4, <1>8, <3>2, <3>3
    <2>2. CASE \E w \in WS_OK..WS_FAILED, c \in {IC_INFO, IC_ERROR} : ProduceObject(s, w, c)
      <3>1. status[s] = WS_LOCKED
        BY <2>2 DEF ProduceObject
      <3>2. s \notin refused
        BY <1>8, <3>1 DEF WS_LOCKED, WS_FAILED
      <3>3. runs' = [runs EXCEPT ![s] = IF inTest /\ runs[s] < 2 THEN runs[s] + 1 ELSE runs[s]]
        BY <2>2 DEF ProduceObject
      <3>4. runs'[s] = 1
        BY <1>5, <1>8, <3>3
      <3>5. QED
        BY <1>4, <3>2, <3>4
    <2>3. QED
      BY <2>1, <2>2
  <1>10. Progress(s)'
    BY <1>3, <1>7, <1>9 DEF Progress, BeforeInitialize, BeforeFinish, AfterFinish
  <1>11. QED
    BY <1>1, <1>4, <1>5, <1>6, <1>10, TestReturn, Ranks

(* Nothing that a test relies on has changed.  *)
LEMMA TestedSame ==
    ASSUME Sequenced, Tested,
           UNCHANGED <<status, lastState, enabled, notifiers, calls, inTest, runs, refused>>
    PROVE  Sequenced' /\ Tested'
  <1>1. \A o, t : Pending(o, t)' <=> Pending(o, t)
    BY DEF Pending
  <1>2. Sequenced'
    BY <1>1 DEF Sequenced, Ordered, Complete, Through
  <1>3. CASE inTest
    <2>1. Closing'
      BY <1>1, <1>3 DEF Tested, Closing
    <2>2. \A t \in Suppliers : Progress(t)'
      <3>1. TAKE t \in Suppliers
      <3>2. Progress(t)
        BY <1>3 DEF Tested
      <3>3. IsOff(t)' <=> IsOff(t)
        BY DEF IsOff
      <3>4. QED
        BY <1>1, <3>2, <3>3, ProgressSame
    <2>3. QED
      BY <1>2, <2>1, <2>2 DEF Tested
  <1>4. QED
    BY <1>2, <1>3 DEF Tested

(* A test is begun from any state.  *)
LEMMA TestBegins ==
    ASSUME TypeOK, Test
    PROVE  Sequenced' /\ Tested'
  <1>1. /\ Ordered' /\ Complete' /\ Through'
        /\ \A op \in Ops, s \in Suppliers : Pending(op, s)'
    BY TestIsSequenced
  <1>2. /\ runs' = [s \in Suppliers |-> 0] /\ refused' = {} /\ notifiers' = notifiers
        /\ notifiers \subseteq Suppliers
    BY DEF Test, taskVars, TypeOK
  <1>3. Closing'
    BY <1>1, <1>2, Ranks DEF Closing
  <1>4. \A s \in Suppliers : Progress(s)'
    <2>1. TAKE s \in Suppliers
    <2>2. Pending("clear", s)' /\ Pending("initialize", s)' /\ Pending("finish", s)'
      BY <1>1, Ranks
    <2>3. runs'[s] = 0 /\ s \notin refused'
      BY <1>2
    <2>4. QED
      BY <2>2, <2>3 DEF Progress, BeforeInitialize, BeforeFinish, AfterFinish
  <1>5. QED
    BY <1>1, <1>3, <1>4 DEF Sequenced, Tested

(* A step keeps a test on its way.  *)
LEMMA NextTested == IInv /\ [Next]_vars => Sequenced' /\ Tested'
  <1> SUFFICES ASSUME IInv, [Next]_vars PROVE Sequenced' /\ Tested'
    OBVIOUS
  <1>0. TypeOK /\ Sequenced /\ Tested
    BY DEF IInv
  <1>1. ASSUME inTest' = FALSE PROVE Sequenced' /\ Tested'
    BY <1>1 DEF Sequenced, Tested
  <1>2. CASE Client
    <2>1. CASE Test
      BY <1>0, <2>1, TestBegins
    <2>2. CASE \E s \in Suppliers : ParamsChange(s)
      BY <1>0, <2>2, TestedSame DEF ParamsChange, taskVars, testVars
    <2>3. CASE \/ \E op \in Operations : Operation(op)
               \/ \E s \in Suppliers : TestSupplier(s) \/ SetSupplierEnabled(s)
      BY <1>1, <2>3 DEF Operation, TestSupplier, SetSupplierEnabled, EndTest
    <2>4. QED
      BY <1>2, <2>1, <2>2, <2>3 DEF Client
  <1>3. CASE Step
    <2>1. inTest' = inTest
      BY <1>3 DEF Step, CallDisabled, InvalidateSupplier, ClearWorkResults, OpenChange,
            CloseChange, SkipInitialize, LockToInitialize, InitializeWork, LockToProduce,
            KeepResult, ProduceObject, FinishWork, testVars
    <2>2. CASE inTest
      <3>1. PICK s \in Suppliers :
            \/ CallDisabled(s)
            \/ InvalidateSupplier(s) \/ ClearWorkResults(s)
            \/ OpenChange(s) \/ CloseChange(s)
            \/ SkipInitialize(s) \/ LockToInitialize(s)
            \/ \E w \in {WS_INIT, WS_FAILED} : InitializeWork(s, w)
            \/ LockToProduce(s) \/ KeepResult(s)
            \/ \E w \in WS_OK..WS_FAILED, c \in {IC_INFO, IC_ERROR} : ProduceObject(s, w, c)
        BY <1>3 DEF Step
      <3>2. CASE ClearWorkResults(s)
        BY <2>2, <3>2, ClearTested
      <3>3. CASE \/ CallDisabled(s) \/ InvalidateSupplier(s)
                 \/ OpenChange(s) \/ CloseChange(s) \/ SkipInitialize(s)
        BY <2>2, <3>3, QuietTested
      <3>4. CASE LockToInitialize(s) \/ LockToProduce(s)
        BY <2>2, <3>4, LockTested
      <3>5. CASE \E w \in {WS_INIT, WS_FAILED} : InitializeWork(s, w)
        BY <2>2, <3>5, InitializeTested
      <3>6. CASE \/ KeepResult(s)
                 \/ \E w \in WS_OK..WS_FAILED, c \in {IC_INFO, IC_ERROR} : ProduceObject(s, w, c)
        BY <2>2, <3>6, FinishTested
      <3>7. QED
        BY <3>1, <3>2, <3>3, <3>4, <3>5, <3>6
    <2>3. CASE ~inTest
      BY <2>1, <2>3 DEF Sequenced, Tested
    <2>4. QED
      BY <2>2, <2>3
  <1>4. CASE EnsureStatusKnown
    BY <1>0, <1>4, TestedSame DEF EnsureStatusKnown, supplierVars, testVars
  <1>5. CASE UNCHANGED vars
    BY <1>0, <1>5, TestedSame DEF vars, supplierVars, taskVars, testVars
  <1>6. QED
    BY <1>2, <1>3, <1>4, <1>5 DEF Next

-----------------------------------------------------------------------------
(* The theorems *)

(* The invariant holds in every reachable state.  *)
LEMMA Invariant == Spec => []IInv
  <1>1. Init => IInv
    <2>1. Init => ~inTest
      BY DEF Init
    <2>2. QED
      BY <2>1, InitCurrent DEF IInv, Current, Sequenced, Tested
  <1>2. IInv /\ [Next]_vars => IInv'
    BY NextCurrent, NextTested DEF IInv, Current
  <1>3. QED
    BY <1>1, <1>2, PTL DEF Spec

(* The types of all variables, whatever the task is made of.  *)
THEOREM TypeCorrect == Spec => []TypeOK
  <1>1. IInv => TypeOK
    BY DEF IInv
  <1>2. QED
    BY <1>1, Invariant, PTL

(* The category the task shows when asked is never out of date: with every change   *)
(* of a subtask, and every switching of a proxy, m_isStatusKnown is taken back,      *)
(* except that of a proxy switched while the task holds a change of it open.         *)
THEOREM CategorySafe == Spec => []CategoryCurrent
  <1>1. IInv => CategoryCurrent
    BY DEF IInv
  <1>2. QED
    BY <1>1, Invariant, PTL

(* The work status is that of the worst subtask, unless a proxy was switched since  *)
(* the last change of a subtask.                                                     *)
THEOREM WorkStatusSafe == Spec => []WorkStatusCurrent
  <1>1. IInv => WorkStatusCurrent
    BY DEF IInv
  <1>2. QED
    BY <1>1, Invariant, PTL

(* Once every subtask has finished, the category does not depend on their order.  *)
THEOREM WorstSafe == Spec => []CategoryIsWorst
  <1>1. IInv => CategoryIsWorst
    <2> DEFINE finished == {s \in Subtasks : StatusIn(status, s) >= WS_OK}
               told == {IC_INFO} \cup {result[s] : s \in {p \in finished \ Proxies : status[p] = WS_OK}}
                          \cup {IC_CRITICAL : s \in {p \in finished : status[p] = WS_FAILED}}
    <2>1. SUFFICES ASSUME IInv, isStatusKnown, ~SwitchHeld,
                          \A s \in Subtasks : IsOff(s) \/ s \in finished
                   PROVE  resultCategory \in told /\ \A c \in told : c <= resultCategory
      BY DEF CategoryIsWorst
    <2>2. TypeOK /\ resultCategory = Summary
      BY <2>1 DEF IInv, CategoryCurrent
    <2>3. \A s \in Subtasks : /\ status[s] \in 0..5 /\ result[s] \in 0..4
                              /\ StatusIn(status, s) \in 0..5
                              /\ ~IsOff(s) => StatusIn(status, s) = status[s]
                              /\ IsOff(s) => StatusIn(status, s) = 0
      BY <2>2, SubtasksAreSuppliers DEF TypeOK, StatusIn, WorkStatus, Categories, WS_INVALID,
                                        WS_FAILED, IC_NONE, IC_CRITICAL
    <2>4. \A s \in Subtasks : ~IsMissing(s)
      BY <2>1, <2>3 DEF IsMissing, WS_OK
    <2>5. \A s \in Subtasks : Counts(s) <=> s \in finished
      BY <2>4 DEF Counts
    <2>6. /\ Summary = IC_INFO \/ \E s \in finished : Summary = CategoryOf(s)
          /\ IC_INFO <= Summary
          /\ \A s \in finished : CategoryOf(s) <= Summary
      BY <2>2, <2>4, <2>5, SummaryIsWorst
    <2>7. \A s \in finished : status[s] = StatusIn(status, s)
      BY <2>3 DEF WS_OK
    <2> HIDE DEF finished
    <2>8. resultCategory \in told
      BY <2>2, <2>6 DEF CategoryOf, IC_NONE, IC_INFO
    <2>9. \A c \in told : c <= resultCategory
      BY <2>2, <2>6 DEF CategoryOf, WS_OK, WS_FAILED
    <2>10. QED
      BY <2>8, <2>9
  <1>2. QED
    BY <1>1, Invariant, PTL

(* What has returned has nothing left to call.  *)
LEMMA NothingPending == calls = <<>> => \A op, s : ~Pending(op, s)
  BY DEF Pending

(* A test that has returned has calculated every supplier exactly once, from whatever *)
(* state it was begun in, unless it is off or could not be initialized; and every     *)
(* change it has opened is closed.                                                   *)
THEOREM TestSafe == Spec => []TestCalculatesAll
  <1>1. IInv => TestCalculatesAll
    <2>1. SUFFICES ASSUME IInv, inTest, calls = <<>>
                   PROVE  /\ \A s \in Suppliers :
                                runs[s] = IF IsOff(s) \/ s \in refused THEN 0 ELSE 1
                          /\ notifiers = {}
      BY DEF TestCalculatesAll
    <2>2. /\ \A op, s : ~Pending(op, s)
          /\ Closing /\ \A s \in Suppliers : Progress(s)
      BY <2>1, NothingPending DEF IInv, Tested
    <2>3. notifiers = {}
      BY <2>2 DEF Closing
    <2>4. QED
      BY <2>2, <2>3 DEF Progress, AfterFinish
  <1>2. QED
    BY <1>1, Invariant, PTL

(* A supplier that shows a result after a test has calculated it in that test.  *)
THEOREM ResultSafe == Spec => []NoOldResult
  <1>1. IInv => NoOldResult
    <2>1. SUFFICES ASSUME IInv, inTest, calls = <<>>, NEW s \in Suppliers,
                          StatusIn(status, s) >= WS_OK
                   PROVE  runs[s] = 1
      BY DEF NoOldResult
    <2>2. ~Pending("finish", s) /\ Progress(s)
      BY <2>1, NothingPending DEF IInv, Tested
    <2>3. ~IsOff(s) /\ status[s] >= WS_OK
      BY <2>1 DEF StatusIn, WS_INVALID, WS_OK
    <2>4. status[s] # WS_INVALID
      BY <2>3 DEF WS_INVALID, WS_OK
    <2>5. QED
      BY <2>2, <2>3, <2>4 DEF Progress, AfterFinish
  <1>2. QED
    BY <1>1, Invariant, PTL

-----------------------------------------------------------------------------
(***************************************************************************)
(* The loop of EnsureStatusKnown.  Its category after i subtasks is        *)
(* CategoryUpTo(i); that the recursion has no other value is shown by an   *)
(* induction that is itself a consequence of counting.                     *)
(***************************************************************************)

(* A set that holds 0 and is closed under successors holds every number: otherwise the *)
(* numbers up to n outside of it could each move one down, onto n numbers of n + 1.     *)
LEMMA Counting ==
    ASSUME NEW S, 0 \in S, \A k \in Nat : k \in S => k + 1 \in S, NEW n \in Nat
    PROVE  n \in S
  <1> DEFINE I == 0..n
             h == [i \in I |-> IF i \in S THEN i ELSE i - 1]
  <1>1. \A i \in I : i \notin S => i - 1 \in I /\ i - 1 \notin S
    <2>1. SUFFICES ASSUME NEW i \in I, i \notin S
                   PROVE  i - 1 \in I /\ i - 1 \notin S
      OBVIOUS
    <2>2. i # 0
      BY <2>1
    <2>3. i - 1 \in Nat /\ i - 1 \in I /\ (i - 1) + 1 = i
      BY <2>2
    <2>4. QED
      BY <2>1, <2>3
  <1>2. h \in [I -> I]
    BY <1>1
  <1>3. \A i, j \in I : h[i] = h[j] => i = j
    BY <1>1
  <1>4. h \in Injection(I, I)
    BY <1>2, <1>3 DEF Injection, IsInjective
  <1>5. IsFiniteSet(I)
    BY FS_Interval
  <1>6. h \in Surjection(I, I)
    BY <1>4, <1>5, FS_Injection
  <1>7. n \in I
    OBVIOUS
  <1>8. \E j \in I : h[j] = n
    <2> HIDE DEF h, I
    <2>1. \A t \in I : \E j \in I : h[j] = t
      BY <1>6 DEF Surjection
    <2>2. QED
      BY <1>7, <2>1
  <1>9. PICK j \in I : h[j] = n
    BY <1>8
  <1>10. j \in S
    <2>1. SUFFICES ASSUME j \notin S
                   PROVE  FALSE
      OBVIOUS
    <2>2. h[j] = j - 1
      BY <1>9, <2>1
    <2>3. QED
      BY <1>9, <2>2
  <1>11. QED
    BY <1>9, <1>10

(* One round of the loop.  *)
Told(before, i) ==
    LET w == StatusIn(status, i)
    IN  IF w < WS_OK THEN IF IsOff(i) THEN before ELSE IC_NONE
        ELSE IF w = WS_FAILED THEN IC_CRITICAL
        ELSE IF w = WS_OK /\ i \notin Proxies /\ result[i] > before THEN result[i]
        ELSE before

Loop(f) ==
    f = [i \in 0..SubtasksCount |-> IF i = 0 THEN IC_INFO ELSE Told(f[i - 1], i)]

(* The same categories, without the loop.  *)
CountsUpTo(n) ==
    {p \in 1..n : /\ StatusIn(status, p) >= WS_OK
                  /\ \A later \in 1..n : later > p => ~IsMissing(later)}

BaseUpTo(n) == IF \E s \in 1..n : IsMissing(s) THEN IC_NONE ELSE IC_INFO

CategoryUpTo(n) == Worst({BaseUpTo(n)} \cup {CategoryOf(s) : s \in CountsUpTo(n)})

(* They are categories, and the worst of those told.  *)
LEMMA CategoryUpToIsWorst ==
    ASSUME TypeOK, NEW n \in 0..SubtasksCount
    PROVE  /\ CategoryUpTo(n) \in 0..4
           /\ CategoryUpTo(n) = BaseUpTo(n)
              \/ \E s \in CountsUpTo(n) : CategoryUpTo(n) = CategoryOf(s)
           /\ BaseUpTo(n) <= CategoryUpTo(n)
           /\ \A s \in CountsUpTo(n) : CategoryOf(s) <= CategoryUpTo(n)
  <1> DEFINE told == {CategoryOf(s) : s \in CountsUpTo(n)}
  <1>1. BaseUpTo(n) \in 0..4
    BY DEF BaseUpTo, IC_NONE, IC_INFO
  <1>2. CountsUpTo(n) \subseteq Subtasks
    BY TaskAssumption DEF CountsUpTo, Subtasks
  <1>3. \A s \in Subtasks : CategoryOf(s) \in 0..4
    BY SubtasksAreSuppliers DEF TypeOK, CategoryOf, Categories, IC_NONE, IC_CRITICAL
  <1>4. \A v \in told : v \in 0..4
    BY <1>2, <1>3
  <1>5. {BaseUpTo(n)} \cup told \in SUBSET (0..5) /\ {BaseUpTo(n)} \cup told # {}
    BY <1>1, <1>4
  <1>6. /\ CategoryUpTo(n) \in {BaseUpTo(n)} \cup told
        /\ \A v \in {BaseUpTo(n)} \cup told : v <= CategoryUpTo(n)
    BY <1>5, WorstIsIn DEF CategoryUpTo
  <1>7. QED
    BY <1>1, <1>4, <1>6

(* A round of the loop goes from one to the next.  *)
LEMMA CategoryUpToNext ==
    ASSUME TypeOK, NEW n \in 1..SubtasksCount
    PROVE  CategoryUpTo(n) = Told(CategoryUpTo(n - 1), n)
  <1> DEFINE m == n - 1
             w == StatusIn(status, n)
  <1>1. /\ m \in 0..SubtasksCount /\ n \in 0..SubtasksCount /\ n \in Subtasks
        /\ \A x : x \in 1..n <=> (x \in 1..m \/ x = n)
        /\ \A x \in 1..m : x < n /\ ~(x > n)
    BY TaskAssumption DEF Subtasks
  <1>2. /\ status[n] \in 0..5 /\ result[n] \in 0..4 /\ w \in 0..5
        /\ IsOff(n) => w = 0
        /\ ~IsOff(n) => w = status[n]
    BY <1>1, SubtasksAreSuppliers
       DEF TypeOK, StatusIn, WorkStatus, Categories, WS_INVALID, WS_FAILED, IC_NONE, IC_CRITICAL
  <1>3. /\ CategoryUpTo(n) \in 0..4 /\ CategoryUpTo(m) \in 0..4
        /\ BaseUpTo(n) <= CategoryUpTo(n) /\ BaseUpTo(m) <= CategoryUpTo(m)
        /\ \A s \in CountsUpTo(n) : CategoryOf(s) <= CategoryUpTo(n)
        /\ \A s \in CountsUpTo(m) : CategoryOf(s) <= CategoryUpTo(m)
    BY <1>1, CategoryUpToIsWorst
  <1>4. /\ CategoryUpTo(n) = BaseUpTo(n)
           \/ \E s \in CountsUpTo(n) : CategoryUpTo(n) = CategoryOf(s)
        /\ CategoryUpTo(m) = BaseUpTo(m)
           \/ \E s \in CountsUpTo(m) : CategoryUpTo(m) = CategoryOf(s)
    BY <1>1, CategoryUpToIsWorst
  <1> HIDE DEF m
  <1>5. IsMissing(n) => CountsUpTo(n) = {} /\ BaseUpTo(n) = IC_NONE
    <2>1. SUFFICES ASSUME IsMissing(n)
                   PROVE  CountsUpTo(n) = {} /\ BaseUpTo(n) = IC_NONE
      OBVIOUS
    <2>2. n \in 1..n
      BY <1>1
    <2>3. BaseUpTo(n) = IC_NONE
      BY <2>1, <2>2 DEF BaseUpTo
    <2>4. ASSUME NEW p \in CountsUpTo(n)
          PROVE  FALSE
      <3>1. p \in 1..n /\ ~(n > p) /\ StatusIn(status, p) >= WS_OK
        BY <2>1, <2>2, <2>4 DEF CountsUpTo
      <3>2. p = n
        BY <3>1
      <3>3. QED
        BY <1>2, <2>1, <3>1, <3>2 DEF IsMissing, WS_OK
    <2>5. QED
      BY <2>3, <2>4
  <1>6. ~IsMissing(n) =>
           /\ BaseUpTo(n) = BaseUpTo(m)
           /\ \A p : p \in CountsUpTo(n) <=> (p \in CountsUpTo(m) \/ (p = n /\ w >= WS_OK))
    <2>1. SUFFICES ASSUME ~IsMissing(n)
                   PROVE  /\ BaseUpTo(n) = BaseUpTo(m)
                          /\ \A p : p \in CountsUpTo(n) <=>
                                       (p \in CountsUpTo(m) \/ (p = n /\ w >= WS_OK))
      OBVIOUS
    <2>2. BaseUpTo(n) = BaseUpTo(m)
      BY <1>1, <2>1 DEF BaseUpTo
    <2>3. \A p \in 1..m : p \in CountsUpTo(n) <=> p \in CountsUpTo(m)
      BY <1>1, <2>1 DEF CountsUpTo
    <2>4. n \in CountsUpTo(n) <=> w >= WS_OK
      <3>1. n \in 1..n /\ \A later \in 1..n : ~(later > n)
        BY <1>1
      <3>2. QED
        BY <3>1 DEF CountsUpTo
    <2>5. \A p : (p \in CountsUpTo(n) => p \in 1..n) /\ (p \in CountsUpTo(m) => p \in 1..m)
      BY DEF CountsUpTo
    <2>6. n \notin 1..m
      BY <1>1
    <2>7. QED
      BY <1>1, <2>2, <2>3, <2>4, <2>5, <2>6
  <1> DEFINE before == CategoryUpTo(m)
  <1>7. CASE w < WS_OK /\ ~IsOff(n)
    <2>1. IsMissing(n)
      BY <1>7 DEF IsMissing
    <2>2. CategoryUpTo(n) = IC_NONE
      BY <1>4, <1>5, <2>1
    <2>3. QED
      BY <1>7, <2>2 DEF Told
  <1>8. CASE w < WS_OK /\ IsOff(n)
    <2>1. ~IsMissing(n) /\ ~(w >= WS_OK)
      BY <1>2, <1>8 DEF IsMissing, WS_OK
    <2>2. /\ BaseUpTo(n) = BaseUpTo(m)
          /\ \A p : p \in CountsUpTo(n) <=> p \in CountsUpTo(m)
      BY <1>6, <2>1
    <2>3. CategoryUpTo(n) = CategoryUpTo(m)
      BY <2>2 DEF CategoryUpTo
    <2>4. QED
      BY <1>8, <2>3 DEF Told, m
  <1>9. CASE ~(w < WS_OK)
    <2>1. ~IsMissing(n) /\ w >= WS_OK /\ w = status[n] /\ w \in {3, 4, 5}
      BY <1>2, <1>9 DEF IsMissing, WS_OK
    <2>2. /\ BaseUpTo(n) = BaseUpTo(m)
          /\ \A p : p \in CountsUpTo(n) <=> (p \in CountsUpTo(m) \/ p = n)
      BY <1>6, <2>1
    <2>3. CategoryOf(n) \in 0..4
      BY <1>2 DEF CategoryOf, IC_NONE, IC_CRITICAL
    <2>4. /\ CategoryUpTo(n) = before \/ CategoryUpTo(n) = CategoryOf(n)
          /\ before <= CategoryUpTo(n) /\ CategoryOf(n) <= CategoryUpTo(n)
      <3>1. CategoryOf(n) <= CategoryUpTo(n)
        BY <1>3, <2>2
      <3>2. before <= CategoryUpTo(n)
        BY <1>3, <1>4, <2>2
      <3>3. CategoryUpTo(n) = before \/ CategoryUpTo(n) = CategoryOf(n)
        <4>1. CASE CategoryUpTo(n) = BaseUpTo(n)
          <5>1. CategoryUpTo(n) <= before
            BY <1>3, <2>2, <4>1
          <5>2. QED
            BY <1>3, <3>2, <5>1
        <4>2. ASSUME NEW s \in CountsUpTo(n), CategoryUpTo(n) = CategoryOf(s)
              PROVE  CategoryUpTo(n) = before \/ CategoryUpTo(n) = CategoryOf(n)
          <5>1. CASE s = n
            BY <4>2, <5>1
          <5>2. CASE s \in CountsUpTo(m)
            <6>1. CategoryUpTo(n) <= before
              BY <1>3, <4>2, <5>2
            <6>2. QED
              BY <1>3, <3>2, <6>1
          <5>3. QED
            BY <2>2, <4>2, <5>1, <5>2
        <4>3. QED
          BY <1>4, <4>1, <4>2
      <3>4. QED
        BY <3>1, <3>2, <3>3
    <2>5. Told(before, n) = IF w = WS_FAILED THEN IC_CRITICAL
                            ELSE IF w = WS_OK /\ n \notin Proxies /\ result[n] > before
                                 THEN result[n] ELSE before
      BY <1>9 DEF Told
    <2>6. CategoryOf(n) = IF w = WS_FAILED THEN IC_CRITICAL
                          ELSE IF w = WS_OK /\ n \notin Proxies THEN result[n] ELSE IC_NONE
      BY <2>1 DEF CategoryOf
    <2>7. before \in 0..4 /\ CategoryUpTo(n) \in 0..4
      BY <1>3
    <2> HIDE DEF before, w
    <2>8. CategoryUpTo(n) = Told(before, n)
      BY <1>2, <2>3, <2>4, <2>5, <2>6, <2>7 DEF WS_OK, WS_FAILED, IC_NONE, IC_CRITICAL
    <2>9. QED
      BY <2>8 DEF before, m
  <1>10. QED
    BY <1>7, <1>8, <1>9

(* So the loop has these values, and no others.  *)
LEMMA LoopValues ==
    ASSUME TypeOK
    PROVE  /\ \E f : Loop(f)
           /\ \A f : Loop(f) => f[SubtasksCount] = CategoryUpTo(SubtasksCount)
  <1>1. CategoryUpTo(0) = IC_INFO
    <2>1. CountsUpTo(0) = {} /\ BaseUpTo(0) = IC_INFO
      BY DEF CountsUpTo, BaseUpTo
    <2>2. 0 \in 0..SubtasksCount
      BY TaskAssumption
    <2>3. QED
      BY <2>1, <2>2, CategoryUpToIsWorst
  <1>2. \A n \in 1..SubtasksCount : CategoryUpTo(n) = Told(CategoryUpTo(n - 1), n)
    BY CategoryUpToNext
  <1>3. \E f : Loop(f)
    <2> DEFINE f == [i \in 0..SubtasksCount |-> CategoryUpTo(i)]
    <2>1. ASSUME NEW i \in 0..SubtasksCount
          PROVE  CategoryUpTo(i) = IF i = 0 THEN IC_INFO ELSE Told(f[i - 1], i)
      <3>1. CASE i = 0
        BY <1>1, <3>1
      <3>2. CASE i # 0
        <4>1. i \in 1..SubtasksCount /\ i - 1 \in 0..SubtasksCount
          BY <3>2, TaskAssumption
        <4>2. f[i - 1] = CategoryUpTo(i - 1)
          BY <4>1
        <4>3. QED
          BY <1>2, <3>2, <4>1, <4>2
      <3>3. QED
        BY <3>1, <3>2
    <2>2. f = [i \in 0..SubtasksCount |-> IF i = 0 THEN IC_INFO ELSE Told(f[i - 1], i)]
      BY <2>1
    <2> HIDE DEF f
    <2>3. QED
      BY <2>2 DEF Loop
  <1>4. ASSUME NEW f, Loop(f)
        PROVE  f[SubtasksCount] = CategoryUpTo(SubtasksCount)
    <2> DEFINE S == {n \in Nat : n <= SubtasksCount => f[n] = CategoryUpTo(n)}
    <2>1. \A i \in 0..SubtasksCount : f[i] = IF i = 0 THEN IC_INFO ELSE Told(f[i - 1], i)
      BY <1>4 DEF Loop
    <2>2. 0 \in S
      BY <1>1, <2>1, TaskAssumption
    <2>3. ASSUME NEW k \in Nat, k \in S
          PROVE  k + 1 \in S
      <3>1. SUFFICES ASSUME k + 1 <= SubtasksCount
                     PROVE  f[k + 1] = CategoryUpTo(k + 1)
        OBVIOUS
      <3>2. /\ k + 1 \in 1..SubtasksCount /\ k + 1 \in 0..SubtasksCount
            /\ (k + 1) - 1 = k /\ k + 1 # 0 /\ k <= SubtasksCount
        BY <3>1, TaskAssumption
      <3>3. f[k] = CategoryUpTo(k)
        BY <2>3, <3>2
      <3>4. f[k + 1] = Told(f[k], k + 1)
        BY <2>1, <3>2
      <3>5. CategoryUpTo(k + 1) = Told(CategoryUpTo(k), k + 1)
        BY <1>2, <3>2
      <3>6. QED
        BY <3>3, <3>4, <3>5
    <2> HIDE DEF S
    <2>4. SubtasksCount \in S
      BY <2>2, <2>3, Counting, TaskAssumption
    <2>5. QED
      BY <2>4, TaskAssumption DEF S
  <1>5. QED
    BY <1>3, <1>4

(* The category EnsureStatusKnown computes by going through the subtasks in their order *)
(* is the worst told after the last subtask without a result, for any number of them.   *)
THEOREM LoopSafe == Spec => []SummaryFollowsLoop
  <1>1. TypeOK => SummaryFollowsLoop
    <2>1. SUFFICES ASSUME TypeOK
                   PROVE  Summary = SummaryInOrder
      BY DEF SummaryFollowsLoop
    <2>2. SummaryInOrder = (CHOOSE f : Loop(f))[SubtasksCount]
      BY DEF SummaryInOrder, Loop, Told
    <2>3. Loop(CHOOSE f : Loop(f))
      BY <2>1, LoopValues
    <2>4. SummaryInOrder = CategoryUpTo(SubtasksCount)
      BY <2>1, <2>2, <2>3, LoopValues
    <2>5. Summary = CategoryUpTo(SubtasksCount)
      <3>1. /\ \A p : p \in CountsUpTo(SubtasksCount) <=> p \in {q \in Subtasks : Counts(q)}
        BY DEF CountsUpTo, Counts, Subtasks
      <3>2. BaseUpTo(SubtasksCount) = IF \E s \in Subtasks : IsMissing(s) THEN IC_NONE ELSE IC_INFO
        BY DEF BaseUpTo, Subtasks
      <3>3. CountsUpTo(SubtasksCount) = {q \in Subtasks : Counts(q)}
        BY <3>1
      <3>4. QED
        BY <3>2, <3>3 DEF CategoryUpTo, Summary
    <2>6. QED
      BY <2>4, <2>5
  <1>2. QED
    BY <1>1, TypeCorrect, PTL

=============================================================================
