# TLA+ models of AcfSln

AcfSln is a set of component libraries for machine vision: inspection suppliers,
cameras, image processing, file monitoring, communication, production history,
login, wizards, and the views for them. The code that decides *when* something is
calculated, invalidated, announced or forgotten is small and hard to test: it runs
through observers that call back in the middle of a change, through queued events,
and through threads that share a map under a lock. That code is what is modelled
here. Image processing itself, the widgets, the component registries and the
vendored service library are not.

All paths below are relative to the repository; `Include/...` is `src/Include/...`.

## 1. Inventory

### Suppliers - `Include/iinsp` (`CSupplierCompBase`, `TSupplierCompWrap`, `ISupplier`)

*State*, per supplier: `m_workStatus` (INVALID, INIT, LOCKED, OK, CANCELED, FAILED),
`m_lastWorkState`, `m_isInputValid`, `m_areParametersValid`,
`m_productChangeNotifierPtr` (a change of the supplier's model that has begun and not
ended), `m_productPtr`.

*Operations*: `InvalidateSupplier`, `EnsureWorkInitialized`, `EnsureWorkFinished`,
`ClearWorkResults`, `GetWorkProduct`, `ProcessWorkOutput`/`ProduceObject`, the
observers of inputs and parameters.

*Interaction*: a supplier observes the models of its inputs and parameters. A change
of a model is bracketed by `BeginChanges` and `EndChanges`, which call `BeforeUpdate`
and `AfterUpdate` of every observer synchronously. `BeforeUpdate` of an input
invalidates the supplier, which begins a change of its own, and so on downstream;
`EnsureWorkInitialized` and `ProduceObject` go upstream; a view woken by `AfterUpdate`
reads the product, which may calculate it, in the middle of somebody else's call.

*Hard*: the nesting; state that says "valid" and is set in another place than the
product; a notifier that stays open suppresses the next notification; failing and
partial productions.

*Correct when*: no stale product is used as current; calls nest and return; a state
is never left LOCKED; state and product agree.

### Inspection task, activation proxy, provider caches - `Include/iinsp`

*State* of `CInspectionTaskComp`: `m_workStatus` (the worst of its subtasks'),
`m_isStatusKnown` and `m_resultCategory` (a cached summary), `m_subtaskNotifiers`
(changes of the subtasks' models that it holds open).

*Operations*: the four of a supplier, each passed on to every subtask and
additional supplier in turn; `EnsureStatusKnown`; two observers, of the subtasks'
models and of their work status. `CSupplierActivationProxyComp` stands in front of a
subtask and passes calls on only while it is enabled.

*Hard*: the summary is asked for by views in the middle of the task's own loops; the
subtasks are also called by their own views, one at a time; proxies are switched
without the subtask's knowing; initialization may fail.

*Correct when*: a cached summary is that of the subtasks as they are; a test, begun
in whatever state was left behind, calculates each subtask exactly once and shows nothing older.

### Directory monitor - `Include/ihotf`, `Include/ihotfgui`

`CDirectoryMonitorComp` runs a polling thread over a folder and keeps
`m_directoryFiles`, `m_folderChanges` (added, modified, removed),
`m_nonAccessedAddedFiles`, `m_nonAccessedModifiedFiles` (candidates that have not rested
yet), `m_directoryPendingChangesCounter`, `m_lockChanges`, `m_finishThread`; a queued
event tells the main thread of the changes, which updates `CFileSystemChangeStorage`
and the monitoring session.
Hard: thread, file system, event queue and main thread interleave; the thread is
stopped and restarted by `SetFolderPath`; files change while they are examined.
Correct when: every change of the folder is stored in the end, none is stored twice or for
another folder, and the storage agrees with the folder when it rests.

### Production history - `Include/iprod`

*State* of `CProductionHistoryComp`: `m_historyItems` in memory, one file per part on
disk, the reader thread with its list of files, and its queue `m_history`, which is
handed over in chunks by queued events.

*Hard*: parts are inserted, extended and removed while older ones are still being
read; the number of events must cover the queue; closing waits for the thread; a crash leaves a
file half written.

*Correct when*: every readable part is shown in the end, what is shown is on disk,
nothing shown is lost, closing returns.

### Requests - `Include/icomm` (`CRequestsManagerBase`, `CResponsesManagerBase`, `CTcp...`)

*State*: the client's `m_requestsMap` (state and validity of each request), the
stack of `WaitRequestFinished` calls, the message cumulators of both sides and the
bytes between them. The server has one `CTcpClientStatus` per connection, which
executes requests by command.

*Hard*: a wait dispatches events, so handlers receive, send and wait inside it while
it holds an iterator into the map; keep-alive messages race the timeout; the connection
breaks with messages in every stage of their way, and is made again.

*Correct when*: a request reported as done was done; one reported as failed never
touches its object; iterators stay valid; waits return.

### Heartbeats - `Include/icomm` (`CUdpServersManagerComp`, `CTcpClientsManagerComp`)

*State*: the client's list of servers, with the address, the number of the host lookup and
the lost heartbeats of each; questions and answers on their way.

*Hard*: datagrams are lost, duplicated and late, and carry nothing but the position in a list
that may have been edited since; hosts are looked up meanwhile; what is wrong now must be put right later.

*Correct when*: no server is asked at the address of another, a wrong state does not last, and a server that
answers is not taken for lost for good.

### Wizard and state controllers - `Include/iwiz`

*State*: the selected page, which pages are active, the cached verdict of each page's
`CSelectionConsistencyControllerComp`, the loop of `DoWizardFinish`.

*Hard*: each step asks several controllers, any of which may refuse with the others already
moved; verdicts are cached across changes of parameters and depend on other pages;
views ask in the middle of a change; `DoWizardFinish` runs through the pages.

*Correct when*: only the selected page is active, verdicts are current, the pages
offered can be selected.

### Processors and producer caches - `Include/iproc`; login - `Include/iauth`

`TMorphLockedProducerBase`, `TMemCachedProducerComp` and `TFileCachedProducerCompBase` keep
locked objects with counts and weights: templates nothing in the repository instantiates.
`TSyncProcessorWrap`, the base of many processors (`iipr`, `iblob`, `CIterativeProcessorComp`),
runs each task inside `BeginTask` and keeps the states of finished tasks by number until they are
waited for; the number wraps at 2^15.
`CModelBasedProcessingTriggerComp` and `CIterativeProcessorComp` start processing,
which passes data through numeric code. `CSimpleLoginComp` keeps the logged user
as an index into a list that can be replaced: one sequential component.

### Others

Cameras (`icam`) are suppliers that may fail to initialize and read only a selected
input: both are behaviours of the environment in `Supplier`. `imeas`, `isig`, `iipr`,
`iblob`, `iedge`, `icalib`, `imm`, `ibarcode`: numeric code on data, out of TLC's
reach. `i*gui`, `iqt*`, `icmpstr`, `idocproc`: presentation. `iweb`, `iservice`: I/O.

PROJECT.json lists every component with its status and the hazards with their lines.

## 2. Plan

| # | modules | composes | abstract specification | state |
|---|---|---|---|---|
| 1 | `Supplier`, `MCSupplier`, `SupplierProofs`, `SupplierCacheProofs` | any acyclic network of suppliers | `ResultCache` | done |
| 2 | `DirectoryMonitor`, `MCDirectoryMonitor`, `DirectoryMonitorProofs` | polling thread, file system, event queue, main thread | | done |
| 3 | `Requests`, `MCRequests`, `RequestsProofs` | client, server, connection, nested waits | | done |
| 4 | `ProductionHistory`, `MCProductionHistory`, `ProductionHistoryProofs` | reader thread, main thread, files, crashes | | done |
| 5 | `InspectionTask`, `MCInspectionTask`, `InspectionTaskProofs` | task, subtasks, activation proxies, views | `SummaryInOrder` | done |
| 6 | `Wizard`, `MCWizard`, `WizardProofs` | wizard, page controllers, their slaves | | done |
| 7 | `Heartbeats`, `MCHeartbeats`, `HeartbeatsProofs` | client, owner of the list, lookups, network, servers | | done |
| 8 | producer caches, login | | | not modelled, see the inventory |

Beside the configurations of the runs there are further ones: larger instances, and
statements that are false of the code, whose counterexamples are described below.

## 3. Suppliers

`Supplier.tla` models `CSupplierCompBase`, `TSupplierCompWrap` and what the test view
`TCommonSupplierGuiCompBase` does with them. The variables bear the names of the
attributes. Everything runs in one thread, so control is an explicit call stack:
a frame per handler that is under way, and one action per piece of code between two nested
calls.

| code | model |
|---|---|
| `InvalidateSupplier` | `CallInvalidateSupplier` |
| `EnsureWorkInitialized` | `CallEnsureWorkInitialized`, then `InitializeInput` per input, `OpenProductChange`, `InitializeWork` |
| `EnsureWorkFinished`, `ProcessWorkOutput` | `CallEnsureWorkFinished`, then `ReadInput`, `GotInput` per input, `FinishWork` |
| `GetWorkProduct` | `CallEnsureWorkFinished` and `WorkProduct` |
| `ClearWorkResults` (both classes) | `ClearWorkResults`, `DropResults` |
| `InputsObserver::BeforeUpdate` | `InputsObserverBeforeUpdate`, per consumer |
| `ParamsObserver` | `EditParameters`, `ParamsObserverAfterUpdate` |
| additional trigger inputs | `TriggerInput`, `InputChanged` |
| `DoTest` of the view, with its change group | `DoTest`, `TestInitialize`, `TestFinish`, `TestReturns` |
| a view woken by `AfterUpdate` | `ObserverReads`, `ObserverIgnores` |

The order in which inputs are initialized (a `QMap` by address) and observers are called is
left open. A product is `null`, `current` or `outdated`: `current` means calculated from the
present parameters and the present products of the inputs, which is what the
properties need; `outdated` also stands for an unfinished or failed one. Messages,
timers and observers of the work status are left out. `Environment` selects what
surrounds the suppliers: observers that read, clients that read at any time or call
single operations, productions that stop before they read every input, an
`InitializeWork` that fails.

`ResultCache.tla` says what a network promises without its mechanism: nothing a result
depends on changes while the result is trusted, and trust is won only by
calculating from current inputs or by confirming a current result.

### Runs

| run | network | environment | question |
|---|---|---|---|
| `supplier_calls` | pair | everything | do calls nest, return, and leave state and product consistent, whoever calls what? yes |
| `supplier_protocol` | chain of three | clients that change things, clear, and run `DoTest`; observers read | is a stale result ever trusted? no: the network implements `ResultCache` |
| `supplier_shared_input` | diamond | the same | does an input change always invalidate its consumers? no |

The violation is a finding and quotes the comment it contradicts. Three further
configurations are violated, too. `SupplierReadBeforeInit.cfg` (a client reads at any time):
a read between an invalidation and the next initialization produces nothing and still sets
`m_isInputValid`, so that the next test ends with WS_OK and the old product (`TestDeliversCurrent`). `SupplierPartialReads.cfg` (productions that stop
before they have read every input): an input that was initialized and not read stays
in WS_INIT, `EnsureWorkInitialized` returns early, and later parameters of it are never
applied (`ParametersApplied`). `SupplierInitFails.cfg` (`InitializeWork` fails): the
WS_FAILED is overwritten by the state of an older work as soon as the supplier is read
(`FailureStands`, which no run therefore states).

`NextChangeAnnounced` says, between any two calls, what the next change will need: an input of a
trusted supplier is not invalidated already and has no change left open, either of which would make
`InvalidateSupplier` announce nothing. It is false in the diamond, where this is how the
violation of `supplier_shared_input` begins.

*Bounds.* There are no counters. A pair has every interaction of a supplier with one input; the
chain adds a supplier that is both input and consumer, so that invalidation,
initialization and reading pass through; the diamond is the smallest network with two
paths. The stack is bounded because calls descend the network.

*Fairness.* `WF_vars(Step)`: the thread that is inside a call executes its next
step. Nothing is assumed of clients (`Client` is not fair): they may call or not.
No assumption is made on the order of the steps within a call.

### Proofs

`SupplierProofs.tla` proves, for every finite or infinite set of suppliers and
every environment, from `NetworkAssumption` (`Inputs` are suppliers) and
`AcyclicAssumption` (a numbering in which inputs come before consumers):

* `TypeCorrect`: `Spec => []TypeOK`;
* `LockedSafe`, `ProductSafe`, `NestingSafe`, `HandedOutSafe`: the four safety
  invariants of `supplier_calls`.

None of the four is inductive. That a supplier is not re-entered depends on
where the other frames of the stack are: initialization and production descend the
numbering, but notifications ascend it, and an observer woken on the way down
starts a production again. The strengthening `IInv` adds `Stacked(stack)`:

* a frame of a client is at the bottom and alone there (`WellFormed`, `Over`);
* every initialization, production or observer above an initialization or production of `s`
  belongs to a supplier with a smaller number (`Over`); notifications in progress
  (`before`) may belong to anyone, because they only open notifiers and never start
  work;
* directly above a frame that waits in `GetWorkProduct` of an input there is nothing but the production
  of that input (`Serves`): a read starts no initialization and no notification;

and `LastWorkDone`, the values a last state can have, and `ReadAnswered`, that a
read which came back has left the input in the state of its last work. The proof has
one lemma for each of the three entry points (what it does to a well nested stack),
and one per action; `Established` translates the conjuncts into the calls a stack
contains (`Has`), so that a step need only be compared in these terms. `IInv` was
checked by TLC on the pair and on the diamond before it was proved.

`SupplierCacheProofs.tla` proves what is said of the results, again for every set of
suppliers and every numbering:

* `TrustedResultsCurrent` (`CacheCoherent`), `TestedIsCurrent` (`TestDeliversCurrent`),
  `ProducesWithParameters` (`ParametersApplied`), `ConsumersAreTold`
  (`InputChangeInvalidates`), `NextChangeTold` (`NextChangeAnnounced`) and `NetworkImplementsResultCache`
  (`Spec => ImplementsResultCache`, the refinement), under two hypotheses.

`SeparateInputs`: no two inputs of a supplier have a common origin or go into one another, as
in chains and trees; an input may have any number of consumers. The diamond of
`supplier_shared_input` violates it, and the property. `DisciplinedClients`: clients
change parameters and inputs, clear, and run `DoTest`, and observers read when they are
notified, but no client reads at any time or calls single operations, productions read all
their inputs and no initialization fails. In the chain of three, each of these four
behaviours, added alone to observers that read, makes TLC find a violation of every one of the six
properties, so none can be left out of the hypothesis.
`SupplierProtocol.cfg` is an instance of both hypotheses.

The argument needs three inductive invariants beside `IInv`, each using those before it:

* `Shape` holds in every network and environment. It says what the calls under way say about each other:
  `AfterUpdate` and the announcement of a change are on top of the stack; each
  announcement goes to consumers and belongs to the client's change or to the initialization below it;
  a supplier inside a call is locked; an initialization was asked for by the call below it.
* `TrustInv` is the reason for trust. A result is trusted only while each of its inputs
  is *settled* (trusted itself, no change of it open, not waiting to be produced) or
  while the `BeforeUpdate` of that input has still to reach its consumer (`TrustHeld`). Initialized work has
  its parameters and inputs that will answer (`InitialsReady`); it exists only below
  a call that is going to produce it (`InitialsDemanded`), which is where separate
  inputs are needed: otherwise `EnsureWorkInitialized` may meet work that another
  branch has left in `WS_INIT`, and return early, with the notifier that should
  announce the change never opened. `Relies` adds, per kind of call, what it has to find when it goes on.
* `ProductInv` is `CacheCoherent` with what the productions under way need: while a
  result is calculated, nothing calculated from it is current, and no outdated input has
  been read.

`Settled` speaks of four attributes written in different handlers; that the announcement of a
change reaches everyone who trusts, before the change takes effect, is the transitive part
(`NobodyTrusts`), and uses that `Downstream` is the *smallest* set closed under
`Consumers`. For the refinement one lemma per action (`FinishWorkPromise`,
`ChangePromise`, ...) proves that the step keeps `ProductInv` and is a step of `ResultCache`
or a stutter: invalidations are `Distrust`, the beginning of a production and a failed
one are `Overwrite`, a successful one is `Deliver`, an edit is `Change`, a reset is `Drop`.
`Confirm` is used by no disciplined client.

Only model-checked: the liveness property `CallsReturn` (liveness is beyond the proof system).

Not modelled: observers of the work status (`m_workStatus` announces each change;
`CInspectionTaskComp` observes it, see section 7), registration of inputs at run time,
`OnComponentDestroyed`, temporary and result messages.

## 4. Directory monitor

`DirectoryMonitor.tla` models `CDirectoryMonitorComp` with its storage and sessions as
four processes: the file system, the thread in `run()`, the main thread, and a user who
starts, stops and redirects the monitor.

| code | model |
|---|---|
| `run()`: clearing the lock; the loop's condition; taking over the parameters | `ThreadStarts`, `ThreadEnds`, `BeginScan` |
| removed files | `FindRemovals` |
| `UpdateNonAccessedFiles` with `HasFileAccess`, for added and for modified files | `CheckAdded`, `RecordAdded`, `CheckModified`, `RecordModified` |
| listing the folder, and its abort | `ListFolder`, `AbortScan` |
| modified files | `FindModifications` |
| writing `m_folderChanges`, emitting `FolderChanged` | `Publish` |
| the slots of the main thread | `OnFolderChanged` (`Reported`, `UpdateMonitoringSession`), `OnDirectoryChangeNotification` |
| `StartObserving`, `StopObserving`, `DirectoryParamsObserver::AfterUpdate` up to `wait()` | `StartObserving`, `StopObserving`, `ChangePath` |
| the same after `wait()`: `SetFolderPath`, `StartObserverThread` | `ThreadStopped` |
| `MonitoringParamsObserver::AfterUpdate` | `ChangeMode` |

*Abstraction.* A file's time stamp and size are one number, and every write gives a new
one. A phase of a scan treats all files in one step: what the code does with a file in
a phase depends on that file only, so an order among the files adds no behaviour of any
one of them, and the file system moves between every two phases and between the check
of a candidate and its recording. Time is left open: any poll
may come now, any set of candidates may have rested. `told` is the one variable the code
does not have: what somebody who reads a file whenever the storage announces it
has last seen.

Attaching an observer to a model calls its `AfterUpdate` (the attaching code is not in this
repository; `SetFolderPath` has no other caller, so that nothing would be monitored
otherwise). Hence `StartObserving` sets the folder, and then the working mode.

### Runs

| run | instance | question |
|---|---|---|
| `monitor_watch` | a file, a folder, four stamps, no restart | is the handover exclusive, do storage and session match the known files, is every change told in the end? yes |
| `monitor_restarts` | two folders, two requests, modes, failing watch | does `wait()` return, does a running thread keep scanning? yes |
| `monitor_restart_loses` | a restart for the same folder | is every change told in the end? no |

The violation is a finding. Three further configurations are violated:
`MonitorOtherFolder.cfg`, with a file in each of two folders (`OnlyMonitoredFolder`:
candidates survive the change of the folder, and a file of the old one is reported for
the new one); `MonitorRecreated.cfg` (`ReportedInOrder`: a file deleted while it is a
candidate for modification, and written again, is reported as modified after it was reported
as removed); `MonitorUnwatched.cfg` (`UnwatchedIsPolled`: a folder that cannot be
watched is not polled).

*Bounds.* `MaxChanges` stamps per behaviour and `MaxRequests` requests. Four stamps let a file be
written, change while it is a candidate, be deleted in a scan, and come back: all
the overtaking of the thread by the file system that a candidate can meet in its
life. One file is enough for the properties, each of which is about one file, and the invariant
behind the proofs was also checked with two. Two requests are a stop and a start, or two starts, with the event of the
first run delivered at any time. The runs with restarts do not check deadlock: a
stopped monitor rests.

*Fairness.* The thread is scheduled, queued events and watcher signals are delivered, `wait()` returns
when the thread has ended (weak fairness each). That a scan which finds the present candidates all rested and
accessible comes again and again if it can (strong fairness of the two checks)
is a statement about the files: nobody writes or locks them for
ever. Nothing is assumed of users, nor that files change.

### Proofs

`DirectoryMonitorProofs.tla`, for any files, folders, observed changes and bounds:

* `TypeCorrect`: `Spec => []TypeOK`, in every environment (no run repeats it);
* `HandoverSafe`, `StorageSafe`, `SessionSafe`: the three safety invariants of
  `monitor_watch`, assuming that the monitor is not restarted (`Undisturbed`); with
  restarts they are false.

The handover is inductive once `m_lockChanges` is known to be set during a scan and while an event is on
its way (`Handover`). That the storage matches the known files between two scans
needs what holds in the middle of one: the known files are those the storage shows,
changed by what the scan has found so far (`Accounting`), that is by the local
lists, then by `m_folderChanges`, until the slot applies them. The lists are applied in
the order added, removed, modified, so a file must not be found removed and added in one
scan. It is not, because a candidate is accepted only with the stamp it was noted with,
and a file written after it was found removed has a newer one (`Freshness`). This is
the place where the proof uses that stamps are new; the code relies on it too.

Only model-checked: `AllChangesTold`, `StopReturns`, `KeepsScanning` (liveness).

Not modelled: the destruction of the component, which saves the session once more;
folders that do not exist; items that are directories, patterns and depth, beyond whether
subfolders are searched; changes of the other parameters; users of the storage who remove items; tracing.

## 5. Requests

`Requests.tla` models `CTcpRequestsManagerComp` on `CRequestsManagerBase` (the client),
`CTcpClientStatus` on `CResponsesManagerBase` (the server's side of a connection), and
`TPopCumulatorBase`, with which both read their stream.

| code | model |
|---|---|
| `OnSocketConnected`, `OnSocketDisconnected` | the same |
| `AddRequest` | `AddRequest` |
| the server's `OnReadyRead`, `ProcessMessage` | `ServerReadyRead`, `ServerVersion` |
| `CResponsesManagerBase::OnReceived` | `DoResponse`, `FailResponse`, `UnknownCommand` |
| the client's `ForceRead`, one message at a time | `ClientReadyRead`, `ReadForeign`, `OnReceived`, `NotReceived` |
| `WaitRequestFinished` for one request | `WaitFor`, then `ReturnFinished` or `ReturnTimeout` |
| the same for all requests | `WaitForAll`, `CollectFinished` per round, `ReturnAll` |
| the validity of a request ends | `Expire` |

*Abstraction.* A message is what it says; its bytes are not modelled, only that a part
of it may have arrived. Time is the moment at which a request's validity ends. Waits
are a stack, because `DispatchMessagesQueue` runs event handlers inside a wait; each
such handler is an action of the model, enabled while waits are open.
`used`, `served`, `touched` and `reported` record what was sent, carried out, read into
the destination object, and returned.

Some behaviour of the code is in the model that one would not expect from its comments:
an answer whose provider fails is never sent, because no archive here is an
`IArchiveEx`; a message that `ProcessMessage` answers with false (a version, a late
answer) ends `ForceRead`, and those behind it wait for the next bytes; the client's
cumulator is not reset when the connection breaks, so that it may complete a message of the old
connection with bytes of the new one; the keep-alive is only flushed together with the answer.

*Assumption.* Nothing in the repository calls `WaitRequestFinished`. The callers are taken
to keep one rule: a handler that runs inside a wait waits for single requests which
nobody else is waiting for. Without it the iterator of the outer wait is erased by the
inner one, so `WaitersEntryKept` says exactly what this rule is enough for.

`requests_waits` has two requests, one with an unknown command, two connections and two
nested waits: enough for an answer to be read after a reconnection, for a wait for
all requests around one for a single request, and for a late answer after a timeout. The
further configuration `RequestsAllOk.cfg` is violated: `WaitRequestFinished` for all requests
tests `isEmpty()` the wrong way round (`CRequestsManagerBase.cpp:183`), reports a
timeout when every request was answered, and `RS_OK`, documented as "Request is
processed without errors", when some ran out of time.

*Fairness.* Weak fairness of the handlers while the client is inside `ForceRead`, and
of `Expire`: handlers return and time passes. Strong fairness of the waiting loop, per depth:
it gets its turn between two handlers, again and again (an enabled loop may be disabled by the next handler
for a moment). Nothing is assumed of network, server and callers.

*Proved* (`RequestsProofs.tla`, for any requests, commands, numbers of connections
and depth): `TypeCorrect`, `OkSafe` (`ReportedOkIsServed`), `FailedSafe`
(`FailedLeavesObject`), `WaitersSafe` (`WaitersEntryKept`). The strengthening says what
the messages under way may be (`Truthful`: an "ok" only for what was served, an "error"
only for an unknown command), what entry, object and report of one request say of each
other (`Accounts`), that the reading loops have something to read (`Reading`), and the
callers' rule as a property of the stack (`Callers`). `FailedLeavesObject` needs all of
it: a failed request either timed out and was erased, so that `NotReceived` drops its late answer, or was
refused by the server, which then never sends another answer. Only model-checked:
`WaitsReturn` (liveness).

Not modelled: `CTcpStreamComp`, and several clients of one server, which share nothing there.
The heartbeats are in section 9.

## 6. Production history

`ProductionHistory.tla` models `CProductionHistoryComp` with its `CHistoryReader`.

| code | model |
|---|---|
| `OnComponentCreated`; `OnComponentDestroyed` up to and from `wait()` | `OnComponentCreated`; `RequestInterruption`, `OnComponentDestroyed` |
| `CHistoryReader::run`: listing, one file, the end | `CreateFileList`, `ReadFile`, `EndReading` |
| `GetHistoryChunk`, `OnHistoryChunkReady` | `Chunk`, `Rest`, `OnHistoryChunkReady` |
| `InsertNewProductionPart`, `InsertNewInspectionResult`, `InsertResultObject`, `RemoveProductionPart` | the same |
| `SaveRepositoryItem`: opening empties the file, closing completes it | `BeginSave`, `OpenFile`, `WriteFile` |
| the process dies | `Crash`, at any point |

*Abstraction.* A part is the set of its results and result objects. The order of the files is left
open. Reading a file and queueing its part is one step: whatever comes between them may
as well come between queueing and delivery. A file that is not complete is `Damaged`.

`history_reading` has two parts with files of their own and one result, a chunk size of
one and two starts, the second after a close or a crash: parts of an earlier session, parts written
while the folder is listed, and files damaged by a crash all meet the reader. (Three parts
in chunks of two, 712,695 states, were checked, too.) It shows that no part is
stranded in the queue, that the history is complete in the end, that what it shows is on disk,
and that closing returns, although the main thread waits for a thread with which it shares a lock.

`history_overwritten` is violated and a finding: the reader finds the file of a part that was
inserted after the start, reads it before the next result of that part is inserted, and delivers it
afterwards; `OnHistoryChunkReady` puts the older part over the present one
(`CProductionHistoryComp.cpp:551`), and the next save writes the older part to the file.

`ShownIsOnDisk` is restricted to parts with a file of their own: `GetItemPath` names
a file by product and second, so two parts of one product in one second share a file, and then
it is false. It says nothing of removed parts, which a queued chunk brings back.

*Fairness.* Weak fairness of the reader, of the delivery of its events, of a save that
has begun, and of `OnComponentDestroyed` once the thread is done. Nothing is assumed of
users, who need not close the program or insert anything.

*Proved* (`ProductionHistoryProofs.tla`, for any parts, results, files and any chunk
size): `TypeCorrect`, `NothingLeftSafe`, `CompleteSafe`, `ShownSafe`. `NothingLeft` follows from
`QueueCovered`: the queue is never longer than the events on their way can take, but
for `ChunkSize - 1` parts while the reader is still going to send its last event.
`HistoryComplete` needs `OnItsWay` (a part on disk is shown, queued, listed or still to be
listed), `ShownIsOnDisk` needs `Saved` (what is queued is no more than what is shown,
or is on disk), both the phases of the component's life and that a file is read once. Only
model-checked: `LoadsHistory`, `CloseReturns` (liveness).

Not modelled: a folder that is missing, files that cannot be written, loading switched
off, and the notifications of the model (they are closed under the write lock of the
items, so an observer that reads the history from within deadlocks; the repository has no such observer).

## 7. Inspection task

`InspectionTask.tla` models `CInspectionTaskComp` with subtasks of type
`CSupplierCompBase` without inputs (section 3 has their networks), any of them behind a
`CSupplierActivationProxyComp`.

| code | model |
|---|---|
| `InvalidateSupplier`, `EnsureWorkInitialized`, `EnsureWorkFinished`, `ClearWorkResults` | `Operation`: `CallsOf` gives the calls in their order, `calls` those left |
| `m_subtaskNotifiers` | `OpenChange`, `CloseChange` |
| the operations of a subtask, with the states in between | `ClearWorkResults`, `LockToInitialize`, `InitializeWork`, `LockToProduce`, `ProduceObject`, `KeepResult`, ... |
| a disabled proxy | `IsOff`, `CallDisabled`, `SetSupplierEnabled` |
| `TaskStatusObserver::AfterUpdate`, `CInspectionTaskComp::AfterUpdate` | in `SetSupplierState`, `AfterUpdate` of every step |
| `EnsureStatusKnown`, called by a view at any moment | `EnsureStatusKnown`, `Summary` |
| `OnAutoTest` of the task's view, `DoTest` of a subtask's | `Test`, `TestSupplier` |

`Summary` states what the category is; `SummaryInOrder` is the loop as it is written,
and `SummaryFollowsLoop` says that they agree in every state. A subtask without a result
hides the categories of those before it, not of those behind it: the summary depends
on the order of the subtasks while some of them are not finished, and no longer once they are (`CategoryIsWorst`).

A nested change tells observers nothing until the outer one is closed. So the observers hear of a proxy
that is switched while the task holds a change of it open, between `EnsureWorkInitialized` and
`EnsureWorkFinished`, only when that change is closed: `SetSupplierEnabled` and `ClearWorkResults` are silent
then, and `CategoryCurrent` and `CategoryIsWorst` except that time (`SwitchHeld`).

`task_status` has two subtasks, the first behind a proxy: a test in any state that
operations, tests of one subtask, switches, failing initializations and earlier
unfinished work leave behind. Additional suppliers, which take no part in the summary, and longer tasks are
covered by the proofs, which are for any number of either. There is no counter to bound, except that `runs`
counts up to two.

Three further configurations are violated. `TaskHeld.cfg` (`CategoryAlwaysCurrent`): the category
of a proxy switched while its change is held open is stale until the change is closed. `TaskRefused.cfg` (`RefusalShown`): a subtask
whose `InitializeWork` failed does not leave the task in WS_FAILED, because
`EnsureWorkFinished` overwrites the state (`CSupplierCompBase.cpp:108`).
`TaskSwitched.cfg` (`WholeStatusCurrent`): `m_workStatus` is only recalculated when
the status of a subtask changes, not when a proxy is switched. `WorkStatusCurrent`
therefore speaks of the time until the next switch.

*Proved* (`InspectionTaskProofs.tla`): `TypeCorrect`, `CategorySafe`,
`WorkStatusSafe`, `WorstSafe`, `TestSafe`, `ResultSafe`, `LoopSafe`. `CategoryCurrent` and
`WorkStatusCurrent` are inductive with the types (a switch that is held stays so until
`m_isStatusKnown` is taken back); what a test has done needs two
more parts. `Sequenced` says that the calls left of a test are, for each supplier, the rest of
clear, invalidate, open, initialize, finish, close in that order. `Tested` says how far each supplier
is by the calls it has before it.

`LoopSafe` states `SummaryFollowsLoop`: the category that `EnsureStatusKnown` computes by going
through the subtasks in order is `Summary`. It holds in every state the types allow, so
it is no matter of reachability but of what the loop computes. `CategoryUpTo(n)` is the
worst category told by the first `n` subtasks after the last one without a result; `CategoryUpToNext` shows
that one round of the loop takes `CategoryUpTo(n - 1)` to `CategoryUpTo(n)`. That a recursive
function has these values for any number of subtasks needs an induction, and the
library's theorems for it take an operator, which the provers cannot instantiate. The
lemma `Counting` gives it for sets instead: a set with 0 and the successor of each
of its numbers contains every `n`, because otherwise the numbers in `0..n` outside it, each moved down by one,
would give an injection of `0..n` into itself that misses `n`.

The model has no fairness: that its calls return follows from their number, which only falls.

Not modelled: the task's own production (the self task), `ReduceHierarchy`, messages,
parameter sets and serialization; the provider caches, which copy values.

## 8. Wizard

`Wizard.tla` models `CWizardDocumentComp` with pages that are
`CComposedStateControllerComp`, each with one `CSelectionConsistencyControllerComp` as
its slave; other pages have no controller.

| code | model |
|---|---|
| `IsPageSelectionAllowed`, `IsFinishAllowed`, `GetNextPageIndex`, `GetPrevPageIndex` | the same, `AskedForFinish`; which slaves they ask: `AskedForSelection` |
| `IsLeaveAllowed` of page and slave, `EnsureCacheValid` | `IsLeaveAllowed`, `SlaveAllows`, `Verdict`, `Ask` |
| `TryLeaveState`, `TryEnterState` | `MayLeave`, `MayStay`, `MayEnter`, `MayRefuse` |
| `SetSelectedOptionIndex`: its checks; leaving the selected page; entering the other | `SetSelectedOptionIndex` (by `Select`, or by `VisitPage`); `LeavePage`; `EnterPage` |
| `DoWizardFinish` | `DoWizardFinish`, `VisitPage` per page, `LeaveLastPage` |
| `Serialize` from an archive | `BeginLoad`, `EndLoad` |
| the slave's `BeforeUpdate`, `AfterUpdate` | `BeforeUpdate`, `ChangeParams`, `AfterUpdate` |
| views and other observers that ask, between any two steps | `Query` |

*Abstraction.* Whether parameters are consistent, whether a page is enabled, and whether its
leave processor would accept them are sets of pages that change at any time. A processor
that is run may fail. `cacheValid` and `leaveAllowed` are the slaves' caches; the
one flaw of the caching that the model must not hide is kept: who asks fills the cache, on whatever parameters there are.

`SetSelectedOptionIndex` is three steps: between leaving a page and entering the next, when the old
page is selected and no longer active, processors have run and observers were told, so that views ask, and
parameters and pages change. They do not select a page from within.

`wizard_pages` has three pages, the first without a controller, the last depending on
the second (212,992 states). `WizardAll.cfg` has three controlled pages (6,288,384 states) and the type
invariant. They show that only the selected page is active, and that it is until it is left, whatever refuses on
the way; that a cached verdict agrees with the page's own parameters, even when a view
asks in the middle of a change, because the slave takes its cache back at the beginning
and at the end; and that `SetSelectedOptionIndex` accepts the next and previous page offered
(`NavigationAgrees`). `MaySelect` is what it asks for: `IsPageSelectionAllowed`, that the selected page is active and,
to the next page, accepted by its processor, and that the page to be entered is not active. What it cannot promise
is that a processor which it then runs succeeds. The property speaks of pages that are shown: not of the
moment between two pages, nor of the time after `DoWizardFinish` has returned true, in which it is false.

Two further configurations are violated. `WizardFinished.cfg` (`StaysNavigable`):
`DoWizardFinish` leaves the page on which it was called, which remains selected; a page
that is not active cannot be left, so every later selection is refused.
`WizardStale.cfg` (`DependenciesCurrent`): a slave observes the models of the slaves it depends on, and
these tell nobody when their own parameters change, so that its verdict becomes stale.

*Proved* (`WizardProofs.tla`, for any pages, controllers and acyclic dependencies):
`TypeCorrect`, `PagesSafe`, `VerdictSafe`, `NavigationSafe`. The strengthening is small:
`DoWizardFinish` remembers a page, no page is active while a document is loaded or between two pages, one
change is under way at a time. The work is in `Ask`, whose effect on the caches is
compared with the verdicts, and in the choice of the next page, the smallest of a set
(by well-founded order). There are no liveness properties: users may do nothing.

Not modelled: nested composed controllers; `m_isEnterAllowed`, which the wizard never
asks for; the notifications of the wizard's own model; `DoWizardFinish` with no page selected, which asks
for the parameters of page -1 from a class outside this repository.

## 9. Heartbeats

`Heartbeats.tla` models `CUdpServersManagerComp`, the client, and the part of
`CTcpClientsManagerComp` that answers it.

| code | model |
|---|---|
| `OnTimerTick` | `OnTimerTick`, with `Tick` per server |
| `lookupHost`, `OnHostInfoFound` | `LookedUp`, `OnHostInfoFound` |
| the client's `OnHeartbeatRead` | `OnHeartbeatRead` |
| the server's `OnHeartbeatRead` | `ReadQuestion` |
| `CreateServerInfo`, `RemoveServerInfo`, `GetServerInfoImpl`, `Serialize` | `CreateServerInfo`, `RemoveServerInfo`, `SetComputerName`, `Serialize` |
| the network, the servers | `Lose`, `StationChanges` |

*Abstraction.* A computer's name stands for its address. Of what a server reports only its state is
kept; the client treats version and logged user in the same way. Questions of other
applications are not answered and do not occur. The network is a set: a datagram that
was read may be read again until it is lost. Nothing in the repository edits the list; its
owner is taken to use every operation of `IHeartbeatServersManager`, at any time, and to load lists that
can be read. The field `host` of a server is history: the name it had when its lookup was started.

`heartbeats_edits` has two computers and a list of at most two servers, which may be on
the same computer:

* `AddressIsLookedUp`: whatever is inserted, removed, copied, renamed or loaded while hosts are looked up,
  a server's address is that of the host its own lookup was started for, or none: it never gets the
  result of another's;
* `WrongStatePasses`: once list and computers rest, every server is shown in the state of the one at its
  address or as unknown, for good. On the way it need not be: after an insertion the answers under way belong to
  other servers than their positions say, and a copied server has the state of its template
  before it was ever asked. What puts this right is that heartbeats are counted for
  every server, also for those that cannot be asked;
* `AliveIsShown`: a server that runs and is asked is shown in its state again and again,
  because servers taken for lost are asked all the same.

*Bounds.* `MaxLost = 0`: a server is lost after the second tick without an answer. One edit, of any
initial list and with any lookup or datagram under way, one start, end or change of a server, two
datagrams: a question or answer is under way to a position while that position changes
hands, and a duplicate arrives after the answer (177,734 states). A server that runs reports one state: what is told
apart is a server shown although it is down or not asked, not one live state from another; with a second state
the liveness properties take too long.

*Fairness.* The timer ticks, and every datagram is lost in the end (weak fairness): none is on its way
for ever. Of questions sent again and again to a position some are answered, and of answers some are
read (strong fairness, per position): the usual assumption about a network that loses
datagrams; without it nothing could be said of the servers. Nothing is assumed of the owner,
the servers or the lookups.

Two further configurations are violated. `HeartbeatsShift.cfg` (`AnswerIsOfItsServer`): an answer
that comes in after an insertion is taken for another server's, although `CHeartbeatQuestion.h`
says of the number "Client application can use it to identify it with request"; the state
shown is wrong until it passes. `HeartbeatsRenamed.cfg` (`AddressIsNamed`): `lookupId` is
never reset, so a server that is renamed once its lookup has begun is asked at the address of its old name
for good. For the same reason a lookup that failed is never repeated.

*Proved* (`HeartbeatsProofs.tla`, for any computers, lists and bounds): `TypeCorrect`;
`AddressesLookedUp` (`AddressIsLookedUp`). The strengthening says that a
lookup under way, and the server that waits for its result, agree on the host (`WellNamed`), and
that all numbers given so far are at most `lastLookup`, so that a new lookup is nobody's old
one (`Numbered`). Only model-checked: `WrongStatePasses`, `AliveIsShown` (liveness).

Not modelled: `FindServers`, which keeps the answers to questions of its own in another list and waits on a
`QElapsedTimer` that it never starts, so that the length of its search is undefined.

## 10. Not modelled

Processors and producer caches: the caches are templates without an instance here, the
processors, with `TSyncProcessorWrap`, are sequential around numeric code. Login: one
sequential component with an index as its state. Cameras, file processing, service,
web server: I/O around the suppliers' protocol, whose part of it (failing
initialization, partial reads) is in the environment of `Supplier`. Measurement,
signals and image processing: numeric code on data. Composer, document processing,
views: presentation. The `.ts` files of `Impl/AcfSlnLoc/Translations` are Qt Linguist tables of
translated texts, not programs; the code is the C++ under `Include`.

Other threads of the repository: `CTcpStreamComp` and `CUdpStreamComp` have a reader
thread each, which uses a socket that the main thread uses as well, and which only shows in the
sockets' behaviour; `iprocgui::CDocumentProcessingManagerCompBase` runs a processor in a worker behind
a modal dialog; the mutexes of `icam` (multi camera), `iqtcam::CFileAcquisitionComp`,
`ifileproc::CFileConvertOverProcessorComp` and `iedge::CFastEdgesExtractorComp` are held
around one call each. None of them has a protocol between its threads to check.

Liveness is only model-checked everywhere: it is out of the
proof system's reach.

## 11. Checking it

`tlc -config <cfg> MC<Module>` for a run, where the name of the configuration begins
with that of its module (`Monitor`, `Supplier`, `Requests`, `History`, `Task`, `Wizard`,
`Heartbeats`);
`tlapm` on each `*Proofs.tla` for the proofs. Each property of a passing run has a
mutant, an operator named after the definition it changes, to which PROJECT.json
refers: with the mutant in place the property fails. The further configurations named
above are not among the runs; all but `WizardAll.cfg` end with the violation described.
