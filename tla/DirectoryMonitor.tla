-------------------------- MODULE DirectoryMonitor --------------------------
(***************************************************************************)
(* CDirectoryMonitorComp (Include/ihotfgui): a thread that compares a      *)
(* folder with the files it knows, and the main thread, which receives the *)
(* differences as a queued event, keeps the storage of changes and the     *)
(* monitoring session, and stops and restarts the thread.  The file system *)
(* changes at any time, between any two looks the thread takes at a file.  *)
(*                                                                         *)
(* A file's time stamp and size are one number, its stamp; Missing is the  *)
(* stamp of a file that does not exist.  Time itself is abstracted: when   *)
(* the thread polls, and whether a file has rested for long enough and can *)
(* be opened, is left open.  All observed folders exist, and all items are *)
(* files that match the filter.                                            *)
(***************************************************************************)
EXTENDS Integers, Sequences, Functions

CONSTANTS
    Folders,
    Files,
    FolderOf,       \* FolderOf[f]: where the file is
    ObservedChanges,\* m_observingChanges
    SubFolders,     \* m_folderDepth # 0
    Environment,    \* what may happen, a subset of Behaviours
    MaxChanges,     \* bound: changes of files, the initial state being the first
    MaxRequests     \* bound: requests to start, stop or go to another folder

(***************************************************************************)
(*   "restarts"       the monitor is stopped, started, sent to a folder;   *)
(*   "modes"          the working mode is changed at run time;             *)
(*   "watch fails"    the system cannot watch a new folder.                *)
(***************************************************************************)
Behaviours == {"restarts", "modes", "watch fails"}

ASSUME MonitorAssumption ==
    /\ FolderOf \in [Files -> Folders]
    /\ ObservedChanges \subseteq {"add", "remove", "modified"}
    /\ SubFolders \in BOOLEAN
    /\ Environment \subseteq Behaviours
    /\ MaxChanges \in Nat \ {0}
    /\ MaxRequests \in Nat

Missing == 0
Stamps  == 0..MaxChanges

VARIABLES
    fs,                 \* fs[f]: the stamp the file has now
    clock,              \* the newest stamp
    directoryFiles,     \* m_directoryFiles: known files and their stamps
    addedCandidates,    \* m_nonAccessedAddedFiles
    modifiedCandidates, \* m_nonAccessedModifiedFiles
    folderChanges,      \* m_folderChanges
    pendingChanges,     \* m_directoryPendingChangesCounter > 0
    lockChanges,        \* m_lockChanges
    finishThread,       \* m_finishThread
    manual,             \* m_workingMode = WM_MANUAL_POLLING
    manualParam,        \* the parameters' GetWorkingMode() = WM_MANUAL_POLLING
    watched,            \* the folder is in m_directoryWatcher
    currentDirectory,   \* m_currentDirectory
    sessions,           \* sessions[d]: the files of the folder's session
    storage,            \* storage[f]: the state of the file's item
    told,               \* told[f]: what an observer of the storage last saw of f
    thread,             \* where the polling thread is
    scan,               \* the local variables of run()
    queue,              \* FolderChanged events not delivered yet
    watch,              \* a directoryChanged signal not delivered yet
    main,               \* what the main thread is doing
    requests            \* requests so far

files     == <<directoryFiles, addedCandidates, modifiedCandidates>>
outside   == <<fs, clock>>
delivered == <<sessions, storage, told>>
control   == <<finishThread, manual, manualParam, watched, currentDirectory, main, requests>>
vars == <<files, outside, delivered, control, folderChanges, pendingChanges,
          lockChanges, thread, scan, queue, watch>>

Changes   == {"added", "removed", "modified"}
NoChanges == [c \in Changes |-> {}]

Scanning == {"removals", "checkAdded", "recordAdded", "checkModified",
             "recordModified", "list", "modified", "publish"}

NoFiles  == [f \in {} |-> Missing]
FileMaps == UNION {[S -> Stamps] : S \in SUBSET Files}

TypeOK ==
    /\ fs \in [Files -> Stamps]
    /\ clock \in 1..MaxChanges
    /\ directoryFiles \in FileMaps
    /\ addedCandidates \in FileMaps
    /\ modifiedCandidates \in FileMaps
    /\ folderChanges \in [Changes -> SUBSET Files]
    /\ {pendingChanges, lockChanges, finishThread, watch} \subseteq BOOLEAN
    /\ {manual, manualParam, watched} \subseteq BOOLEAN
    /\ currentDirectory \in Folders
    /\ sessions \in [Folders -> FileMaps]
    /\ storage \in [Files -> {"none", "CF_NEW", "CF_REMOVED", "CF_MODIFIED"}]
    /\ told \in [Files -> Stamps]
    /\ thread \in {"stopped", "start", "poll"} \cup Scanning
    /\ scan \in [pending : BOOLEAN, found : [Changes -> SUBSET Files],
                 accepted : SUBSET Files]
    /\ queue \in Seq(SUBSET Changes)
    /\ main \in [waits : BOOLEAN, folder : Folders, start : BOOLEAN, attach : BOOLEAN]
    /\ requests \in 0..MaxRequests

(* Whether addPath succeeds.  *)
Watchable == IF "watch fails" \in Environment THEN BOOLEAN ELSE {TRUE}

NewScan(pending) == [pending |-> pending, found |-> NoChanges, accepted |-> {}]

(***************************************************************************)
(* The monitor after the first StartObserving: a folder, no session yet.   *)
(* The parameters were attached, the folder first and then the others:     *)
(* the working mode is theirs, whether the folder could be watched or not. *)
(***************************************************************************)
Init ==
    /\ fs \in [Files -> {Missing, 1}]
    /\ clock = 1
    /\ directoryFiles = NoFiles /\ addedCandidates = NoFiles /\ modifiedCandidates = NoFiles
    /\ folderChanges = NoChanges
    /\ pendingChanges = TRUE
    /\ lockChanges = FALSE
    /\ finishThread = FALSE
    /\ manualParam \in IF "modes" \in Environment THEN BOOLEAN ELSE {FALSE}
    /\ manual = manualParam
    /\ watched \in Watchable
    /\ currentDirectory \in Folders
    /\ sessions = [d \in Folders |-> NoFiles]
    /\ storage = [f \in Files |-> "none"]
    /\ told = [f \in Files |-> Missing]
    /\ thread = "start"
    /\ scan = NewScan(FALSE)
    /\ queue = <<>>
    /\ watch = FALSE
    /\ main = [waits |-> FALSE, folder |-> currentDirectory, start |-> FALSE, attach |-> FALSE]
    /\ requests = 0

Without(map, S) == Restrict(map, DOMAIN map \ S)

(* The entries of S are written with the present stamps of the files.  *)
Stamped(map, S) ==
    [f \in DOMAIN map \cup S |-> IF f \in S THEN fs[f] ELSE map[f]]

-----------------------------------------------------------------------------
(* The file system *)

(* The watcher signals that entries came or went, not what is written into a file.  *)
FileChanges(f, stamp) ==
    /\ fs' = [fs EXCEPT ![f] = stamp]
    /\ watch' = (watch \/ /\ watched /\ FolderOf[f] = currentDirectory
                          /\ Missing \in {fs[f], stamp})
    /\ UNCHANGED <<files, delivered, control, folderChanges, pendingChanges,
                   lockChanges, thread, scan, queue>>

WriteFile(f) ==
    /\ clock < MaxChanges
    /\ clock' = clock + 1
    /\ FileChanges(f, clock')

DeleteFile(f) ==
    /\ fs[f] # Missing
    /\ FileChanges(f, Missing)
    /\ UNCHANGED clock

-----------------------------------------------------------------------------
(* The thread: run() *)

ThreadStep(from, to) == thread = from /\ thread' = to

(* Mutant: the thread starts with the lock its predecessor left.  *)
ThreadStarts_KeepsLock ==
    /\ ThreadStep("start", "poll")
    /\ UNCHANGED <<files, outside, delivered, control, folderChanges, lockChanges,
                   pendingChanges, scan, queue, watch>>

ThreadStarts ==
    /\ ThreadStep("start", "poll")
    /\ lockChanges' = FALSE
    /\ UNCHANGED <<files, outside, delivered, control, folderChanges,
                   pendingChanges, scan, queue, watch>>

(* Mutant: the thread sees that it is to finish only when it may scan again.  *)
ThreadEnds_Locked ==
    /\ finishThread
    /\ ~lockChanges
    /\ ThreadStep("poll", "stopped")
    /\ UNCHANGED <<files, outside, delivered, control, folderChanges,
                   pendingChanges, lockChanges, scan, queue, watch>>

ThreadEnds ==
    /\ finishThread
    /\ ThreadStep("poll", "stopped")
    /\ UNCHANGED <<files, outside, delivered, control, folderChanges,
                   pendingChanges, lockChanges, scan, queue, watch>>

(* Mutant: the thread does not wait until its last changes are taken.  *)
BeginScan_NoWait ==
    /\ ~finishThread
    /\ ThreadStep("poll", "removals")
    /\ scan' = NewScan(manual \/ pendingChanges)
    /\ pendingChanges' = FALSE
    /\ lockChanges' = TRUE
    /\ UNCHANGED <<files, outside, delivered, control, folderChanges, queue, watch>>

(* The parameters are taken over under the mutex.  *)
BeginScan ==
    /\ ~finishThread
    /\ ~lockChanges
    /\ ThreadStep("poll", "removals")
    /\ scan' = NewScan(manual \/ pendingChanges)
    /\ pendingChanges' = FALSE
    /\ lockChanges' = TRUE
    /\ UNCHANGED <<files, outside, delivered, control, folderChanges, queue, watch>>

(* Mutant: a removed file stays known.  *)
FindRemovals_Keep ==
    /\ ThreadStep("removals", "checkAdded")
    /\ LET gone == IF "remove" \in ObservedChanges /\ scan.pending
                   THEN {f \in DOMAIN directoryFiles : fs[f] = Missing} ELSE {}
       IN  scan' = [scan EXCEPT !.found["removed"] = gone]
    /\ UNCHANGED <<directoryFiles, addedCandidates, modifiedCandidates, outside,
                   delivered, control, folderChanges,
                   pendingChanges, lockChanges, queue, watch>>

FindRemovals ==
    /\ ThreadStep("removals", "checkAdded")
    /\ LET gone == IF "remove" \in ObservedChanges /\ scan.pending
                   THEN {f \in DOMAIN directoryFiles : fs[f] = Missing} ELSE {}
       IN  /\ scan' = [scan EXCEPT !.found["removed"] = gone]
           /\ directoryFiles' = Without(directoryFiles, gone)
    /\ UNCHANGED <<addedCandidates, modifiedCandidates, outside, delivered,
                   control, folderChanges, pendingChanges, lockChanges, queue, watch>>

(***************************************************************************)
(* HasFileAccess of the candidates: those that are "rested" are not empty, *)
(* have not been written for the minimal time, and can be opened.  Such a  *)
(* candidate is accepted if it still has the stamp it was noted with; else *)
(* its stamp is noted again.                                               *)
(***************************************************************************)
Accepted(candidates, rested) == {f \in rested : candidates[f] = fs[f]}

Rested(candidates) == {f \in DOMAIN candidates : fs[f] # Missing}

(* UpdateNonAccessedFiles, first for added, then for modified files.  *)
CheckAdded(rested) ==
    /\ ThreadStep("checkAdded", "recordAdded")
    /\ rested \subseteq Rested(addedCandidates)
    /\ scan' = [scan EXCEPT !.accepted = Accepted(addedCandidates, rested)]
    /\ addedCandidates' = Stamped(addedCandidates, rested)
    /\ UNCHANGED <<directoryFiles, modifiedCandidates, outside, delivered, control,
                   folderChanges, pendingChanges, lockChanges, queue, watch>>

(* The stamp an accepted file is recorded with is read anew.  *)
RecordAdded ==
    /\ ThreadStep("recordAdded", "checkModified")
    /\ directoryFiles' = Stamped(directoryFiles, scan.accepted)
    /\ addedCandidates' = Without(addedCandidates, scan.accepted)
    /\ scan' = [scan EXCEPT !.found["added"] = scan.accepted]
    /\ UNCHANGED <<modifiedCandidates, outside, delivered, control, folderChanges,
                   pendingChanges, lockChanges, queue, watch>>

CheckModified(rested) ==
    /\ ThreadStep("checkModified", "recordModified")
    /\ rested \subseteq Rested(modifiedCandidates)
    /\ scan' = [scan EXCEPT !.accepted = Accepted(modifiedCandidates, rested)]
    /\ modifiedCandidates' = Stamped(modifiedCandidates, rested)
    /\ UNCHANGED <<directoryFiles, addedCandidates, outside, delivered, control,
                   folderChanges, pendingChanges, lockChanges, queue, watch>>

RecordModified ==
    /\ ThreadStep("recordModified", "list")
    /\ directoryFiles' = Stamped(directoryFiles, scan.accepted)
    /\ modifiedCandidates' = Without(modifiedCandidates, scan.accepted)
    /\ scan' = [scan EXCEPT !.found["modified"] = scan.accepted]
    /\ UNCHANGED <<addedCandidates, outside, delivered, control, folderChanges,
                   pendingChanges, lockChanges, queue, watch>>

Listed ==
    IF ("add" \in ObservedChanges /\ SubFolders) \/ scan.pending
    THEN {f \in Files : fs[f] # Missing /\ FolderOf[f] = currentDirectory}
    ELSE {}

Unknown(S) == S \ (DOMAIN directoryFiles \cup DOMAIN addedCandidates)

(* CreateFileList, and every file nothing is known of becomes a candidate.  *)
ListFolder ==
    /\ ThreadStep("list", "modified")
    /\ addedCandidates' = Stamped(addedCandidates, Unknown(Listed))
    /\ UNCHANGED <<directoryFiles, modifiedCandidates, outside, delivered, control,
                   folderChanges, pendingChanges, lockChanges, scan, queue, watch>>

(* The thread is told to finish before it is through the list.  *)
AbortScan ==
    /\ finishThread
    /\ ThreadStep("list", "stopped")
    /\ \E done \in SUBSET Listed :
          /\ done # Listed
          /\ addedCandidates' = Stamped(addedCandidates, Unknown(done))
    /\ UNCHANGED <<directoryFiles, modifiedCandidates, outside, delivered, control,
                   folderChanges, pendingChanges, lockChanges, scan, queue, watch>>

(* Mutant: the new stamp is recorded at once, and the file is no candidate.  *)
FindModifications_NoCandidate ==
    /\ ThreadStep("modified", "publish")
    /\ LET changed == IF "modified" \in ObservedChanges
                      THEN {f \in DOMAIN directoryFiles :
                               fs[f] \notin {Missing, directoryFiles[f]}}
                      ELSE {}
       IN  directoryFiles' = Stamped(directoryFiles, changed)
    /\ UNCHANGED <<addedCandidates, modifiedCandidates, outside, delivered, control,
                   folderChanges, pendingChanges, lockChanges, scan, queue, watch>>

(***************************************************************************)
(* A known file with another stamp becomes a candidate, unless it is just  *)
(* reported as new or is a candidate already: then its stamp is recorded.  *)
(***************************************************************************)
FindModifications ==
    /\ ThreadStep("modified", "publish")
    /\ LET changed == IF "modified" \in ObservedChanges
                      THEN {f \in DOMAIN directoryFiles :
                               fs[f] \notin {Missing, directoryFiles[f]}}
                      ELSE {}
           noted   == changed \ (scan.found["added"] \cup DOMAIN modifiedCandidates)
       IN  /\ modifiedCandidates' = Stamped(modifiedCandidates, noted)
           /\ directoryFiles' = Stamped(directoryFiles, changed \ noted)
    /\ UNCHANGED <<addedCandidates, outside, delivered, control, folderChanges,
                   pendingChanges, lockChanges, scan, queue, watch>>

(* The event says which lists are not empty, the lists stay in m_folderChanges.  *)
Publish ==
    /\ ThreadStep("publish", "poll")
    /\ folderChanges' = scan.found
    /\ queue' = Append(queue, {c \in Changes : scan.found[c] # {}})
    /\ scan' = NewScan(FALSE)
    /\ UNCHANGED <<files, outside, delivered, control, pendingChanges,
                   lockChanges, watch>>

-----------------------------------------------------------------------------
(* The main thread *)

MainIdle == ~main.waits

(* UpdateStorageItem for the added, then the removed, then the modified files.  *)
Reported(event) ==
    [f \in Files |->
        IF "modified" \in event /\ f \in folderChanges["modified"] THEN "CF_MODIFIED"
        ELSE IF "removed" \in event /\ f \in folderChanges["removed"] THEN "CF_REMOVED"
        ELSE IF "added" \in event /\ f \in folderChanges["added"] THEN "CF_NEW"
        ELSE storage[f]]

(* Mutant: the session is updated for new files only.  *)
UpdateMonitoringSession_Added(event) ==
    IF "added" \notin event THEN sessions
    ELSE [sessions EXCEPT ![currentDirectory] = directoryFiles]

UpdateMonitoringSession(event) ==
    IF event = {} THEN sessions
    ELSE [sessions EXCEPT ![currentDirectory] = directoryFiles]

(* The slot of the queued signal; it lets the thread go on.  *)
OnFolderChanged ==
    /\ MainIdle
    /\ queue # <<>>
    /\ LET event == Head(queue)
           named == UNION {folderChanges[c] : c \in event}
       IN  /\ sessions' = UpdateMonitoringSession(event)
           /\ storage' = Reported(event)
           /\ told' = [f \in Files |-> IF f \notin named THEN told[f]
                                      ELSE IF storage'[f] = "CF_REMOVED" THEN Missing
                                      ELSE fs[f]]
    /\ lockChanges' = FALSE
    /\ queue' = Tail(queue)
    /\ UNCHANGED <<files, outside, control, folderChanges, pendingChanges,
                   thread, scan, watch>>

OnDirectoryChangeNotification ==
    /\ MainIdle
    /\ watch
    /\ watch' = FALSE
    /\ pendingChanges' = TRUE
    /\ UNCHANGED <<files, outside, delivered, control, folderChanges, lockChanges,
                   thread, scan, queue>>

(* The part of MonitoringParamsObserver::AfterUpdate that is not constant here.  *)
ChangeMode ==
    /\ MainIdle
    /\ "modes" \in Environment
    /\ manualParam' = ~manualParam
    /\ manual' = manualParam'
    /\ requests < MaxRequests
    /\ requests' = requests + 1
    /\ UNCHANGED <<files, outside, delivered, folderChanges, pendingChanges, lockChanges,
                   thread, scan, queue, watch, watched, finishThread, currentDirectory, main>>

(***************************************************************************)
(* StartObserving, StopObserving, or a new path in the parameters: the     *)
(* main thread tells a running thread to finish and waits for it.          *)
(***************************************************************************)
StopObserverThread(folder, start, attach) ==
    /\ MainIdle
    /\ "restarts" \in Environment
    /\ requests < MaxRequests
    /\ requests' = requests + 1
    /\ finishThread' = (finishThread \/ thread # "stopped")
    /\ main' = [waits |-> TRUE, folder |-> folder, start |-> start, attach |-> attach]
    /\ UNCHANGED <<files, outside, delivered, folderChanges, pendingChanges, lockChanges,
                   thread, scan, queue, watch, manual, manualParam, watched,
                   currentDirectory>>

StartObserving(folder) == StopObserverThread(folder, TRUE, TRUE)

StopObserving == StopObserverThread(currentDirectory, FALSE, FALSE)

ChangePath(folder) == StopObserverThread(folder, thread # "stopped", FALSE)

(* Nothing is to be done for the folder that is observed already.  *)
SetFolderPath(folder) ==
    /\ currentDirectory' = folder
    /\ IF folder = currentDirectory
       THEN UNCHANGED <<directoryFiles, folderChanges, storage, told, watched>>
       ELSE /\ directoryFiles' = sessions[folder]
            /\ folderChanges' = NoChanges
            /\ storage' = [f \in Files |-> "none"]
            /\ told' = [f \in Files |-> Missing]
            /\ watched' \in Watchable

(***************************************************************************)
(* The thread has ended; a new one is created if one is to run.  A folder  *)
(* that cannot be watched is polled; but StartObserving attaches the other *)
(* parameters after the folder's, and the working mode is theirs again.    *)
(***************************************************************************)
ThreadStopped ==
    /\ main.waits
    /\ thread = "stopped"
    /\ SetFolderPath(main.folder)
    /\ manual' = IF main.attach THEN manualParam
                 ELSE manual \/ (main.folder # currentDirectory /\ ~watched')
    /\ thread' = IF main.start THEN "start" ELSE "stopped"
    /\ finishThread' = ~main.start
    /\ main' = [main EXCEPT !.waits = FALSE]
    /\ UNCHANGED <<addedCandidates, modifiedCandidates, outside, sessions, pendingChanges,
                   lockChanges, scan, queue, watch, manualParam, requests>>

-----------------------------------------------------------------------------
FileSystem == \E f \in Files : WriteFile(f) \/ DeleteFile(f)

Thread ==
    \/ ThreadStarts \/ ThreadEnds \/ BeginScan \/ FindRemovals
    \/ \E rested \in SUBSET Files : CheckAdded(rested) \/ CheckModified(rested)
    \/ RecordAdded \/ RecordModified
    \/ ListFolder \/ AbortScan \/ FindModifications \/ Publish

Main == OnFolderChanged \/ OnDirectoryChangeNotification \/ ThreadStopped

User ==
    \/ ChangeMode \/ StopObserving
    \/ \E folder \in Folders : StartObserving(folder) \/ ChangePath(folder)

Next == FileSystem \/ Thread \/ Main \/ User

(***************************************************************************)
(* The thread runs, the main thread delivers its events in time, and a     *)
(* candidate is not found unrested for ever: the files rest in the end.    *)
(***************************************************************************)
Fairness ==
    /\ WF_vars(Thread)
    /\ WF_vars(OnFolderChanged)
    /\ WF_vars(OnDirectoryChangeNotification)
    /\ WF_vars(ThreadStopped)
    /\ SF_vars(CheckAdded(Rested(addedCandidates)))
    /\ SF_vars(CheckModified(Rested(modifiedCandidates)))

Spec == Init /\ [][Next]_vars /\ Fairness

-----------------------------------------------------------------------------
(* Properties *)

(***************************************************************************)
(* m_folderChanges and m_directoryFiles are used by both threads, and most *)
(* of it without the mutex; m_lockChanges is to keep the thread from       *)
(* scanning until the last event is delivered, so that no change is        *)
(* overwritten before the main thread has taken it.                        *)
(***************************************************************************)
HandoverExclusive ==
    queue # <<>> => Len(queue) = 1 /\ thread \notin Scanning

(* Nothing is on its way from the thread to the storage.  *)
Rest == queue = <<>> /\ thread = "poll" /\ ~lockChanges

(* Between two scans, the storage shows as present the files the thread knows.  *)
StorageMatchesFiles ==
    Rest => \A f \in Files :
                storage[f] \in {"CF_NEW", "CF_MODIFIED"} <=> f \in DOMAIN directoryFiles

(* Between two scans, the session names the files the thread knows, so that a later *)
(* start takes none of them for new.                                               *)
SessionMatchesFiles ==
    Rest => DOMAIN sessions[currentDirectory] = DOMAIN directoryFiles

(***************************************************************************)
(* "Observers are notified about all changes made in the monitored         *)
(* directory": while the monitor runs and files rest in the end, every     *)
(* file was named by an event after its last change.                       *)
(***************************************************************************)
AllChangesTold ==
    <>[](thread # "stopped" /\ ~main.waits) =>
        <>[](\A f \in Files : FolderOf[f] = currentDirectory => told[f] = fs[f])

(* Only files of the folder that is monitored are reported.  *)
OnlyMonitoredFolder ==
    \A f \in Files : storage[f] # "none" => FolderOf[f] = currentDirectory

(***************************************************************************)
(* A file is reported as new when the storage does not show it as present, *)
(* and as modified or removed when it does.                                *)
(***************************************************************************)
ReportedInOrder ==
    [][\A f \in Files :
          LET present == storage[f] \in {"CF_NEW", "CF_MODIFIED"}
          IN  /\ storage'[f] = "CF_NEW" /\ storage[f] # "CF_NEW" => ~present
              /\ storage'[f] = "CF_MODIFIED" /\ storage[f] # "CF_MODIFIED" => present]_storage

(***************************************************************************)
(* "Folder could not be added to the monitor.  Manual folder observation   *)
(* activated": a folder that is not watched is looked through every time.  *)
(***************************************************************************)
UnwatchedIsPolled == thread \in Scanning /\ ~watched => scan.pending

(* wait() returns: whatever the thread is doing when it is told to finish, it ends.  *)
StopReturns == main.waits ~> ~main.waits

(***************************************************************************)
(* A running thread scans again and again: whatever happened to the event  *)
(* that was to take m_lockChanges back, a stop or an abort included, the   *)
(* thread does not wait for it for ever.                                   *)
(***************************************************************************)
KeepsScanning ==
    <>[](thread # "stopped" /\ ~main.waits) => []<>(thread \in Scanning)
=============================================================================
