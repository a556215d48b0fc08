----------------------- MODULE DirectoryMonitorProofs -----------------------
(***************************************************************************)
(* Proofs about DirectoryMonitor, for every set of files and folders: the  *)
(* types always; and as long as the thread is not stopped, the handover of *)
(* changes from the thread to the main thread, and the agreement of the    *)
(* storage and the session with the files the thread knows.                *)
(***************************************************************************)
EXTENDS DirectoryMonitor, TLAPS

-----------------------------------------------------------------------------
(* Maps of files *)

(* A map assigns stamps to some of the files.  *)
LEMMA MapIntro ==
    ASSUME NEW S \in SUBSET Files, NEW map \in [S -> Stamps]
    PROVE  map \in FileMaps
  <1>1. [S -> Stamps] \in {[T -> Stamps] : T \in SUBSET Files}
    OBVIOUS
  <1>2. QED
    BY <1>1 DEF FileMaps

(* Its domain is a set of files.  *)
LEMMA DomainMap ==
    ASSUME NEW map \in FileMaps
    PROVE  DOMAIN map \in SUBSET Files /\ map \in [DOMAIN map -> Stamps]
  <1>1. PICK F \in {[T -> Stamps] : T \in SUBSET Files} : map \in F
    BY DEF FileMaps
  <1>2. PICK T \in SUBSET Files : F = [T -> Stamps]
    BY <1>1
  <1>3. map \in [T -> Stamps]
    BY <1>1, <1>2
  <1>4. DOMAIN map = T
    BY <1>3
  <1>5. QED
    BY <1>3, <1>4

(* Stamping files adds them to a map.  *)
LEMMA StampedMap ==
    ASSUME fs \in [Files -> Stamps], NEW map \in FileMaps, NEW S \in SUBSET Files
    PROVE  /\ Stamped(map, S) \in FileMaps
           /\ DOMAIN Stamped(map, S) = DOMAIN map \cup S
  <1>1. DOMAIN map \in SUBSET Files /\ map \in [DOMAIN map -> Stamps]
    BY DomainMap
  <1> DEFINE D == DOMAIN map \cup S
  <1>2. D \in SUBSET Files
    BY <1>1
  <1>3. \A f \in D : (IF f \in S THEN fs[f] ELSE map[f]) \in Stamps
    BY <1>1
  <1>4. Stamped(map, S) = [f \in D |-> IF f \in S THEN fs[f] ELSE map[f]]
    BY DEF Stamped
  <1>5. Stamped(map, S) \in [D -> Stamps]
    BY <1>3, <1>4
  <1>6. QED
    BY <1>2, <1>4, <1>5, MapIntro

(* Without takes files out of a map.  *)
LEMMA WithoutMap ==
    ASSUME NEW map \in FileMaps, NEW S
    PROVE  /\ Without(map, S) \in FileMaps
           /\ DOMAIN Without(map, S) = DOMAIN map \ S
  <1>1. DOMAIN map \in SUBSET Files /\ map \in [DOMAIN map -> Stamps]
    BY DomainMap
  <1> DEFINE D == DOMAIN map \ S
  <1>2. Without(map, S) = [f \in D |-> map[f]]
    BY DEF Without, Restrict
  <1>3. D \in SUBSET Files
    BY <1>1
  <1>4. Without(map, S) \in [D -> Stamps]
    BY <1>1, <1>2
  <1>5. QED
    BY <1>2, <1>3, <1>4, MapIntro

LocalsType == [pending : BOOLEAN, found : [Changes -> SUBSET Files], accepted : SUBSET Files]

(* A scan starts with nothing found.  *)
LEMMA NewScanType ==
    ASSUME NEW b \in BOOLEAN
    PROVE  /\ NewScan(b) \in LocalsType
           /\ \A c \in Changes : NewScan(b).found[c] = {}
  BY DEF NewScan, LocalsType, NoChanges

(* A list of what is found is written.  *)
LEMMA FoundType ==
    ASSUME scan \in LocalsType, NEW c \in Changes, NEW S \in SUBSET Files
    PROVE  LET new == [scan EXCEPT !.found[c] = S]
           IN  /\ new \in LocalsType
               /\ new.found[c] = S
               /\ \A d \in Changes \ {c} : new.found[d] = scan.found[d]
               /\ new.accepted = scan.accepted
  BY DEF LocalsType

-----------------------------------------------------------------------------
(* Types *)

(* The local variables of run().  *)
LEMMA TypeUnfold == TypeOK => scan \in LocalsType
  BY DEF TypeOK, LocalsType

(* The state after the first start.  *)
LEMMA InitType == Init => TypeOK
  <1> SUFFICES ASSUME Init PROVE TypeOK
    OBVIOUS
  <1>1. NoFiles \in FileMaps
    BY DEF NoFiles, FileMaps
  <1>2. scan \in LocalsType
    BY NewScanType DEF Init
  <1>3. fs \in [Files -> Stamps]
    BY MonitorAssumption DEF Init, Stamps, Missing
  <1>4. queue \in Seq(SUBSET Changes)
    BY DEF Init
  <1>5. folderChanges \in [Changes -> SUBSET Files]
    BY DEF Init, NoChanges
  <1>6. clock \in 1..MaxChanges /\ requests \in 0..MaxRequests
    BY MonitorAssumption DEF Init
  <1>7. sessions \in [Folders -> FileMaps] /\ told \in [Files -> Stamps]
    BY <1>1, MonitorAssumption DEF Init, Stamps, Missing
  <1>8. main \in [waits : BOOLEAN, folder : Folders, start : BOOLEAN, attach : BOOLEAN]
    BY DEF Init
  <1>9. /\ {pendingChanges, lockChanges, finishThread, watch} \subseteq BOOLEAN
        /\ {manual, manualParam, watched} \subseteq BOOLEAN
    BY DEF Init, Watchable
  <1>10. QED
    BY <1>1, <1>2, <1>3, <1>4, <1>5, <1>6, <1>7, <1>8, <1>9
    DEF Init, TypeOK, LocalsType

(* The file system.  *)
LEMMA FileSystemType == TypeOK /\ FileSystem => TypeOK'
  <1> SUFFICES ASSUME TypeOK, NEW f \in Files, WriteFile(f) \/ DeleteFile(f) PROVE TypeOK'
    BY DEF FileSystem
  <1>0. fs \in [Files -> Stamps] /\ clock \in 1..MaxChanges /\ MaxChanges \in Nat
    BY MonitorAssumption DEF TypeOK
  <1>1. fs' \in [Files -> Stamps] /\ clock' \in 1..MaxChanges
    <2>1. CASE WriteFile(f)
      <3>1. clock' \in 1..MaxChanges /\ clock' \in Stamps
        BY <1>0, <2>1 DEF WriteFile, Stamps
      <3>2. fs' = [fs EXCEPT ![f] = clock']
        BY <2>1 DEF WriteFile, FileChanges
      <3>3. QED
        BY <1>0, <3>1, <3>2
    <2>2. CASE DeleteFile(f)
      <3>1. Missing \in Stamps
        BY <1>0 DEF Missing, Stamps
      <3>2. fs' = [fs EXCEPT ![f] = Missing] /\ clock' = clock
        BY <2>2 DEF DeleteFile, FileChanges
      <3>3. QED
        BY <1>0, <3>1, <3>2
    <2>3. QED
      BY <2>1, <2>2
  <1>2. watch' \in BOOLEAN
    BY DEF TypeOK, WriteFile, DeleteFile, FileChanges
  <1>3. QED
    BY <1>1, <1>2
    DEF TypeOK, WriteFile, DeleteFile, FileChanges, files, delivered, control

(* The thread.  *)
LEMMA ThreadType == TypeOK /\ Thread => TypeOK'
  <1> SUFFICES ASSUME TypeOK, Thread PROVE TypeOK'
    OBVIOUS
  <1> USE DEF ThreadStep, files, outside, delivered, control
  <1>0. /\ scan \in LocalsType
        /\ fs \in [Files -> Stamps]
        /\ directoryFiles \in FileMaps
        /\ addedCandidates \in FileMaps
        /\ modifiedCandidates \in FileMaps
        /\ scan.accepted \in SUBSET Files
    BY DEF TypeOK, LocalsType
  <1>1. CASE ThreadStarts \/ ThreadEnds
    BY <1>1 DEF TypeOK, ThreadStarts, ThreadEnds
  <1>2. CASE BeginScan
    <2>1. scan' \in LocalsType
      BY <1>2, NewScanType DEF BeginScan, TypeOK
    <2>2. QED
      BY <1>2, <2>1 DEF TypeOK, BeginScan, LocalsType, Scanning
  <1>3. CASE FindRemovals
    <2> DEFINE gone == IF "remove" \in ObservedChanges /\ scan.pending
                       THEN {f \in DOMAIN directoryFiles : fs[f] = Missing} ELSE {}
    <2>1. gone \in SUBSET Files
      BY <1>0, DomainMap
    <2>2. scan' = [scan EXCEPT !.found["removed"] = gone]
      BY <1>3 DEF FindRemovals
    <2>3. scan' \in LocalsType
      BY <1>0, <2>1, <2>2, FoundType DEF Changes
    <2>4. directoryFiles' \in FileMaps
      BY <1>0, <1>3, WithoutMap DEF FindRemovals
    <2>5. QED
      BY <1>3, <2>3, <2>4 DEF TypeOK, FindRemovals, LocalsType, Scanning
  <1>4. ASSUME NEW rested \in SUBSET Files, CheckAdded(rested)
        PROVE  TypeOK'
    <2>1. scan' \in LocalsType
      BY <1>0, <1>4 DEF CheckAdded, LocalsType, Accepted
    <2>2. addedCandidates' \in FileMaps
      BY <1>0, <1>4, StampedMap DEF CheckAdded
    <2>3. QED
      BY <1>4, <2>1, <2>2 DEF TypeOK, CheckAdded, LocalsType, Scanning
  <1>5. ASSUME NEW rested \in SUBSET Files, CheckModified(rested)
        PROVE  TypeOK'
    <2>1. scan' \in LocalsType
      BY <1>0, <1>5 DEF CheckModified, LocalsType, Accepted
    <2>2. modifiedCandidates' \in FileMaps
      BY <1>0, <1>5, StampedMap DEF CheckModified
    <2>3. QED
      BY <1>5, <2>1, <2>2 DEF TypeOK, CheckModified, LocalsType, Scanning
  <1>6. CASE RecordAdded
    <2>1. scan' \in LocalsType
      BY <1>0, <1>6, FoundType DEF RecordAdded, Changes
    <2>2. directoryFiles' \in FileMaps /\ addedCandidates' \in FileMaps
      BY <1>0, <1>6, StampedMap, WithoutMap DEF RecordAdded
    <2>3. QED
      BY <1>6, <2>1, <2>2 DEF TypeOK, RecordAdded, LocalsType, Scanning
  <1>7. CASE RecordModified
    <2>1. scan' \in LocalsType
      BY <1>0, <1>7, FoundType DEF RecordModified, Changes
    <2>2. directoryFiles' \in FileMaps /\ modifiedCandidates' \in FileMaps
      BY <1>0, <1>7, StampedMap, WithoutMap DEF RecordModified
    <2>3. QED
      BY <1>7, <2>1, <2>2 DEF TypeOK, RecordModified, LocalsType, Scanning
  <1>8. CASE ListFolder \/ AbortScan
    <2>1. /\ \A S : S \subseteq Listed => Unknown(S) \in SUBSET Files
          /\ Listed \subseteq Files
      BY DEF Listed, Unknown
    <2>2. addedCandidates' \in FileMaps
      BY <1>0, <1>8, <2>1, StampedMap DEF ListFolder, AbortScan
    <2>3. QED
      BY <1>8, <2>2 DEF TypeOK, ListFolder, AbortScan, Scanning
  <1>9. CASE FindModifications
    <2>1. PICK S \in SUBSET DOMAIN directoryFiles, R \in SUBSET DOMAIN directoryFiles :
             /\ modifiedCandidates' = Stamped(modifiedCandidates, S)
             /\ directoryFiles' = Stamped(directoryFiles, R)
      BY <1>9 DEF FindModifications
    <2>2. directoryFiles' \in FileMaps /\ modifiedCandidates' \in FileMaps
      BY <1>0, <2>1, DomainMap, StampedMap
    <2>3. QED
      BY <1>9, <2>2 DEF TypeOK, FindModifications, Scanning
  <1>10. CASE Publish
    <2>1. scan' \in LocalsType
      BY <1>10, NewScanType DEF Publish
    <2>2. queue' \in Seq(SUBSET Changes)
      BY <1>10 DEF Publish, TypeOK
    <2>3. folderChanges' \in [Changes -> SUBSET Files]
      BY <1>0, <1>10 DEF Publish, LocalsType
    <2>4. QED
      BY <1>10, <2>1, <2>2, <2>3 DEF TypeOK, Publish, LocalsType
  <1>11. QED
    BY <1>1, <1>2, <1>3, <1>4, <1>5, <1>6, <1>7, <1>8, <1>9, <1>10 DEF Thread

(* The deliveries to the main thread, and the end of its waiting.  *)
LEMMA MainType == TypeOK /\ Main => TypeOK'
  <1> SUFFICES ASSUME TypeOK, Main PROVE TypeOK'
    OBVIOUS
  <1> USE DEF files, outside, delivered, control
  <1>1. CASE OnFolderChanged
    <2>1. PICK event : event = Head(queue)
      OBVIOUS
    <2>2. queue' \in Seq(SUBSET Changes)
      BY <1>1 DEF OnFolderChanged, TypeOK
    <2>3. storage' \in [Files -> {"none", "CF_NEW", "CF_REMOVED", "CF_MODIFIED"}]
      <3>1. storage \in [Files -> {"none", "CF_NEW", "CF_REMOVED", "CF_MODIFIED"}]
        BY DEF TypeOK
      <3>2. storage' = Reported(event)
        BY <1>1, <2>1 DEF OnFolderChanged
      <3>3. QED
        BY <3>1, <3>2 DEF Reported
    <2>4. told' \in [Files -> Stamps]
      <3>1. told \in [Files -> Stamps] /\ fs \in [Files -> Stamps] /\ Missing \in Stamps
        BY MonitorAssumption DEF TypeOK, Missing, Stamps
      <3> DEFINE named == UNION {folderChanges[c] : c \in event}
      <3>2. told' = [f \in Files |-> IF f \notin named THEN told[f]
                                    ELSE IF storage'[f] = "CF_REMOVED" THEN Missing
                                    ELSE fs[f]]
        BY <1>1, <2>1 DEF OnFolderChanged
      <3> HIDE DEF named
      <3>3. QED
        BY <3>1, <3>2
    <2>5. sessions' \in [Folders -> FileMaps]
      <3>1. sessions' = UpdateMonitoringSession(event)
        BY <1>1, <2>1 DEF OnFolderChanged
      <3>2. QED
        BY <3>1 DEF TypeOK, UpdateMonitoringSession
    <2>6. QED
      BY <1>1, <2>2, <2>3, <2>4, <2>5 DEF TypeOK, OnFolderChanged
  <1>2. CASE OnDirectoryChangeNotification
    BY <1>2 DEF TypeOK, OnDirectoryChangeNotification
  <1>3. CASE ThreadStopped
    <2>1. main.folder \in Folders /\ main.start \in BOOLEAN
      BY DEF TypeOK
    <2>2. /\ currentDirectory' \in Folders
          /\ directoryFiles' \in FileMaps
          /\ folderChanges' \in [Changes -> SUBSET Files]
          /\ storage' \in [Files -> {"none", "CF_NEW", "CF_REMOVED", "CF_MODIFIED"}]
          /\ told' \in [Files -> Stamps]
          /\ watched' \in BOOLEAN
      <3>1. CASE main.folder = currentDirectory
        BY <1>3, <2>1, <3>1 DEF ThreadStopped, SetFolderPath, TypeOK
      <3>2. CASE main.folder # currentDirectory
        <4>1. /\ currentDirectory' = main.folder
              /\ directoryFiles' = sessions[main.folder]
              /\ folderChanges' = NoChanges
              /\ storage' = [f \in Files |-> "none"]
              /\ told' = [f \in Files |-> Missing]
              /\ watched' \in Watchable
          BY <1>3, <3>2 DEF ThreadStopped, SetFolderPath
        <4>2. Missing \in Stamps
          BY MonitorAssumption DEF Missing, Stamps
        <4>3. NoChanges \in [Changes -> SUBSET Files]
          BY DEF NoChanges
        <4>4. sessions[main.folder] \in FileMaps
          BY <2>1 DEF TypeOK
        <4>5. watched' \in BOOLEAN
          BY <4>1 DEF Watchable
        <4>6. QED
          BY <2>1, <4>1, <4>2, <4>3, <4>4, <4>5
      <3>3. QED
        BY <3>1, <3>2
    <2>4. main' \in [waits : BOOLEAN, folder : Folders, start : BOOLEAN,
                       attach : BOOLEAN]
      BY <1>3 DEF ThreadStopped, TypeOK
    <2>5. thread' \in {"stopped", "start"} /\ finishThread' \in BOOLEAN
      BY <1>3, <2>1 DEF ThreadStopped
    <2>6. manual' \in BOOLEAN
      BY <1>3, <2>2 DEF ThreadStopped, TypeOK
    <2>7. QED
      BY <1>3, <2>2, <2>4, <2>5, <2>6 DEF TypeOK, ThreadStopped
  <1>4. QED
    BY <1>1, <1>2, <1>3 DEF Main

(* The requests.  *)
LEMMA UserType == TypeOK /\ User => TypeOK'
  <1> SUFFICES ASSUME TypeOK, User PROVE TypeOK'
    OBVIOUS
  <1> USE DEF files, outside, delivered, control
  <1>1. CASE ChangeMode
    <2>1. requests' \in 0..MaxRequests
      BY <1>1, MonitorAssumption DEF TypeOK, ChangeMode
    <2>2. manual' \in BOOLEAN /\ manualParam' \in BOOLEAN
      BY <1>1 DEF ChangeMode
    <2>3. QED
      BY <1>1, <2>1, <2>2 DEF TypeOK, ChangeMode
  <1>2. ASSUME NEW folder \in Folders, NEW start \in BOOLEAN, NEW attach \in BOOLEAN,
               StopObserverThread(folder, start, attach)
        PROVE  TypeOK'
    <2>1. requests' \in 0..MaxRequests
      BY <1>2, MonitorAssumption DEF TypeOK, StopObserverThread
    <2>2. finishThread' \in BOOLEAN
      BY <1>2 DEF StopObserverThread
    <2>3. main' \in [waits : BOOLEAN, folder : Folders, start : BOOLEAN,
                       attach : BOOLEAN]
      BY <1>2 DEF StopObserverThread
    <2>4. QED
      BY <1>2, <2>1, <2>2, <2>3 DEF TypeOK, StopObserverThread
  <1>3. currentDirectory \in Folders
    BY DEF TypeOK
  <1>4. QED
    BY <1>1, <1>2, <1>3 DEF User, StartObserving, StopObserving, ChangePath

(* Every step.  *)
LEMMA TypeStep == TypeOK /\ [Next]_vars => TypeOK'
  <1> SUFFICES ASSUME TypeOK, [Next]_vars PROVE TypeOK'
    OBVIOUS
  <1>1. CASE UNCHANGED vars
    BY <1>1 DEF vars, files, outside, delivered, control, TypeOK
  <1>2. QED
    BY <1>1, FileSystemType, ThreadType, MainType, UserType DEF Next

(* Every variable keeps its type, whatever the files, the thread and the user do.  *)
THEOREM TypeCorrect == Spec => []TypeOK
  BY InitType, TypeStep, PTL DEF Spec

-----------------------------------------------------------------------------
(* The invariant of a thread that is not stopped *)

Known   == DOMAIN directoryFiles
Present == {f \in Files : storage[f] \in {"CF_NEW", "CF_MODIFIED"}}

(* The thread was started once and runs on.  *)
Steady == ~finishThread /\ ~main.waits /\ thread # "stopped"

(* At most one event is on its way, and the thread then waits with the lock set.  *)
Handover ==
    /\ queue # <<>> => Len(queue) = 1 /\ thread = "poll" /\ lockChanges
    /\ thread \in Scanning => lockChanges

(* The files the storage will show as present when the changes are delivered.  *)
After(found) ==
    ((Present \cup found["added"]) \ found["removed"]) \cup found["modified"]

(* What the thread knows and the storage does not is in the lists on their way.  *)
Accounting ==
    /\ thread \in {"start", "poll"} /\ queue = <<>> => Known = Present
    /\ queue # <<>> => /\ Known = After(folderChanges)
                       /\ Head(queue) = {c \in Changes : folderChanges[c] # {}}
    /\ thread \in Scanning => Known = After(scan.found)
    /\ thread = "removals" => scan.found["removed"] = {}
    /\ thread \in {"removals", "checkAdded", "recordAdded"} => scan.found["added"] = {}
    /\ thread \in {"removals", "checkAdded", "recordAdded", "checkModified",
                   "recordModified"} => scan.found["modified"] = {}

SessionShows == DOMAIN sessions[currentDirectory] = Present

(* No file is new by the stamp it had before the scan found it removed.  *)
Freshness ==
    /\ \A f \in Files : fs[f] <= clock
    /\ \A f \in DOMAIN addedCandidates : addedCandidates[f] <= clock
    /\ thread = "checkAdded" =>
          \A f \in scan.found["removed"] \cap DOMAIN addedCandidates :
              fs[f] = Missing \/ addedCandidates[f] < fs[f]
    /\ thread = "recordAdded" => scan.accepted \cap scan.found["removed"] = {}

IInv == TypeOK /\ Steady /\ Handover /\ Accounting /\ SessionShows /\ Freshness

(* The monitor is neither stopped nor started again.  *)
Undisturbed == "restarts" \notin Environment

(* The steps of the thread that are left.  *)
LEMMA StepsLeft ==
    ASSUME Undisturbed, Steady, Next
    PROVE  \/ FileSystem \/ ThreadStarts \/ BeginScan \/ FindRemovals
           \/ \E rested \in SUBSET Files : CheckAdded(rested) \/ CheckModified(rested)
           \/ RecordAdded \/ RecordModified \/ ListFolder \/ FindModifications
           \/ Publish \/ OnFolderChanged \/ OnDirectoryChangeNotification \/ ChangeMode
  BY DEF Undisturbed, Steady, Next, Thread, Main, User, ThreadEnds, AbortScan,
         ThreadStopped, StartObserving, StopObserving, ChangePath, StopObserverThread

(* The thread is not stopped.  *)
LEMMA SteadyStep ==
    ASSUME Undisturbed, Steady, [Next]_vars
    PROVE  Steady'
  <1> USE DEF Steady, ThreadStep, files, outside, delivered, control
  <1>1. CASE UNCHANGED vars
    BY <1>1 DEF vars
  <1>2. CASE FileSystem
    BY <1>2 DEF FileSystem, WriteFile, DeleteFile, FileChanges
  <1>3. CASE ThreadStarts \/ BeginScan \/ FindRemovals
    BY <1>3 DEF ThreadStarts, BeginScan, FindRemovals
  <1>4. CASE \E rested \in SUBSET Files : CheckAdded(rested) \/ CheckModified(rested)
    BY <1>4 DEF CheckAdded, CheckModified
  <1>5. CASE RecordAdded \/ RecordModified
    BY <1>5 DEF RecordAdded, RecordModified
  <1>6. CASE ListFolder
    BY <1>6 DEF ListFolder
  <1>7. CASE Publish
    BY <1>7 DEF Publish
  <1>8. CASE FindModifications
    BY <1>8 DEF FindModifications
  <1>9. CASE OnFolderChanged
    BY <1>9 DEF OnFolderChanged
  <1>10. CASE OnDirectoryChangeNotification
    BY <1>10 DEF OnDirectoryChangeNotification
  <1>11. CASE ChangeMode
    BY <1>11 DEF ChangeMode
  <1>12. QED
    BY <1>1, <1>2, <1>3, <1>4, <1>5, <1>6, <1>7, <1>8, <1>9, <1>10, <1>11,
       StepsLeft

(* The thread does not scan before its event is delivered.  *)
LEMMA HandoverStep ==
    ASSUME Undisturbed, TypeOK, Steady, Handover, [Next]_vars
    PROVE  Handover'
  <1> USE DEF Handover, Scanning, ThreadStep, files, outside, delivered, control
  <1>0. queue \in Seq(SUBSET Changes)
    BY DEF TypeOK
  <1>1. CASE UNCHANGED vars
    BY <1>1 DEF vars
  <1>2. CASE FileSystem
    BY <1>2 DEF FileSystem, WriteFile, DeleteFile, FileChanges
  <1>3. CASE ThreadStarts \/ BeginScan \/ FindRemovals
    BY <1>3 DEF ThreadStarts, BeginScan, FindRemovals
  <1>4. CASE \E rested \in SUBSET Files : CheckAdded(rested) \/ CheckModified(rested)
    BY <1>4 DEF CheckAdded, CheckModified
  <1>5. CASE RecordAdded \/ RecordModified \/ ListFolder \/ FindModifications
    BY <1>5 DEF RecordAdded, RecordModified, ListFolder, FindModifications
  <1>6. CASE Publish
    <2>1. queue = <<>> /\ lockChanges
      BY <1>6 DEF Publish
    <2>2. PICK event \in SUBSET Changes : queue' = Append(<<>>, event)
      BY <1>6, <2>1 DEF Publish
    <2>3. Len(queue') = 1
      BY <2>2
    <2>4. QED
      BY <1>6, <2>1, <2>3 DEF Publish
  <1>7. CASE OnFolderChanged
    <2>1. Len(queue) = 1 /\ thread = "poll"
      BY <1>7 DEF OnFolderChanged
    <2>2. queue' = <<>>
      BY <1>0, <1>7, <2>1 DEF OnFolderChanged
    <2>3. QED
      BY <1>7, <2>1, <2>2 DEF OnFolderChanged
  <1>8. CASE OnDirectoryChangeNotification \/ ChangeMode
    BY <1>8 DEF OnDirectoryChangeNotification, ChangeMode
  <1>9. QED
    BY <1>1, <1>2, <1>3, <1>4, <1>5, <1>6, <1>7, <1>8, StepsLeft

(* What the files, the thread and the storage are counted by stays as it is.  *)
Counted == <<directoryFiles, storage, sessions, currentDirectory, folderChanges,
             queue, thread, scan>>

(* Steps that change none of it keep the accounts.  *)
LEMMA CountedUnchanged ==
    ASSUME Accounting, SessionShows, UNCHANGED Counted
    PROVE  Accounting' /\ SessionShows'
  BY DEF Counted, Accounting, SessionShows, Known, Present, After

(* No change is lost or told twice on its way from the thread to the storage.  *)
LEMMA AccountingStep ==
    ASSUME Undisturbed, TypeOK, Steady, Handover, Accounting, SessionShows, Freshness,
           [Next]_vars
    PROVE  Accounting' /\ SessionShows'
  <1> USE DEF ThreadStep, files, outside, delivered, control, Scanning
  <1>0. /\ scan \in LocalsType
        /\ fs \in [Files -> Stamps]
        /\ directoryFiles \in FileMaps
        /\ Known \in SUBSET Files
        /\ Present \in SUBSET Files
        /\ scan.found \in [Changes -> SUBSET Files]
        /\ scan.accepted \in SUBSET Files
        /\ folderChanges \in [Changes -> SUBSET Files]
        /\ Changes = {"added", "removed", "modified"}
    BY DomainMap DEF TypeOK, LocalsType, Known, Present, Changes
  <1>1. CASE UNCHANGED vars
    BY <1>1, CountedUnchanged DEF vars, Counted
  <1>2. CASE FileSystem
    BY <1>2, CountedUnchanged DEF FileSystem, WriteFile, DeleteFile, FileChanges, Counted
  <1>3. CASE OnDirectoryChangeNotification \/ ChangeMode
    BY <1>3, CountedUnchanged DEF OnDirectoryChangeNotification, ChangeMode, Counted
  <1>4. CASE ThreadStarts
    BY <1>4 DEF ThreadStarts, Accounting, SessionShows, Known, Present, After
  <1>5. CASE BeginScan
    <2>1. queue = <<>>
      BY <1>5 DEF BeginScan, Handover
    <2>2. /\ Known' = Known /\ Present' = Present /\ SessionShows'
          /\ queue' = queue /\ thread = "poll" /\ thread' = "removals"
      BY <1>5 DEF BeginScan, Known, Present, SessionShows
    <2>3. \A c \in Changes : scan'.found[c] = {}
      BY <1>5, NewScanType DEF BeginScan, TypeOK
    <2>4. Known = Present
      BY <2>1, <2>2 DEF Accounting
    <2>5. After(scan.found)' = Present
      BY <1>0, <2>2, <2>3 DEF After
    <2>6. QED
      BY <1>0, <2>1, <2>2, <2>3, <2>4, <2>5 DEF Accounting, After
  <1>6. CASE FindRemovals
    <2> DEFINE gone == IF "remove" \in ObservedChanges /\ scan.pending
                       THEN {f \in DOMAIN directoryFiles : fs[f] = Missing} ELSE {}
    <2>1. gone \in SUBSET Files
      BY <1>0 DEF Known
    <2>2. /\ scan' = [scan EXCEPT !.found["removed"] = gone]
          /\ directoryFiles' = Without(directoryFiles, gone)
          /\ queue' = queue /\ thread = "removals" /\ thread' = "checkAdded"
          /\ Present' = Present /\ SessionShows'
      BY <1>6 DEF FindRemovals, Present, SessionShows
    <2> HIDE DEF gone
    <2>3. Known' = Known \ gone
      BY <1>0, <2>2, WithoutMap DEF Known
    <2>4. /\ scan'.found["removed"] = gone
          /\ scan'.found["added"] = {} /\ scan'.found["modified"] = {}
      BY <1>0, <2>1, <2>2, FoundType DEF Accounting
    <2>5. Known = Present /\ queue = <<>>
      BY <2>2 DEF Accounting, After, Handover
    <2>6. QED
      BY <2>2, <2>3, <2>4, <2>5 DEF Accounting, After
  <1>7. ASSUME NEW rested \in SUBSET Files, CheckAdded(rested) \/ CheckModified(rested)
        PROVE  Accounting' /\ SessionShows'
    <2>1. scan'.found = scan.found
      BY <1>0, <1>7 DEF CheckAdded, CheckModified, LocalsType
    <2>2. Known' = Known /\ Present' = Present /\ SessionShows' /\ queue' = queue
      BY <1>7 DEF CheckAdded, CheckModified, Known, Present, SessionShows
    <2>3. \/ thread = "checkAdded" /\ thread' = "recordAdded"
          \/ thread = "checkModified" /\ thread' = "recordModified"
      BY <1>7 DEF CheckAdded, CheckModified
    <2>4. queue = <<>>
      BY <2>3 DEF Handover
    <2>5. QED
      BY <2>1, <2>2, <2>3, <2>4 DEF Accounting, After
  <1>8. CASE RecordAdded
    <2>1. /\ scan' = [scan EXCEPT !.found["added"] = scan.accepted]
          /\ directoryFiles' = Stamped(directoryFiles, scan.accepted)
          /\ queue' = queue /\ thread = "recordAdded" /\ thread' = "checkModified"
          /\ Present' = Present /\ SessionShows'
      BY <1>8 DEF RecordAdded, Present, SessionShows
    <2>2. Known' = Known \cup scan.accepted
      BY <1>0, <2>1, StampedMap DEF Known
    <2>3. /\ scan'.found["added"] = scan.accepted
          /\ scan'.found["removed"] = scan.found["removed"]
          /\ scan'.found["modified"] = {}
      BY <1>0, <2>1, FoundType DEF Accounting
    <2>4. /\ scan.accepted \cap scan.found["removed"] = {}
          /\ queue = <<>>
          /\ Known = Present \ scan.found["removed"]
      BY <2>1 DEF Freshness, Handover, Accounting, After
    <2>5. QED
      BY <2>1, <2>2, <2>3, <2>4 DEF Accounting, After
  <1>9. CASE RecordModified
    <2>1. /\ scan' = [scan EXCEPT !.found["modified"] = scan.accepted]
          /\ directoryFiles' = Stamped(directoryFiles, scan.accepted)
          /\ queue' = queue /\ thread = "recordModified" /\ thread' = "list"
          /\ Present' = Present /\ SessionShows'
      BY <1>9 DEF RecordModified, Present, SessionShows
    <2>2. Known' = Known \cup scan.accepted
      BY <1>0, <2>1, StampedMap DEF Known
    <2>3. /\ scan'.found["modified"] = scan.accepted
          /\ scan'.found["removed"] = scan.found["removed"]
          /\ scan'.found["added"] = scan.found["added"]
      BY <1>0, <2>1, FoundType
    <2>4. /\ queue = <<>>
          /\ Known = (Present \cup scan.found["added"]) \ scan.found["removed"]
      BY <2>1 DEF Handover, Accounting, After
    <2>5. QED
      BY <2>1, <2>2, <2>3, <2>4 DEF Accounting, After
  <1>10. CASE ListFolder
    <2>1. /\ Known' = Known /\ Present' = Present /\ SessionShows'
          /\ queue' = queue /\ scan' = scan
          /\ thread = "list" /\ thread' = "modified"
      BY <1>10 DEF ListFolder, Known, Present, SessionShows
    <2>2. queue = <<>>
      BY <2>1 DEF Handover
    <2>3. QED
      BY <2>1, <2>2 DEF Accounting, After
  <1>11. CASE FindModifications
    <2>1. PICK R \in SUBSET Known : directoryFiles' = Stamped(directoryFiles, R)
      BY <1>11 DEF FindModifications, Known
    <2>2. Known' = Known
      <3>1. R \in SUBSET Files /\ Known \cup R = Known
        BY <1>0
      <3>2. DOMAIN Stamped(directoryFiles, R) = DOMAIN directoryFiles \cup R
        BY <1>0, <3>1, StampedMap
      <3>3. QED
        BY <2>1, <3>1, <3>2 DEF Known
    <2>3. /\ Present' = Present /\ SessionShows'
          /\ queue' = queue /\ scan' = scan
          /\ thread = "modified" /\ thread' = "publish"
      BY <1>11 DEF FindModifications, Present, SessionShows
    <2>4. queue = <<>>
      BY <2>3 DEF Handover
    <2>5. QED
      BY <2>2, <2>3, <2>4 DEF Accounting, After
  <1>12. CASE Publish
    <2>1. /\ Known' = Known /\ Present' = Present /\ SessionShows'
          /\ thread = "publish" /\ thread' = "poll"
          /\ folderChanges' = scan.found
      BY <1>12 DEF Publish, Known, Present, SessionShows
    <2>2. queue = <<>>
      BY <2>1 DEF Handover
    <2>3. /\ Head(queue') = {c \in Changes : folderChanges'[c] # {}}
          /\ queue' # <<>>
      BY <1>12, <2>1, <2>2 DEF Publish
    <2>4. Known' = After(folderChanges)'
      BY <2>1 DEF Accounting, After
    <2>5. QED
      BY <2>1, <2>3, <2>4 DEF Accounting
  <1>13. CASE OnFolderChanged
    <2> DEFINE event == Head(queue)
    <2>1. queue # <<>> /\ thread = "poll" /\ queue' = <<>> /\ thread' = "poll"
      BY <1>13 DEF OnFolderChanged, Handover, TypeOK
    <2>2. /\ Known = After(folderChanges)
          /\ event = {c \in Changes : folderChanges[c] # {}}
      BY <2>1 DEF Accounting
    <2>3. /\ Known' = Known /\ currentDirectory' = currentDirectory
          /\ storage' = Reported(event)
          /\ sessions' = UpdateMonitoringSession(event)
      BY <1>13 DEF OnFolderChanged, Known
    <2> HIDE DEF event
    <2>4. \A f \in Files :
             storage'[f] = IF f \in folderChanges["modified"] THEN "CF_MODIFIED"
                           ELSE IF f \in folderChanges["removed"] THEN "CF_REMOVED"
                           ELSE IF f \in folderChanges["added"] THEN "CF_NEW"
                           ELSE storage[f]
      BY <1>0, <2>2, <2>3 DEF Reported
    <2>5. Present' = After(folderChanges)
      BY <1>0, <2>4 DEF Present, After
    <2>6. SessionShows'
      <3>1. CASE event = {}
        <4>1. \A c \in Changes : folderChanges[c] = {}
          BY <2>2, <3>1
        <4>2. Present' = Present
          BY <1>0, <2>5, <4>1 DEF After
        <4>3. QED
          BY <2>3, <3>1, <4>2 DEF UpdateMonitoringSession, SessionShows
      <3>2. CASE event # {}
        <4>1. sessions' = [sessions EXCEPT ![currentDirectory] = directoryFiles]
          BY <2>3, <3>2 DEF UpdateMonitoringSession
        <4>2. sessions'[currentDirectory'] = directoryFiles
          BY <2>3, <4>1 DEF TypeOK
        <4>3. QED
          BY <2>2, <2>5, <4>2 DEF SessionShows, Known
      <3>3. QED
        BY <3>1, <3>2
    <2>7. QED
      BY <2>1, <2>2, <2>3, <2>5, <2>6 DEF Accounting
  <1>14. QED
    BY <1>1, <1>2, <1>3, <1>4, <1>5, <1>6, <1>7, <1>8, <1>9, <1>10, <1>11, <1>12,
       <1>13, StepsLeft

(* Stamping notes no stamp that is newer than the clock.  *)
LEMMA StampedBound ==
    ASSUME fs \in [Files -> Stamps], \A f \in Files : fs[f] <= clock,
           NEW map \in FileMaps, \A f \in DOMAIN map : map[f] <= clock,
           NEW S \in SUBSET Files
    PROVE  \A f \in DOMAIN Stamped(map, S) : Stamped(map, S)[f] <= clock
  BY DEF Stamped

(* Taking files out of a map leaves the stamps of the others.  *)
LEMMA WithoutBound ==
    ASSUME NEW map \in FileMaps, \A f \in DOMAIN map : map[f] <= clock, NEW S
    PROVE  \A f \in DOMAIN Without(map, S) : Without(map, S)[f] <= clock
  BY DEF Without, Restrict

(* A file found removed that is written again has a stamp no candidate has.  *)
LEMMA FreshnessStep ==
    ASSUME Undisturbed, TypeOK, Steady, Freshness, [Next]_vars
    PROVE  Freshness'
  <1> USE DEF ThreadStep, files, outside, delivered, control
  <1>0. /\ scan \in LocalsType
        /\ fs \in [Files -> Stamps]
        /\ clock \in Nat
        /\ Stamps \subseteq Nat
        /\ directoryFiles \in FileMaps
        /\ addedCandidates \in FileMaps
        /\ DOMAIN addedCandidates \subseteq Files
        /\ addedCandidates \in [DOMAIN addedCandidates -> Stamps]
        /\ scan.found["removed"] \subseteq Files
        /\ scan.accepted \in SUBSET Files
    BY DomainMap, MonitorAssumption DEF TypeOK, LocalsType, Stamps, Changes
  <1>1. CASE UNCHANGED <<fs, clock, addedCandidates, thread, scan>>
    BY <1>1 DEF Freshness
  <1>2. CASE FileSystem
    <2>1. PICK f \in Files : WriteFile(f) \/ DeleteFile(f)
      BY <1>2 DEF FileSystem
    <2>2. UNCHANGED <<addedCandidates, thread, scan>>
      BY <2>1 DEF WriteFile, DeleteFile, FileChanges
    <2>3. CASE WriteFile(f)
      <3>1. clock' = clock + 1 /\ fs' = [fs EXCEPT ![f] = clock + 1]
        BY <2>3 DEF WriteFile, FileChanges
      <3>2. \A g \in Files : fs'[g] = IF g = f THEN clock + 1 ELSE fs[g]
        BY <1>0, <3>1
      <3>3. \A g \in Files : fs[g] \in Nat
        BY <1>0
      <3>4. \A g \in DOMAIN addedCandidates : addedCandidates[g] \in Nat
        BY <1>0
      <3>5. QED
        BY <1>0, <2>2, <3>1, <3>2, <3>3, <3>4 DEF Freshness
    <2>4. CASE DeleteFile(f)
      <3>1. clock' = clock /\ fs' = [fs EXCEPT ![f] = Missing]
        BY <2>4 DEF DeleteFile, FileChanges
      <3>2. \A g \in Files : fs'[g] = IF g = f THEN Missing ELSE fs[g]
        BY <1>0, <3>1
      <3>3. QED
        BY <1>0, <2>2, <3>1, <3>2 DEF Freshness, Missing
    <2>5. QED
      BY <2>1, <2>3, <2>4
  <1>3. CASE ThreadStarts
    BY <1>3 DEF ThreadStarts, Freshness
  <1>4. CASE BeginScan
    BY <1>4 DEF BeginScan, Freshness
  <1>5. CASE FindRemovals
    <2> DEFINE gone == IF "remove" \in ObservedChanges /\ scan.pending
                       THEN {f \in DOMAIN directoryFiles : fs[f] = Missing} ELSE {}
    <2>1. /\ scan' = [scan EXCEPT !.found["removed"] = gone]
          /\ UNCHANGED <<fs, clock, addedCandidates>> /\ thread' = "checkAdded"
      BY <1>5 DEF FindRemovals
    <2>2. gone \in SUBSET Files /\ \A f \in gone : fs[f] = Missing
      BY <1>0, DomainMap
    <2> HIDE DEF gone
    <2>3. scan'.found["removed"] = gone
      BY <1>0, <2>1, <2>2, FoundType DEF Changes
    <2>4. QED
      BY <2>1, <2>2, <2>3 DEF Freshness
  <1>6. ASSUME NEW rested \in SUBSET Files, CheckAdded(rested)
        PROVE  Freshness'
    <2>1. /\ scan' = [scan EXCEPT !.accepted = Accepted(addedCandidates, rested)]
          /\ addedCandidates' = Stamped(addedCandidates, rested)
          /\ UNCHANGED <<fs, clock>> /\ thread = "checkAdded" /\ thread' = "recordAdded"
          /\ rested \subseteq Rested(addedCandidates)
      BY <1>6 DEF CheckAdded
    <2>2. \A f \in DOMAIN addedCandidates' : addedCandidates'[f] <= clock
      BY <1>0, <2>1, StampedBound DEF Freshness
    <2>3. /\ scan'.accepted = Accepted(addedCandidates, rested)
          /\ scan'.found = scan.found
      BY <1>0, <2>1 DEF LocalsType
    <2>4. Accepted(addedCandidates, rested) \cap scan.found["removed"] = {}
      <3> SUFFICES ASSUME NEW f \in Accepted(addedCandidates, rested),
                          f \in scan.found["removed"]
                   PROVE  FALSE
        OBVIOUS
      <3>1. /\ f \in DOMAIN addedCandidates /\ fs[f] # Missing
            /\ addedCandidates[f] = fs[f]
        BY <2>1 DEF Accepted, Rested
      <3>2. fs[f] \in Nat
        BY <1>0
      <3>3. QED
        BY <2>1, <3>1, <3>2 DEF Freshness
    <2>5. QED
      BY <2>1, <2>2, <2>3, <2>4 DEF Freshness
  <1>7. CASE RecordAdded
    <2>1. \A f \in DOMAIN addedCandidates' : addedCandidates'[f] <= clock
      BY <1>0, <1>7, WithoutBound DEF RecordAdded, Freshness
    <2>2. QED
      BY <1>7, <2>1 DEF RecordAdded, Freshness
  <1>8. ASSUME NEW rested \in SUBSET Files, CheckModified(rested)
        PROVE  Freshness'
    BY <1>8 DEF CheckModified, Freshness
  <1>9. CASE RecordModified
    BY <1>9 DEF RecordModified, Freshness
  <1>10. CASE ListFolder
    <2>1. Unknown(Listed) \in SUBSET Files
      BY DEF Listed, Unknown
    <2>2. \A f \in DOMAIN addedCandidates' : addedCandidates'[f] <= clock
      BY <1>0, <1>10, <2>1, StampedBound DEF ListFolder, Freshness
    <2>3. QED
      BY <1>10, <2>2 DEF ListFolder, Freshness
  <1>11. CASE FindModifications
    BY <1>11 DEF FindModifications, Freshness
  <1>12. CASE Publish
    BY <1>12 DEF Publish, Freshness
  <1>13. CASE OnFolderChanged \/ OnDirectoryChangeNotification \/ ChangeMode
    BY <1>1, <1>13 DEF OnFolderChanged, OnDirectoryChangeNotification, ChangeMode
  <1>14. CASE UNCHANGED vars
    BY <1>1, <1>14 DEF vars
  <1>15. QED
    BY <1>2, <1>3, <1>4, <1>5, <1>6, <1>7, <1>8, <1>9, <1>10, <1>11, <1>12, <1>13,
       <1>14, StepsLeft

(* The first start: nothing is known, shown or on its way.  *)
LEMMA InitInvariant == Init => IInv
  <1> SUFFICES ASSUME Init PROVE IInv
    OBVIOUS
  <1>1. TypeOK
    BY InitType
  <1>2. Steady /\ Handover
    BY DEF Init, Steady, Handover, Scanning
  <1>3. Present = {} /\ Known = {}
    BY DEF Init, Present, Known, NoFiles
  <1>4. Accounting
    BY <1>3 DEF Init, Accounting, Scanning
  <1>5. SessionShows
    BY <1>1, <1>3 DEF Init, SessionShows, NoFiles, TypeOK
  <1>6. Freshness
    BY DEF Init, Freshness, NoFiles, Missing
  <1>7. QED
    BY <1>1, <1>2, <1>4, <1>5, <1>6 DEF IInv

(* While the monitor runs, all of the invariant is kept.  *)
LEMMA Invariant ==
    ASSUME Undisturbed
    PROVE  Spec => []IInv
  <1>1. IInv /\ [Next]_vars => IInv'
    BY TypeStep, SteadyStep, HandoverStep, AccountingStep, FreshnessStep, Undisturbed
    DEF IInv
  <1>2. QED
    BY <1>1, InitInvariant, PTL DEF Spec

(* While the monitor runs, the thread never scans before its last changes are taken, *)
(* so that m_folderChanges and m_directoryFiles are not used by two threads at once. *)
THEOREM HandoverSafe ==
    ASSUME Undisturbed
    PROVE  Spec => []HandoverExclusive
  <1>1. IInv => HandoverExclusive
    BY DEF IInv, Handover, HandoverExclusive, Scanning
  <1>2. QED
    BY <1>1, Invariant, Undisturbed, PTL

(* While the monitor runs, the storage shows what the thread knows after every event.  *)
THEOREM StorageSafe ==
    ASSUME Undisturbed
    PROVE  Spec => []StorageMatchesFiles
  <1>1. IInv => StorageMatchesFiles
    <2> SUFFICES ASSUME IInv, Rest, NEW f \in Files
                 PROVE  storage[f] \in {"CF_NEW", "CF_MODIFIED"} <=> f \in Known
      BY DEF StorageMatchesFiles, Known
    <2>1. Known = Present
      BY DEF IInv, Accounting, Rest
    <2>2. QED
      BY <2>1 DEF Present
  <1>2. QED
    BY <1>1, Invariant, Undisturbed, PTL

(* While the monitor runs, the session names what the thread knows after every event.  *)
THEOREM SessionSafe ==
    ASSUME Undisturbed
    PROVE  Spec => []SessionMatchesFiles
  <1>1. IInv => SessionMatchesFiles
    BY DEF IInv, SessionShows, Accounting, Rest, SessionMatchesFiles, Known
  <1>2. QED
    BY <1>1, Invariant, Undisturbed, PTL
=============================================================================
