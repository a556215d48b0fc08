------------------------- MODULE ProductionHistory -------------------------
(***************************************************************************)
(* CProductionHistoryComp (Include/iprod): parts and the results of their  *)
(* inspections in memory, one file of the repository folder for each part, *)
(* and CHistoryReader, a thread that reads the files of earlier sessions   *)
(* at start-up and hands them over in chunks, by queued events.  Parts and *)
(* results come while it reads; the program may be closed or crash, and is *)
(* started again.                                                          *)
(*                                                                         *)
(* A part is its UUID and what was inserted for it: results, and objects   *)
(* of results.  FileOf[p] is the name GetItemPath makes of its product and *)
(* of its time in seconds.  Files are listed newest first; here in any     *)
(* order.  The folder exists, loading is not switched off, and files can   *)
(* be written.                                                             *)
(***************************************************************************)
EXTENDS Naturals, Sequences, FiniteSets

CONSTANTS
    Parts,
    Results,
    Files,
    FileOf,
    NoFile, Damaged,    \* contents of a file that is not there, or only begun
    ChunkSize,          \* s_historyChunkSize
    MaxStarts           \* bound: starts of the program

Object(r) == [object |-> r]
Entries == Results \cup {Object(r) : r \in Results}
Items   == [part : Parts, data : SUBSET Entries]

ASSUME HistoryAssumption ==
    /\ FileOf \in [Parts -> Files]
    /\ NoFile \notin Items /\ Damaged \notin Items /\ NoFile # Damaged
    /\ ChunkSize \in Nat \ {0}
    /\ MaxStarts \in Nat \ {0}

VARIABLES
    disk,       \* disk[f]: the contents of the file
    present,    \* parts in m_historyItems
    data,       \* data[p]: the entries of the part there
    saving,     \* the part whose file is being written, in a set
    main,       \* what the main thread is doing
    reader,     \* where the reader thread is
    list,       \* files it has listed and not read
    queue,      \* m_history
    events,     \* HistoryChunkReady events not delivered: lastChunk
    starts,     \* starts so far
    created,    \* parts ever inserted
    removed     \* parts ever removed

memory  == <<present, data>>
thread  == <<reader, list, queue, events>>
vars    == <<disk, memory, saving, main, thread, starts, created, removed>>

Item(p) == [part |-> p, data |-> data[p]]

NoEntries == [p \in Parts |-> {}]

Init ==
    /\ disk = [f \in Files |-> NoFile]
    /\ present = {}
    /\ data = NoEntries
    /\ saving = {}
    /\ main = "off"
    /\ reader = "off"
    /\ list = {}
    /\ queue = <<>> /\ events = <<>>
    /\ starts = 0
    /\ created = {} /\ removed = {}

-----------------------------------------------------------------------------
(***************************************************************************)
(* Starting and ending.  OnComponentDestroyed waits for the thread; chunks *)
(* that are not delivered by then go with the component.                   *)
(***************************************************************************)
OnComponentCreated ==
    /\ main = "off"
    /\ starts < MaxStarts
    /\ starts' = starts + 1
    /\ main' = "idle"
    /\ reader' = "starting"
    /\ UNCHANGED <<disk, memory, saving, list, queue, events, created, removed>>

RequestInterruption ==
    /\ main = "idle"
    /\ main' = "stopping"
    /\ UNCHANGED <<disk, memory, saving, thread, starts, created, removed>>

Forget ==
    /\ present' = {}
    /\ data' = NoEntries
    /\ saving' = {}
    /\ main' = "off"
    /\ reader' = "off"
    /\ list' = {}
    /\ queue' = <<>> /\ events' = <<>>
    /\ UNCHANGED <<disk, starts, created, removed>>

OnComponentDestroyed ==
    /\ main = "stopping"
    /\ reader = "done"
    /\ Forget

Crash ==
    /\ main # "off"
    /\ Forget

-----------------------------------------------------------------------------
(***************************************************************************)
(* CHistoryReader::run.  Reading a file and queueing its part is one step: *)
(* what happens between them may as well happen before the chunk is        *)
(* delivered.  The signal is emitted under the lock of the queue.          *)
(***************************************************************************)
CreateFileList ==
    /\ reader = "starting"
    /\ reader' = "reading"
    /\ list' = {f \in Files : disk[f] # NoFile}
    /\ UNCHANGED <<disk, memory, saving, main, queue, events, starts, created, removed>>

\* Mutant: only the end of reading is announced.
ReadFile_AnnouncesNothing(f) ==
    /\ reader = "reading"
    /\ main # "stopping"
    /\ f \in list
    /\ list' = list \ {f}
    /\ queue' = IF disk[f] \in Items THEN Append(queue, disk[f]) ELSE queue
    /\ UNCHANGED <<disk, memory, saving, main, reader, events, starts, created, removed>>

\* Mutant: a file that cannot be read ends the listing.
ReadFile_BreaksOff(f) ==
    /\ reader = "reading"
    /\ main # "stopping"
    /\ f \in list
    /\ list' = IF disk[f] \in Items THEN list \ {f} ELSE {}
    /\ queue' = IF disk[f] \in Items THEN Append(queue, disk[f]) ELSE queue
    /\ events' = IF disk[f] \in Items /\ Len(queue') >= ChunkSize
                 THEN Append(events, FALSE) ELSE events
    /\ UNCHANGED <<disk, memory, saving, main, reader, starts, created, removed>>

ReadFile(f) ==
    /\ reader = "reading"
    /\ main # "stopping"
    /\ f \in list
    /\ list' = list \ {f}
    /\ queue' = IF disk[f] \in Items THEN Append(queue, disk[f]) ELSE queue
    /\ events' = IF disk[f] \in Items /\ Len(queue') >= ChunkSize
                 THEN Append(events, FALSE) ELSE events
    /\ UNCHANGED <<disk, memory, saving, main, reader, starts, created, removed>>

\* Mutant: the thread waits until everything it has read is taken over.
EndReading_Drained ==
    /\ reader = "reading"
    /\ list = {} \/ main = "stopping"
    /\ queue = <<>>
    /\ reader' = "done"
    /\ events' = Append(events, TRUE)
    /\ UNCHANGED <<disk, memory, saving, main, list, queue, starts, created, removed>>

EndReading ==
    /\ reader = "reading"
    /\ list = {} \/ main = "stopping"
    /\ reader' = "done"
    /\ events' = Append(events, TRUE)
    /\ UNCHANGED <<disk, memory, saving, main, list, queue, starts, created, removed>>

-----------------------------------------------------------------------------
\* GetHistoryChunk
Chunk == SubSeq(queue, 1, IF Len(queue) < ChunkSize THEN Len(queue) ELSE ChunkSize)
\* Mutant: one part too many is dequeued.
Rest_OneTooMany == SubSeq(queue, Len(Chunk) + 2, Len(queue))

Rest == SubSeq(queue, Len(Chunk) + 1, Len(queue))

InChunk(p) == {i \in 1..Len(Chunk) : Chunk[i].part = p}

OnHistoryChunkReady ==
    /\ main = "idle"
    /\ events # <<>>
    /\ events' = Tail(events)
    /\ queue' = Rest
    /\ present' = present \cup {p \in Parts : InChunk(p) # {}}
    /\ data' = [p \in Parts |->
                    IF InChunk(p) = {} THEN data[p]
                    ELSE Chunk[CHOOSE i \in InChunk(p) : \A j \in InChunk(p) : j <= i].data]
    /\ UNCHANGED <<disk, saving, main, reader, list, starts, created, removed>>

(***************************************************************************)
(* The operations.  Each changes the item and then writes the whole of it: *)
(* the file is emptied when it is opened, and complete when it is closed.  *)
(***************************************************************************)
BeginSave(p) ==
    /\ main' = "opening"
    /\ saving' = {p}

InsertNewProductionPart(p) ==
    /\ main = "idle"
    /\ p \notin created
    /\ created' = created \cup {p}
    /\ present' = present \cup {p}
    /\ BeginSave(p)
    /\ UNCHANGED <<disk, data, thread, starts, removed>>

\* Mutant: the item is not saved.
InsertEntry_Unsaved(p, e) ==
    /\ main = "idle"
    /\ p \in present
    /\ e \notin data[p]
    /\ data' = [data EXCEPT ![p] = @ \cup {e}]
    /\ UNCHANGED <<disk, present, saving, main, thread, starts, created, removed>>

InsertEntry(p, e) ==
    /\ main = "idle"
    /\ p \in present
    /\ e \notin data[p]
    /\ data' = [data EXCEPT ![p] = @ \cup {e}]
    /\ BeginSave(p)
    /\ UNCHANGED <<disk, present, thread, starts, created, removed>>

InsertNewInspectionResult(p, r) ==
    /\ Object(r) \notin data[p]
    /\ InsertEntry(p, r)

InsertResultObject(p, r) ==
    /\ r \in data[p]
    /\ InsertEntry(p, Object(r))

OpenFile ==
    /\ main = "opening"
    /\ disk' = [f \in Files |-> IF \E p \in saving : FileOf[p] = f THEN Damaged ELSE disk[f]]
    /\ main' = "writing"
    /\ UNCHANGED <<memory, saving, thread, starts, created, removed>>

WriteFile(p) ==
    /\ main = "writing"
    /\ p \in saving
    /\ disk' = [disk EXCEPT ![FileOf[p]] = Item(p)]
    /\ main' = "idle"
    /\ saving' = {}
    /\ UNCHANGED <<memory, thread, starts, created, removed>>

RemoveProductionPart(p) ==
    /\ main = "idle"
    /\ p \in present
    /\ disk' = [disk EXCEPT ![FileOf[p]] = NoFile]
    /\ present' = present \ {p}
    /\ data' = [data EXCEPT ![p] = {}]
    /\ removed' = removed \cup {p}
    /\ UNCHANGED <<saving, main, thread, starts, created>>

-----------------------------------------------------------------------------
Reader ==
    \/ CreateFileList
    \/ \E f \in Files : ReadFile(f)
    \/ EndReading

Save == OpenFile \/ \E p \in Parts : WriteFile(p)

Operation ==
    \E p \in Parts :
        \/ InsertNewProductionPart(p)
        \/ \E r \in Results : InsertNewInspectionResult(p, r) \/ InsertResultObject(p, r)
        \/ RemoveProductionPart(p)

Next ==
    \/ OnComponentCreated
    \/ RequestInterruption
    \/ OnComponentDestroyed
    \/ Crash
    \/ Reader
    \/ OnHistoryChunkReady
    \/ Operation
    \/ Save

Spec == Init /\ [][Next]_vars

\* The thread runs, the event loop delivers, and a call that has begun ends.
Fairness ==
    /\ WF_vars(Reader)
    /\ WF_vars(OnHistoryChunkReady)
    /\ WF_vars(Save)
    /\ WF_vars(OnComponentDestroyed)

FairSpec == Spec /\ Fairness

-----------------------------------------------------------------------------
TypeOK ==
    /\ disk \in [Files -> Items \cup {NoFile, Damaged}]
    /\ present \in SUBSET Parts
    /\ data \in [Parts -> SUBSET Entries]
    /\ saving \in SUBSET Parts
    /\ main \in {"off", "idle", "opening", "writing", "stopping"}
    /\ reader \in {"off", "starting", "reading", "done"}
    /\ list \in SUBSET Files
    /\ queue \in Seq(Items)
    /\ events \in Seq(BOOLEAN)
    /\ starts \in 0..MaxStarts
    /\ created \in SUBSET Parts
    /\ removed \in SUBSET Parts

\* A chunk takes at most ChunkSize parts from the queue, and an event is emitted
\* only from the ChunkSize-th part on: the last event still finds the queue short
\* enough, and no part stays behind in it.
NothingLeft ==
    reader = "done" /\ events = <<>> => queue = <<>>

\* Once the last chunk is delivered, the history shows every part whose file is
\* intact, be it old, written while the thread was listing, or newer than that.
HistoryComplete ==
    main = "idle" /\ reader = "done" /\ events = <<>> =>
        \A f \in Files : disk[f] \in Items => disk[f].part \in present

\* If no two parts share a file, what the history shows of a part that is not
\* removed is on disk, so that closing the program at any time loses none of it.
ShownIsOnDisk ==
    \A p \in present \ (removed \cup saving) :
        (\A q \in Parts \ {p} : FileOf[q] # FileOf[p]) =>
            /\ disk[FileOf[p]] \in Items
            /\ disk[FileOf[p]].part = p
            /\ data[p] \subseteq disk[FileOf[p]].data

\* A part that is on disk when the program runs comes into the history, unless
\* the program is closed before.
LoadsHistory ==
    \A p \in Parts :
        (main = "idle" /\ \E f \in Files : disk[f] \in Items /\ disk[f].part = p)
            ~> (p \in present \/ main \in {"off", "stopping"})

\* Closing does not wait for ever: the thread sees the interruption.
CloseReturns == main = "stopping" ~> main = "off"

\* "Production history is a container of all data related to the executed
\* inspections for a produced part": what it holds of a part it goes on holding.
HoldsAllData ==
    [][main' # "off" => \A p \in present \cap present' : data[p] \subseteq data'[p]]_vars
=============================================================================
