----------------------- MODULE ProductionHistoryProofs -----------------------
(***************************************************************************)
(* Proofs about ProductionHistory, for every set of parts, results and     *)
(* files, every size of a chunk and any number of starts: the types; that  *)
(* the events of the reader cover its queue; that the history is complete  *)
(* once the reader is done; and that what it shows is on disk.             *)
(***************************************************************************)
EXTENDS ProductionHistory, SequenceTheorems, TLAPS

-----------------------------------------------------------------------------
(***************************************************************************)
(* The invariant.                                                          *)
(***************************************************************************)

(* The parts the reader may still have in hand when it is not done.  *)
Short == IF reader = "done" THEN 0 ELSE ChunkSize - 1

(* Every event takes a chunk; what they leave is less than one.  *)
QueueCovered == Len(queue) <= ChunkSize * Len(events) + Short

(* A file holds the part it is named after, and a part that was inserted.  *)
FilesOwn ==
    \A f \in Files : disk[f] \in Items => FileOf[disk[f].part] = f /\ disk[f].part \in created

(* What is there in which phase of the component's life.  *)
Phases ==
    /\ saving \subseteq present /\ present \subseteq created
    /\ saving # {} => main \in {"opening", "writing"}
    /\ \A p, q \in saving : p = q
    /\ main = "off" => reader = "off" /\ present = {}
    /\ reader \in {"off", "starting"} => list = {} /\ queue = <<>>
    /\ reader = "done" /\ main # "stopping" => list = {}

(* A file is read once: a queued part is in the queue once, and not listed any more.  *)
ReadOnce ==
    /\ \A k \in 1..Len(queue) :
            /\ queue[k].part \in created
            /\ FileOf[queue[k].part] \notin list
    /\ \A k, l \in 1..Len(queue) : queue[k].part = queue[l].part => k = l

(* A part on disk is in the history, or the reader still has to bring it.  *)
OnItsWay ==
    main \notin {"off", "stopping"} =>
        \A f \in Files : disk[f] \in Items =>
            \/ disk[f].part \in present
            \/ reader = "starting"
            \/ f \in list
            \/ \E k \in 1..Len(queue) : queue[k].part = disk[f].part

(* A part that has a file of its own and is not removed.  *)
Owner(p) == p \notin removed /\ \A q \in Parts \ {p} : FileOf[q] # FileOf[p]

OnDisk(p, d) ==
    /\ disk[FileOf[p]] \in Items
    /\ disk[FileOf[p]].part = p
    /\ d \subseteq disk[FileOf[p]].data

(* What the history shows, and what the reader will show, of such a part.  *)
Shown(p) == p \in present \ saving => OnDisk(p, data[p])

Queued(p) ==
    \A k \in 1..Len(queue) : queue[k].part = p =>
        /\ p \in present => queue[k].data \subseteq data[p]
        /\ p \notin present => OnDisk(p, queue[k].data)

ToRead(p) ==
    /\ p \in present
    /\ reader = "starting" \/ FileOf[p] \in list
    /\ disk[FileOf[p]] \in Items
    => disk[FileOf[p]].data \subseteq data[p]

Saved == \A p \in Parts : Owner(p) => Shown(p) /\ Queued(p) /\ ToRead(p)

Facts == FilesOwn /\ Phases /\ ReadOnce /\ OnItsWay /\ Saved

IInv == TypeOK /\ QueueCovered /\ Facts

-----------------------------------------------------------------------------
(* Chunks *)

(* A chunk is the front of the queue.  *)
LEMMA ChunkFacts ==
    ASSUME TypeOK
    PROVE  \E n \in 0..Len(queue) :
             /\ n <= ChunkSize
             /\ n = ChunkSize \/ n = Len(queue)
             /\ Len(Chunk) = n
             /\ Chunk \in Seq(Items)
             /\ \A k \in 1..n : Chunk[k] = queue[k]
             /\ Rest \in Seq(Items)
             /\ Len(Rest) = Len(queue) - n
             /\ \A k \in 1..(Len(queue) - n) : Rest[k] = queue[n + k]
  <1> DEFINE n == IF Len(queue) < ChunkSize THEN Len(queue) ELSE ChunkSize
  <1>0. queue \in Seq(Items)
    BY DEF TypeOK
  <1>1. /\ n \in 0..Len(queue) /\ n <= ChunkSize
        /\ n = ChunkSize \/ n = Len(queue)
    BY <1>0, HistoryAssumption
  <1>2. Chunk = SubSeq(queue, 1, n)
    BY DEF Chunk
  <1> HIDE DEF n
  <1>3. /\ Len(Chunk) = n /\ Chunk \in Seq(Items)
        /\ \A k \in 1..n : Chunk[k] = queue[k]
    BY <1>0, <1>1, <1>2, SubSeqProperties
  <1>4. Rest = SubSeq(queue, n + 1, Len(queue))
    BY <1>3 DEF Rest
  <1>5. /\ Rest \in Seq(Items) /\ Len(Rest) = Len(queue) - n
        /\ \A k \in 1..(Len(queue) - n) : Rest[k] = queue[n + k]
    BY <1>0, <1>1, <1>4, SubSeqProperties
  <1>6. QED
    BY <1>1, <1>3, <1>5

(* What the delivery of a chunk makes of the history: a part is in a chunk only once.  *)
LEMMA Delivered ==
    ASSUME TypeOK, ReadOnce, OnHistoryChunkReady
    PROVE  \E n \in 0..Len(queue) :
             /\ n <= ChunkSize
             /\ n = ChunkSize \/ n = Len(queue)
             /\ queue' \in Seq(Items)
             /\ Len(queue') = Len(queue) - n
             /\ \A k \in 1..Len(queue') : n + k \in 1..Len(queue) /\ queue'[k] = queue[n + k]
             /\ present' = present \cup {p \in Parts : \E k \in 1..n : queue[k].part = p}
             /\ data' \in [Parts -> SUBSET Entries]
             /\ \A p \in Parts :
                    \/ data'[p] = data[p] /\ \A k \in 1..n : queue[k].part # p
                    \/ \E k \in 1..n : queue[k].part = p /\ data'[p] = queue[k].data
  <1>0. queue \in Seq(Items) /\ data \in [Parts -> SUBSET Entries]
    BY DEF TypeOK
  <1>1. PICK n \in 0..Len(queue) :
             /\ n <= ChunkSize
             /\ n = ChunkSize \/ n = Len(queue)
             /\ Len(Chunk) = n
             /\ Chunk \in Seq(Items)
             /\ \A k \in 1..n : Chunk[k] = queue[k]
             /\ Rest \in Seq(Items)
             /\ Len(Rest) = Len(queue) - n
             /\ \A k \in 1..(Len(queue) - n) : Rest[k] = queue[n + k]
    BY ChunkFacts
  <1>2. \A p : InChunk(p) = {k \in 1..n : queue[k].part = p}
    BY <1>1 DEF InChunk
  <1>3. present' = present \cup {p \in Parts : \E k \in 1..n : queue[k].part = p}
    BY <1>2 DEF OnHistoryChunkReady
  <1>4. queue' = Rest
    BY DEF OnHistoryChunkReady
  <1>5. /\ queue' \in Seq(Items) /\ Len(queue') = Len(queue) - n
        /\ \A k \in 1..Len(queue') : n + k \in 1..Len(queue) /\ queue'[k] = queue[n + k]
    BY <1>0, <1>1, <1>4
  <1>6. ASSUME NEW p \in Parts, NEW k \in 1..n, queue[k].part = p
        PROVE  data'[p] = queue[k].data
    <2>0. \A j \in 1..n : queue[j].part = p => j = k
      <3>1. ASSUME NEW j \in 1..n, queue[j].part = p PROVE j = k
        <4>1. j \in 1..Len(queue) /\ k \in 1..Len(queue)
          BY <1>0, <1>1
        <4>2. QED
          BY <1>6, <3>1, <4>1 DEF ReadOnce
      <3>2. QED
        BY <3>1
    <2>1. InChunk(p) = {k}
      BY <1>2, <1>6, <2>0
    <2>2. k = CHOOSE i \in InChunk(p) : \A j \in InChunk(p) : j <= i
      BY <2>1
    <2>3. data'[p] = Chunk[k].data
      BY <2>1, <2>2 DEF OnHistoryChunkReady
    <2>4. QED
      BY <1>1, <2>3
  <1>7. ASSUME NEW p \in Parts, \A k \in 1..n : queue[k].part # p
        PROVE  data'[p] = data[p]
    <2>1. InChunk(p) = {}
      BY <1>2, <1>7
    <2>2. QED
      BY <2>1 DEF OnHistoryChunkReady
  <1>8. data' \in [Parts -> SUBSET Entries]
    <2>1. data' = [p \in Parts |-> data'[p]]
      BY DEF OnHistoryChunkReady
    <2>2. ASSUME NEW p \in Parts PROVE data'[p] \in SUBSET Entries
      <3>1. ASSUME NEW k \in 1..n, queue[k].part = p PROVE data'[p] \in SUBSET Entries
        <4>1. queue[k] \in Items
          BY <1>0
        <4>2. QED
          BY <1>6, <3>1, <4>1 DEF Items
      <3>2. QED
        BY <1>0, <1>7, <3>1
    <2>3. QED
      BY <2>1, <2>2
  <1>9. QED
    BY ZenonT(30), <1>1, <1>3, <1>5, <1>6, <1>7, <1>8

-----------------------------------------------------------------------------
(* Types *)

(* What is written is an item, and no item is a damaged file or none.  *)
LEMMA ItemType ==
    ASSUME TypeOK, NEW p \in Parts
    PROVE  Item(p) \in Items /\ Item(p).part = p /\ Item(p).data = data[p]
  BY DEF TypeOK, Item, Items

(* The first start finds no file.  *)
LEMMA InitType == Init => TypeOK
  <1> SUFFICES ASSUME Init PROVE TypeOK
    OBVIOUS
  <1>1. <<>> \in Seq(Items) /\ <<>> \in Seq(BOOLEAN)
    OBVIOUS
  <1>2. queue \in Seq(Items) /\ events \in Seq(BOOLEAN)
    BY <1>1 DEF Init
  <1>3. starts \in 0..MaxStarts
    BY HistoryAssumption DEF Init
  <1>4. data \in [Parts -> SUBSET Entries]
    BY DEF Init, NoEntries
  <1>5. QED
    BY <1>2, <1>3, <1>4 DEF Init, TypeOK

(* The component comes and goes.  *)
LEMMA LifeType ==
    TypeOK /\ (OnComponentCreated \/ RequestInterruption \/ OnComponentDestroyed \/ Crash)
        => TypeOK'
  <1> SUFFICES ASSUME TypeOK, OnComponentCreated \/ RequestInterruption
                                \/ OnComponentDestroyed \/ Crash
               PROVE  TypeOK'
    OBVIOUS
  <1> USE DEF memory, thread
  <1>1. CASE OnComponentCreated
    <2>1. starts' \in 0..MaxStarts
      BY <1>1, HistoryAssumption DEF OnComponentCreated, TypeOK
    <2>2. QED
      BY <1>1, <2>1 DEF OnComponentCreated, TypeOK
  <1>2. CASE RequestInterruption
    BY <1>2 DEF RequestInterruption, TypeOK
  <1>3. CASE Forget
    <2>1. queue' \in Seq(Items) /\ events' \in Seq(BOOLEAN)
      BY <1>3 DEF Forget
    <2>2. data' \in [Parts -> SUBSET Entries]
      BY <1>3 DEF Forget, NoEntries
    <2>3. QED
      BY <1>3, <2>1, <2>2 DEF Forget, TypeOK
  <1>4. QED
    BY <1>1, <1>2, <1>3 DEF OnComponentDestroyed, Crash

(* The reader.  *)
LEMMA ReaderType == TypeOK /\ Reader => TypeOK'
  <1> SUFFICES ASSUME TypeOK, Reader PROVE TypeOK'
    OBVIOUS
  <1> USE DEF memory
  <1>0. queue \in Seq(Items) /\ events \in Seq(BOOLEAN)
    BY DEF TypeOK
  <1>1. CASE CreateFileList
    BY <1>1 DEF CreateFileList, TypeOK
  <1>2. ASSUME NEW f \in Files, ReadFile(f) PROVE TypeOK'
    <2>1. queue' \in Seq(Items)
      BY <1>0, <1>2 DEF ReadFile
    <2>2. events' \in Seq(BOOLEAN)
      <3>1. events' \in {events, Append(events, FALSE)}
        BY <1>2 DEF ReadFile
      <3>2. Append(events, FALSE) \in Seq(BOOLEAN)
        BY <1>0
      <3>3. QED
        BY <1>0, <3>1, <3>2
    <2>3. QED
      BY <1>2, <2>1, <2>2 DEF ReadFile, TypeOK
  <1>3. CASE EndReading
    <2>1. events' \in Seq(BOOLEAN)
      BY <1>0, <1>3 DEF EndReading
    <2>2. QED
      BY <1>3, <2>1 DEF EndReading, TypeOK
  <1>4. QED
    BY <1>1, <1>2, <1>3 DEF Reader

(* The delivery of a chunk.  *)
LEMMA ChunkType == TypeOK /\ ReadOnce /\ OnHistoryChunkReady => TypeOK'
  <1> SUFFICES ASSUME TypeOK, ReadOnce, OnHistoryChunkReady PROVE TypeOK'
    OBVIOUS
  <1>1. queue' \in Seq(Items) /\ data' \in [Parts -> SUBSET Entries]
    BY Delivered
  <1>2. events' \in Seq(BOOLEAN)
    <2>1. events \in Seq(BOOLEAN) /\ events # <<>> /\ events' = Tail(events)
      BY DEF OnHistoryChunkReady, TypeOK
    <2>2. QED
      BY <2>1, HeadTailProperties
  <1>3. present' \in SUBSET Parts
    BY DEF OnHistoryChunkReady, TypeOK
  <1>4. QED
    BY <1>1, <1>2, <1>3 DEF OnHistoryChunkReady, TypeOK

(* The operations.  *)
LEMMA OperationType == TypeOK /\ Operation => TypeOK'
  <1> SUFFICES ASSUME TypeOK, Operation PROVE TypeOK'
    OBVIOUS
  <1> USE DEF memory, thread
  <1>1. ASSUME NEW p \in Parts, InsertNewProductionPart(p) PROVE TypeOK'
    BY <1>1 DEF InsertNewProductionPart, BeginSave, TypeOK
  <1>2. ASSUME NEW p \in Parts, NEW e \in Entries, InsertEntry(p, e) PROVE TypeOK'
    <2>1. data' \in [Parts -> SUBSET Entries]
      BY <1>2 DEF InsertEntry, TypeOK
    <2>2. QED
      BY <1>2, <2>1 DEF InsertEntry, BeginSave, TypeOK
  <1>3. ASSUME NEW p \in Parts, RemoveProductionPart(p) PROVE TypeOK'
    <2>1. data' \in [Parts -> SUBSET Entries]
      BY <1>3 DEF RemoveProductionPart, TypeOK
    <2>2. disk' \in [Files -> Items \cup {NoFile, Damaged}]
      BY <1>3 DEF RemoveProductionPart, TypeOK
    <2>3. QED
      BY <1>3, <2>1, <2>2 DEF RemoveProductionPart, TypeOK
  <1>4. \A r \in Results : r \in Entries /\ Object(r) \in Entries
    BY DEF Entries
  <1>5. QED
    BY <1>1, <1>2, <1>3, <1>4
    DEF Operation, InsertNewInspectionResult, InsertResultObject

(* Saving.  *)
LEMMA SaveType == TypeOK /\ Save => TypeOK'
  <1> SUFFICES ASSUME TypeOK, Save PROVE TypeOK'
    OBVIOUS
  <1> USE DEF memory, thread
  <1>1. CASE OpenFile
    <2>1. disk' \in [Files -> Items \cup {NoFile, Damaged}]
      BY <1>1 DEF OpenFile, TypeOK
    <2>2. QED
      BY <1>1, <2>1 DEF OpenFile, TypeOK
  <1>2. ASSUME NEW p \in Parts, WriteFile(p) PROVE TypeOK'
    <2>1. Item(p) \in Items
      BY ItemType
    <2>2. disk' \in [Files -> Items \cup {NoFile, Damaged}]
      BY <1>2, <2>1 DEF WriteFile, TypeOK
    <2>3. QED
      BY <1>2, <2>2 DEF WriteFile, TypeOK
  <1>3. QED
    BY <1>1, <1>2 DEF Save

(* Every step.  *)
LEMMA TypeStep == TypeOK /\ ReadOnce /\ [Next]_vars => TypeOK'
  <1>1. TypeOK /\ UNCHANGED vars => TypeOK'
    BY DEF vars, memory, thread, TypeOK
  <1>2. QED
    BY <1>1, LifeType, ReaderType, ChunkType, OperationType, SaveType DEF Next

-----------------------------------------------------------------------------
(* The queue and its events *)

(* One event more covers one chunk more.  *)
LEMMA OneMore ==
    ASSUME NEW c \in Nat, NEW n \in Nat
    PROVE  c * (n + 1) = c * n + c /\ c * n \in Nat
  OBVIOUS

(* The reader announces what it queues.  *)
LEMMA CoveredReader == TypeOK /\ QueueCovered /\ Phases /\ Reader => QueueCovered'
  <1> SUFFICES ASSUME TypeOK, QueueCovered, Phases, Reader PROVE QueueCovered'
    OBVIOUS
  <1>0. /\ queue \in Seq(Items) /\ events \in Seq(BOOLEAN)
        /\ Len(queue) \in Nat /\ Len(events) \in Nat
        /\ ChunkSize \in Nat \ {0}
        /\ ChunkSize * (Len(events) + 1) = ChunkSize * Len(events) + ChunkSize
        /\ ChunkSize * Len(events) \in Nat
    BY HistoryAssumption, OneMore DEF TypeOK
  <1>1. CASE CreateFileList
    BY <1>0, <1>1 DEF CreateFileList, QueueCovered, Short
  <1>2. ASSUME NEW f \in Files, ReadFile(f) PROVE QueueCovered'
    <2>0. reader = "reading" /\ reader' = "reading"
      BY <1>2 DEF ReadFile
    <2>1. Len(queue) <= ChunkSize * Len(events) + ChunkSize - 1
      BY <1>0, <2>0 DEF QueueCovered, Short
    <2>2. CASE disk[f] \in Items
      <3>1. Len(queue') = Len(queue) + 1
        BY <1>0, <1>2, <2>2 DEF ReadFile
      <3>2. CASE Len(queue') >= ChunkSize
        <4>1. Len(events') = Len(events) + 1
          BY <1>0, <1>2, <2>2, <3>2 DEF ReadFile
        <4>2. Len(queue') <= ChunkSize * (Len(events) + 1) + ChunkSize - 1
          BY <1>0, <2>1, <3>1
        <4>3. QED
          BY <1>0, <2>0, <4>1, <4>2 DEF QueueCovered, Short
      <3>3. CASE ~(Len(queue') >= ChunkSize)
        <4>1. events' = events
          BY <1>2, <3>3 DEF ReadFile
        <4>2. Len(queue') <= ChunkSize * Len(events) + ChunkSize - 1
          BY <1>0, <3>1, <3>3
        <4>3. QED
          BY <1>0, <2>0, <4>1, <4>2 DEF QueueCovered, Short
      <3>4. QED
        BY <3>2, <3>3
    <2>3. CASE disk[f] \notin Items
      BY <1>2, <2>0, <2>3 DEF ReadFile, QueueCovered, Short
    <2>4. QED
      BY <2>2, <2>3
  <1>3. CASE EndReading
    <2>1. /\ reader = "reading" /\ reader' = "done" /\ queue' = queue
          /\ Len(events') = Len(events) + 1
      BY <1>0, <1>3 DEF EndReading
    <2>2. Len(queue) <= ChunkSize * Len(events) + ChunkSize - 1
      BY <1>0, <2>1 DEF QueueCovered, Short
    <2>3. Len(queue) <= ChunkSize * (Len(events) + 1)
      BY <1>0, <2>2
    <2>4. QED
      BY <1>0, <2>1, <2>3 DEF QueueCovered, Short
  <1>4. QED
    BY <1>1, <1>2, <1>3 DEF Reader

(* A delivered event takes a chunk with it.  *)
LEMMA CoveredChunk ==
    TypeOK /\ ReadOnce /\ QueueCovered /\ OnHistoryChunkReady => QueueCovered'
  <1> SUFFICES ASSUME TypeOK, ReadOnce, QueueCovered, OnHistoryChunkReady PROVE QueueCovered'
    OBVIOUS
  <1>1. PICK n \in 0..Len(queue) :
             /\ n = ChunkSize \/ n = Len(queue)
             /\ Len(queue') = Len(queue) - n
    BY Delivered
  <1>2. /\ Len(queue) \in Nat
        /\ Len(events) \in Nat \ {0}
        /\ Len(events') = Len(events) - 1
        /\ ChunkSize \in Nat \ {0}
    BY HistoryAssumption, HeadTailProperties DEF OnHistoryChunkReady, TypeOK
  <1>3. PICK e \in Nat : e = Len(events') /\ Len(events) = e + 1
    BY <1>2
  <1>4. /\ ChunkSize * Len(events) = ChunkSize * e + ChunkSize
        /\ ChunkSize * e \in Nat
    BY <1>2, <1>3, OneMore
  <1>5. reader' = reader /\ Short \in Nat /\ Short' = Short
    BY <1>2 DEF OnHistoryChunkReady, Short
  <1>6. Len(queue) <= ChunkSize * e + ChunkSize + Short
    BY <1>4 DEF QueueCovered
  <1>7. Len(queue') <= ChunkSize * e + Short
    BY <1>1, <1>2, <1>4, <1>5, <1>6
  <1>8. QED
    BY <1>3, <1>5, <1>7 DEF QueueCovered

(* The rest leaves the queue alone, or empties it.  *)
LEMMA CoveredStep ==
    TypeOK /\ ReadOnce /\ Phases /\ QueueCovered /\ [Next]_vars => QueueCovered'
  <1> SUFFICES ASSUME TypeOK, ReadOnce, Phases, QueueCovered, [Next]_vars PROVE QueueCovered'
    OBVIOUS
  <1>1. CASE OnComponentCreated
    <2>1. queue' = queue /\ events' = events /\ reader = "off" /\ reader' = "starting"
      BY <1>1 DEF OnComponentCreated, Phases
    <2>2. QED
      BY <2>1 DEF QueueCovered, Short
  <1>2. CASE OnComponentDestroyed \/ Crash
    <2>1. Len(queue') = 0 /\ Len(events') = 0 /\ reader' = "off"
      BY <1>2 DEF OnComponentDestroyed, Crash, Forget
    <2>2. ChunkSize * 0 = 0 /\ ChunkSize \in Nat \ {0}
      BY HistoryAssumption
    <2>3. QED
      BY <2>1, <2>2 DEF QueueCovered, Short
  <1>3. CASE RequestInterruption \/ Operation \/ Save \/ UNCHANGED vars
    <2>1. UNCHANGED <<queue, events, reader>>
      BY <1>3 DEF RequestInterruption, Operation, InsertNewProductionPart, InsertEntry,
                  InsertNewInspectionResult, InsertResultObject, RemoveProductionPart, Save,
                  OpenFile, WriteFile, vars, thread
    <2>2. QED
      BY <2>1 DEF QueueCovered, Short
  <1>4. QED
    BY <1>1, <1>2, <1>3, CoveredReader, CoveredChunk DEF Next

-----------------------------------------------------------------------------
(* Steps that leave files, history and queue alone *)

(* The main thread asks the reader to stop.  *)
LEMMA FactsInterruption ==
    ASSUME Facts, RequestInterruption
    PROVE  Facts'
  <1>0. /\ UNCHANGED <<disk, present, data, saving, list, queue, reader, created, removed>>
        /\ main = "idle" /\ main' = "stopping"
    BY DEF RequestInterruption, memory, thread
  <1>1. FilesOwn' /\ ReadOnce' /\ Saved'
    BY <1>0 DEF Facts, FilesOwn, ReadOnce, Saved, Owner, Shown, Queued, ToRead, OnDisk
  <1>2. Phases' /\ OnItsWay'
    BY <1>0 DEF Facts, Phases, OnItsWay
  <1>3. QED
    BY <1>1, <1>2 DEF Facts

(* The component starts with an empty history; everything is still to be read.  *)
LEMMA FactsCreated ==
    ASSUME Facts, OnComponentCreated
    PROVE  Facts'
  <1>0. /\ UNCHANGED <<disk, present, data, saving, list, queue, created, removed>>
        /\ main = "off" /\ main' = "idle" /\ reader' = "starting"
    BY DEF OnComponentCreated, memory
  <1>1. present = {} /\ saving = {} /\ list = {} /\ queue = <<>> /\ Len(queue) = 0
    BY <1>0 DEF Facts, Phases
  <1>2. FilesOwn' /\ Phases' /\ ReadOnce' /\ OnItsWay'
    BY <1>0, <1>1 DEF Facts, FilesOwn, Phases, ReadOnce, OnItsWay
  <1>3. Saved'
    BY <1>0, <1>1 DEF Saved, Shown, Queued, ToRead
  <1>4. QED
    BY <1>2, <1>3 DEF Facts

(* The component goes, with its history and what was on its way.  *)
LEMMA FactsForgotten ==
    ASSUME Facts, Forget
    PROVE  Facts'
  <1>0. /\ UNCHANGED <<disk, created>>
        /\ present' = {} /\ saving' = {} /\ list' = {} /\ queue' = <<>> /\ Len(queue') = 0
        /\ main' = "off" /\ reader' = "off"
    BY DEF Forget
  <1>1. FilesOwn' /\ Phases' /\ ReadOnce' /\ OnItsWay'
    BY <1>0 DEF Facts, FilesOwn, Phases, ReadOnce, OnItsWay
  <1>2. Saved'
    BY <1>0 DEF Saved, Shown, Queued, ToRead
  <1>3. QED
    BY <1>1, <1>2 DEF Facts

-----------------------------------------------------------------------------
(* The reader *)

(* The files are listed.  *)
LEMMA FactsListed ==
    ASSUME TypeOK, Facts, CreateFileList
    PROVE  Facts'
  <1>0. /\ UNCHANGED <<disk, present, data, saving, main, queue, created, removed>>
        /\ reader = "starting" /\ reader' = "reading"
        /\ list' = {f \in Files : disk[f] # NoFile}
    BY DEF CreateFileList, memory
  <1>1. queue = <<>> /\ Len(queue) = 0
    BY <1>0 DEF Facts, Phases
  <1>2. FilesOwn' /\ Phases' /\ ReadOnce'
    BY <1>0, <1>1 DEF Facts, FilesOwn, Phases, ReadOnce
  <1>3. OnItsWay'
    BY <1>0, HistoryAssumption DEF OnItsWay
  <1>4. Saved'
    BY <1>0, <1>1 DEF Facts, Saved, Owner, Shown, Queued, ToRead, OnDisk
  <1>5. QED
    BY <1>2, <1>3, <1>4 DEF Facts

(* A file is read.  *)
LEMMA FactsRead ==
    ASSUME TypeOK, Facts, NEW f \in Files, ReadFile(f)
    PROVE  Facts'
  <1>0. /\ UNCHANGED <<disk, present, data, saving, main, created, removed>>
        /\ reader = "reading" /\ reader' = "reading"
        /\ f \in list /\ list' = list \ {f}
        /\ queue \in Seq(Items) /\ FileOf \in [Parts -> Files]
    BY HistoryAssumption DEF ReadFile, memory, TypeOK
  <1>1. FilesOwn' /\ Phases'
    BY <1>0 DEF Facts, FilesOwn, Phases
  <1>2. CASE disk[f] \notin Items
    <2>1. queue' = queue
      BY <1>2 DEF ReadFile
    <2>2. ReadOnce' /\ OnItsWay'
      BY <1>0, <1>2, <2>1 DEF Facts, ReadOnce, OnItsWay
    <2>3. Saved'
      BY <1>0, <2>1 DEF Facts, Saved, Owner, Shown, Queued, ToRead, OnDisk
    <2>4. QED
      BY <1>1, <2>2, <2>3 DEF Facts
  <1>3. CASE disk[f] \in Items
    <2>1. /\ queue' = Append(queue, disk[f])
          /\ Len(queue) \in Nat /\ Len(queue') = Len(queue) + 1
          /\ queue'[Len(queue) + 1] = disk[f]
          /\ \A k \in 1..Len(queue) : queue'[k] = queue[k]
          /\ \A k \in 1..Len(queue') : k \in 1..Len(queue) \/ k = Len(queue) + 1
      BY <1>0, <1>3 DEF ReadFile
    <2>2. PICK p \in Parts : disk[f].part = p /\ FileOf[p] = f /\ p \in created
      BY <1>3 DEF Facts, FilesOwn, Items
    <2>3. \A k \in 1..Len(queue) : queue[k].part # p
      BY <1>0, <2>2 DEF Facts, ReadOnce
    <2>4. ReadOnce'
      <3>1. ASSUME NEW k \in 1..Len(queue')
            PROVE  queue'[k].part \in created' /\ FileOf[queue'[k].part] \notin list'
        BY <1>0, <2>1, <2>2 DEF Facts, ReadOnce
      <3>2. ASSUME NEW k \in 1..Len(queue'), NEW l \in 1..Len(queue'),
                   queue'[k].part = queue'[l].part
            PROVE  k = l
        BY <2>1, <2>2, <2>3, <3>2 DEF Facts, ReadOnce
      <3>3. QED
        BY <3>1, <3>2 DEF ReadOnce
    <2>5. OnItsWay'
      <3>1. ASSUME main \notin {"off", "stopping"}, NEW g \in Files, disk[g] \in Items
            PROVE  \/ disk[g].part \in present
                   \/ g \in list'
                   \/ \E k \in 1..Len(queue') : queue'[k].part = disk[g].part
        <4>1. CASE g = f
          BY <2>1, <2>2, <4>1
        <4>2. CASE g # f
          <5>1. \/ disk[g].part \in present
                \/ g \in list
                \/ \E k \in 1..Len(queue) : queue[k].part = disk[g].part
            BY <1>0, <3>1 DEF Facts, OnItsWay
          <5>2. 1..Len(queue) \subseteq 1..Len(queue')
            BY <2>1
          <5>3. QED
            BY <1>0, <2>1, <4>2, <5>1, <5>2
        <4>3. QED
          BY <4>1, <4>2
      <3>2. QED
        BY <1>0, <3>1 DEF OnItsWay
    <2>6. ASSUME NEW q \in Parts, Owner(q)'
          PROVE  Shown(q)' /\ Queued(q)' /\ ToRead(q)'
      <3>1. Owner(q) /\ Shown(q) /\ Queued(q) /\ ToRead(q)
        BY <1>0, <2>6 DEF Facts, Saved, Owner
      <3>2. Shown(q)' /\ ToRead(q)'
        BY <1>0, <3>1 DEF Shown, ToRead, OnDisk
      <3>3. ASSUME NEW k \in 1..Len(queue'), queue'[k].part = q
            PROVE  /\ q \in present => queue'[k].data \subseteq data[q]
                   /\ q \notin present => OnDisk(q, queue'[k].data)
        <4>1. CASE k \in 1..Len(queue)
          BY <2>1, <3>1, <3>3, <4>1 DEF Queued
        <4>2. CASE k = Len(queue) + 1
          <5>1. q = p /\ queue'[k] = disk[f]
            BY <2>1, <2>2, <3>3, <4>2
          <5>2. QED
            BY <1>0, <1>3, <2>2, <3>1, <5>1 DEF ToRead, OnDisk
        <4>3. QED
          BY <2>1, <4>1, <4>2
      <3>4. Queued(q)'
        BY <1>0, <3>3 DEF Queued, OnDisk
      <3>5. QED
        BY <3>2, <3>4
    <2>7. QED
      BY <1>1, <2>4, <2>5, <2>6 DEF Facts, Saved
  <1>4. QED
    BY <1>2, <1>3

(* The reader ends.  *)
LEMMA FactsEnded ==
    ASSUME Facts, EndReading
    PROVE  Facts'
  <1>0. /\ UNCHANGED <<disk, present, data, saving, main, list, queue, created, removed>>
        /\ reader = "reading" /\ reader' = "done"
        /\ list = {} \/ main = "stopping"
    BY DEF EndReading, memory
  <1>1. FilesOwn' /\ Phases' /\ ReadOnce' /\ OnItsWay'
    BY <1>0 DEF Facts, FilesOwn, Phases, ReadOnce, OnItsWay
  <1>2. Saved'
    BY <1>0 DEF Facts, Saved, Owner, Shown, Queued, ToRead, OnDisk
  <1>3. QED
    BY <1>1, <1>2 DEF Facts

-----------------------------------------------------------------------------
(* The history *)

(* A chunk is delivered.  *)
LEMMA FactsDelivered ==
    ASSUME TypeOK, Facts, OnHistoryChunkReady
    PROVE  Facts'
  <1>0. /\ UNCHANGED <<disk, saving, main, reader, list, created, removed>>
        /\ main = "idle" /\ saving = {}
        /\ queue \in Seq(Items) /\ Len(queue) \in Nat
    BY DEF OnHistoryChunkReady, Facts, Phases, TypeOK
  <1>1. PICK n \in 0..Len(queue) :
             /\ queue' \in Seq(Items)
             /\ Len(queue') = Len(queue) - n
             /\ \A k \in 1..Len(queue') : n + k \in 1..Len(queue) /\ queue'[k] = queue[n + k]
             /\ present' = present \cup {p \in Parts : \E k \in 1..n : queue[k].part = p}
             /\ \A p \in Parts :
                    \/ data'[p] = data[p] /\ \A k \in 1..n : queue[k].part # p
                    \/ \E k \in 1..n : queue[k].part = p /\ data'[p] = queue[k].data
    BY Delivered DEF Facts
  <1>2. \A k \in 1..n : k \in 1..Len(queue)
    BY <1>0
  <1>3. \A k \in 1..Len(queue) : k \in 1..n \/ \E j \in 1..Len(queue') : k = n + j
    <2>1. ASSUME NEW k \in 1..Len(queue), k \notin 1..n
          PROVE  k - n \in 1..Len(queue') /\ k = n + (k - n)
      BY <1>0, <1>1, <2>1
    <2>2. QED
      BY <2>1
  <1>4. FilesOwn'
    BY <1>0 DEF Facts, FilesOwn
  <1>5. Phases'
    <2>1. present' \subseteq created
      BY <1>1, <1>2 DEF Facts, Phases, ReadOnce
    <2>2. reader \in {"off", "starting"} => queue' = <<>>
      <3>1. ASSUME reader \in {"off", "starting"} PROVE Len(queue') = 0
        BY <1>0, <1>1, <3>1 DEF Facts, Phases
      <3>2. QED
        BY <1>1, <3>1
    <2>3. QED
      BY <1>0, <2>1, <2>2 DEF Facts, Phases
  <1>6. ReadOnce'
    <2>1. ASSUME NEW k \in 1..Len(queue')
          PROVE  queue'[k].part \in created' /\ FileOf[queue'[k].part] \notin list'
      BY <1>0, <1>1 DEF Facts, ReadOnce
    <2>2. ASSUME NEW k \in 1..Len(queue'), NEW l \in 1..Len(queue'),
                 queue'[k].part = queue'[l].part
          PROVE  k = l
      <3>1. n + k = n + l
        BY SMTT(30), <1>1, <2>2 DEF Facts, ReadOnce
      <3>2. QED
        BY <1>0, <3>1
    <2>3. QED
      BY <2>1, <2>2 DEF ReadOnce
  <1>7. OnItsWay'
    <2>1. ASSUME NEW f \in Files, disk[f] \in Items
          PROVE  \/ disk[f].part \in present'
                 \/ reader = "starting" \/ f \in list
                 \/ \E k \in 1..Len(queue') : queue'[k].part = disk[f].part
      <3>1. \/ disk[f].part \in present
            \/ reader = "starting" \/ f \in list
            \/ \E k \in 1..Len(queue) : queue[k].part = disk[f].part
        BY <1>0, <2>1 DEF Facts, OnItsWay
      <3>2. ASSUME NEW k \in 1..Len(queue), queue[k].part = disk[f].part
            PROVE  \/ disk[f].part \in present'
                   \/ \E j \in 1..Len(queue') : queue'[j].part = disk[f].part
        <4>1. CASE k \in 1..n
          <5>1. disk[f].part \in Parts
            BY <2>1 DEF Items
          <5>2. QED
            BY <1>1, <3>2, <4>1, <5>1
        <4>2. ASSUME NEW j \in 1..Len(queue'), k = n + j
              PROVE  queue'[j].part = disk[f].part
          BY <1>1, <3>2, <4>2
        <4>3. QED
          BY <1>3, <4>1, <4>2
      <3>3. QED
        BY <1>1, <3>1, <3>2
    <2>2. QED
      BY <1>0, <2>1 DEF OnItsWay
  <1>8. ASSUME NEW p \in Parts, Owner(p)'
        PROVE  Shown(p)' /\ Queued(p)' /\ ToRead(p)'
    <2>1. Owner(p) /\ Shown(p) /\ Queued(p) /\ ToRead(p)
      BY <1>0, <1>8 DEF Facts, Saved, Owner
    <2>2. CASE data'[p] = data[p] /\ \A k \in 1..n : queue[k].part # p
      <3>1. p \in present' <=> p \in present
        BY <1>1, <2>2
      <3>2. Shown(p)' /\ ToRead(p)'
        BY <1>0, <2>1, <2>2, <3>1 DEF Shown, ToRead, OnDisk
      <3>3. ASSUME NEW k \in 1..Len(queue'), queue'[k].part = p
            PROVE  /\ p \in present' => queue'[k].data \subseteq data'[p]
                   /\ p \notin present' => OnDisk(p, queue'[k].data)
        <4>1. n + k \in 1..Len(queue) /\ queue'[k] = queue[n + k]
          BY <1>1
        <4>2. QED
          BY <2>1, <2>2, <3>1, <3>3, <4>1 DEF Queued
      <3>4. Queued(p)'
        BY <1>0, <3>3 DEF Queued, OnDisk
      <3>5. QED
        BY <3>2, <3>4
    <2>3. ASSUME NEW k \in 1..n, queue[k].part = p, data'[p] = queue[k].data
          PROVE  Shown(p)' /\ Queued(p)' /\ ToRead(p)'
      <3>1. k \in 1..Len(queue)
        BY <1>2
      <3>2. OnDisk(p, data'[p])
        BY <1>0, <2>1, <2>3, <3>1 DEF Queued, Shown, OnDisk
      <3>3. Shown(p)'
        BY <1>0, <3>2 DEF Shown, OnDisk
      <3>4. FileOf[p] \notin list /\ reader # "starting"
        BY <1>0, <2>3, <3>1 DEF Facts, ReadOnce, Phases
      <3>5. \A j \in 1..Len(queue') : queue'[j].part # p
        <4>1. ASSUME NEW j \in 1..Len(queue'), queue'[j].part = p PROVE FALSE
          <5>1. n + j \in 1..Len(queue) /\ queue[n + j].part = queue[k].part
            BY <1>1, <2>3, <4>1
          <5>2. n + j = k
            BY <3>1, <5>1 DEF Facts, ReadOnce
          <5>3. QED
            BY <1>0, <1>1, <5>2
        <4>2. QED
          BY <4>1
      <3>6. QED
        BY <1>0, <3>3, <3>4, <3>5 DEF Queued, ToRead
    <2>4. QED
      BY <1>1, <2>2, <2>3
  <1>9. QED
    BY <1>4, <1>5, <1>6, <1>7, <1>8 DEF Facts, Saved

(* A new part.  *)
LEMMA FactsInserted ==
    ASSUME TypeOK, Facts, NEW p \in Parts, InsertNewProductionPart(p)
    PROVE  Facts'
  <1>0. /\ UNCHANGED <<disk, data, reader, list, queue, removed>>
        /\ main = "idle" /\ main' = "opening" /\ saving' = {p} /\ saving = {}
        /\ p \notin created /\ created' = created \cup {p}
        /\ p \notin present /\ present' = present \cup {p}
    BY DEF InsertNewProductionPart, BeginSave, thread, Facts, Phases
  <1>1. FilesOwn' /\ Phases' /\ ReadOnce'
    BY <1>0 DEF Facts, FilesOwn, Phases, ReadOnce
  <1>2. OnItsWay'
    BY <1>0 DEF Facts, OnItsWay
  <1>3. ASSUME NEW q \in Parts, Owner(q)' PROVE Shown(q)' /\ Queued(q)' /\ ToRead(q)'
    <2>1. Owner(q) /\ Shown(q) /\ Queued(q) /\ ToRead(q)
      BY <1>0, <1>3 DEF Facts, Saved, Owner
    <2>2. CASE q = p
      <3>1. \A k \in 1..Len(queue) : queue[k].part # p
        BY <1>0 DEF Facts, ReadOnce
      <3>2. disk[FileOf[p]] \notin Items
        <4>1. ASSUME disk[FileOf[p]] \in Items PROVE FALSE
          <5>1. disk[FileOf[p]].part \in Parts \ {p}
            BY <1>0, <4>1, HistoryAssumption DEF Facts, FilesOwn, Items
          <5>2. FileOf[disk[FileOf[p]].part] = FileOf[p]
            BY <4>1, HistoryAssumption DEF Facts, FilesOwn
          <5>3. QED
            BY <2>1, <2>2, <5>1, <5>2 DEF Owner
        <4>2. QED
          BY <4>1
      <3>3. QED
        BY <1>0, <2>2, <3>1, <3>2 DEF Shown, Queued, ToRead
    <2>3. CASE q # p
      BY <1>0, <2>1, <2>3 DEF Shown, Queued, ToRead, OnDisk
    <2>4. QED
      BY <2>2, <2>3
  <1>4. QED
    BY <1>1, <1>2, <1>3 DEF Facts, Saved

(* A new entry of a part.  *)
LEMMA FactsExtended ==
    ASSUME TypeOK, Facts, NEW p \in Parts, NEW e \in Entries, InsertEntry(p, e)
    PROVE  Facts'
  <1>0. /\ UNCHANGED <<disk, present, reader, list, queue, created, removed>>
        /\ main = "idle" /\ main' = "opening" /\ saving' = {p} /\ saving = {}
        /\ p \in present
        /\ data' = [data EXCEPT ![p] = @ \cup {e}]
        /\ data \in [Parts -> SUBSET Entries]
    BY DEF InsertEntry, BeginSave, thread, Facts, Phases, TypeOK
  <1>1. FilesOwn' /\ Phases' /\ ReadOnce'
    BY <1>0 DEF Facts, FilesOwn, Phases, ReadOnce
  <1>2. OnItsWay'
    BY <1>0 DEF Facts, OnItsWay
  <1>3. ASSUME NEW q \in Parts, Owner(q)' PROVE Shown(q)' /\ Queued(q)' /\ ToRead(q)'
    <2>1. Owner(q) /\ Shown(q) /\ Queued(q) /\ ToRead(q)
      BY <1>0, <1>3 DEF Facts, Saved, Owner
    <2>2. data[q] \subseteq data'[q] /\ (q # p => data'[q] = data[q])
      BY <1>0
    <2>3. Shown(q)'
      BY <1>0, <2>1, <2>2 DEF Shown, OnDisk
    <2>4. Queued(q)'
      <3>1. ASSUME NEW k \in 1..Len(queue), queue[k].part = q
            PROVE  /\ q \in present => queue[k].data \subseteq data'[q]
                   /\ q \notin present => OnDisk(q, queue[k].data)
        BY <2>1, <2>2, <3>1 DEF Queued
      <3>2. QED
        BY <1>0, <3>1 DEF Queued, OnDisk
    <2>5. ToRead(q)'
      BY <1>0, <2>1, <2>2 DEF ToRead
    <2>6. QED
      BY <2>3, <2>4, <2>5
  <1>4. QED
    BY <1>1, <1>2, <1>3 DEF Facts, Saved

(* A part is removed, with its file.  *)
LEMMA FactsRemoved ==
    ASSUME TypeOK, Facts, NEW p \in Parts, RemoveProductionPart(p)
    PROVE  Facts'
  <1>0. /\ UNCHANGED <<saving, main, reader, list, queue, created>>
        /\ main = "idle" /\ saving = {}
        /\ disk' = [disk EXCEPT ![FileOf[p]] = NoFile]
        /\ disk \in [Files -> Items \cup {NoFile, Damaged}]
        /\ FileOf \in [Parts -> Files]
        /\ NoFile \notin Items
        /\ present' = present \ {p}
        /\ data' = [data EXCEPT ![p] = {}] /\ data \in [Parts -> SUBSET Entries]
        /\ removed' = removed \cup {p}
    BY HistoryAssumption DEF RemoveProductionPart, thread, Facts, Phases, TypeOK
  <1>1. \A f \in Files : disk'[f] \in Items => f # FileOf[p] /\ disk'[f] = disk[f]
    BY <1>0
  <1>2. FilesOwn' /\ Phases' /\ ReadOnce'
    BY <1>0, <1>1 DEF Facts, FilesOwn, Phases, ReadOnce
  <1>3. OnItsWay'
    <2>1. ASSUME NEW f \in Files, disk'[f] \in Items
          PROVE  \/ disk'[f].part \in present'
                 \/ reader = "starting" \/ f \in list
                 \/ \E k \in 1..Len(queue) : queue[k].part = disk'[f].part
      <3>1. disk'[f] = disk[f] /\ disk[f].part # p
        BY <1>1, <2>1 DEF Facts, FilesOwn
      <3>2. QED
        BY <1>0, <2>1, <3>1 DEF Facts, OnItsWay
    <2>2. QED
      BY <1>0, <2>1 DEF OnItsWay
  <1>4. ASSUME NEW q \in Parts, Owner(q)' PROVE Shown(q)' /\ Queued(q)' /\ ToRead(q)'
    <2>1. Owner(q) /\ Shown(q) /\ Queued(q) /\ ToRead(q) /\ q # p
      BY <1>0, <1>4 DEF Facts, Saved, Owner
    <2>2. /\ FileOf[p] # FileOf[q] /\ disk'[FileOf[q]] = disk[FileOf[q]]
          /\ data'[q] = data[q] /\ (q \in present' <=> q \in present)
      BY <1>0, <2>1 DEF Owner
    <2>3. QED
      BY <1>0, <2>1, <2>2 DEF Shown, Queued, ToRead, OnDisk
  <1>5. QED
    BY <1>2, <1>3, <1>4 DEF Facts, Saved

(* The file of a part that is saved is emptied.  *)
LEMMA FactsOpened ==
    ASSUME TypeOK, Facts, OpenFile
    PROVE  Facts'
  <1>0. /\ UNCHANGED <<present, data, saving, reader, list, queue, created, removed>>
        /\ main = "opening" /\ main' = "writing"
        /\ disk' = [f \in Files |-> IF \E p \in saving : FileOf[p] = f THEN Damaged ELSE disk[f]]
        /\ disk \in [Files -> Items \cup {NoFile, Damaged}]
        /\ FileOf \in [Parts -> Files]
        /\ Damaged \notin Items
        /\ saving \subseteq present /\ saving \subseteq Parts
    BY HistoryAssumption DEF OpenFile, memory, thread, Facts, Phases, TypeOK
  <1>1. \A f \in Files : disk'[f] \in Items => disk'[f] = disk[f]
    BY <1>0
  <1>2. FilesOwn' /\ Phases' /\ ReadOnce'
    BY <1>0, <1>1 DEF Facts, FilesOwn, Phases, ReadOnce
  <1>3. OnItsWay'
    BY <1>0, <1>1 DEF Facts, OnItsWay
  <1>4. ASSUME NEW q \in Parts, Owner(q)' PROVE Shown(q)' /\ Queued(q)' /\ ToRead(q)'
    <2>1. Owner(q) /\ Shown(q) /\ Queued(q) /\ ToRead(q)
      BY <1>0, <1>4 DEF Facts, Saved, Owner
    <2>2. q \notin saving => disk'[FileOf[q]] = disk[FileOf[q]]
      <3>1. ASSUME q \notin saving PROVE \A p \in saving : FileOf[p] # FileOf[q]
        BY <1>0, <2>1, <3>1 DEF Owner
      <3>2. QED
        BY <1>0, <3>1
    <2>3. Shown(q)' /\ Queued(q)'
      BY <1>0, <2>1, <2>2 DEF Shown, Queued, OnDisk
    <2>4. ToRead(q)'
      BY <1>0, <1>1, <2>1 DEF ToRead
    <2>5. QED
      BY <2>3, <2>4
  <1>5. QED
    BY <1>2, <1>3, <1>4 DEF Facts, Saved

(* The file is complete.  *)
LEMMA FactsWritten ==
    ASSUME TypeOK, Facts, NEW p \in Parts, WriteFile(p), saving = {p}
    PROVE  Facts'
  <1>0. /\ UNCHANGED <<present, data, reader, list, queue, created, removed>>
        /\ main = "writing" /\ main' = "idle" /\ saving' = {}
        /\ disk' = [disk EXCEPT ![FileOf[p]] = Item(p)]
        /\ disk \in [Files -> Items \cup {NoFile, Damaged}]
        /\ FileOf \in [Parts -> Files]
        /\ p \in present /\ p \in created
        /\ Item(p) \in Items /\ Item(p).part = p /\ Item(p).data = data[p]
    BY HistoryAssumption, ItemType DEF WriteFile, memory, thread, Facts, Phases, TypeOK
  <1>1. \A f \in Files : disk'[f] = IF f = FileOf[p] THEN Item(p) ELSE disk[f]
    BY <1>0
  <1>2. FilesOwn' /\ Phases' /\ ReadOnce'
    BY <1>0, <1>1 DEF Facts, FilesOwn, Phases, ReadOnce
  <1>3. OnItsWay'
    BY <1>0, <1>1 DEF Facts, OnItsWay
  <1>4. ASSUME NEW q \in Parts, Owner(q)' PROVE Shown(q)' /\ Queued(q)' /\ ToRead(q)'
    <2>1. Owner(q) /\ Shown(q) /\ Queued(q) /\ ToRead(q)
      BY <1>0, <1>4 DEF Facts, Saved, Owner
    <2>2. CASE q = p
      <3>1. disk'[FileOf[q]] = Item(p)
        BY <1>0, <2>2
      <3>2. QED
        BY <1>0, <2>1, <2>2, <3>1 DEF Shown, Queued, ToRead, OnDisk
    <2>3. CASE q # p
      <3>1. disk'[FileOf[q]] = disk[FileOf[q]]
        BY <1>0, <1>1, <2>1, <2>3 DEF Owner
      <3>2. QED
        BY <1>0, <2>1, <2>3, <3>1 DEF Shown, Queued, ToRead, OnDisk
    <2>4. QED
      BY <2>2, <2>3
  <1>5. QED
    BY <1>2, <1>3, <1>4 DEF Facts, Saved

(* Every step keeps them.  *)
LEMMA FactsStep == TypeOK /\ Facts /\ [Next]_vars => Facts'
  <1> SUFFICES ASSUME TypeOK, Facts, [Next]_vars PROVE Facts'
    OBVIOUS
  <1>1. CASE Reader
    BY <1>1, FactsListed, FactsRead, FactsEnded DEF Reader
  <1>2. CASE Operation
    <2>1. \A r \in Results : r \in Entries /\ Object(r) \in Entries
      BY DEF Entries
    <2>2. QED
      BY <1>2, <2>1, FactsInserted, FactsExtended, FactsRemoved
      DEF Operation, InsertNewInspectionResult, InsertResultObject
  <1>3. CASE Save
    <2>1. ASSUME NEW p \in Parts, WriteFile(p) PROVE saving = {p}
      BY <2>1 DEF WriteFile, Facts, Phases
    <2>2. QED
      BY <1>3, <2>1, FactsOpened, FactsWritten DEF Save
  <1>4. CASE OnComponentDestroyed \/ Crash
    BY <1>4, FactsForgotten DEF OnComponentDestroyed, Crash
  <1>5. CASE UNCHANGED vars
    <2>1. UNCHANGED <<disk, present, data, saving, main, reader, list, queue, created, removed>>
      BY <1>5 DEF vars, memory, thread
    <2>2. FilesOwn' /\ Phases' /\ ReadOnce' /\ OnItsWay'
      BY <2>1 DEF Facts, FilesOwn, Phases, ReadOnce, OnItsWay
    <2>3. Saved'
      BY <2>1 DEF Facts, Saved, Owner, Shown, Queued, ToRead, OnDisk
    <2>4. QED
      BY <2>2, <2>3 DEF Facts
  <1>6. QED
    BY <1>1, <1>2, <1>3, <1>4, <1>5, FactsCreated, FactsInterruption, FactsDelivered DEF Next

-----------------------------------------------------------------------------
(* Theorems *)

(* The invariant holds at first.  *)
LEMMA InitInv == Init => IInv
  <1> SUFFICES ASSUME Init PROVE IInv
    OBVIOUS
  <1>0. /\ Len(queue) = 0 /\ Len(events) = 0 /\ queue = <<>>
        /\ \A f \in Files : disk[f] \notin Items
    BY HistoryAssumption DEF Init
  <1>1. QueueCovered
    <2>1. ChunkSize * 0 = 0 /\ ChunkSize \in Nat \ {0} /\ reader = "off"
      BY HistoryAssumption DEF Init
    <2>2. QED
      BY <1>0, <2>1 DEF QueueCovered, Short
  <1>2. FilesOwn /\ Phases /\ ReadOnce /\ OnItsWay
    BY <1>0 DEF Init, FilesOwn, Phases, ReadOnce, OnItsWay
  <1>3. Saved
    BY <1>0 DEF Init, Saved, Shown, Queued, ToRead
  <1>4. QED
    BY <1>1, <1>2, <1>3, InitType DEF IInv, Facts

(* Every behaviour keeps the invariant.  *)
LEMMA Invariant == Spec => []IInv
  <1>1. IInv /\ [Next]_vars => IInv'
    BY TypeStep, CoveredStep, FactsStep DEF IInv, Facts
  <1>2. QED
    BY <1>1, InitInv, PTL DEF Spec

(* The files, the history, the reader, its queue and its events are always well formed.  *)
THEOREM TypeCorrect == Spec => []TypeOK
  <1>1. IInv => TypeOK
    BY DEF IInv
  <1>2. QED
    BY <1>1, Invariant, PTL

(* The last event leaves nothing in the queue, whatever the size of a chunk and whenever
   the events are delivered.  *)
LEMMA QueueEmptied == IInv => NothingLeft
  <1> SUFFICES ASSUME IInv, reader = "done", events = <<>> PROVE queue = <<>>
    BY DEF NothingLeft
  <1>1. queue \in Seq(Items) /\ Len(events) = 0
    BY DEF IInv, TypeOK
  <1>2. ChunkSize * 0 = 0
    BY HistoryAssumption
  <1>3. Len(queue) <= 0
    BY <1>1, <1>2 DEF IInv, QueueCovered, Short
  <1>4. QED
    BY <1>1, <1>3

(* No part stays behind in the queue of the reader.  *)
THEOREM NothingLeftSafe == Spec => []NothingLeft
  BY QueueEmptied, Invariant, PTL

(* When the last chunk is delivered, the history has every part that is on disk.  *)
THEOREM CompleteSafe == Spec => []HistoryComplete
  <1>1. IInv => HistoryComplete
    <2> SUFFICES ASSUME IInv, main = "idle", reader = "done", events = <<>>,
                        NEW f \in Files, disk[f] \in Items
                 PROVE  disk[f].part \in present
      BY DEF HistoryComplete
    <2>1. queue = <<>> /\ Len(queue) = 0
      BY QueueEmptied DEF NothingLeft
    <2>2. \/ disk[f].part \in present
          \/ f \in list
      BY <2>1 DEF IInv, Facts, OnItsWay
    <2>3. list = {}
      BY DEF IInv, Facts, Phases
    <2>4. QED
      BY <2>2, <2>3
  <1>2. QED
    BY <1>1, Invariant, PTL

(* What the history shows of a part that has a file of its own is on disk.  *)
THEOREM ShownSafe == Spec => []ShownIsOnDisk
  <1>1. IInv => ShownIsOnDisk
    <2> SUFFICES ASSUME IInv, NEW p \in present \ (removed \cup saving),
                        \A q \in Parts \ {p} : FileOf[q] # FileOf[p]
                 PROVE  OnDisk(p, data[p])
      BY DEF ShownIsOnDisk, OnDisk
    <2>1. p \in Parts /\ Owner(p)
      BY DEF IInv, TypeOK, Owner
    <2>2. QED
      BY <2>1 DEF IInv, Facts, Saved, Shown
  <1>2. QED
    BY <1>1, Invariant, PTL
=============================================================================
