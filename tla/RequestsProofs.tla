---------------------------- MODULE RequestsProofs ----------------------------
(***************************************************************************)
(* Proofs about Requests, for every set of requests and commands and for   *)
(* any number of connections and nested waits: the types; what a request   *)
(* that is reported as done or as failed stands for; and that the entry a  *)
(* wait points to stays in the map.                                        *)
(***************************************************************************)
EXTENDS Requests, SequenceTheorems, TLAPS

-----------------------------------------------------------------------------
(***************************************************************************)
(* The invariant.                                                          *)
(***************************************************************************)

(* While a side reads, there is something to read.  *)
Reading ==
    /\ serverReading => serverBuffer # <<>>
    /\ clientReading => clientBuffer # <<>>

(* Answers on their way are about what the server has done.  *)
TrueMessage == {Version} \cup {Answer("keepAlive", i) : i \in Ids}
                         \cup {Answer("ok", i) : i \in served}
                         \cup {Answer("error", i) : i \in Ids \ Known}

Truthful ==
    /\ served \subseteq Known
    /\ toClient \in Seq(TrueMessage)
    /\ clientBuffer \in Seq(TrueMessage)

(* What is known of a request by its entry, its object and its report.  *)
Account(i) ==
    /\ state[i] # RS_NONE => i \in used
    /\ state[i] = RS_WAIT => i \notin touched
    /\ state[i] = RS_OK => i \in touched
    /\ state[i] = RS_FAILED => i \notin Known
    /\ i \in touched => i \in served /\ i \in used
    /\ reported[i] = RS_OK => i \in touched
    /\ reported[i] = RS_FAILED => i \notin touched /\ i \in used /\ state[i] = RS_NONE

Accounts == \A i \in Ids : Account(i)

(* Nobody waits twice for a request, and only the outermost wait is for all.  *)
Callers ==
    /\ \A d, e \in 1..Len(waits) : waits[d].id = waits[e].id => d = e
    /\ \A d \in 1..Len(waits) : waits[d].id = All => d = 1

IInv == TypeOK /\ Reading /\ Truthful /\ Accounts /\ Callers /\ WaitersEntryKept

-----------------------------------------------------------------------------
(* Types *)

(* The messages there are.  *)
LEMMA MessageTypes ==
    /\ Version \in ServerMessage /\ Version \in ClientMessage
    /\ \A i \in Ids : Request(i) \in ServerMessage
    /\ \A i \in Ids, k \in {"keepAlive", "ok", "error"} : Answer(k, i) \in ClientMessage
  BY DEF ServerMessage, ClientMessage, Answers

(* The initial state.  *)
LEMMA InitType == Init => TypeOK
  <1> SUFFICES ASSUME Init PROVE TypeOK
    OBVIOUS
  <1>1. \A S : <<>> \in Seq(S)
    OBVIOUS
  <1>2. /\ waits \in Seq(Waits)
        /\ toServer \in Seq(ServerMessage) /\ serverBuffer \in Seq(ServerMessage)
        /\ toClient \in Seq(ClientMessage) /\ clientBuffer \in Seq(ClientMessage)
    BY <1>1 DEF Init
  <1>3. RS_NONE \in RequestStates /\ 0 \in 0..MaxConnections
    BY RequestsAssumption DEF RequestStates, RS_NONE, RS_DAMAGED
  <1>4. state \in [Ids -> RequestStates] /\ reported \in [Ids -> RequestStates]
    BY <1>3 DEF Init
  <1>5. QED
    BY <1>2, <1>3, <1>4 DEF Init, TypeOK

(* The connection.  *)
LEMMA ConnectionType ==
    TypeOK /\ (OnSocketConnected \/ OnSocketDisconnected) => TypeOK'
  <1> SUFFICES ASSUME TypeOK, OnSocketConnected \/ OnSocketDisconnected PROVE TypeOK'
    OBVIOUS
  <1> USE DEF client, server, callers
  <1>1. CASE OnSocketConnected
    <2>1. toServer' \in Seq(ServerMessage) /\ clientBuffer' \in Seq(ClientMessage)
      BY <1>1, MessageTypes DEF OnSocketConnected
    <2>2. connections' \in 0..MaxConnections
      BY <1>1, RequestsAssumption DEF OnSocketConnected, TypeOK
    <2>3. connected' \in BOOLEAN /\ loaded' \in {"none", "part", "foreign"}
      BY <1>1 DEF OnSocketConnected
    <2>4. QED
      BY <1>1, <2>1, <2>2, <2>3 DEF OnSocketConnected, TypeOK
  <1>2. CASE OnSocketDisconnected
    <2>1. /\ toServer' \in Seq(ServerMessage) /\ serverBuffer' \in Seq(ServerMessage)
          /\ toClient' \in Seq(ClientMessage)
      BY <1>2 DEF OnSocketDisconnected
    <2>2. connected' \in BOOLEAN /\ serverReading' \in BOOLEAN
      BY <1>2 DEF OnSocketDisconnected
    <2>3. QED
      BY <1>2, <2>1, <2>2 DEF OnSocketDisconnected, TypeOK
  <1>3. QED
    BY <1>1, <1>2

(* One message read by the server.  *)
LEMMA ServerProcessType ==
    ASSUME TypeOK, NEW answers \in Seq(ClientMessage), NEW isDone \in BOOLEAN,
           serverReading, serverBuffer # <<>>, ServerProcess(answers, isDone),
           served' \in SUBSET Ids
    PROVE  TypeOK'
  <1>1. serverBuffer' \in Seq(ServerMessage)
    BY DEF ServerProcess, TypeOK
  <1>2. toClient' \in Seq(ClientMessage)
    BY ConcatProperties DEF ServerProcess, TypeOK
  <1>3. serverReading' \in BOOLEAN
    BY DEF ServerProcess
  <1>4. QED
    BY <1>1, <1>2, <1>3 DEF ServerProcess, TypeOK, client, callers

(* The server.  *)
LEMMA ServerType == TypeOK /\ Reading /\ Server => TypeOK'
  <1> SUFFICES ASSUME TypeOK, Reading, Server PROVE TypeOK'
    OBVIOUS
  <1>1. ASSUME NEW n \in 0..Len(toServer), ServerReadyRead(n) PROVE TypeOK'
    <2>1. toServer \in Seq(ServerMessage) /\ serverBuffer \in Seq(ServerMessage)
      BY DEF TypeOK
    <2>2. toServer' \in Seq(ServerMessage)
      BY <1>1, <2>1, SubSeqProperties DEF ServerReadyRead
    <2>3. serverBuffer' \in Seq(ServerMessage)
      BY <1>1, <2>1, SubSeqProperties, ConcatProperties DEF ServerReadyRead
    <2>4. serverReading' \in BOOLEAN
      BY <1>1 DEF ServerReadyRead
    <2>5. QED
      BY <1>1, <2>2, <2>3, <2>4 DEF ServerReadyRead, TypeOK, client, callers
  <1>2. CASE ServerVersion
    <2>1. <<Version>> \in Seq(ClientMessage) /\ served' \in SUBSET Ids
      BY <1>2, MessageTypes DEF ServerVersion, TypeOK
    <2>2. QED
      BY <1>2, <2>1, ServerProcessType DEF ServerVersion, Reading
  <1>3. ASSUME NEW i \in Ids, DoResponse(i) \/ FailResponse(i) \/ UnknownCommand(i)
        PROVE  TypeOK'
    <2>1. /\ <<Answer("keepAlive", i), Answer("ok", i)>> \in Seq(ClientMessage)
          /\ <<Answer("keepAlive", i)>> \in Seq(ClientMessage)
          /\ <<Answer("error", i)>> \in Seq(ClientMessage)
      BY MessageTypes
    <2>2. served' \in SUBSET Ids
      BY <1>3 DEF DoResponse, FailResponse, UnknownCommand, TypeOK
    <2>3. serverReading /\ serverBuffer # <<>>
      BY <1>3 DEF DoResponse, FailResponse, UnknownCommand, Reading
    <2>4. CASE DoResponse(i)
      BY <2>1, <2>2, <2>3, <2>4, ServerProcessType DEF DoResponse
    <2>5. CASE FailResponse(i)
      BY <2>1, <2>2, <2>3, <2>5, ServerProcessType DEF FailResponse
    <2>6. CASE UnknownCommand(i)
      BY <2>1, <2>2, <2>3, <2>6, ServerProcessType DEF UnknownCommand
    <2>7. QED
      BY <1>3, <2>4, <2>5, <2>6
  <1>4. QED
    BY <1>1, <1>2, <1>3 DEF Server

(* The client's reading.  *)
LEMMA ReadType == TypeOK /\ Reading /\ ReadMessages => TypeOK'
  <1> SUFFICES ASSUME TypeOK, Reading, ReadMessages PROVE TypeOK'
    OBVIOUS
  <1> USE DEF server, network, callers
  <1>0. toClient \in Seq(ClientMessage) /\ clientBuffer \in Seq(ClientMessage)
    BY DEF TypeOK
  <1>1. ASSUME NEW n \in 0..Len(toClient), NEW part \in BOOLEAN, ClientReadyRead(n, part)
        PROVE  TypeOK'
    <2>1. toClient' \in Seq(ClientMessage)
      BY <1>0, <1>1, SubSeqProperties DEF ClientReadyRead
    <2>2. clientBuffer' \in Seq(ClientMessage)
      BY <1>0, <1>1, SubSeqProperties, ConcatProperties DEF ClientReadyRead
    <2>3. clientReading' \in BOOLEAN /\ loaded' \in {"none", "part", "foreign"}
      BY <1>1 DEF ClientReadyRead
    <2>4. QED
      BY <1>1, <2>1, <2>2, <2>3 DEF ClientReadyRead, TypeOK
  <1>2. ASSUME NEW n \in 0..Len(toClient), ReadForeign(n)
        PROVE  TypeOK'
    <2>1. toClient' \in Seq(ClientMessage)
      BY <1>0, <1>2, SubSeqProperties DEF ReadForeign
    <2>2. loaded' \in {"none", "part", "foreign"}
      BY <1>2 DEF ReadForeign
    <2>3. QED
      BY <1>2, <2>1, <2>2 DEF ReadForeign, TypeOK
  <1>3. ASSUME NEW isDone \in BOOLEAN, clientReading, ClientProcess(isDone),
               state' \in [Ids -> RequestStates], expired' \in SUBSET Ids,
               touched' \in SUBSET Ids
        PROVE  TypeOK'
    <2>1. clientBuffer' \in Seq(ClientMessage)
      BY <1>0, <1>3 DEF ClientProcess, Reading
    <2>2. clientReading' \in BOOLEAN
      BY <1>3 DEF ClientProcess
    <2>3. QED
      BY <1>3, <2>1, <2>2 DEF ClientProcess, TypeOK
  <1>4. ASSUME NEW i \in Ids, OnReceived(i)
        PROVE  TypeOK'
    <2>1. {RS_OK, RS_FAILED, RS_DAMAGED} \subseteq RequestStates
      BY DEF RequestStates, RS_NONE, RS_OK, RS_FAILED, RS_DAMAGED
    <2>2. KeepAlive(i) \/ \E s \in {RS_OK, RS_FAILED, RS_DAMAGED} : Finish(i, s)
      BY <1>4 DEF OnReceived
    <2>3. /\ state' \in [Ids -> RequestStates]
          /\ expired' \in SUBSET Ids /\ touched' \in SUBSET Ids
      BY <2>1, <2>2 DEF KeepAlive, Finish, TypeOK
    <2>4. QED
      BY <1>3, <1>4, <2>3 DEF OnReceived
  <1>5. CASE NotReceived
    BY <1>3, <1>5 DEF NotReceived, TypeOK
  <1>6. QED
    BY <1>1, <1>2, <1>4, <1>5 DEF ReadMessages

(* The validity of a request ends.  *)
LEMMA ExpireType == TypeOK /\ (\E i \in Ids : Expire(i)) => TypeOK'
  BY DEF Expire, TypeOK, server, network, callers

(* The calls of the client's components.  *)
LEMMA CallType == TypeOK /\ Call => TypeOK'
  <1> SUFFICES ASSUME TypeOK, Call PROVE TypeOK'
    OBVIOUS
  <1> USE DEF client, server, network
  <1>1. ASSUME NEW i \in Ids, AddRequest(i) PROVE TypeOK'
    <2>1. toServer' \in Seq(ServerMessage)
      <3>1. toServer \in Seq(ServerMessage) /\ Request(i) \in ServerMessage
        BY MessageTypes DEF TypeOK
      <3>2. QED
        BY <1>1, <3>1 DEF AddRequest
    <2>2. RS_WAIT \in RequestStates
      BY DEF RequestStates, RS_NONE, RS_WAIT, RS_DAMAGED
    <2>3. /\ state' \in [Ids -> RequestStates]
          /\ expired' \in SUBSET Ids /\ used' \in SUBSET Ids
      BY <1>1, <2>2 DEF AddRequest, TypeOK
    <2>4. QED
      BY <1>1, <2>1, <2>3 DEF AddRequest, TypeOK
  <1>2. ASSUME NEW i \in Ids \cup {All}, NEW kill \in BOOLEAN, BeginWait(i, kill)
        PROVE  TypeOK'
    <2> DEFINE new == [id |-> i, kill |-> kill, worst |-> RS_NONE, last |-> FALSE]
    <2>1. new \in Waits
      BY DEF Waits, RequestStates, RS_NONE, RS_DAMAGED
    <2>2. waits \in Seq(Waits) /\ waits' = Append(waits, new)
      BY <1>2 DEF BeginWait, TypeOK
    <2> HIDE DEF new
    <2>3. waits' \in Seq(Waits)
      BY <2>1, <2>2
    <2>4. QED
      BY <1>2, <2>3 DEF BeginWait, TypeOK
  <1>3. QED
    BY <1>1, <1>2 DEF Call, WaitFor, WaitForAll

(* The worst state of the requests that are finished is a state.  *)
LEMMA WorseType ==
    ASSUME state \in [Ids -> RequestStates], NEW s \in RequestStates
    PROVE  Worse(s) \in RequestStates
  <1> DEFINE errors == {state[i] : i \in Finished} \ {RS_OK}
             all == errors \cup {s}
  <1>1. all \subseteq 0..4 /\ s \in all
    BY DEF Finished, RequestStates, RS_NONE, RS_DAMAGED
  <1>2. Worse(s) = CHOOSE w \in all : \A e \in all : e <= w
    BY DEF Worse
  <1> HIDE DEF all
  <1>3. \E w \in all : \A e \in all : e <= w
    BY <1>1
  <1>4. Worse(s) \in all
    BY <1>2, <1>3
  <1>5. QED
    BY <1>1, <1>4 DEF RequestStates, RS_NONE, RS_DAMAGED

(* The innermost wait.  *)
LEMMA TopType ==
    ASSUME TypeOK, waits # <<>>
    PROVE  /\ Len(waits) \in 1..Len(waits)
           /\ Top \in Waits
           /\ SubSeq(waits, 1, Len(waits) - 1) \in Seq(Waits)
  <1>1. waits \in Seq(Waits)
    BY DEF TypeOK
  <1>2. Len(waits) \in 1..Len(waits)
    BY <1>1
  <1>3. QED
    BY <1>1, <1>2, SubSeqProperties DEF Top

(* Requests leave the map.  *)
LEMMA EraseType ==
    ASSUME TypeOK, NEW S \in SUBSET Ids, Erase(S)
    PROVE  state' \in [Ids -> RequestStates] /\ expired' \in SUBSET Ids
  <1>1. RS_NONE \in RequestStates
    BY DEF RequestStates, RS_NONE, RS_DAMAGED
  <1>2. QED
    BY <1>1 DEF Erase, TypeOK

(* The ends of waits.  *)
LEMMA ReturnType == TypeOK /\ ReturnFromWait => TypeOK'
  <1> SUFFICES ASSUME TypeOK, ReturnFromWait PROVE TypeOK'
    OBVIOUS
  <1> USE DEF server, network
  <1>1. ASSUME waits # <<>>, Return, state' \in [Ids -> RequestStates],
               expired' \in SUBSET Ids, reported' \in [Ids -> RequestStates]
        PROVE  TypeOK'
    <2>1. waits' \in Seq(Waits)
      BY <1>1, TopType DEF Return
    <2>2. QED
      BY <1>1, <2>1 DEF Return, TypeOK
  <1>2. ASSUME NEW i \in Ids, ReturnFinished(i) PROVE TypeOK'
    <2>1. state' \in [Ids -> RequestStates] /\ expired' \in SUBSET Ids
      BY <1>2, EraseType DEF ReturnFinished
    <2>2. reported' \in [Ids -> RequestStates]
      BY <1>2 DEF ReturnFinished, TypeOK
    <2>3. QED
      BY <1>1, <1>2, <2>1, <2>2 DEF ReturnFinished, InWait
  <1>3. ASSUME NEW i \in Ids, ReturnTimeout(i) PROVE TypeOK'
    <2>1. state' \in [Ids -> RequestStates] /\ expired' \in SUBSET Ids
      BY <1>3, EraseType DEF ReturnTimeout, TypeOK
    <2>2. RS_FAILED \in RequestStates
      BY DEF RequestStates, RS_NONE, RS_FAILED, RS_DAMAGED
    <2>3. reported' \in [Ids -> RequestStates]
      BY <1>3, <2>2 DEF ReturnTimeout, TypeOK
    <2>4. QED
      BY <1>1, <1>3, <2>1, <2>3 DEF ReturnTimeout, InWait
  <1>4. CASE CollectFinished
    <2>1. state' \in [Ids -> RequestStates] /\ expired' \in SUBSET Ids
      BY <1>4, EraseType DEF CollectFinished, Finished
    <2>2. Len(waits) \in 1..Len(waits) /\ waits[Len(waits)] \in Waits
      BY <1>4, TopType DEF CollectFinished, InWait, Top
    <2>3. PICK w \in RequestStates, l \in BOOLEAN :
             waits' = [waits EXCEPT ![Len(waits)].worst = w, ![Len(waits)].last = l]
      <3>1. Top.worst \in RequestStates
        BY <2>2 DEF Top, Waits
      <3>2. Worse(Top.worst) \in RequestStates
        BY <3>1, WorseType DEF TypeOK
      <3>3. QED
        BY <1>4, <3>2 DEF CollectFinished
    <2>4. waits' \in Seq(Waits)
      <3>1. waits \in Seq(Waits)
        BY DEF TypeOK
      <3>2. [waits[Len(waits)] EXCEPT !.worst = w, !.last = l] \in Waits
        BY <2>2 DEF Waits
      <3>3. waits' = [waits EXCEPT ![Len(waits)] =
                        [waits[Len(waits)] EXCEPT !.worst = w, !.last = l]]
        BY <2>2, <2>3, <3>1
      <3>4. QED
        BY <2>2, <3>1, <3>2, <3>3
    <2>5. QED
      BY <1>4, <2>1, <2>4 DEF CollectFinished, TypeOK
  <1>5. CASE ReturnAll
    BY <1>1, <1>5 DEF ReturnAll, InWait, TypeOK
  <1>6. QED
    BY <1>2, <1>3, <1>4, <1>5 DEF ReturnFromWait

(* Every step.  *)
LEMMA TypeStep == TypeOK /\ Reading /\ [Next]_vars => TypeOK'
  <1> SUFFICES ASSUME TypeOK, Reading, [Next]_vars PROVE TypeOK'
    OBVIOUS
  <1>1. CASE Next
    BY <1>1, ConnectionType, ServerType, ReadType, ExpireType, CallType, ReturnType DEF Next
  <1>2. CASE UNCHANGED vars
    BY <1>2 DEF vars, client, server, network, callers, TypeOK
  <1>3. QED
    BY <1>1, <1>2

-----------------------------------------------------------------------------
(* Reading *)

(* A side that goes on reading has something left to read.  *)
LEMMA ReadingStep == TypeOK /\ Reading /\ [Next]_vars => Reading'
  <1> SUFFICES ASSUME TypeOK, Reading, [Next]_vars PROVE Reading'
    OBVIOUS
  <1> USE DEF client, server, network, callers
  <1>1. CASE OnSocketConnected \/ OnSocketDisconnected
    BY <1>1 DEF Reading, OnSocketConnected, OnSocketDisconnected
  <1>2. CASE Server
    <2>1. ASSUME NEW n \in 0..Len(toServer), ServerReadyRead(n) PROVE Reading'
      BY <2>1 DEF Reading, ServerReadyRead
    <2>2. ASSUME NEW answers, NEW isDone, ServerProcess(answers, isDone) PROVE Reading'
      BY <2>2 DEF Reading, ServerProcess
    <2>3. QED
      BY <1>2, <2>1, <2>2
      DEF Server, ServerVersion, DoResponse, FailResponse, UnknownCommand
  <1>3. CASE ReadMessages
    <2>1. ASSUME NEW n, NEW part, ClientReadyRead(n, part) PROVE Reading'
      BY <2>1 DEF Reading, ClientReadyRead
    <2>2. ASSUME NEW n, ReadForeign(n) PROVE Reading'
      BY <2>2 DEF Reading, ReadForeign
    <2>3. ASSUME NEW isDone, ClientProcess(isDone) PROVE Reading'
      BY <2>3 DEF Reading, ClientProcess
    <2>4. QED
      BY <1>3, <2>1, <2>2, <2>3 DEF ReadMessages, OnReceived, NotReceived
  <1>4. CASE (\E i \in Ids : Expire(i)) \/ Call
    <2>1. UNCHANGED <<server, clientBuffer, clientReading>>
      BY <1>4 DEF Expire, Call, AddRequest, WaitFor, WaitForAll, BeginWait
    <2>2. QED
      BY <2>1 DEF Reading
  <1>5. CASE ReturnFromWait
    <2>1. UNCHANGED <<server, clientBuffer, clientReading>>
      BY <1>5 DEF ReturnFromWait, ReturnFinished, ReturnTimeout, CollectFinished,
                  ReturnAll, Return
    <2>2. QED
      BY <2>1 DEF Reading
  <1>6. CASE UNCHANGED vars
    BY <1>6 DEF Reading, vars
  <1>7. QED
    BY <1>1, <1>2, <1>3, <1>4, <1>5, <1>6 DEF Next

-----------------------------------------------------------------------------
(* Answers *)

(* The server's work only adds to what is true.  *)
LEMMA TruthGrows ==
    ASSUME NEW s \in Seq(TrueMessage), served \subseteq served'
    PROVE  s \in Seq(TrueMessage')
  <1>1. TrueMessage \subseteq TrueMessage'
    BY DEF TrueMessage
  <1>2. QED
    BY <1>1

(* The server answers truthfully.  *)
LEMMA TruthfulServer == TypeOK /\ Truthful /\ Server => Truthful'
  <1> SUFFICES ASSUME TypeOK, Truthful, Server PROVE Truthful'
    OBVIOUS
  <1> USE DEF client, server, callers
  <1>1. ASSUME NEW n \in 0..Len(toServer), ServerReadyRead(n) PROVE Truthful'
    BY <1>1, TruthGrows DEF Truthful, ServerReadyRead
  <1>2. ASSUME NEW answers \in Seq(TrueMessage'), NEW isDone, ServerProcess(answers, isDone),
               served \subseteq served', served' \subseteq Known
        PROVE  Truthful'
    <2>1. toClient \in Seq(TrueMessage') /\ clientBuffer \in Seq(TrueMessage')
      BY <1>2, TruthGrows DEF Truthful
    <2>2. toClient' \in Seq(TrueMessage')
      BY <1>2, <2>1, ConcatProperties DEF ServerProcess
    <2>3. QED
      BY <1>2, <2>1, <2>2 DEF ServerProcess, Truthful
  <1>3. CASE ServerVersion
    <2>1. <<Version>> \in Seq(TrueMessage')
      BY DEF TrueMessage
    <2>2. QED
      BY <1>2, <1>3, <2>1 DEF ServerVersion, Truthful
  <1>4. ASSUME NEW i \in Ids, DoResponse(i) PROVE Truthful'
    <2>1. <<Answer("keepAlive", i), Answer("ok", i)>> \in Seq(TrueMessage')
      BY <1>4 DEF TrueMessage, DoResponse
    <2>2. QED
      BY <1>2, <1>4, <2>1 DEF DoResponse, Truthful
  <1>5. ASSUME NEW i \in Ids, FailResponse(i) PROVE Truthful'
    <2>1. <<Answer("keepAlive", i)>> \in Seq(TrueMessage')
      BY DEF TrueMessage
    <2>2. QED
      BY <1>2, <1>5, <2>1 DEF FailResponse, Truthful
  <1>6. ASSUME NEW i \in Ids, UnknownCommand(i) PROVE Truthful'
    <2>1. <<Answer("error", i)>> \in Seq(TrueMessage')
      BY <1>6 DEF TrueMessage, UnknownCommand
    <2>2. QED
      BY <1>2, <1>6, <2>1 DEF UnknownCommand, Truthful
  <1>7. QED
    BY <1>1, <1>3, <1>4, <1>5, <1>6 DEF Server

(* Nobody else writes answers.  *)
LEMMA TruthfulStep == TypeOK /\ Reading /\ Truthful /\ [Next]_vars => Truthful'
  <1> SUFFICES ASSUME TypeOK, Reading, Truthful, [Next]_vars PROVE Truthful'
    OBVIOUS
  <1> USE DEF client, server, network, callers
  <1>1. ASSUME served' = served, toClient' \in Seq(TrueMessage),
               clientBuffer' \in Seq(TrueMessage)
        PROVE  Truthful'
    BY <1>1, TruthGrows DEF Truthful
  <1>2. CASE OnSocketConnected \/ OnSocketDisconnected
    <2>1. <<>> \in Seq(TrueMessage)
      OBVIOUS
    <2>2. QED
      BY <1>1, <1>2, <2>1 DEF OnSocketConnected, OnSocketDisconnected, Truthful
  <1>3. CASE ReadMessages
    <2>0. toClient \in Seq(TrueMessage) /\ clientBuffer \in Seq(TrueMessage)
      BY DEF Truthful
    <2>1. ASSUME NEW n \in 0..Len(toClient), NEW part, ClientReadyRead(n, part)
          PROVE  Truthful'
      <3>1. toClient' \in Seq(TrueMessage)
        BY <2>0, <2>1, SubSeqProperties DEF ClientReadyRead
      <3>2. clientBuffer' \in Seq(TrueMessage)
        BY <2>0, <2>1, SubSeqProperties, ConcatProperties DEF ClientReadyRead
      <3>3. QED
        BY <1>1, <2>1, <3>1, <3>2 DEF ClientReadyRead
    <2>2. ASSUME NEW n \in 0..Len(toClient), ReadForeign(n) PROVE Truthful'
      <3>1. toClient' \in Seq(TrueMessage)
        BY <2>0, <2>2, SubSeqProperties DEF ReadForeign
      <3>2. QED
        BY <1>1, <2>0, <2>2, <3>1 DEF ReadForeign
    <2>3. ASSUME NEW isDone, clientReading, ClientProcess(isDone) PROVE Truthful'
      <3>1. clientBuffer' \in Seq(TrueMessage)
        BY <2>0, <2>3 DEF ClientProcess, Reading
      <3>2. QED
        BY <1>1, <2>0, <2>3, <3>1 DEF ClientProcess
    <2>4. QED
      BY <1>3, <2>1, <2>2, <2>3 DEF ReadMessages, OnReceived, NotReceived
  <1>4. CASE (\E i \in Ids : Expire(i)) \/ Call \/ ReturnFromWait \/ UNCHANGED vars
    <2>1. served' = served /\ toClient' = toClient /\ clientBuffer' = clientBuffer
      BY <1>4 DEF Expire, Call, AddRequest, WaitFor, WaitForAll, BeginWait, vars,
                  ReturnFromWait, ReturnFinished, ReturnTimeout, CollectFinished, ReturnAll,
                  Return
    <2>2. QED
      BY <1>1, <2>1 DEF Truthful
  <1>5. QED
    BY <1>2, <1>3, <1>4, TruthfulServer DEF Next

-----------------------------------------------------------------------------
(* Requests *)

(* What is read from a true message.  *)
LEMMA TrueAnswer ==
    ASSUME clientBuffer \in Seq(TrueMessage), clientBuffer # <<>>, NEW i
    PROVE  /\ Head(clientBuffer) = Answer("ok", i) => i \in served
           /\ Head(clientBuffer) = Answer("error", i) => i \notin Known
  <1>1. Head(clientBuffer) \in TrueMessage
    OBVIOUS
  <1>2. QED
    BY <1>1 DEF TrueMessage, Version, Answer

(* The states differ.  *)
LEMMA StatesDiffer ==
    /\ RS_NONE # RS_WAIT /\ RS_NONE # RS_OK /\ RS_NONE # RS_FAILED /\ RS_NONE # RS_DAMAGED
    /\ RS_WAIT # RS_OK /\ RS_WAIT # RS_FAILED /\ RS_WAIT # RS_DAMAGED
    /\ RS_OK # RS_FAILED /\ RS_OK # RS_DAMAGED /\ RS_FAILED # RS_DAMAGED
  BY DEF RS_NONE, RS_WAIT, RS_OK, RS_FAILED, RS_DAMAGED

(* The server's work and the network change nothing of a request but what is done.  *)
LEMMA AccountKept ==
    ASSUME Accounts, served \subseteq served',
           UNCHANGED <<state, touched, used, reported>>
    PROVE  Accounts'
  BY DEF Accounts, Account

(* An answer is read.  *)
LEMMA AccountReceived ==
    ASSUME TypeOK, Reading, Truthful, Accounts, NEW i \in Ids, OnReceived(i)
    PROVE  Accounts'
  <1>0. /\ state \in [Ids -> RequestStates]
        /\ UNCHANGED <<served, used, reported>>
        /\ state[i] # RS_NONE
        /\ clientBuffer # <<>>
    BY DEF OnReceived, ClientProcess, TypeOK, Reading, callers, server
  <1>1. ASSUME NEW j \in Ids PROVE Account(j)'
    <2>0. Account(j) /\ Account(i)
      BY DEF Accounts
    <2>1. CASE KeepAlive(i)
      BY <1>0, <2>0, <2>1 DEF Account, KeepAlive
    <2>2. CASE Head(clientBuffer) = Answer("error", i) /\ Finish(i, RS_FAILED)
      <3>1. i \notin Known
        BY <1>0, <2>2, TrueAnswer DEF Truthful
      <3>2. i \notin touched
        BY <2>0, <3>1 DEF Account, Truthful
      <3>3. state' = [state EXCEPT ![i] = RS_FAILED] /\ touched' = touched
        BY <2>2 DEF Finish
      <3>4. CASE j = i
        BY <1>0, <2>0, <3>1, <3>2, <3>3, <3>4, StatesDiffer DEF Account
      <3>5. CASE j # i
        BY <1>0, <2>0, <3>3, <3>5 DEF Account
      <3>6. QED
        BY <3>4, <3>5
    <2>3. ASSUME Head(clientBuffer) = Answer("ok", i),
                 NEW s \in {RS_OK, RS_DAMAGED}, Finish(i, s)
          PROVE  Account(j)'
      <3>1. i \in served
        BY <1>0, <2>3, TrueAnswer DEF Truthful
      <3>2. state' = [state EXCEPT ![i] = s] /\ touched' = touched \cup {i}
        BY <2>3, StatesDiffer DEF Finish
      <3>3. i \in used /\ reported[i] # RS_FAILED
        BY <1>0, <2>0 DEF Account
      <3>4. CASE j = i
        BY <1>0, <2>0, <2>3, <3>1, <3>2, <3>3, <3>4, StatesDiffer DEF Account
      <3>5. CASE j # i
        BY <1>0, <2>0, <3>2, <3>5 DEF Account
      <3>6. QED
        BY <3>4, <3>5
    <2>4. QED
      BY <2>1, <2>2, <2>3 DEF OnReceived
  <1>2. QED
    BY <1>1 DEF Accounts

(* Requests that are finished leave the map.  *)
LEMMA AccountErased ==
    ASSUME Accounts, NEW S \in SUBSET Ids, Erase(S), UNCHANGED <<served, touched, used, reported>>
    PROVE  Accounts'
  <1>1. ASSUME NEW j \in Ids PROVE Account(j)'
    <2>1. Account(j) /\ state'[j] \in {RS_NONE, state[j]}
      BY DEF Accounts, Erase
    <2>2. QED
      BY <2>1, StatesDiffer DEF Account
  <1>2. QED
    BY <1>1 DEF Accounts

(* The accounts are kept by every step.  *)
LEMMA AccountStep ==
    TypeOK /\ Reading /\ Truthful /\ Accounts /\ [Next]_vars => Accounts'
  <1> SUFFICES ASSUME TypeOK, Reading, Truthful, Accounts, [Next]_vars PROVE Accounts'
    OBVIOUS
  <1> USE DEF client, server, network, callers
  <1>0. state \in [Ids -> RequestStates] /\ reported \in [Ids -> RequestStates]
    BY DEF TypeOK
  <1>1. CASE OnSocketConnected \/ OnSocketDisconnected \/ UNCHANGED vars
    BY <1>1, AccountKept DEF OnSocketConnected, OnSocketDisconnected, vars
  <1>2. CASE Server
    <2>1. served \subseteq served' /\ UNCHANGED <<state, touched, used, reported>>
      BY <1>2 DEF Server, ServerReadyRead, ServerVersion, DoResponse, FailResponse,
                  UnknownCommand, ServerProcess
    <2>2. QED
      BY <2>1, AccountKept
  <1>3. CASE ReadMessages
    <2>1. ASSUME NEW n, NEW part, ClientReadyRead(n, part) \/ ReadForeign(n) PROVE Accounts'
      BY <2>1, AccountKept DEF ClientReadyRead, ReadForeign
    <2>2. CASE NotReceived
      BY <2>2, AccountKept DEF NotReceived, ClientProcess
    <2>3. QED
      BY <1>3, <2>1, <2>2, AccountReceived DEF ReadMessages
  <1>4. CASE \E i \in Ids : Expire(i)
    BY <1>4, AccountKept DEF Expire
  <1>5. CASE Call
    <2>1. ASSUME NEW i \in Ids, AddRequest(i) PROVE Accounts'
      <3>1. ASSUME NEW j \in Ids PROVE Account(j)'
        <4>1. Account(j) /\ Account(i)
          BY DEF Accounts
        <4>2. CASE j = i
          BY <1>0, <2>1, <4>1, <4>2, StatesDiffer DEF Account, AddRequest
        <4>3. CASE j # i
          BY <1>0, <2>1, <4>1, <4>3 DEF Account, AddRequest
        <4>4. QED
          BY <4>2, <4>3
      <3>2. QED
        BY <3>1 DEF Accounts
    <2>2. ASSUME NEW i, NEW kill, BeginWait(i, kill) PROVE Accounts'
      BY <2>2, AccountKept DEF BeginWait
    <2>3. QED
      BY <1>5, <2>1, <2>2 DEF Call, WaitFor, WaitForAll
  <1>6. CASE ReturnFromWait
    <2>1. ASSUME NEW i \in Ids, ReturnFinished(i) PROVE Accounts'
      <3>1. ASSUME NEW j \in Ids PROVE Account(j)'
        <4>1. /\ Account(j)
              /\ state' = [k \in Ids |-> IF k \in {i} THEN RS_NONE ELSE state[k]]
              /\ reported' = [reported EXCEPT ![i] = state[i]]
              /\ UNCHANGED <<served, touched, used>>
          BY <2>1 DEF Accounts, ReturnFinished, Erase, Return
        <4>2. CASE j = i
          <5>1. state'[j] = RS_NONE /\ reported'[j] = state[j]
            BY <1>0, <4>1, <4>2
          <5>2. j \in touched => j \in Known
            BY <4>1 DEF Account, Truthful
          <5>3. QED
            BY <4>1, <5>1, <5>2, StatesDiffer DEF Account
        <4>3. CASE j # i
          BY <1>0, <4>1, <4>3 DEF Account
        <4>4. QED
          BY <4>2, <4>3
      <3>2. QED
        BY <3>1 DEF Accounts
    <2>2. ASSUME NEW i \in Ids, ReturnTimeout(i) PROVE Accounts'
      <3>0. UNCHANGED <<served, touched, used>> /\ state[i] = RS_WAIT
        BY <2>2 DEF ReturnTimeout, Return
      <3>1. CASE UNCHANGED <<state, reported>>
        BY <3>0, <3>1, AccountKept
      <3>2. CASE /\ state' = [k \in Ids |-> IF k \in {i} THEN RS_NONE ELSE state[k]]
                 /\ reported' = [reported EXCEPT ![i] = RS_FAILED]
        <4>1. ASSUME NEW j \in Ids PROVE Account(j)'
          <5>1. Account(j)
            BY DEF Accounts
          <5>2. CASE j = i
            BY <1>0, <3>0, <3>2, <5>1, <5>2, StatesDiffer DEF Account
          <5>3. CASE j # i
            BY <1>0, <3>0, <3>2, <5>1, <5>3 DEF Account
          <5>4. QED
            BY <5>2, <5>3
        <4>2. QED
          BY <4>1 DEF Accounts
      <3>3. QED
        BY <2>2, <3>1, <3>2 DEF ReturnTimeout, Erase
    <2>3. CASE CollectFinished
      BY <2>3, AccountErased DEF CollectFinished, Finished
    <2>4. CASE ReturnAll
      BY <2>4, AccountKept DEF ReturnAll, Return
    <2>5. QED
      BY <1>6, <2>1, <2>2, <2>3, <2>4 DEF ReturnFromWait
  <1>7. QED
    BY <1>1, <1>2, <1>3, <1>4, <1>5, <1>6 DEF Next

-----------------------------------------------------------------------------
(* Waits *)

(* As long as no entry leaves the map, nothing changes for those who wait.  *)
LEMMA EntriesKept ==
    ASSUME Callers, WaitersEntryKept, waits' = waits,
           \A i \in Ids : state[i] # RS_NONE => state'[i] # RS_NONE
    PROVE  Callers' /\ WaitersEntryKept'
  BY DEF Callers, WaitersEntryKept

(* A wait that ends takes with it at most the entry it waits for.  *)
LEMMA EntriesReturned ==
    ASSUME TypeOK, Callers, WaitersEntryKept, waits # <<>>, Return,
           \A i \in Ids : state[i] # RS_NONE => state'[i] # RS_NONE \/ i = Top.id
    PROVE  Callers' /\ WaitersEntryKept'
  <1>1. /\ waits \in Seq(Waits)
        /\ Len(waits) \in Nat \ {0}
        /\ Len(waits') = Len(waits) - 1
        /\ \A d \in 1..(Len(waits) - 1) : waits'[d] = waits[d]
    <2>1. waits \in Seq(Waits)
      BY DEF TypeOK
    <2>2. PICK n \in Nat : Len(waits) = n + 1
      BY <2>1
    <2>3. \A d \in 1..n : waits[d] \in Waits
      BY <2>1, <2>2
    <2>4. /\ Len(SubSeq(waits, 1, n)) = n
          /\ \A d \in 1..n : SubSeq(waits, 1, n)[d] = waits[d]
      BY <2>3, SubSeqProperties
    <2>5. waits' = SubSeq(waits, 1, n) /\ Len(waits) - 1 = n
      BY <2>2 DEF Return
    <2>6. QED
      BY <2>1, <2>2, <2>4, <2>5
  <1>2. Callers'
    BY <1>1 DEF Callers
  <1>3. ASSUME NEW d \in 1..Len(waits'), waits'[d].id \in Ids
        PROVE  state'[waits'[d].id] # RS_NONE
    <2>1. d \in 1..Len(waits) /\ d # Len(waits) /\ waits'[d] = waits[d]
      BY <1>1
    <2>2. waits[d].id # Top.id
      BY <1>1, <2>1 DEF Callers, Top
    <2>3. state[waits[d].id] # RS_NONE
      BY <1>3, <2>1 DEF WaitersEntryKept
    <2>4. QED
      BY <1>3, <2>1, <2>2, <2>3
  <1>4. QED
    BY <1>2, <1>3 DEF WaitersEntryKept

(* A wait begins for a request nobody waits for, or for all outside any wait.  *)
LEMMA EntriesBegun ==
    ASSUME TypeOK, Callers, WaitersEntryKept, NEW i \in Ids \cup {All}, NEW kill \in BOOLEAN,
           BeginWait(i, kill),
           \A d \in 1..Len(waits) : waits[d].id # i,
           i \in Ids => state[i] # RS_NONE,
           i = All => waits = <<>>
    PROVE  Callers' /\ WaitersEntryKept'
  <1> DEFINE new == [id |-> i, kill |-> kill, worst |-> RS_NONE, last |-> FALSE]
  <1>1. waits \in Seq(Waits) /\ waits' = Append(waits, new) /\ state' = state
    BY DEF BeginWait, TypeOK, client
  <1>2. new.id = i
    OBVIOUS
  <1> HIDE DEF new
  <1>3. /\ Len(waits) \in Nat
        /\ Len(waits') = Len(waits) + 1
        /\ waits'[Len(waits) + 1].id = i
        /\ \A d \in 1..Len(waits) : waits'[d] = waits[d]
    BY <1>1, <1>2
  <1>4. \A d, e \in 1..Len(waits') : waits'[d].id = waits'[e].id => d = e
    <2>1. ASSUME NEW d \in 1..Len(waits'), NEW e \in 1..Len(waits'),
                 waits'[d].id = waits'[e].id
          PROVE  d = e
      <3>1. (d \in 1..Len(waits) \/ d = Len(waits) + 1)
             /\ (e \in 1..Len(waits) \/ e = Len(waits) + 1)
        BY <1>3
      <3>2. QED
        BY <1>3, <2>1, <3>1 DEF Callers
    <2>2. QED
      BY <2>1
  <1>5. \A d \in 1..Len(waits') : waits'[d].id = All => d = 1
    <2>1. ASSUME NEW d \in 1..Len(waits'), waits'[d].id = All PROVE d = 1
      <3>1. CASE d \in 1..Len(waits)
        BY <1>3, <2>1, <3>1 DEF Callers
      <3>2. CASE d = Len(waits) + 1
        BY <1>3, <2>1, <3>2
      <3>3. QED
        BY <1>3, <3>1, <3>2
    <2>2. QED
      BY <2>1
  <1>6. \A d \in 1..Len(waits') : waits'[d].id \in Ids => state'[waits'[d].id] # RS_NONE
    <2>1. ASSUME NEW d \in 1..Len(waits'), waits'[d].id \in Ids
          PROVE  state'[waits'[d].id] # RS_NONE
      <3>1. CASE d \in 1..Len(waits)
        BY <1>1, <1>3, <2>1, <3>1 DEF WaitersEntryKept
      <3>2. CASE d = Len(waits) + 1
        BY <1>1, <1>3, <2>1, <3>2
      <3>3. QED
        BY <1>3, <3>1, <3>2
    <2>2. QED
      BY <2>1
  <1>7. QED
    BY <1>4, <1>5, <1>6 DEF Callers, WaitersEntryKept

(* Waiting for all requests goes on: nobody waits for what it takes out of the map.  *)
LEMMA EntriesCollected ==
    ASSUME TypeOK, Callers, WaitersEntryKept, CollectFinished
    PROVE  Callers' /\ WaitersEntryKept'
  <1>1. /\ waits \in Seq(Waits)
        /\ Len(waits) = 1 /\ waits[1].id = All
    <2>1. waits \in Seq(Waits) /\ waits # <<>> /\ Top.id = All
      BY DEF TypeOK, CollectFinished, InWait
    <2>2. Len(waits) \in Nat \ {0}
      BY <2>1
    <2>3. Len(waits) = 1
      BY <2>1, <2>2 DEF Callers, Top
    <2>4. QED
      BY <2>1, <2>3 DEF Top
  <1>2. Len(waits') = 1 /\ waits'[1].id = All
    <2>1. PICK w, l : waits' = [waits EXCEPT ![Len(waits)].worst = w, ![Len(waits)].last = l]
      BY DEF CollectFinished
    <2>2. waits[1] \in Waits
      BY <1>1
    <2>3. waits' = [waits EXCEPT ![1] = [waits[1] EXCEPT !.worst = w, !.last = l]]
      BY <1>1, <2>1
    <2>4. [waits[1] EXCEPT !.worst = w, !.last = l].id = All
      BY <1>1, <2>2 DEF Waits
    <2>5. QED
      BY <1>1, <2>3, <2>4
  <1>3. QED
    BY <1>2, RequestsAssumption DEF Callers, WaitersEntryKept

(* What others wait for stays in the map.  *)
LEMMA EntriesStep ==
    TypeOK /\ Callers /\ WaitersEntryKept /\ [Next]_vars => Callers' /\ WaitersEntryKept'
  <1> SUFFICES ASSUME TypeOK, Callers, WaitersEntryKept, [Next]_vars
               PROVE  Callers' /\ WaitersEntryKept'
    OBVIOUS
  <1> USE DEF client, server, network, callers
  <1>0. state \in [Ids -> RequestStates]
    BY DEF TypeOK
  <1>1. CASE OnSocketConnected \/ OnSocketDisconnected \/ Server
             \/ (\E i \in Ids : Expire(i)) \/ UNCHANGED vars
    <2>1. state' = state /\ waits' = waits
      BY <1>1 DEF OnSocketConnected, OnSocketDisconnected, Server, ServerReadyRead,
                  ServerVersion, DoResponse, FailResponse, UnknownCommand, ServerProcess,
                  Expire, vars
    <2>2. QED
      BY <2>1, EntriesKept
  <1>2. CASE ReadMessages
    <2>1. waits' = waits
      BY <1>2 DEF ReadMessages, ClientReadyRead, ReadForeign, OnReceived, NotReceived,
                  ClientProcess
    <2>2. ASSUME NEW i \in Ids, OnReceived(i)
          PROVE  \A j \in Ids : state[j] # RS_NONE => state'[j] # RS_NONE
      BY <1>0, <2>2, StatesDiffer DEF OnReceived, KeepAlive, Finish
    <2>3. ASSUME NEW n, NEW part,
                 ClientReadyRead(n, part) \/ ReadForeign(n) \/ NotReceived
          PROVE  state' = state
      BY <2>3 DEF ClientReadyRead, ReadForeign, NotReceived
    <2>4. \A j \in Ids : state[j] # RS_NONE => state'[j] # RS_NONE
      BY <1>2, <2>2, <2>3 DEF ReadMessages
    <2>5. QED
      BY <2>1, <2>4, EntriesKept
  <1>3. CASE Call
    <2>1. ASSUME NEW i \in Ids, AddRequest(i) PROVE Callers' /\ WaitersEntryKept'
      <3>1. waits' = waits /\ \A j \in Ids : state[j] # RS_NONE => state'[j] # RS_NONE
        BY <1>0, <2>1, StatesDiffer DEF AddRequest
      <3>2. QED
        BY <3>1, EntriesKept
    <2>2. ASSUME NEW i \in Ids, NEW kill \in BOOLEAN, WaitFor(i, kill)
          PROVE  Callers' /\ WaitersEntryKept'
      BY <2>2, EntriesBegun, RequestsAssumption DEF WaitFor
    <2>3. ASSUME NEW kill \in BOOLEAN, WaitForAll(kill)
          PROVE  Callers' /\ WaitersEntryKept'
      <3>1. waits = <<>> /\ BeginWait(All, kill)
        BY <2>3 DEF WaitForAll
      <3>2. QED
        BY <3>1, EntriesBegun, RequestsAssumption
    <2>4. QED
      BY <1>3, <2>1, <2>2, <2>3 DEF Call
  <1>4. CASE ReturnFromWait
    <2>1. ASSUME NEW i \in Ids, ReturnFinished(i) PROVE Callers' /\ WaitersEntryKept'
      <3>1. /\ waits # <<>> /\ Return
            /\ \A j \in Ids : state[j] # RS_NONE => state'[j] # RS_NONE \/ j = Top.id
        BY <2>1 DEF ReturnFinished, InWait, Erase
      <3>2. QED
        BY <3>1, EntriesReturned
    <2>2. ASSUME NEW i \in Ids, ReturnTimeout(i) PROVE Callers' /\ WaitersEntryKept'
      <3>1. /\ waits # <<>> /\ Return
            /\ \A j \in Ids : state[j] # RS_NONE => state'[j] # RS_NONE \/ j = Top.id
        BY <2>2 DEF ReturnTimeout, InWait, Erase
      <3>2. QED
        BY <3>1, EntriesReturned
    <2>3. CASE ReturnAll
      BY <2>3, EntriesReturned DEF ReturnAll, InWait
    <2>4. QED
      BY <1>4, <2>1, <2>2, <2>3, EntriesCollected DEF ReturnFromWait
  <1>5. QED
    BY <1>1, <1>2, <1>3, <1>4 DEF Next

-----------------------------------------------------------------------------
(* Theorems *)

(* The invariant holds at first.  *)
LEMMA InitInv == Init => IInv
  <1> SUFFICES ASSUME Init PROVE IInv
    OBVIOUS
  <1>1. Reading
    BY DEF Init, Reading
  <1>2. Truthful
    BY DEF Init, Truthful
  <1>3. Accounts
    BY StatesDiffer DEF Init, Accounts, Account
  <1>4. waits = <<>> /\ Len(waits) = 0
    BY DEF Init
  <1>5. Callers /\ WaitersEntryKept
    BY <1>4 DEF Callers, WaitersEntryKept
  <1>6. QED
    BY <1>1, <1>2, <1>3, <1>5, InitType DEF IInv

(* Every behaviour keeps the invariant.  *)
LEMMA Invariant == Spec => []IInv
  <1>1. IInv /\ [Next]_vars => IInv'
    BY TypeStep, ReadingStep, TruthfulStep, AccountStep, EntriesStep DEF IInv
  <1>2. QED
    BY <1>1, InitInv, PTL DEF Spec

(* The state of both sides, of the network and of the waits is always well formed.  *)
THEOREM TypeCorrect == Spec => []TypeOK
  <1>1. IInv => TypeOK
    BY DEF IInv
  <1>2. QED
    BY <1>1, Invariant, PTL

(* A request reported as RS_OK was done by the server, and its answer was read, whatever
   the network lost or delayed, and however reads stopped in the middle.  *)
THEOREM OkSafe == Spec => []ReportedOkIsServed
  <1>1. IInv => ReportedOkIsServed
    BY DEF IInv, Accounts, Account, ReportedOkIsServed
  <1>2. QED
    BY <1>1, Invariant, PTL

(* No answer, however late, reaches the object of a request reported as RS_FAILED.  *)
THEOREM FailedSafe == Spec => []FailedLeavesObject
  <1>1. IInv => FailedLeavesObject
    BY DEF IInv, Accounts, Account, FailedLeavesObject
  <1>2. QED
    BY <1>1, Invariant, PTL

(* The iterator WaitRequestFinished keeps while it dispatches events stays valid.  *)
THEOREM WaitersSafe == Spec => []WaitersEntryKept
  <1>1. IInv => WaitersEntryKept
    BY DEF IInv
  <1>2. QED
    BY <1>1, Invariant, PTL
=============================================================================
