------------------------------ MODULE Requests ------------------------------
(***************************************************************************)
(* Requests and their answers over TCP (Include/icomm).  The client is     *)
(* CTcpRequestsManagerComp: CRequestsManagerBase keeps the requests and    *)
(* lets callers wait for them.  The server keeps one CTcpClientStatus per  *)
(* connection, whose CResponsesManagerBase answers them.  Both read the    *)
(* stream with TPopCumulatorBase.  Each side is one thread with an event   *)
(* loop; WaitRequestFinished runs that loop itself until it returns, so    *)
(* that event handlers, with requests and waits of their own, run inside   *)
(* it.                                                                     *)
(*                                                                         *)
(* Time is abstracted to the moment a request's validity ends.  A message  *)
(* is what it says, its bytes are not modelled; that only a part of it has *)
(* arrived is.  Nothing in the repository calls WaitRequestFinished; its   *)
(* callers are taken to keep one rule: a handler that runs inside a wait   *)
(* waits for single requests nobody else is waiting for.                   *)
(***************************************************************************)
EXTENDS Naturals, Sequences

CONSTANTS
    Ids,            \* UUIDs of the requests a client may send
    Known,          \* those whose command has a provider in m_providersMap
    All,            \* an empty UUID: wait for all requests
    MaxConnections, \* bound: connections made one after the other
    MaxDepth        \* bound: waits inside each other

ASSUME RequestsAssumption ==
    /\ Known \subseteq Ids
    /\ All \notin Ids
    /\ MaxConnections \in Nat
    /\ MaxDepth \in Nat \ {0}

RS_NONE    == 0     \* no entry in m_requestsMap
RS_WAIT    == 1
RS_OK      == 2
RS_FAILED  == 3
RS_DAMAGED == 4
RequestStates == RS_NONE..RS_DAMAGED

VARIABLES
    connected,      \* m_isConnected
    connections,    \* connections so far
    state,          \* state[i]: RequestData::state of the entry in m_requestsMap
    expired,        \* requests whose validityTime has passed
    waits,          \* calls of WaitRequestFinished, the innermost last
    toServer,       \* messages on their way
    toClient,
    serverBuffer,   \* messages that have arrived and are not read
    clientBuffer,
    serverReading,  \* inside the loop of ForceRead
    clientReading,
    loaded,         \* what the client's cumulator has read of the next message
    used,           \* requests that were sent
    served,         \* requests whose DoResponse succeeded
    touched,        \* requests whose destination object was read from an answer
    reported        \* reported[i]: what a wait for i has returned

client  == <<state, expired, clientBuffer, clientReading, loaded>>
server  == <<serverBuffer, serverReading, served>>
network == <<connected, connections, toServer, toClient>>
callers == <<waits, used, reported>>
vars    == <<client, server, network, callers, touched>>

Version       == [kind |-> "version"]
Request(i)    == [kind |-> "request", id |-> i]
Answer(k, i)  == [kind |-> k, id |-> i]
Answers       == {Answer(k, i) : k \in {"keepAlive", "ok", "error"}, i \in Ids}
ServerMessage == {Version} \cup {Request(i) : i \in Ids}
ClientMessage == {Version} \cup Answers

Waits == [id : Ids \cup {All}, kill : BOOLEAN, worst : RequestStates, last : BOOLEAN]

Init ==
    /\ connected = FALSE
    /\ connections = 0
    /\ state = [i \in Ids |-> RS_NONE]
    /\ expired = {}
    /\ waits = <<>>
    /\ toServer = <<>> /\ toClient = <<>>
    /\ serverBuffer = <<>> /\ clientBuffer = <<>>
    /\ serverReading = FALSE /\ clientReading = FALSE
    /\ loaded = "none"
    /\ used = {} /\ served = {} /\ touched = {}
    /\ reported = [i \in Ids |-> RS_NONE]

-----------------------------------------------------------------------------
(***************************************************************************)
(* The connection.  What has arrived stays with the socket until the next  *)
(* connection; nothing resets the cumulator of the client.  A new          *)
(* connection gets a new CTcpClientStatus.                                 *)
(***************************************************************************)
OnSocketConnected ==
    /\ ~connected /\ ~clientReading
    /\ connections < MaxConnections
    /\ connected' = TRUE
    /\ connections' = connections + 1
    /\ toServer' = <<Version>>
    /\ clientBuffer' = <<>>
    /\ loaded' = IF loaded = "none" \/ clientBuffer # <<>> THEN "none" ELSE "foreign"
    /\ UNCHANGED <<state, expired, clientReading, server, toClient, callers, touched>>

\* Mutant: the requests go with the connection.
OnSocketDisconnected_Reset ==
    /\ connected /\ ~clientReading
    /\ connected' = FALSE
    /\ toServer' = <<>> /\ toClient' = <<>>
    /\ serverBuffer' = <<>> /\ serverReading' = FALSE
    /\ state' = [i \in Ids |-> RS_NONE]
    /\ expired' = {}
    /\ UNCHANGED <<clientBuffer, clientReading, loaded, served, connections, callers, touched>>

OnSocketDisconnected ==
    /\ connected /\ ~clientReading
    /\ connected' = FALSE
    /\ toServer' = <<>> /\ toClient' = <<>>
    /\ serverBuffer' = <<>> /\ serverReading' = FALSE
    /\ UNCHANGED <<client, served, connections, callers, touched>>

-----------------------------------------------------------------------------
(***************************************************************************)
(* The server.  One step of its ForceRead processes one message; a         *)
(* provider that fails ends the loop.  The answer archive is no IArchiveEx *)
(* (no class is), so the error answer CResponsesManagerBase means to send  *)
(* for it is never written.                                                *)
(***************************************************************************)
ServerReadyRead(n) ==
    /\ toServer # <<>> /\ ~serverReading
    /\ serverBuffer' = serverBuffer \o SubSeq(toServer, 1, n)
    /\ toServer' = SubSeq(toServer, n + 1, Len(toServer))
    /\ serverReading' = (serverBuffer' # <<>>)
    /\ UNCHANGED <<client, served, connected, connections, toClient, callers, touched>>

\* ProcessMessage and the end of the round in ForceRead.
ServerProcess(answers, isDone) ==
    /\ serverBuffer' = Tail(serverBuffer)
    /\ serverReading' = (isDone /\ Tail(serverBuffer) # <<>>)
    /\ toClient' = toClient \o answers
    /\ UNCHANGED <<client, connected, connections, toServer, callers, touched>>

ServerVersion ==
    /\ serverReading
    /\ Head(serverBuffer) = Version
    /\ ServerProcess(<<Version>>, TRUE)
    /\ UNCHANGED served

\* SendAndClear does not flush: the keep-alive leaves with the answer.
DoResponse(i) ==
    /\ serverReading
    /\ Head(serverBuffer) = Request(i)
    /\ i \in Known
    /\ ServerProcess(<<Answer("keepAlive", i), Answer("ok", i)>>, TRUE)
    /\ served' = served \cup {i}

FailResponse(i) ==
    /\ serverReading
    /\ Head(serverBuffer) = Request(i)
    /\ i \in Known
    /\ ServerProcess(<<Answer("keepAlive", i)>>, FALSE)
    /\ UNCHANGED served

UnknownCommand(i) ==
    /\ serverReading
    /\ Head(serverBuffer) = Request(i)
    /\ i \notin Known
    /\ ServerProcess(<<Answer("error", i)>>, TRUE)
    /\ UNCHANGED served

-----------------------------------------------------------------------------
(***************************************************************************)
(* The client's ForceRead.  New bytes, n messages and maybe part of the    *)
(* next, start it; it ends with the buffer, or with a message that         *)
(* ProcessMessage answers with false: a version, or the answer to a        *)
(* request that is no longer in the map.  What is behind that message      *)
(* waits for more bytes to arrive.                                         *)
(***************************************************************************)
ClientReadyRead(n, part) ==
    /\ toClient # <<>> /\ ~clientReading
    /\ loaded # "foreign"
    /\ part => n < Len(toClient)
    /\ n > 0 \/ part
    /\ clientBuffer' = clientBuffer \o SubSeq(toClient, 1, n)
    /\ toClient' = SubSeq(toClient, n + 1, Len(toClient))
    /\ clientReading' = (clientBuffer' # <<>>)
    /\ loaded' = IF part THEN "part" ELSE "none"
    /\ UNCHANGED <<state, expired, server, connected, connections, toServer, callers, touched>>

\* The cumulator still waits for the rest of a message of an older connection.
ReadForeign(n) ==
    /\ toClient # <<>> /\ ~clientReading
    /\ loaded = "foreign"
    /\ n > 0
    /\ toClient' = SubSeq(toClient, n + 1, Len(toClient))
    /\ loaded' \in {"foreign", "none"}
    /\ UNCHANGED <<state, expired, clientBuffer, clientReading, server,
                   connected, connections, toServer, callers, touched>>

ClientProcess(isDone) ==
    /\ clientBuffer' = Tail(clientBuffer)
    /\ clientReading' = (isDone /\ Tail(clientBuffer) # <<>>)
    /\ UNCHANGED <<loaded, server, network, callers>>

\* CRequestsManagerBase::OnReceived for a request in the map.
\* Mutant: the server's sign of life is taken for its answer.
KeepAlive_Finishes(i) ==
    /\ state' = [state EXCEPT ![i] = RS_OK]
    /\ expired' = expired \ {i}
    /\ UNCHANGED touched

KeepAlive(i) ==
    /\ expired' = expired \ {i}
    /\ UNCHANGED <<state, touched>>

Finish(i, s) ==
    /\ state' = [state EXCEPT ![i] = s]
    /\ touched' = IF s = RS_FAILED THEN touched ELSE touched \cup {i}
    /\ UNCHANGED expired

OnReceived(i) ==
    /\ clientReading
    /\ state[i] # RS_NONE
    /\ \/ Head(clientBuffer) = Answer("keepAlive", i) /\ KeepAlive(i)
       \/ Head(clientBuffer) = Answer("error", i) /\ Finish(i, RS_FAILED)
       \/ /\ Head(clientBuffer) = Answer("ok", i)
          /\ \E s \in {RS_OK, RS_DAMAGED} : Finish(i, s)
    /\ ClientProcess(TRUE)

NotReceived ==
    /\ clientReading
    /\ \/ Head(clientBuffer) = Version
       \/ /\ Head(clientBuffer) \in Answers
          /\ state[Head(clientBuffer).id] = RS_NONE
    /\ ClientProcess(FALSE)
    /\ UNCHANGED <<state, expired, touched>>

Expire(i) ==
    /\ state[i] = RS_WAIT
    /\ expired' = expired \cup {i}
    /\ UNCHANGED <<state, clientBuffer, clientReading, loaded, server, network, callers, touched>>

-----------------------------------------------------------------------------
AddRequest(i) ==
    /\ ~clientReading
    /\ connected
    /\ i \notin used
    /\ used' = used \cup {i}
    /\ toServer' = Append(toServer, Request(i))
    /\ state' = [state EXCEPT ![i] = RS_WAIT]
    /\ expired' = expired \ {i}
    /\ UNCHANGED <<clientBuffer, clientReading, loaded, server, connected,
                   connections, toClient, waits, reported, touched>>

(***************************************************************************)
(* WaitRequestFinished.  Between two looks at the map it dispatches        *)
(* events: the steps above, and calls of the operations by their handlers. *)
(***************************************************************************)
BeginWait(i, kill) ==
    /\ ~clientReading
    /\ Len(waits) < MaxDepth
    /\ waits' = Append(waits, [id |-> i, kill |-> kill, worst |-> RS_NONE, last |-> FALSE])
    /\ UNCHANGED <<client, server, network, used, reported, touched>>

WaitFor(i, kill) ==
    /\ state[i] # RS_NONE
    /\ \A d \in 1..Len(waits) : waits[d].id # i
    /\ BeginWait(i, kill)

WaitForAll(kill) ==
    /\ waits = <<>>
    /\ BeginWait(All, kill)

Top == waits[Len(waits)]

Return ==
    /\ waits' = SubSeq(waits, 1, Len(waits) - 1)
    /\ UNCHANGED <<clientBuffer, clientReading, loaded, server, network, used, touched>>

\* m_requestsMap.erase
Erase(S) ==
    /\ state' = [i \in Ids |-> IF i \in S THEN RS_NONE ELSE state[i]]
    /\ expired' = expired \ S

InWait(i) == ~clientReading /\ waits # <<>> /\ Top.id = i

ReturnFinished(i) ==
    /\ InWait(i)
    /\ state[i] # RS_WAIT
    /\ Erase({i})
    /\ reported' = [reported EXCEPT ![i] = state[i]]
    /\ Return

\* Mutant: the request that has timed out stays in the map.
ReturnTimeout_KeepsRequest(i) ==
    /\ InWait(i)
    /\ state[i] = RS_WAIT /\ i \in expired
    /\ reported' = IF Top.kill THEN [reported EXCEPT ![i] = RS_FAILED] ELSE reported
    /\ Return
    /\ UNCHANGED <<state, expired>>

ReturnTimeout(i) ==
    /\ InWait(i)
    /\ state[i] = RS_WAIT /\ i \in expired
    /\ IF Top.kill
       THEN /\ Erase({i})
            /\ reported' = [reported EXCEPT ![i] = RS_FAILED]
       ELSE UNCHANGED <<state, expired, reported>>
    /\ Return

Finished == {i \in Ids : state[i] > RS_WAIT}

\* Mutant: the validity is not looked at.
Running_Always == {i \in Ids : state[i] = RS_WAIT}

Running == {i \in Ids : state[i] = RS_WAIT /\ i \notin expired}

\* The worst state above RS_OK.
Worse(s) ==
    LET errors == {state[i] : i \in Finished} \ {RS_OK}
    IN  CHOOSE w \in errors \cup {s} : \A e \in errors \cup {s} : e <= w

CollectFinished ==
    /\ InWait(All)
    /\ ~Top.last
    /\ Erase(Finished)
    /\ waits' = [waits EXCEPT ![Len(waits)].worst = Worse(Top.worst),
                              ![Len(waits)].last = (Running = {})]
    /\ UNCHANGED <<clientBuffer, clientReading, loaded, server, network,
                   used, reported, touched>>

AllResult ==
    IF Top.worst > RS_OK THEN Top.worst
    ELSE IF \E i \in Ids : state[i] # RS_NONE THEN RS_OK
    ELSE IF Top.kill THEN RS_FAILED ELSE RS_WAIT

ReturnAll ==
    /\ InWait(All)
    /\ Top.last
    /\ Return
    /\ UNCHANGED <<state, expired, reported>>

-----------------------------------------------------------------------------
Server ==
    \/ \E n \in 0..Len(toServer) : ServerReadyRead(n)
    \/ ServerVersion
    \/ \E i \in Ids : DoResponse(i) \/ FailResponse(i) \/ UnknownCommand(i)

ReadMessages ==
    \/ \E n \in 0..Len(toClient), part \in BOOLEAN : ClientReadyRead(n, part)
    \/ \E n \in 0..Len(toClient) : ReadForeign(n)
    \/ \E i \in Ids : OnReceived(i)
    \/ NotReceived

ReturnFromWait ==
    \/ \E i \in Ids : ReturnFinished(i) \/ ReturnTimeout(i)
    \/ CollectFinished
    \/ ReturnAll

Call ==
    \/ \E i \in Ids : AddRequest(i)
    \/ \E i \in Ids, kill \in BOOLEAN : WaitFor(i, kill)
    \/ \E kill \in BOOLEAN : WaitForAll(kill)

Next ==
    \/ OnSocketConnected
    \/ OnSocketDisconnected
    \/ Server
    \/ ReadMessages
    \/ \E i \in Ids : Expire(i)
    \/ Call
    \/ ReturnFromWait

Spec == Init /\ [][Next]_vars

(***************************************************************************)
(* Handlers return, time passes, and the waiting loop goes on.  Nothing is *)
(* assumed of the network, the server and the callers.                     *)
(***************************************************************************)
Fairness ==
    /\ WF_vars(clientReading /\ ReadMessages)
    /\ \A i \in Ids : WF_vars(Expire(i))
    /\ \A d \in 1..MaxDepth : SF_vars(Len(waits) = d /\ ReturnFromWait)

FairSpec == Spec /\ Fairness

-----------------------------------------------------------------------------
TypeOK ==
    /\ connected \in BOOLEAN
    /\ connections \in 0..MaxConnections
    /\ state \in [Ids -> RequestStates]
    /\ expired \in SUBSET Ids
    /\ waits \in Seq(Waits)
    /\ toServer \in Seq(ServerMessage)
    /\ toClient \in Seq(ClientMessage)
    /\ serverBuffer \in Seq(ServerMessage)
    /\ clientBuffer \in Seq(ClientMessage)
    /\ serverReading \in BOOLEAN
    /\ clientReading \in BOOLEAN
    /\ loaded \in {"none", "part", "foreign"}
    /\ used \in SUBSET Ids
    /\ served \in SUBSET Ids
    /\ touched \in SUBSET Ids
    /\ reported \in [Ids -> RequestStates]

\* WaitRequestFinished keeps an iterator across DispatchMessagesQueue: as long
\* as callers keep their rule, no event handler erases the entry it points to.
WaitersEntryKept ==
    \A d \in 1..Len(waits) :
        waits[d].id \in Ids => state[waits[d].id] # RS_NONE

\* A request is reported as RS_OK only if the server did it and its answer was
\* read, however messages were lost, delayed or left unread.
ReportedOkIsServed ==
    \A i \in Ids : reported[i] = RS_OK => i \in served /\ i \in touched

\* "There are errors and state of destination object is not changed": no answer
\* that was late reaches the object of a request reported as RS_FAILED.
FailedLeavesObject ==
    \A i \in Ids : reported[i] = RS_FAILED => i \notin touched

\* However the server, the connection and the handlers behave, a wait returns.
WaitsReturn ==
    \A d \in 1..MaxDepth : Len(waits) >= d ~> Len(waits) < d

\* "Request is processed without errors": after waiting for all requests, RS_OK
\* says that none of them has run out of time.
AllOkIsNoTimeout ==
    [][ReturnAll /\ AllResult = RS_OK =>
            \A i \in expired : state[i] # RS_WAIT]_vars
=============================================================================
