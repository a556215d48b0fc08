----------------------------- MODULE Heartbeats -----------------------------
(***************************************************************************)
(* The list of servers a client watches by heartbeats over UDP             *)
(* (Include/icomm, CUdpServersManagerComp), and the servers that answer    *)
(* (CTcpClientsManagerComp).  On each tick of its timer the client starts  *)
(* the lookup of a host it has not looked up, counts a heartbeat as lost   *)
(* and asks every server whose address it knows.  A question carries the   *)
(* position of the server in the list; the answer mirrors it, and that is  *)
(* all the client has to tell whose answer it is.                          *)
(*                                                                         *)
(* Datagrams are lost, duplicated, delayed and reordered: the network is a *)
(* set, reading a datagram leaves it there until Lose takes it away.  The  *)
(* client is one thread with an event loop.  No code in the repository     *)
(* edits the list; its owner is taken to do so in any way the interface    *)
(* offers.  A computer name stands for its address as well.  FindServers,  *)
(* which collects the answers to a question of its own id in a list of its *)
(* own, is not modelled.                                                   *)
(*                                                                         *)
(* The field host of a server is not in the code: it keeps the name the    *)
(* server had when its lookup was started, for a property to tell whose    *)
(* address it should have.                                                 *)
(***************************************************************************)
EXTENDS Integers, SequencesExt

CONSTANTS
    Stations,           \* computers a server may run on
    None,               \* no computer name, no address
    States,             \* what servers report of themselves
    S_UNKNOWN,          \* what the client shows of lost servers
    Down,               \* no server runs on the station
    MaxLost,            \* m_maxLostHeartbeats
    MaxServers,         \* bound: length of the list
    MaxEdits,           \* bound: changes of the list
    MaxStationChanges,  \* bound: starts, ends and changes of state of servers
    MaxDatagrams        \* bound: datagrams on their way at a time

ASSUME HeartbeatsAssumption ==
    /\ None \notin Stations
    /\ Down \notin States
    /\ {MaxLost, MaxServers, MaxEdits, MaxStationChanges, MaxDatagrams} \subseteq Nat

VARIABLES
    servers,        \* m_servers
    lookups,        \* lookups of QHostInfo that have no result yet
    lastLookup,     \* the last number QHostInfo has given to one
    station,        \* station[s]: the state of the server on s, or Down
    network,        \* datagrams on their way
    edits, stationChanges

list  == <<servers, lookups, lastLookup>>
world == <<station, stationChanges>>
vars  == <<list, world, network, edits>>

Fits(datagrams) == Cardinality(datagrams) <= MaxDatagrams

Question(s, id)       == [kind |-> "question", station |-> s, id |-> id]
Answer(s, id, st)     == [kind |-> "answer", station |-> s, id |-> id, state |-> st]
Questions == {Question(s, id) : s \in Stations, id \in 1..MaxServers}
Answers   == {Answer(s, id, st) : s \in Stations, id \in 1..MaxServers, st \in States}

ServerInfo == [name : Stations \cup {None}, state : States \cup {S_UNKNOWN},
               address : Stations \cup {None}, host : Stations \cup {None},
               lookup : Nat, lost : 0..(MaxLost + 1)]

NotLookedUp == 0    \* lookupId < 0

\* A server the list has just got: ServerInfo() with the name and state given.
NewServer(name, state) ==
    [name |-> name, state |-> state, address |-> None, host |-> None,
     lookup |-> NotLookedUp, lost |-> 0]

\* A list that is loaded.
Loaded(names) == [i \in DOMAIN names |-> NewServer(names[i], S_UNKNOWN)]
Names == UNION {[1..n -> Stations] : n \in 0..MaxServers}

Init ==
    /\ \E names \in Names : servers = Loaded(names)
    /\ lookups = {}
    /\ lastLookup = NotLookedUp
    /\ station \in [Stations -> States \cup {Down}]
    /\ network = {}
    /\ edits = 0 /\ stationChanges = 0

-----------------------------------------------------------------------------
(***************************************************************************)
(* The owner edits the list.                                               *)
(***************************************************************************)
Edit ==
    /\ edits < MaxEdits
    /\ edits' = edits + 1
    /\ UNCHANGED <<lookups, lastLookup, world, network>>

\* Of a template only stationInfo is taken over.  Position 0 is the end.
CreateServerInfo(index, copyFrom) ==
    /\ Edit
    /\ Len(servers) < MaxServers
    /\ LET new == IF copyFrom = 0 THEN NewServer(None, S_UNKNOWN)
                  ELSE NewServer(servers[copyFrom].name, servers[copyFrom].state)
       IN  servers' = IF index = 0 THEN Append(servers, new)
                      ELSE InsertAt(servers, index, new)

RemoveServerInfo(index) ==
    /\ Edit
    /\ servers' = RemoveAt(servers, index)

\* Through GetServerInfoImpl, also of a server that has been looked up: it keeps
\* its number and address.
SetComputerName(index, name) ==
    /\ Edit
    /\ name # servers[index].name
    /\ servers' = [servers EXCEPT ![index].name = name]

\* Loading.
Serialize(names) ==
    /\ Edit
    /\ servers' = Loaded(names)

-----------------------------------------------------------------------------
(***************************************************************************)
(* The slots of the client.                                                *)
(***************************************************************************)
\* The lookups started in one tick get different numbers.
LookedUp(i) == lastLookup + i

\* Mutant: heartbeats are counted for servers that are asked only.
Tick_Asked(info, i) ==
    LET isLost == info.lost > MaxLost
        asked  == info.address # None
    IN  [name    |-> info.name,
         address |-> info.address,
         host    |-> IF info.lookup = NotLookedUp THEN info.name ELSE info.host,
         lookup  |-> IF info.lookup = NotLookedUp THEN LookedUp(i) ELSE info.lookup,
         state   |-> IF asked /\ isLost THEN S_UNKNOWN ELSE info.state,
         lost    |-> IF asked /\ ~isLost THEN info.lost + 1 ELSE info.lost]

Tick(info, i) ==
    LET isLost == info.lost > MaxLost
    IN  [name    |-> info.name,
         address |-> info.address,
         host    |-> IF info.lookup = NotLookedUp THEN info.name ELSE info.host,
         lookup  |-> IF info.lookup = NotLookedUp THEN LookedUp(i) ELSE info.lookup,
         state   |-> IF isLost THEN S_UNKNOWN ELSE info.state,
         lost    |-> IF isLost THEN info.lost ELSE info.lost + 1]

\* Mutant: lost servers are not asked any more.
OnTimerTick_GivesUp ==
    LET new   == {i \in DOMAIN servers : servers[i].lookup = NotLookedUp}
        known == {i \in DOMAIN servers : servers[i].address # None /\ servers[i].lost <= MaxLost}
    IN  /\ servers' = [i \in DOMAIN servers |-> Tick(servers[i], i)]
        /\ lookups' = lookups \cup {[id |-> LookedUp(i), name |-> servers[i].name] : i \in new}
        /\ lastLookup' = IF new = {} THEN lastLookup ELSE lastLookup + Len(servers)
        /\ network' = network \cup {Question(servers[i].address, i) : i \in known}
        /\ Fits(network')
        /\ UNCHANGED <<world, edits>>

OnTimerTick ==
    LET new   == {i \in DOMAIN servers : servers[i].lookup = NotLookedUp}
        known == {i \in DOMAIN servers : servers[i].address # None}
    IN  /\ servers' = [i \in DOMAIN servers |-> Tick(servers[i], i)]
        /\ lookups' = lookups \cup {[id |-> LookedUp(i), name |-> servers[i].name] : i \in new}
        /\ lastLookup' = IF new = {} THEN lastLookup ELSE lastLookup + Len(servers)
        /\ network' = network \cup {Question(servers[i].address, i) : i \in known}
        /\ Fits(network')
        /\ UNCHANGED <<world, edits>>

\* Mutant: the result goes to every server that waits for one.
OnHostInfoFound_Waiting(lookup, found) ==
    /\ lookup \in lookups
    /\ found => lookup.name # None
    /\ servers' = [i \in DOMAIN servers |->
                      IF servers[i].lookup = NotLookedUp \/ servers[i].address # None THEN servers[i]
                      ELSE [servers[i] EXCEPT !.address = IF found THEN lookup.name ELSE None]]
    /\ lookups' = lookups \ {lookup}
    /\ UNCHANGED <<lastLookup, world, network, edits>>

\* A name without a computer has no address, others may not be resolved.
OnHostInfoFound(lookup, found) ==
    /\ lookup \in lookups
    /\ found => lookup.name # None
    /\ servers' = [i \in DOMAIN servers |->
                      IF servers[i].lookup # lookup.id THEN servers[i]
                      ELSE [servers[i] EXCEPT !.address = IF found THEN lookup.name ELSE None]]
    /\ lookups' = lookups \ {lookup}
    /\ UNCHANGED <<lastLookup, world, network, edits>>

OnHeartbeatRead(answer) ==
    /\ answer \in network \cap Answers
    /\ answer.id \in DOMAIN servers
    /\ servers' = [servers EXCEPT ![answer.id].state = answer.state,
                                 ![answer.id].lost = 0]
    /\ UNCHANGED <<lookups, lastLookup, world, network, edits>>

-----------------------------------------------------------------------------
(***************************************************************************)
(* The stations and the network.                                           *)
(***************************************************************************)
\* OnHeartbeatRead of the server.
ReadQuestion(question) ==
    /\ question \in network \cap Questions
    /\ station[question.station] # Down
    /\ \E rest \in {network, network \ {question}} :
            network' = rest \cup {Answer(question.station, question.id, station[question.station])}
    /\ Fits(network')
    /\ UNCHANGED <<list, world, edits>>

\* A server starts, ends or changes its state.
StationChanges(s, state) ==
    /\ stationChanges < MaxStationChanges
    /\ state # station[s]
    /\ station' = [station EXCEPT ![s] = state]
    /\ stationChanges' = stationChanges + 1
    /\ UNCHANGED <<list, network, edits>>

Lose(datagram) ==
    /\ datagram \in network
    /\ network' = network \ {datagram}
    /\ UNCHANGED <<list, world, edits>>

-----------------------------------------------------------------------------
EditList ==
    \/ \E index \in {0} \cup DOMAIN servers, copyFrom \in {0} \cup DOMAIN servers :
            CreateServerInfo(index, copyFrom)
    \/ \E index \in DOMAIN servers : RemoveServerInfo(index)
    \/ \E index \in DOMAIN servers, name \in Stations \cup {None} : SetComputerName(index, name)
    \/ \E names \in Names : Serialize(names)

Client ==
    \/ OnTimerTick
    \/ \E lookup \in lookups, found \in BOOLEAN : OnHostInfoFound(lookup, found)
    \/ \E answer \in network : OnHeartbeatRead(answer)

World ==
    \/ \E question \in network : ReadQuestion(question)
    \/ \E s \in Stations, state \in States \cup {Down} : StationChanges(s, state)
    \/ \E datagram \in network : Lose(datagram)

Next == EditList \/ Client \/ World

Spec == Init /\ [][Next]_vars

(***************************************************************************)
(* The timer of the client ticks.  No datagram is on its way for ever, but *)
(* of those sent again and again some arrive.                              *)
(***************************************************************************)
AnswersAbout(i)   == \E answer \in network : answer.id = i /\ OnHeartbeatRead(answer)
QuestionsAbout(i) == \E question \in network : question.id = i /\ ReadQuestion(question)

Fairness ==
    /\ WF_vars(OnTimerTick)
    /\ \A datagram \in Questions \cup Answers : WF_vars(Lose(datagram))
    /\ \A i \in 1..MaxServers : SF_vars(QuestionsAbout(i)) /\ SF_vars(AnswersAbout(i))

FairSpec == Spec /\ Fairness

-----------------------------------------------------------------------------
TypeOK ==
    /\ servers \in Seq(ServerInfo) /\ Len(servers) <= MaxServers
    /\ lookups \subseteq [id : Nat, name : Stations \cup {None}]
    /\ lastLookup \in Nat
    /\ station \in [Stations -> States \cup {Down}]
    /\ network \subseteq Questions \cup Answers
    /\ edits \in 0..MaxEdits
    /\ stationChanges \in 0..MaxStationChanges

\* A server is asked at the address of the host its own lookup was started for,
\* or not at all, whichever servers are inserted, removed, copied, renamed or
\* loaded while results are late: none gets the result of another's lookup.
AddressIsLookedUp ==
    \A i \in DOMAIN servers : servers[i].address \in {None, servers[i].host}

\* False: a server is asked at the address of the computer it names.  A lookup is
\* started once, and GetServerInfoImpl lets a server be renamed after it.
AddressIsNamed ==
    \A i \in DOMAIN servers : servers[i].address \in {None, servers[i].name}

\* What should be shown of the server at an address.
Actual(address) ==
    IF address = None \/ station[address] = Down THEN S_UNKNOWN ELSE station[address]

\* Once the list and the stations stay as they are, whatever answers were late
\* or reached the wrong server of the list, every server is shown in the state
\* of the one at its address or as unknown, and for good: those that do not run
\* or have no address as unknown.
WrongStatePasses ==
    <>[](\A i \in DOMAIN servers : servers[i].state \in {S_UNKNOWN, Actual(servers[i].address)})

\* A server that runs and whose address is known is shown in its state again
\* and again, however many heartbeats were lost before.
AliveIsShown ==
    \A s \in Stations, i \in 1..MaxServers :
        <>[](i \in DOMAIN servers /\ servers[i].address = s /\ station[s] # Down)
            => []<>(i \in DOMAIN servers /\ servers[i].state = station[s])

\* "Client application can use it to identify it with request": an answer is
\* taken for the server whose computer gave it.
AnswerIsOfItsServer ==
    [][\A answer \in network \cap Answers :
            OnHeartbeatRead(answer) => servers[answer.id].name = answer.station]_vars
=============================================================================
