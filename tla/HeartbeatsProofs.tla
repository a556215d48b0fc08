--------------------------- MODULE HeartbeatsProofs ---------------------------
(***************************************************************************)
(* Proofs about Heartbeats, for any number of stations, servers, edits and *)
(* datagrams: the types, and that a server is only ever asked at the       *)
(* address its own lookup has found, whatever the owner of the list does   *)
(* to it while results are late.                                           *)
(***************************************************************************)
EXTENDS Heartbeats, SequenceTheorems, TLAPS

-----------------------------------------------------------------------------
(* Lists *)

(* What a list holds when one server is inserted.  *)
LEMMA InsertKeeps ==
    ASSUME NEW S, NEW s \in Seq(S), NEW e \in S, NEW i \in 1..Len(s)
    PROVE  /\ InsertAt(s, i, e) \in Seq(S)
           /\ Len(InsertAt(s, i, e)) = Len(s) + 1
           /\ \A k \in 1..Len(InsertAt(s, i, e)) :
                InsertAt(s, i, e)[k] = e
                    \/ \E j \in 1..Len(s) : InsertAt(s, i, e)[k] = s[j]
  <1> DEFINE front == SubSeq(s, 1, i - 1)
             back  == SubSeq(s, i, Len(s))
             left  == front \o <<e>>
  <1>1. /\ front \in Seq(S) /\ Len(front) = i - 1
        /\ \A k \in 1..(i - 1) : front[k] = s[k]
    BY SubSeqProperties, i - 1 \in 0..Len(s)
  <1>2. /\ back \in Seq(S) /\ Len(back) = Len(s) - (i - 1)
        /\ \A k \in 1..(Len(s) - (i - 1)) : back[k] = s[(i - 1) + k]
    <2>1. (i - 1) + 1 = i /\ i - 1 \in 0..Len(s)
      OBVIOUS
    <2>2. QED
      BY <2>1, SubSeqProperties
  <1>3. /\ left \in Seq(S) /\ Len(left) = i
        /\ \A k \in 1..(i - 1) : left[k] = front[k]
        /\ left[i] = e
    <2>1. <<e>> \in Seq(S) /\ Len(<<e>>) = 1 /\ <<e>>[1] = e
      OBVIOUS
    <2> HIDE DEF front
    <2>2. /\ left \in Seq(S)
          /\ Len(left) = Len(front) + Len(<<e>>)
          /\ \A k \in 1..Len(front) : left[k] = front[k]
          /\ \A k \in 1..Len(<<e>>) : left[Len(front) + k] = <<e>>[k]
      <3> DEFINE last == <<e>>
      <3>1. front \in Seq(S) /\ last \in Seq(S)
        BY <1>1, <2>1
      <3> HIDE DEF last
      <3>2. /\ front \o last \in Seq(S)
            /\ Len(front \o last) = Len(front) + Len(last)
            /\ \A k \in 1..Len(front) : (front \o last)[k] = front[k]
            /\ \A k \in 1..Len(last) : (front \o last)[Len(front) + k] = last[k]
        BY <3>1, ConcatProperties
      <3> USE DEF last
      <3>3. QED
        BY <3>2
    <2> HIDE DEF left
    <2>3. Len(left) = i /\ \A k \in 1..(i - 1) : left[k] = front[k]
      BY <1>1, <2>1, <2>2
    <2>4. left[i] = e
      <3>1. left[Len(front) + 1] = <<e>>[1]
        BY <2>1, <2>2
      <3>2. QED
        BY <3>1, <2>1, <1>1
    <2>5. QED
      BY <2>2, <2>3, <2>4
  <1>4. InsertAt(s, i, e) = left \o back
    BY DEF InsertAt
  <1> HIDE DEF front, back, left
  <1>5. /\ left \o back \in Seq(S)
        /\ Len(left \o back) = i + Len(back)
        /\ \A k \in 1..i : (left \o back)[k] = left[k]
        /\ \A k \in 1..Len(back) : (left \o back)[i + k] = back[k]
    <2>1. left \in Seq(S) /\ back \in Seq(S)
      BY <1>2, <1>3
    <2>2. /\ left \o back \in Seq(S)
          /\ Len(left \o back) = Len(left) + Len(back)
          /\ \A k \in 1..Len(left) : (left \o back)[k] = left[k]
          /\ \A k \in 1..Len(back) : (left \o back)[Len(left) + k] = back[k]
      BY <2>1, ConcatProperties
    <2>3. QED
      BY <2>2, <1>3
  <1>6. ASSUME NEW k \in 1..Len(left \o back)
        PROVE  (left \o back)[k] = e \/ \E j \in 1..Len(s) : (left \o back)[k] = s[j]
    <2>1. CASE k \in 1..(i - 1)
      BY <1>1, <1>3, <1>5, <2>1
    <2>2. CASE k = i
      BY <1>3, <1>5, <2>2
    <2>3. CASE k > i
      <3>1. k - i \in 1..Len(back) /\ i + (k - i) = k
        BY <1>2, <1>5, <2>3
      <3>2. (left \o back)[k] = s[(i - 1) + (k - i)] /\ (i - 1) + (k - i) \in 1..Len(s)
        BY <1>2, <1>5, <3>1
      <3>3. QED
        BY <3>2
    <2>4. QED
      BY <2>1, <2>2, <2>3, <1>5, <1>2
  <1>7. Len(left \o back) = Len(s) + 1
    BY <1>2, <1>5
  <1>8. QED
    BY <1>4, <1>5, <1>6, <1>7

(* What a list holds when one server is removed.  *)
LEMMA RemoveKeeps ==
    ASSUME NEW S, NEW s \in Seq(S), NEW i \in 1..Len(s)
    PROVE  /\ RemoveAt(s, i) \in Seq(S)
           /\ Len(RemoveAt(s, i)) = Len(s) - 1
           /\ \A k \in 1..Len(RemoveAt(s, i)) :
                \E j \in 1..Len(s) : RemoveAt(s, i)[k] = s[j]
  <1> DEFINE front == SubSeq(s, 1, i - 1)
             back  == SubSeq(s, i + 1, Len(s))
  <1>1. /\ front \in Seq(S) /\ Len(front) = i - 1
        /\ \A k \in 1..(i - 1) : front[k] = s[k]
    BY SubSeqProperties, i - 1 \in 0..Len(s)
  <1>2. /\ back \in Seq(S) /\ Len(back) = Len(s) - i
        /\ \A k \in 1..(Len(s) - i) : back[k] = s[i + k]
    BY SubSeqProperties, i \in 0..Len(s)
  <1>3. RemoveAt(s, i) = front \o back
    BY DEF RemoveAt
  <1> HIDE DEF front, back
  <1>4. /\ front \o back \in Seq(S)
        /\ Len(front \o back) = (i - 1) + Len(back)
        /\ \A k \in 1..(i - 1) : (front \o back)[k] = front[k]
        /\ \A k \in 1..Len(back) : (front \o back)[(i - 1) + k] = back[k]
    <2>1. front \in Seq(S) /\ back \in Seq(S)
      BY <1>1, <1>2
    <2>2. /\ front \o back \in Seq(S)
          /\ Len(front \o back) = Len(front) + Len(back)
          /\ \A k \in 1..Len(front) : (front \o back)[k] = front[k]
          /\ \A k \in 1..Len(back) : (front \o back)[Len(front) + k] = back[k]
      BY <2>1, ConcatProperties
    <2>3. QED
      BY <2>2, <1>1
  <1>5. ASSUME NEW k \in 1..Len(front \o back)
        PROVE  \E j \in 1..Len(s) : (front \o back)[k] = s[j]
    <2>1. CASE k <= i - 1
      BY <1>1, <1>4, <2>1
    <2>2. CASE k > i - 1
      <3>1. k - (i - 1) \in 1..Len(back) /\ (i - 1) + (k - (i - 1)) = k
        BY <1>2, <1>4, <2>2
      <3>2. (front \o back)[k] = s[i + (k - (i - 1))] /\ i + (k - (i - 1)) \in 1..Len(s)
        BY <1>2, <1>4, <3>1
      <3>3. QED
        BY <3>2
    <2>3. QED
      BY <2>1, <2>2, <1>2, <1>4
  <1>6. Len(front \o back) = Len(s) - 1
    BY <1>2, <1>4
  <1>7. QED
    BY <1>3, <1>4, <1>5, <1>6

-----------------------------------------------------------------------------
(* Types *)

(* The servers a list gets.  *)
LEMMA ServerTypes ==
    \A name \in Stations \cup {None}, state \in States \cup {S_UNKNOWN} :
        NewServer(name, state) \in ServerInfo
  BY HeartbeatsAssumption DEF NewServer, ServerInfo, NotLookedUp

(* A list that is loaded.  *)
LEMMA LoadedType ==
    ASSUME NEW names \in Names
    PROVE  Loaded(names) \in Seq(ServerInfo) /\ Len(Loaded(names)) <= MaxServers
  <1>1. PICK n \in 0..MaxServers : names \in [1..n -> Stations]
    BY DEF Names
  <1>2. n \in Nat
    BY <1>1, HeartbeatsAssumption
  <1>3. \A k \in 1..n : NewServer(names[k], S_UNKNOWN) \in ServerInfo
    BY <1>1, ServerTypes
  <1>4. Loaded(names) \in [1..n -> ServerInfo]
    BY <1>1, <1>3 DEF Loaded
  <1>5. Loaded(names) \in Seq(ServerInfo) /\ Len(Loaded(names)) = n
    BY <1>2, <1>4
  <1>6. QED
    BY <1>1, <1>2, <1>5, HeartbeatsAssumption

(* A tick keeps servers servers.  *)
LEMMA TickType ==
    ASSUME TypeOK, NEW i \in DOMAIN servers
    PROVE  Tick(servers[i], i) \in ServerInfo
  <1>1. servers[i] \in ServerInfo /\ i \in Nat
    BY DEF TypeOK
  <1>2. LookedUp(i) \in Nat
    BY <1>1 DEF TypeOK, LookedUp
  <1>3. QED
    BY <1>1, <1>2, HeartbeatsAssumption DEF Tick, ServerInfo

(* The initial state.  *)
LEMMA InitType == Init => TypeOK
  BY LoadedType, HeartbeatsAssumption DEF Init, TypeOK, NotLookedUp

(* Every edit keeps a list a list of servers.  *)
LEMMA EditType ==
    ASSUME TypeOK, EditList
    PROVE  TypeOK'
  <1>1. SUFFICES servers' \in Seq(ServerInfo) /\ Len(servers') <= MaxServers
    <2>1. Edit
      BY DEF EditList, CreateServerInfo, RemoveServerInfo, SetComputerName, Serialize
    <2>2. QED
      BY <1>1, <2>1, HeartbeatsAssumption DEF Edit, TypeOK, world
  <1>2. ASSUME NEW index \in {0} \cup DOMAIN servers, NEW copyFrom \in {0} \cup DOMAIN servers,
               CreateServerInfo(index, copyFrom)
        PROVE  servers' \in Seq(ServerInfo) /\ Len(servers') <= MaxServers
    <2> DEFINE new == IF copyFrom = 0 THEN NewServer(None, S_UNKNOWN)
                      ELSE NewServer(servers[copyFrom].name, servers[copyFrom].state)
    <2>1. new \in ServerInfo
      <3>1. CASE copyFrom = 0
        BY <3>1, ServerTypes
      <3>2. CASE copyFrom # 0
        <4>1. servers[copyFrom] \in ServerInfo
          BY <3>2 DEF TypeOK
        <4>2. QED
          BY <3>2, <4>1, ServerTypes DEF ServerInfo
      <3>3. QED
        BY <3>1, <3>2
    <2>2. servers' = IF index = 0 THEN Append(servers, new) ELSE InsertAt(servers, index, new)
      BY <1>2 DEF CreateServerInfo
    <2> HIDE DEF new
    <2>3. Len(servers) < MaxServers
      BY <1>2 DEF CreateServerInfo
    <2>4. CASE index = 0
      BY <2>1, <2>2, <2>3, <2>4, HeartbeatsAssumption DEF TypeOK
    <2>5. CASE index # 0
      <3>1. index \in 1..Len(servers) /\ servers \in Seq(ServerInfo)
        BY <2>5 DEF TypeOK
      <3>2. QED
        BY <2>1, <2>2, <2>3, <2>5, <3>1, InsertKeeps, HeartbeatsAssumption
    <2>6. QED
      BY <2>4, <2>5
  <1>3. ASSUME NEW index \in DOMAIN servers, RemoveServerInfo(index)
        PROVE  servers' \in Seq(ServerInfo) /\ Len(servers') <= MaxServers
    <2>1. index \in 1..Len(servers) /\ servers \in Seq(ServerInfo)
      BY DEF TypeOK
    <2>2. servers' = RemoveAt(servers, index)
      BY <1>3 DEF RemoveServerInfo
    <2>3. QED
      BY <2>1, <2>2, RemoveKeeps, HeartbeatsAssumption DEF TypeOK
  <1>4. ASSUME NEW index \in DOMAIN servers, NEW name \in Stations \cup {None},
               SetComputerName(index, name)
        PROVE  servers' \in Seq(ServerInfo) /\ Len(servers') <= MaxServers
    <2>1. servers[index] \in ServerInfo
      BY DEF TypeOK
    <2>2. [servers[index] EXCEPT !.name = name] \in ServerInfo
      BY <2>1 DEF ServerInfo
    <2>3. servers' = [servers EXCEPT ![index] = [servers[index] EXCEPT !.name = name]]
      BY <1>4 DEF SetComputerName
    <2>4. QED
      BY <2>2, <2>3 DEF TypeOK
  <1>5. ASSUME NEW names \in Names, Serialize(names)
        PROVE  servers' \in Seq(ServerInfo) /\ Len(servers') <= MaxServers
    BY <1>5, LoadedType DEF Serialize
  <1>6. QED
    BY <1>2, <1>3, <1>4, <1>5 DEF EditList

(* The slots of the client.  *)
LEMMA ClientType ==
    ASSUME TypeOK, Client
    PROVE  TypeOK'
  <1>1. CASE OnTimerTick
    <2>1. servers' \in Seq(ServerInfo) /\ Len(servers') <= MaxServers
      <3>1. servers' = [i \in DOMAIN servers |-> Tick(servers[i], i)]
        BY <1>1 DEF OnTimerTick
      <3>2. DOMAIN servers = 1..Len(servers) /\ Len(servers) \in Nat
        BY DEF TypeOK
      <3>3. servers' \in [1..Len(servers) -> ServerInfo]
        BY <3>1, <3>2, TickType
      <3>4. servers' \in Seq(ServerInfo) /\ Len(servers') = Len(servers)
        BY <3>2, <3>3
      <3>5. QED
        BY <3>4 DEF TypeOK
    <2>2. lookups' \subseteq [id : Nat, name : Stations \cup {None}]
      <3>1. ASSUME NEW i \in DOMAIN servers
            PROVE  LookedUp(i) \in Nat /\ servers[i].name \in Stations \cup {None}
        <4>1. servers[i] \in ServerInfo /\ i \in Nat
          BY DEF TypeOK
        <4>2. QED
          BY <4>1 DEF TypeOK, LookedUp, ServerInfo
      <3>2. QED
        BY <1>1, <3>1 DEF OnTimerTick, TypeOK
    <2>3. lastLookup' \in Nat
      BY <1>1 DEF OnTimerTick, TypeOK
    <2>4. network' \subseteq Questions \cup Answers
      <3>1. \A i \in DOMAIN servers : servers[i].address # None
                => Question(servers[i].address, i) \in Questions
        <4>1. SUFFICES ASSUME NEW i \in DOMAIN servers, servers[i].address # None
                       PROVE  Question(servers[i].address, i) \in Questions
          OBVIOUS
        <4>2. servers[i] \in ServerInfo /\ i \in 1..MaxServers
          BY HeartbeatsAssumption DEF TypeOK
        <4>3. servers[i].address \in Stations
          BY <4>1, <4>2 DEF ServerInfo
        <4>4. QED
          BY <4>2, <4>3 DEF Questions
      <3>2. QED
        BY <1>1, <3>1 DEF OnTimerTick, TypeOK
    <2>5. QED
      BY <1>1, <2>1, <2>2, <2>3, <2>4 DEF OnTimerTick, TypeOK, world
  <1>2. ASSUME NEW lookup \in lookups, NEW found \in BOOLEAN, OnHostInfoFound(lookup, found)
        PROVE  TypeOK'
    <2>1. lookup.name \in Stations \cup {None}
      BY DEF TypeOK
    <2>2. DOMAIN servers = 1..Len(servers) /\ Len(servers) \in Nat
          /\ \A i \in DOMAIN servers : servers[i] \in ServerInfo
      BY DEF TypeOK
    <2>3. servers' \in [1..Len(servers) -> ServerInfo]
      BY <1>2, <2>1, <2>2 DEF OnHostInfoFound, ServerInfo
    <2>4. servers' \in Seq(ServerInfo) /\ Len(servers') = Len(servers)
      BY <2>2, <2>3
    <2>5. QED
      BY <1>2, <2>4 DEF OnHostInfoFound, TypeOK, world
  <1>3. ASSUME NEW answer \in network, OnHeartbeatRead(answer)
        PROVE  TypeOK'
    <2>1. answer.state \in States /\ answer.id \in DOMAIN servers
      BY <1>3 DEF OnHeartbeatRead, Answers, Answer
    <2> DEFINE told  == [servers[answer.id] EXCEPT !.state = answer.state]
               heard == [told EXCEPT !.lost = 0]
    <2>2. heard \in ServerInfo
      <3>1. servers[answer.id] \in ServerInfo
        BY <2>1 DEF TypeOK
      <3>2. told \in ServerInfo
        BY <2>1, <3>1 DEF ServerInfo
      <3> HIDE DEF told
      <3>3. QED
        BY <3>2, HeartbeatsAssumption DEF ServerInfo
    <2>3. servers' = [servers EXCEPT ![answer.id] = heard]
      BY <1>3, <2>1 DEF OnHeartbeatRead, TypeOK
    <2> HIDE DEF heard
    <2>4. servers' \in Seq(ServerInfo) /\ Len(servers') = Len(servers)
      <3>1. servers \in Seq(ServerInfo)
        BY DEF TypeOK
      <3>2. QED
        BY <2>1, <2>2, <2>3, <3>1
    <2>5. QED
      BY <1>3, <2>4 DEF OnHeartbeatRead, TypeOK, world
  <1>4. QED
    BY <1>1, <1>2, <1>3 DEF Client

(* The stations and the network.  *)
LEMMA WorldType ==
    ASSUME TypeOK, World
    PROVE  TypeOK'
  <1>1. ASSUME NEW question \in network, ReadQuestion(question)
        PROVE  TypeOK'
    <2>1. question.station \in Stations /\ question.id \in 1..MaxServers
      BY <1>1 DEF ReadQuestion, Questions, Question
    <2>2. Answer(question.station, question.id, station[question.station]) \in Answers
      BY <1>1, <2>1 DEF ReadQuestion, TypeOK, Answers
    <2>3. network' \subseteq Questions \cup Answers
      BY <1>1, <2>2 DEF ReadQuestion, TypeOK
    <2>4. QED
      BY <1>1, <2>3 DEF ReadQuestion, TypeOK, list, world
  <1>2. ASSUME NEW s \in Stations, NEW state \in States \cup {Down}, StationChanges(s, state)
        PROVE  TypeOK'
    BY <1>2, HeartbeatsAssumption DEF StationChanges, TypeOK, list
  <1>3. ASSUME NEW datagram \in network, Lose(datagram)
        PROVE  TypeOK'
    BY <1>3 DEF Lose, TypeOK, list, world
  <1>4. QED
    BY <1>1, <1>2, <1>3 DEF World

(***************************************************************************)
(* The list, the lookups and the datagrams keep their types; the list      *)
(* never outgrows its bound and no server its count of lost heartbeats.    *)
(***************************************************************************)
THEOREM TypeCorrect == Spec => []TypeOK
  <1>1. Init => TypeOK
    BY InitType
  <1>2. TypeOK /\ [Next]_vars => TypeOK'
    <2>1. CASE EditList
      BY <2>1, EditType
    <2>2. CASE Client
      BY <2>2, ClientType
    <2>3. CASE World
      BY <2>3, WorldType
    <2>4. CASE UNCHANGED vars
      BY <2>4 DEF TypeOK, vars, list, world
    <2>5. QED
      BY <2>1, <2>2, <2>3, <2>4 DEF Next
  <1>3. QED
    BY <1>1, <1>2, PTL DEF Spec

-----------------------------------------------------------------------------
(***************************************************************************)
(* Addresses.  A server that has a number is the only one that was given   *)
(* it, and the lookup of that number, while it has no result, is that of   *)
(* the server's host.                                                      *)
(***************************************************************************)

(* A server of the list, related to the lookups that have no result yet.  *)
WellNamed(info) ==
    /\ info.lookup <= lastLookup
    /\ info.lookup = NotLookedUp => info.address = None
    /\ info.address \in {None, info.host}
    /\ \A lookup \in lookups : lookup.id = info.lookup => lookup.name = info.host

Numbered == \A lookup \in lookups : NotLookedUp < lookup.id /\ lookup.id <= lastLookup

IInv ==
    /\ TypeOK
    /\ Numbered
    /\ \A i \in DOMAIN servers : WellNamed(servers[i])

(* A server that is new in the list belongs to no lookup.  *)
LEMMA NewWellNamed ==
    ASSUME TypeOK, Numbered, NEW name, NEW state
    PROVE  WellNamed(NewServer(name, state))
  BY DEF TypeOK, Numbered, WellNamed, NewServer, NotLookedUp

(* Edits keep the servers well named.  *)
LEMMA EditWellNamed ==
    ASSUME IInv, EditList
    PROVE  /\ Numbered'
           /\ \A i \in DOMAIN servers' : WellNamed(servers[i])'
  <1>1. UNCHANGED <<lookups, lastLookup>>
    BY DEF EditList, CreateServerInfo, RemoveServerInfo, SetComputerName, Serialize, Edit
  <1>2. SUFFICES \A i \in DOMAIN servers' : WellNamed(servers'[i])
    BY <1>1, <1>2 DEF WellNamed, IInv, Numbered
  <1>3. ASSUME NEW index \in {0} \cup DOMAIN servers, NEW copyFrom \in {0} \cup DOMAIN servers,
               CreateServerInfo(index, copyFrom)
        PROVE  \A i \in DOMAIN servers' : WellNamed(servers'[i])
    <2> DEFINE new == IF copyFrom = 0 THEN NewServer(None, S_UNKNOWN)
                      ELSE NewServer(servers[copyFrom].name, servers[copyFrom].state)
    <2>1. WellNamed(new)
      BY NewWellNamed DEF IInv
    <2>2. new \in ServerInfo
      <3>1. CASE copyFrom = 0
        BY <3>1, ServerTypes
      <3>2. CASE copyFrom # 0
        <4>1. servers[copyFrom] \in ServerInfo
          BY <3>2 DEF IInv, TypeOK
        <4>2. QED
          BY <3>2, <4>1, ServerTypes DEF ServerInfo
      <3>3. QED
        BY <3>1, <3>2
    <2>3. servers' = IF index = 0 THEN Append(servers, new) ELSE InsertAt(servers, index, new)
      BY <1>3 DEF CreateServerInfo
    <2>4. servers \in Seq(ServerInfo) /\ \A i \in 1..Len(servers) : WellNamed(servers[i])
      BY DEF IInv, TypeOK
    <2> HIDE DEF new
    <2>5. servers' \in Seq(ServerInfo)
          /\ \A k \in 1..Len(servers') :
                servers'[k] = new \/ \E j \in 1..Len(servers) : servers'[k] = servers[j]
      <3>1. CASE index = 0
        BY <2>2, <2>3, <2>4, <3>1
      <3>2. CASE index # 0
        <4>1. index \in 1..Len(servers)
          BY <2>4, <3>2
        <4>2. QED
          BY <2>2, <2>3, <2>4, <3>2, <4>1, InsertKeeps
      <3>3. QED
        BY <3>1, <3>2
    <2>6. QED
      BY <2>1, <2>4, <2>5
  <1>4. ASSUME NEW index \in DOMAIN servers, RemoveServerInfo(index)
        PROVE  \A i \in DOMAIN servers' : WellNamed(servers'[i])
    <2>1. index \in 1..Len(servers) /\ servers \in Seq(ServerInfo)
          /\ \A i \in 1..Len(servers) : WellNamed(servers[i])
      BY DEF IInv, TypeOK
    <2>2. servers' = RemoveAt(servers, index)
      BY <1>4 DEF RemoveServerInfo
    <2>3. servers' \in Seq(ServerInfo)
          /\ \A k \in 1..Len(servers') : \E j \in 1..Len(servers) : servers'[k] = servers[j]
      <3>1. index \in 1..Len(servers) /\ servers \in Seq(ServerInfo)
        BY <2>1
      <3> DEFINE rest == RemoveAt(servers, index)
      <3>2. rest \in Seq(ServerInfo)
        BY <3>1, RemoveKeeps
      <3>3. ASSUME NEW k \in 1..Len(rest)
            PROVE  \E j \in 1..Len(servers) : rest[k] = servers[j]
        BY <3>1, RemoveKeeps
      <3> HIDE DEF rest
      <3>4. servers' = rest
        BY <2>2 DEF rest
      <3>5. QED
        BY <3>2, <3>3, <3>4
    <2>4. QED
      BY SMTT(30), <2>1, <2>3
  <1>5. ASSUME NEW index \in DOMAIN servers, NEW name \in Stations \cup {None},
               SetComputerName(index, name)
        PROVE  \A i \in DOMAIN servers' : WellNamed(servers'[i])
    <2> DEFINE renamed == [servers[index] EXCEPT !.name = name]
    <2>1. servers[index] \in ServerInfo /\ WellNamed(servers[index])
      BY DEF IInv, TypeOK
    <2>2. /\ renamed.lookup = servers[index].lookup
          /\ renamed.address = servers[index].address
          /\ renamed.host = servers[index].host
      BY <2>1 DEF ServerInfo
    <2>3. servers' = [servers EXCEPT ![index] = renamed]
      BY <1>5 DEF SetComputerName
    <2> HIDE DEF renamed
    <2>4. WellNamed(renamed)
      BY <2>1, <2>2 DEF WellNamed
    <2>5. QED
      BY <2>3, <2>4 DEF IInv
  <1>6. ASSUME NEW names \in Names, Serialize(names)
        PROVE  \A i \in DOMAIN servers' : WellNamed(servers'[i])
    <2>1. \A i \in DOMAIN servers' : servers'[i] = NewServer(names[i], S_UNKNOWN)
      BY <1>6 DEF Serialize, Loaded
    <2>2. QED
      BY <2>1, NewWellNamed DEF IInv
  <1>7. QED
    BY <1>3, <1>4, <1>5, <1>6 DEF EditList

(* A tick gives every server that has none a number of its own.  *)
LEMMA TickWellNamed ==
    ASSUME IInv, OnTimerTick
    PROVE  /\ Numbered'
           /\ \A i \in DOMAIN servers' : WellNamed(servers[i])'
  <1> DEFINE new == {i \in DOMAIN servers : servers[i].lookup = NotLookedUp}
  <1>1. /\ servers' = [i \in DOMAIN servers |-> Tick(servers[i], i)]
        /\ lookups' = lookups \cup {[id |-> LookedUp(i), name |-> servers[i].name] : i \in new}
        /\ lastLookup' = IF new = {} THEN lastLookup ELSE lastLookup + Len(servers)
    BY DEF OnTimerTick
  <1>2. /\ lastLookup \in Nat /\ Len(servers) \in Nat
        /\ DOMAIN servers = 1..Len(servers)
        /\ \A i \in DOMAIN servers : servers[i] \in ServerInfo
        /\ \A lookup \in lookups : lookup.id \in Nat
    BY DEF IInv, TypeOK
  <1>3. lastLookup <= lastLookup'
    BY <1>1, <1>2
  <1>4. \A i \in new : /\ LookedUp(i) = lastLookup + i
                       /\ lastLookup < LookedUp(i) /\ LookedUp(i) <= lastLookup'
    BY <1>1, <1>2 DEF LookedUp
  <1>5. Numbered'
    <2>1. SUFFICES ASSUME NEW lookup \in lookups'
                   PROVE  NotLookedUp < lookup.id /\ lookup.id <= lastLookup'
      BY DEF Numbered
    <2>2. CASE lookup \in lookups
      BY <1>1, <1>2, <1>3, <2>2 DEF IInv, Numbered, NotLookedUp
    <2>3. CASE \E i \in new : lookup = [id |-> LookedUp(i), name |-> servers[i].name]
      <3>1. PICK i \in new : lookup = [id |-> LookedUp(i), name |-> servers[i].name]
        BY <2>3
      <3>2. lookup.id = lastLookup + i /\ lastLookup + i <= lastLookup' /\ i \in 1..Len(servers)
        BY <1>2, <1>4, <3>1
      <3>3. QED
        BY <1>2, <3>2 DEF NotLookedUp
    <2>4. QED
      BY <1>1, <2>1, <2>2, <2>3
  <1>6. ASSUME NEW i \in DOMAIN servers
        PROVE  WellNamed(servers[i])'
    <2>1. /\ servers'[i].host = IF i \in new THEN servers[i].name ELSE servers[i].host
          /\ servers'[i].address = servers[i].address
          /\ servers'[i].lookup = IF i \in new THEN LookedUp(i) ELSE servers[i].lookup
          /\ i \in new => servers'[i].address = None
      BY <1>1 DEF Tick, IInv, WellNamed
    <2>2. WellNamed(servers[i]) /\ servers[i].lookup \in Nat /\ i \in 1..Len(servers)
      BY <1>2 DEF IInv, ServerInfo
    <2>3. servers'[i].lookup \in Nat /\ servers'[i].lookup # NotLookedUp
          /\ servers'[i].lookup <= lastLookup'
      <3>1. lastLookup' \in Nat
        BY <1>1, <1>2
      <3>2. CASE i \in new
        <4>1. servers'[i].lookup = lastLookup + i /\ lastLookup + i <= lastLookup'
          BY <1>4, <2>1, <3>2
        <4>2. QED
          BY <1>2, <2>2, <4>1 DEF NotLookedUp
      <3>3. CASE i \notin new
        <4>1. servers'[i].lookup = servers[i].lookup /\ servers[i].lookup # NotLookedUp
          BY <2>1, <3>3
        <4>2. servers[i].lookup <= lastLookup
          BY <2>2 DEF WellNamed
        <4>3. QED
          BY <1>2, <1>3, <2>2, <3>1, <4>1, <4>2
      <3>4. QED
        BY <3>2, <3>3
    <2>4. ASSUME NEW lookup \in lookups', lookup.id = servers'[i].lookup
          PROVE  lookup.name = servers'[i].host
      <3>1. CASE lookup \in lookups
        <4>1. lookup.id <= lastLookup
          BY <3>1 DEF IInv, Numbered
        <4>2. i \notin new
          BY <1>2, <1>4, <2>1, <2>4, <3>1, <4>1
        <4>3. QED
          BY <2>1, <2>2, <2>4, <3>1, <4>2 DEF WellNamed
      <3>2. CASE lookup \notin lookups
        <4>1. PICK j \in new : lookup = [id |-> LookedUp(j), name |-> servers[j].name]
          BY <1>1, <3>2
        <4>2. lookup.id = lastLookup + j /\ j \in 1..Len(servers) /\ lookup.name = servers[j].name
          BY <1>2, <1>4, <4>1
        <4>3. i \in new
          BY <1>2, <2>1, <2>2, <2>4, <4>2 DEF WellNamed
        <4>4. lookup.id = lastLookup + i
          BY <1>4, <2>1, <2>4, <4>3
        <4>5. i = j
          BY <1>2, <2>2, <4>2, <4>4
        <4>6. QED
          BY <2>1, <4>2, <4>3, <4>5
      <3>3. QED
        BY <3>1, <3>2
    <2>5. QED
      BY <2>1, <2>2, <2>3, <2>4 DEF WellNamed
  <1>7. DOMAIN servers' = DOMAIN servers
    BY <1>1
  <1>8. QED
    BY <1>5, <1>6, <1>7

(* The result of a lookup reaches the servers of the name looked up.  *)
LEMMA FoundWellNamed ==
    ASSUME IInv, NEW lookup \in lookups, NEW found \in BOOLEAN, OnHostInfoFound(lookup, found)
    PROVE  /\ Numbered'
           /\ \A i \in DOMAIN servers' : WellNamed(servers[i])'
  <1> DEFINE address == IF found THEN lookup.name ELSE None
  <1>1. /\ servers' = [i \in DOMAIN servers |->
                          IF servers[i].lookup # lookup.id THEN servers[i]
                          ELSE [servers[i] EXCEPT !.address = address]]
        /\ lookups' = lookups \ {lookup}
        /\ lastLookup' = lastLookup
    BY DEF OnHostInfoFound
  <1>2. Numbered'
    BY <1>1 DEF IInv, Numbered
  <1>3. ASSUME NEW i \in DOMAIN servers
        PROVE  WellNamed(servers[i])'
    <2>1. servers[i] \in ServerInfo /\ WellNamed(servers[i])
      BY DEF IInv, TypeOK
    <2>2. CASE servers[i].lookup # lookup.id
      BY <1>1, <2>1, <2>2 DEF WellNamed
    <2>3. CASE servers[i].lookup = lookup.id
      <3>1. lookup.id # NotLookedUp
        BY DEF IInv, TypeOK, Numbered, NotLookedUp
      <3>2. lookup.name = servers[i].host
        BY <2>1, <2>3 DEF WellNamed
      <3>3. /\ servers'[i].host = servers[i].host
            /\ servers'[i].lookup = servers[i].lookup
            /\ servers'[i].address = address
        BY <1>1, <2>1, <2>3 DEF ServerInfo
      <3>4. QED
        BY <1>1, <2>1, <2>3, <3>1, <3>2, <3>3 DEF WellNamed
    <2>4. QED
      BY <2>2, <2>3
  <1>4. DOMAIN servers' = DOMAIN servers
    BY <1>1
  <1>5. QED
    BY <1>2, <1>3, <1>4

(* An answer tells nothing about addresses.  *)
LEMMA ReadWellNamed ==
    ASSUME IInv, NEW answer \in network, OnHeartbeatRead(answer)
    PROVE  /\ Numbered'
           /\ \A i \in DOMAIN servers' : WellNamed(servers[i])'
  <1>1. /\ lookups' = lookups /\ lastLookup' = lastLookup
        /\ DOMAIN servers' = DOMAIN servers
    BY DEF OnHeartbeatRead
  <1>2. ASSUME NEW i \in DOMAIN servers
        PROVE  /\ servers'[i].host = servers[i].host
               /\ servers'[i].address = servers[i].address
               /\ servers'[i].lookup = servers[i].lookup
    <2>1. servers[i] \in ServerInfo
      BY DEF IInv, TypeOK
    <2>2. QED
      BY <2>1 DEF OnHeartbeatRead, ServerInfo
  <1>3. QED
    BY <1>1, <1>2 DEF IInv, Numbered, WellNamed

(***************************************************************************)
(* However the list is edited while hosts are looked up, whichever lookups *)
(* fail and whatever the stations and the network do: a server has the     *)
(* address of the host its own lookup was started for, or none.            *)
(***************************************************************************)
THEOREM AddressesLookedUp == Spec => []AddressIsLookedUp
  <1>1. Init => IInv
    <2>1. SUFFICES ASSUME Init
                   PROVE  IInv
      OBVIOUS
    <2>2. TypeOK /\ Numbered
      BY <2>1, InitType DEF Init, Numbered
    <2>3. PICK names \in Names : servers = Loaded(names)
      BY <2>1 DEF Init
    <2>4. \A i \in DOMAIN servers : servers[i] = NewServer(names[i], S_UNKNOWN)
      BY <2>3 DEF Loaded
    <2>5. QED
      BY <2>2, <2>4, NewWellNamed DEF IInv
  <1>2. IInv /\ [Next]_vars => IInv'
    <2>1. SUFFICES ASSUME IInv, [Next]_vars
                   PROVE  IInv'
      OBVIOUS
    <2>2. CASE EditList
      BY <2>1, <2>2, EditType, EditWellNamed DEF IInv
    <2>3. CASE Client
      <3>1. TypeOK'
        BY <2>1, <2>3, ClientType DEF IInv
      <3>2. CASE OnTimerTick
        BY <2>1, <3>1, <3>2, TickWellNamed DEF IInv
      <3>3. ASSUME NEW lookup \in lookups, NEW found \in BOOLEAN, OnHostInfoFound(lookup, found)
            PROVE  IInv'
        BY <2>1, <3>1, <3>3, FoundWellNamed DEF IInv
      <3>4. ASSUME NEW answer \in network, OnHeartbeatRead(answer)
            PROVE  IInv'
        BY <2>1, <3>1, <3>4, ReadWellNamed DEF IInv
      <3>5. QED
        BY <2>3, <3>2, <3>3, <3>4 DEF Client
    <2>4. CASE World
      <3>1. TypeOK'
        BY <2>1, <2>4, WorldType DEF IInv
      <3>2. UNCHANGED <<servers, lookups, lastLookup>>
        BY <2>4 DEF World, ReadQuestion, StationChanges, Lose, list
      <3>3. QED
        BY <2>1, <3>1, <3>2 DEF IInv, Numbered, WellNamed
    <2>5. CASE UNCHANGED vars
      BY <2>1, <2>5 DEF IInv, TypeOK, Numbered, WellNamed, vars, list, world
    <2>6. QED
      BY <2>1, <2>2, <2>3, <2>4, <2>5 DEF Next
  <1>3. IInv => AddressIsLookedUp
    BY DEF IInv, WellNamed, AddressIsLookedUp
  <1>4. QED
    BY <1>1, <1>2, <1>3, PTL DEF Spec
=============================================================================
