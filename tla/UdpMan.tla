-------------------------------- MODULE UdpMan --------------------------------
(***************************************************************************)
(* UDPMan end to end: the server of UdpManServer and clients that run      *)
(* new_datagram (src/src/protocol/udpman/client.rs), over UDP that loses,  *)
(* reorders and duplicates.                                                *)
(*                                                                         *)
(* A flow is [sock, session]: the address of the client's socket and the   *)
(* session that uses it, which stands for the uuid of its Connect.  The    *)
(* system may give an address to a later socket, so a message for an       *)
(* earlier session can reach a later one.  Messages are records here;      *)
(* WireFaithful shows that their bytes (UdpManProto) say the same.         *)
(***************************************************************************)
EXTENDS UdpManServer

CONSTANTS
    Socks,          \* client socket addresses
    MaxSession,     \* bound: sessions one address serves in turn
    MaxDups         \* bound: messages the network duplicates

ASSUME ClientAssumption ==
    /\ MaxSession \in Nat
    /\ MaxDups \in Nat
    /\ Flows = [sock : Socks, session : 1..MaxSession]

VARIABLES
    client,         \* the session of each socket
    uplink,         \* messages on their way to the server
    dups            \* duplicates the network may still make

clientVars == <<client, uplink, dups>>
vars == <<serverVars, clientVars>>

FlowOf(s) == [sock |-> s, session |-> client[s].session]

ConnectMsg(f) == [type |-> "Connect", from |-> f, id |-> NoId, payload |-> InitialData(f)]
UplinkData(f, id, p) == [type |-> "Data", from |-> f, id |-> id, payload |-> p]

NewClient(n) ==
    [session |-> n, phase |-> "idle", id |-> NoId, next |-> 1, got |-> {}]

Init ==
    /\ ServerInit
    /\ client = [s \in Socks |-> NewClient(1)]
    /\ uplink = {}
    /\ dups = MaxDups

-----------------------------------------------------------------------------
(* A received message leaves the network, unless it is duplicated.          *)

TakeUplink(m) ==
    \/ uplink' = uplink \ {m} /\ UNCHANGED dups
    \/ dups > 0 /\ dups' = dups - 1 /\ UNCHANGED uplink

TakeDown(m) ==
    \/ down' = down \ {m} /\ UNCHANGED dups
    \/ dups > 0 /\ dups' = dups - 1 /\ UNCHANGED down

ServerReceives(m) ==
    /\ m \in uplink
    /\ TakeUplink(m)
    /\ \/ m.type = "Connect" /\ (ServeConnect(m.from) \/ RefuseConnect)
       \/ m.type = "Data" /\ (\/ DataUnknown(m.id)
                              \/ DataQueued(m.id, m.payload)
                              \/ DataFull(m.id)
                              \/ DataDisconnected(m.id))
    /\ UNCHANGED client

ServerRuns ==
    /\ ServeStops \/ \E t \in Tasks : TaskStep(t)
    /\ UNCHANGED clientVars

-----------------------------------------------------------------------------
(* new_datagram and the task it spawns.                                     *)

\* The Connect message, with the uuid and the first payload, is sent.
SendConnect(s) ==
    /\ client[s].phase = "idle"
    /\ uplink' = uplink \cup {ConnectMsg(FlowOf(s))}
    /\ client' = [client EXCEPT ![s].phase = "waiting"]
    /\ UNCHANGED <<serverVars, dups>>

\* No first message within a second.
EstablishTimeout(s) ==
    /\ client[s].phase = "waiting"
    /\ client' = [client EXCEPT ![s].phase = "failed"]
    /\ UNCHANGED <<serverVars, uplink, dups>>

\* Mutant of Accepts: any Establish is taken, whatever its uuid.
AcceptsAnyUuid(s, m) == m.type = "Establish"

\* The first message has to be an Establish with the uuid of the Connect.
Accepts(s, m) == m.type = "Establish" /\ m.to = FlowOf(s)

ReceiveEstablish(s, m) ==
    /\ client[s].phase = "waiting"
    /\ m \in down /\ m.to.sock = s
    /\ Accepts(s, m)
    /\ client' = [client EXCEPT ![s].phase = "established",
                                ![s].id = m.id,
                                ![s].got = @ \cup m.payloads]
    /\ TakeDown(m)
    /\ UNCHANGED <<up, map, task, uplink>>

\* Any other first message ends the session with an error.
ReceiveWrongFirst(s, m) ==
    /\ client[s].phase = "waiting"
    /\ m \in down /\ m.to.sock = s
    /\ ~Accepts(s, m)
    /\ client' = [client EXCEPT ![s].phase = "failed"]
    /\ TakeDown(m)
    /\ UNCHANGED <<up, map, task, uplink>>

\* The upload task sends the application's next payload to the connection id.
SendData(s) ==
    /\ client[s].phase = "established"
    /\ client[s].next <= MaxSeq
    /\ uplink' = uplink \cup
         {UplinkData(FlowOf(s), client[s].id, [flow |-> FlowOf(s), seq |-> client[s].next])}
    /\ client' = [client EXCEPT ![s].next = @ + 1]
    /\ UNCHANGED <<serverVars, dups>>

\* The download task hands payloads to the application.
ReceiveData(s, m) ==
    /\ client[s].phase = "established"
    /\ m \in down /\ m.to.sock = s
    /\ m.type = "Data"
    /\ client' = [client EXCEPT ![s].got = @ \cup m.payloads]
    /\ TakeDown(m)
    /\ UNCHANGED <<up, map, task, uplink>>

\* It ignores a second Establish.
ReceiveOther(s, m) ==
    /\ client[s].phase = "established"
    /\ m \in down /\ m.to.sock = s
    /\ m.type # "Data"
    /\ TakeDown(m)
    /\ UNCHANGED <<up, map, task, uplink, client>>

\* The application drops its ends or the session has failed: the socket is
\* closed, and the address goes to a later session.
CloseSocket(s) ==
    /\ client[s].phase \in {"waiting", "established", "failed"}
    /\ client' = [client EXCEPT ![s] = IF client[s].session < MaxSession
                                         THEN NewClient(client[s].session + 1)
                                         ELSE [client[s] EXCEPT !.phase = "closed"]]
    /\ UNCHANGED <<serverVars, uplink, dups>>

Lose ==
    \/ \E m \in uplink : uplink' = uplink \ {m} /\ UNCHANGED <<serverVars, client, dups>>
    \/ \E m \in down : LeaveNetwork(m) /\ UNCHANGED clientVars

Next ==
    \/ \E m \in uplink : ServerReceives(m)
    \/ ServerRuns
    \/ \E s \in Socks :
         \/ SendConnect(s)
         \/ EstablishTimeout(s)
         \/ SendData(s)
         \/ CloseSocket(s)
         \/ \E m \in down :
              \/ ReceiveEstablish(s, m)
              \/ ReceiveWrongFirst(s, m)
              \/ ReceiveData(s, m)
              \/ ReceiveOther(s, m)
    \/ Lose

Spec == Init /\ [][Next]_vars

-----------------------------------------------------------------------------
\* An established session sends its data under an id that the server gave to a
\* connection made for this very session, whatever was lost, duplicated or left
\* over from an earlier session of the address (the uuid check in new_datagram).
EstablishedIdIsMine ==
    \A s \in Socks : client[s].phase = "established" =>
        \E t \in Tasks : /\ task[t].phase # "free"
                         /\ task[t].src = FlowOf(s)
                         /\ task[t].id = client[s].id

\* Data reaches a connection of another flow only after the connection it was
\* meant for is gone and its id was given away (server.rs looks up the id alone,
\* it does not compare the sender's address).
StrayOnlyAfterForgotten ==
    \A t \in Tasks :
        \A p \in {task[t].queue[i] : i \in 1..Len(task[t].queue)} \cup task[t].echo :
            p.flow # task[t].src =>
                \E u \in Tasks : /\ task[u].src = p.flow
                                 /\ task[u].id = task[t].id
                                 /\ task[u].phase # "free"
                                 /\ ~Alive(u)

-----------------------------------------------------------------------------
(* The messages as bytes.                                                   *)

Proto == INSTANCE UdpManProto

WireAddrs == { [ip |-> <<1, 2, 3, 4>>, port |-> <<0, 53>>],
               [ip |-> [i \in 1..16 |-> i], port |-> <<1, 187>>] }

Uuid(f) == <<f.session, f.session>>
Text(p) == <<p.flow.session, p.seq>>
WireId(id) == <<0, id>>

\* What new_datagram sends; it gives an address with its Connect only.
WireUp(m, dst) ==
    IF m.type = "Connect" THEN Proto!Connect(Uuid(m.from), dst, {}, Text(m.payload))
    ELSE Proto!Data({WireId(m.id)}, {}, {}, Text(m.payload))

\* What serve sends for an answer that came from the address src: Data names it
\* unless it is the destination.
WireDown(m, dst, src) ==
    IF m.type = "Establish"
    THEN Proto!Establish(Uuid(m.to), WireId(m.id),
                         {[data |-> Text(p), addr |-> src] : p \in m.payloads})
    ELSE Proto!Data({}, {src} \ {dst}, {}, Text(CHOOSE p \in m.payloads : TRUE))

\* The sender of an answer, as the client's download task tells its application.
SourceSeen(w, dst) ==
    CHOOSE a \in WireAddrs :
        a \in IF w.type = "Establish" THEN {r.addr : r \in w.reply}
              ELSE IF w.addr = {} THEN {dst} ELSE w.addr

\* A message without its payload.
Bare(w) == CASE w.type = "Establish" -> [w EXCEPT !.reply = {[r EXCEPT !.data = <<>>] : r \in @}]
             [] w.type \in {"Connect", "Data"} -> [w EXCEPT !.data = <<>>]
             [] w.type = "Err" -> w

\* w survives its way through bytes, and a part of the bytes is refused or
\* differs in the payload only.
Survives(w) ==
    LET bytes == Proto!ToWriter(w)
    IN  /\ Proto!Parse(bytes) = w
        /\ \A n \in 0..Len(bytes) :
             LET cut == Proto!Parse(SubSeq(bytes, 1, n))
             IN  cut = Proto!Refused \/ Bare(cut) = Bare(w)

\* The messages there are: a client's Connect and Data, the server's Establish and Data.
UpMessages ==
    {ConnectMsg(f) : f \in Flows} \cup {UplinkData(p.flow, id, p) : p \in Payloads, id \in Ids}

DownMessages ==
    {EstablishMsg(f, id, r) : f \in Flows, id \in Ids, r \in Replies}
    \cup {DataMsg(f, p) : f \in Flows, p \in Payloads}

UpSurvives ==
    [m \in UpMessages |-> \A dst \in WireAddrs : Survives(WireUp(m, dst))]

DownSurvives ==
    [m \in DownMessages |->
        \A dst, src \in WireAddrs :
            LET w == WireDown(m, dst, src)
            IN  Survives(w) /\ (m.payloads # {} => SourceSeen(w, dst) = src)]

\* Message::parse undoes Message::to_writer for every message the two ends exchange,
\* whatever addresses it names; the client learns who sent an answer although serve
\* leaves the usual sender out; and no part of a message is taken for another one.
WireFaithful ==
    /\ \A m \in uplink : UpSurvives[m]
    /\ \A m \in down : DownSurvives[m]

\* A session of an echo destination receives only what it has sent itself.
OwnEchoOnly ==
    \A s \in Socks : \A p \in client[s].got : p.flow = FlowOf(s)

=============================================================================
