----------------------------- MODULE UdpManServer -----------------------------
(***************************************************************************)
(* The UDPMan server (src/src/protocol/udpman/server.rs): serve's receive  *)
(* loop, the ConnMap, and one task per connection that owns the socket to  *)
(* the destination and forgets its connection when it ends.                *)
(*                                                                         *)
(* A flow is a client socket together with the uuid of its Connect.  The   *)
(* outgoing channel, the sink and the network below it are one unordered   *)
(* set of messages, down: that they are bounded and may be slow only       *)
(* delays a message, which an unreliable network does as well.  Messages   *)
(* to the server arrive here as arbitrary calls of the Serve actions; the  *)
(* module UdpMan adds the clients that send them.                          *)
(***************************************************************************)
EXTENDS ConnMap, FiniteSets

CONSTANTS
    Tasks,          \* bound: the connection tasks the server may spawn
    Flows,          \* client flows
    OneOffFlows,    \* flows whose destination is a one-off query (port 53)
    MaxSeq,         \* bound: highest sequence number of a payload
    IncomingCap,    \* payloads queued for one connection (10 + 1 in the code)
    MaxInFlight     \* bound: messages to clients in the outgoing channel and network

ASSUME ServerAssumption ==
    /\ Flows # {}
    /\ OneOffFlows \subseteq Flows
    /\ MaxSeq \in Nat
    /\ IncomingCap \in Nat \ {0}
    /\ MaxInFlight \in Nat \ {0}

VARIABLES
    up,             \* serve has not returned
    map,            \* connections: the ConnMap
    task,           \* the task of each connection, see TaskState
    down            \* messages on their way to clients

serverVars == <<up, map, task, down>>

Payloads == [flow : Flows, seq : 0..MaxSeq]
NoReply == {}
Replies == {NoReply} \cup {{p} : p \in Payloads}     \* Option<reply>
InitialData(f) == [flow |-> f, seq |-> 0]

\* Establish carries the uuid (the flow), the id and perhaps a first reply; Data
\* from the server carries no id.
EstablishMsg(f, id, reply) == [type |-> "Establish", to |-> f, id |-> id, payloads |-> reply]
DataMsg(f, p) == [type |-> "Data", to |-> f, id |-> NoId, payloads |-> {p}]

FreeTask(f) ==
    [phase |-> "free", id |-> 0, src |-> f, rx |-> FALSE, cancelled |-> FALSE,
     armed |-> FALSE, queue |-> <<>>, echo |-> {}]

\* Conn::new: the task is spawned and not polled yet.  queue is the incoming
\* channel, rx says its receiver exists, armed that the 60 s timer is registered
\* to wake the task, echo is what the destination may still answer.
NewTask(id, f) ==
    [phase |-> "spawned", id |-> id, src |-> f, rx |-> TRUE, cancelled |-> FALSE,
     armed |-> FALSE, queue |-> <<>>, echo |-> {}]

ServerInit ==
    /\ up = TRUE
    /\ map = <<>>
    /\ task = [t \in Tasks |-> FreeTask(CHOOSE f \in Flows : TRUE)]
    /\ down = {}

-----------------------------------------------------------------------------
(* Dropping a Conn drops its Task handle, which cancels the task: the       *)
(* executor drops the future at some later time.                            *)

InMap(t) == \E i \in 1..Len(map) : map[i].task = t

\* Mutant of CancelHolder: the task is detached, dropping the Conn does not stop it.
CancelNobody(id) == task

CancelHolder(id) ==
    [t \in Tasks |->
        IF HasId(map, id) /\ Get(map, id).task = t
        THEN [task[t] EXCEPT !.cancelled = TRUE] ELSE task[t]]

\* Message::Connect: a free id, a spawned task and the insertion, all under the
\* map's write lock.
ServeConnect(f) ==
    /\ up
    /\ FindAvailableId(map) # NoId
    /\ \E t \in Tasks :
         /\ task[t].phase = "free"
         /\ map' = Insert(map, [id |-> FindAvailableId(map), task |-> t])
         /\ task' = [CancelHolder(FindAvailableId(map)) EXCEPT
                        ![t] = NewTask(FindAvailableId(map), f)]
    /\ UNCHANGED <<up, down>>

\* Message::Connect when no id is left: the client gets no answer.
RefuseConnect ==
    /\ up
    /\ FindAvailableId(map) = NoId
    /\ UNCHANGED serverVars

\* Message::Data for an id that is not in the map.
DataUnknown(id) ==
    /\ up
    /\ ~HasId(map, id)
    /\ UNCHANGED serverVars

Holder(id) == Get(map, id).task

\* Mutant of DataQueued: the capacity of the channel is not respected.
DataQueuedUnbounded(id, p) ==
    /\ up
    /\ HasId(map, id)
    /\ task[Holder(id)].rx
    /\ task' = [task EXCEPT ![Holder(id)].queue = Append(@, p)]
    /\ UNCHANGED <<up, map, down>>

\* Message::Data is queued for the upload task of the connection, whoever sent it.
DataQueued(id, p) ==
    /\ up
    /\ HasId(map, id)
    /\ task[Holder(id)].rx
    /\ Len(task[Holder(id)].queue) < IncomingCap
    /\ task' = [task EXCEPT ![Holder(id)].queue = Append(@, p)]
    /\ UNCHANGED <<up, map, down>>

\* Mutant of DataFull: a full channel is treated like a disconnected one.
DataFullRemoves(id) ==
    /\ up
    /\ HasId(map, id)
    /\ task[Holder(id)].rx
    /\ Len(task[Holder(id)].queue) >= IncomingCap
    /\ map' = Remove(map, id)
    /\ task' = CancelHolder(id)
    /\ UNCHANGED <<up, down>>

\* try_send finds the channel full: the payload is dropped.
DataFull(id) ==
    /\ up
    /\ HasId(map, id)
    /\ task[Holder(id)].rx
    /\ Len(task[Holder(id)].queue) >= IncomingCap
    /\ UNCHANGED serverVars

\* try_send finds the receiver gone: the connection is removed and dropped.
DataDisconnected(id) ==
    /\ up
    /\ HasId(map, id)
    /\ ~task[Holder(id)].rx
    /\ map' = Remove(map, id)
    /\ task' = CancelHolder(id)
    /\ UNCHANGED <<up, down>>

\* The sink fails and serve returns: the receive loop and the map are dropped,
\* and every Conn with them.
ServeStops ==
    /\ up
    /\ up' = FALSE
    /\ map' = <<>>
    /\ task' = [t \in Tasks |->
                  IF InMap(t)
                  THEN [task[t] EXCEPT !.cancelled = TRUE] ELSE task[t]]
    /\ UNCHANGED down

-----------------------------------------------------------------------------
(* The task of a connection.  A cancelled task takes no further step of its *)
(* own; its upload and download tasks run on until it is dropped.           *)

Running(t, phase) == task[t].phase = phase /\ ~task[t].cancelled

\* First poll: the socket is bound and the initial data sent to the destination.
BindUpstream(t) ==
    /\ Running(t, "spawned")
    /\ task' = [task EXCEPT ![t].phase = "waitReply",
                            ![t].echo = {InitialData(task[t].src)}]
    /\ UNCHANGED <<up, map, down>>

\* Binding, the first send or the first receive fails; the receiver of the
\* incoming channel is dropped after the deferred removal.
SetupFails(t) ==
    /\ Running(t, "spawned") \/ Running(t, "waitReply")
    /\ task' = [task EXCEPT ![t].phase = "ending", ![t].echo = {}]
    /\ UNCHANGED <<up, map, down>>

\* The first reply, or 500 ms without one (NoReply), and the Establish message.
\* A one-off query ends here, other flows start to relay: select! polls the
\* timer, which registers it.
Establish(t, reply) ==
    /\ Running(t, "waitReply")
    /\ Cardinality(down) < MaxInFlight
    /\ reply \in Replies
    /\ reply \subseteq task[t].echo
    /\ down' = down \cup {EstablishMsg(task[t].src, task[t].id, reply)}
    /\ task' = [task EXCEPT ![t].phase = IF task[t].src \in OneOffFlows THEN "ending"
                                                                      ELSE "relaying",
                            ![t].armed = task[t].src \notin OneOffFlows,
                            ![t].echo = IF task[t].src \in OneOffFlows THEN {}
                                                                     ELSE @ \ reply]
    /\ UNCHANGED <<up, map>>

\* Timer::reset replaces the timer that was registered by one that is not; no one
\* wakes the task to poll it.  Only a reset that comes after the timer has fired
\* and before the task is polled is noticed.
AfterReset(t) == {FALSE, task[t].armed}

\* The upload task forwards a payload to the destination, which may answer it.
Upload(t) ==
    /\ task[t].phase = "relaying"
    /\ task[t].rx
    /\ task[t].queue # <<>>
    /\ \E armed \in AfterReset(t) :
         task' = [task EXCEPT ![t].queue = Tail(@),
                              ![t].armed = armed,
                              ![t].echo = @ \cup {Head(task[t].queue)}]
    /\ UNCHANGED <<up, map, down>>

\* The upload task ends with a send error and drops the channel's receiver
\* before the connection's task notices.
UploadFails(t) ==
    /\ task[t].phase = "relaying"
    /\ task[t].rx
    /\ task[t].queue # <<>>
    /\ task' = [task EXCEPT ![t].rx = FALSE, ![t].queue = <<>>]
    /\ UNCHANGED <<up, map, down>>

\* The download task sends an answer of the destination to the client.
Download(t, p) ==
    /\ task[t].phase = "relaying"
    /\ Cardinality(down) < MaxInFlight
    /\ p \in task[t].echo
    /\ down' = down \cup {DataMsg(task[t].src, p)}
    /\ \E armed \in AfterReset(t) :
         task' = [task EXCEPT ![t].armed = armed, ![t].echo = @ \ {p}]
    /\ UNCHANGED <<up, map>>

\* select! completes: the upload or download task has ended or the 60 s timer
\* fired.  Both tasks are cancelled, and the executor may drop the upload task,
\* with the receiver, before (rx = FALSE) the deferred removal.
Finish(t) ==
    /\ Running(t, "relaying")
    /\ \E rx \in {task[t].rx, FALSE} :
         task' = [task EXCEPT ![t].phase = "ending", ![t].rx = rx,
                              ![t].armed = FALSE, ![t].echo = {}]
    /\ UNCHANGED <<up, map, down>>

IdleTimeout(t) == task[t].armed /\ Finish(t)

UploadEnded(t) == ~task[t].rx /\ Finish(t)

\* The future is dropped, with its socket and what is left of the channel.
Dropped(t) ==
    [task[t] EXCEPT !.phase = "done", !.rx = FALSE, !.armed = FALSE, !.queue = <<>>,
                    !.echo = {}]

\* A task cancelled before its first poll has registered no deferred removal.
DropUnpolled(t) ==
    /\ task[t].phase = "spawned"
    /\ task[t].cancelled
    /\ task' = [task EXCEPT ![t] = Dropped(t)]
    /\ UNCHANGED <<up, map, down>>

Ends(t) ==
    \/ task[t].phase = "ending"
    \/ task[t].phase \in {"waitReply", "relaying"} /\ task[t].cancelled

\* Mutant of Forget: the deferred removal is lost.
ForgetNothing(t) ==
    /\ Ends(t)
    /\ task' = [task EXCEPT ![t] = Dropped(t)]
    /\ UNCHANGED <<up, map, down>>

\* The future is dropped and its deferred block removes the connection with the
\* task's id, if the map still exists.
Forget(t) ==
    /\ Ends(t)
    /\ map' = IF up THEN Remove(map, task[t].id) ELSE map
    /\ task' = [(IF up THEN CancelHolder(task[t].id) ELSE task)
                    EXCEPT ![t] = Dropped(t)]
    /\ UNCHANGED <<up, down>>

TaskStep(t) ==
    \/ BindUpstream(t)
    \/ SetupFails(t)
    \/ \E reply \in Replies : Establish(t, reply)
    \/ Upload(t)
    \/ UploadFails(t)
    \/ \E p \in Payloads : Download(t, p)
    \/ Finish(t)
    \/ DropUnpolled(t)
    \/ Forget(t)

\* A message to a client is delivered or lost.
LeaveNetwork(m) ==
    /\ m \in down
    /\ down' = down \ {m}
    /\ UNCHANGED <<up, map, task>>

ServerNext ==
    \/ \E f \in Flows : ServeConnect(f)
    \/ RefuseConnect
    \/ \E id \in Ids :
         \/ DataUnknown(id)
         \/ \E p \in Payloads : DataQueued(id, p)
         \/ DataFull(id)
         \/ DataDisconnected(id)
    \/ ServeStops
    \/ \E t \in Tasks : TaskStep(t)
    \/ \E m \in down : LeaveNetwork(m)

ServerSpec == ServerInit /\ [][ServerNext]_serverVars

\* The executor polls every task that can run, a registered timer fires, a
\* cancelled future is dropped, and the outgoing channel is emptied and serves
\* the senders that wait for room in turn.
TaskFairness ==
    /\ WF_serverVars(\E m \in down : LeaveNetwork(m))
    /\ \A t \in Tasks :
         /\ WF_serverVars(BindUpstream(t))
         /\ SF_serverVars(Establish(t, NoReply))
         /\ WF_serverVars(Upload(t))
         /\ WF_serverVars(IdleTimeout(t))
         /\ WF_serverVars(UploadEnded(t))
         /\ WF_serverVars(DropUnpolled(t))
         /\ WF_serverVars(Forget(t))

FairServerSpec == ServerSpec /\ TaskFairness

-----------------------------------------------------------------------------
Phases == {"free", "spawned", "waitReply", "relaying", "ending", "done"}

TaskState ==
    [phase : Phases, id : Ids, src : Flows, rx : BOOLEAN, cancelled : BOOLEAN,
     armed : BOOLEAN, queue : Seq(Payloads), echo : SUBSET Payloads]

\* Type correctness of serve's state: the ConnMap, its connections' tasks and
\* the messages they send; the incoming channel keeps to its capacity.
ServerTypeOK ==
    /\ up \in BOOLEAN
    /\ map \in Seq([id : Ids, task : Tasks])
    /\ task \in [Tasks -> TaskState]
    /\ \A t \in Tasks : Len(task[t].queue) <= IncomingCap
    /\ \A m \in down : /\ m.to \in Flows
                       /\ m.id \in Ids \cup {NoId}
                       /\ m.payloads \in Replies

\* binary_search_by_key finds connections only in a map that insert, remove and
\* the choice of ids keep strictly ordered.
MapSorted == StrictlySorted(map)

Alive(t) == task[t].phase \notin {"free", "done"} /\ ~task[t].cancelled

\* The map holds exactly the connections whose task has neither ended nor been
\* cancelled, each under the id its task will remove: no connection is leaked
\* when its task ends and no task runs on without a connection.
MapHoldsAlive ==
    /\ \A i \in 1..Len(map) : Alive(map[i].task) /\ task[map[i].task].id = map[i].id
    /\ \A t \in Tasks : Alive(t) => InMap(t)

\* A connection that works loses its task only to the deferred removal of an
\* earlier connection with the same id, one that serve had already removed
\* because its receiver was gone, or when serve stops.
OnlyStaleDeferEvicts ==
    [][\A t \in Tasks :
         (/\ Alive(t)
          /\ task[t].rx
          /\ task[t].phase # "ending"
          /\ task'[t].cancelled
          /\ up')
         => \E s \in Tasks \ {t} : /\ task[s].cancelled
                                   /\ task[s].id = task[t].id
                                   /\ task[s].phase # "done"
                                   /\ task'[s].phase = "done"]_serverVars

\* ConnMap::insert never replaces a connection: the step that adds one keeps all
\* the others (find_available_id returns an id nobody has).
InsertKeepsOthers ==
    [][(\E t \in Tasks : task[t].phase = "free" /\ task'[t].phase # "free")
       => \A i \in 1..Len(map) : \E j \in 1..Len(map') : map'[j] = map[i]]_serverVars

\* A connection is forgotten in the end, and its id can be used again, unless it
\* has relayed a datagram and so lost its timer (Timer::reset).
QuietConnIsForgotten ==
    \A t \in Tasks :
        InMap(t) ~> \/ ~InMap(t)
                    \/ task[t].phase = "relaying" /\ ~task[t].armed

Relays(t) == Upload(t) \/ \E p \in Payloads : Download(t, p)

\* A connection that from some time on relays nothing is forgotten: "Timeout" ends
\* the select! of its task.
IdleConnIsForgotten ==
    \A t \in Tasks : <>[][~Relays(t)]_serverVars => (InMap(t) ~> ~InMap(t))

=============================================================================
