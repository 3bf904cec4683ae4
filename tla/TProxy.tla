-------------------------------- MODULE TProxy --------------------------------
(***************************************************************************)
(* The UDP transparent proxy of the client: the receive loop of            *)
(* serve_udp_transparent_proxy with its sessions, the cleanup channel, and *)
(* one task per session that runs serve_udp_on_dgram                       *)
(* (src/src/client/transparent/handler.rs, udp_proxy.rs).                  *)
(*                                                                         *)
(* A key is a (source, destination) pair.  Datagrams are only counted: no  *)
(* decision depends on their content.                                      *)
(***************************************************************************)
EXTENDS Integers, Sequences, FiniteSets

CONSTANTS
    Keys,           \* the session keys
    OneOffKeys,     \* keys whose destination is a one-off query (port 53)
    Tasks,          \* bound: the session tasks the proxy may spawn
    MaxUpstreams,   \* bound: upstreams find_best_upstream returns
    QueueCap,       \* datagrams queued for one session (10 in the code)
    CleanupCap      \* keys in the cleanup channel (2 in the code)

NoTask == "none"
NoKey == "none"

ASSUME TProxyAssumption ==
    /\ NoTask \notin Tasks
    /\ OneOffKeys \subseteq Keys
    /\ MaxUpstreams \in Nat
    /\ QueueCap \in Nat \ {0}
    /\ CleanupCap \in Nat \ {0}

VARIABLES
    up,             \* the receive loop runs
    sessions,       \* the session task of each key, NoTask where there is none
    cleanup,        \* the cleanup channel
    task            \* the session tasks, see TaskState

vars == <<up, sessions, cleanup, task>>

FreeTask ==
    [phase |-> "free", key |-> NoKey, cancelled |-> FALSE, refused |-> FALSE, left |-> 0,
     queued |-> 0, rx |-> FALSE, known |-> FALSE, armed |-> FALSE]

\* UdpSession::new.  rx says that the receiver of the session's channel exists,
\* left counts the upstreams still to try, known that an upstream address has
\* replied, armed that the 60 s timer is registered to wake the task.
NewSession(k) ==
    [FreeTask EXCEPT !.phase = "spawned", !.key = k, !.rx = TRUE]

Init ==
    /\ up = TRUE
    /\ sessions = [k \in Keys |-> NoTask]
    /\ cleanup = <<>>
    /\ task = [t \in Tasks |-> FreeTask]

-----------------------------------------------------------------------------
(* The receive loop.                                                        *)

\* Mutant of CancelSession: the task is detached and survives its session.
CancelNoSession(k) == task

\* A session that leaves the map is dropped, and its task with it: the executor
\* drops the future of a cancelled task at some later time.
CancelSession(k) ==
    [t \in Tasks |-> IF sessions[k] = t THEN [task[t] EXCEPT !.cancelled = TRUE]
                                        ELSE task[t]]

\* A key arrives on the cleanup channel; whatever session has it now goes.
CleanUp ==
    /\ up
    /\ cleanup # <<>>
    /\ cleanup' = Tail(cleanup)
    /\ sessions' = [sessions EXCEPT ![Head(cleanup)] = NoTask]
    /\ task' = CancelSession(Head(cleanup))
    /\ UNCHANGED up

\* A datagram without a session starts one.
StartSession(k) ==
    /\ up
    /\ sessions[k] = NoTask
    /\ \E t \in Tasks :
         /\ task[t].phase = "free"
         /\ sessions' = [sessions EXCEPT ![k] = t]
         /\ task' = [task EXCEPT ![t] = NewSession(k)]
    /\ UNCHANGED <<up, cleanup>>

\* A datagram for a session is queued for it.
QueueDatagram(k) ==
    /\ up
    /\ sessions[k] # NoTask
    /\ task[sessions[k]].rx
    /\ task[sessions[k]].queued < QueueCap
    /\ task' = [task EXCEPT ![sessions[k]].queued = @ + 1]
    /\ UNCHANGED <<up, sessions, cleanup>>

\* Mutant of DropDatagram: a full channel ends the session like a closed one.
DropDatagramAndSession(k) ==
    /\ up
    /\ sessions[k] # NoTask
    /\ task[sessions[k]].rx
    /\ task[sessions[k]].queued >= QueueCap
    /\ sessions' = [sessions EXCEPT ![k] = NoTask]
    /\ task' = CancelSession(k)
    /\ UNCHANGED <<up, cleanup>>

\* The session's channel is full: the datagram is dropped.
DropDatagram(k) ==
    /\ up
    /\ sessions[k] # NoTask
    /\ task[sessions[k]].rx
    /\ task[sessions[k]].queued >= QueueCap
    /\ UNCHANGED vars

\* The session's channel is closed: the session is removed, the datagram dropped.
RemoveClosed(k) ==
    /\ up
    /\ sessions[k] # NoTask
    /\ ~task[sessions[k]].rx
    /\ sessions' = [sessions EXCEPT ![k] = NoTask]
    /\ task' = CancelSession(k)
    /\ UNCHANGED <<up, cleanup>>

\* The socket ends, or run_client cancels the loop for a new configuration: all
\* sessions are dropped, and the receiver of the cleanup channel.
StopLoop ==
    /\ up
    /\ up' = FALSE
    /\ sessions' = [k \in Keys |-> NoTask]
    /\ cleanup' = <<>>
    /\ task' = [t \in Tasks |-> IF \E k \in Keys : sessions[k] = t
                                  THEN [task[t] EXCEPT !.cancelled = TRUE] ELSE task[t]]

-----------------------------------------------------------------------------
(* The task of a session.                                                   *)

Running(t, phase) == task[t].phase = phase /\ ~task[t].cancelled

Becomes(t, s) == task' = [task EXCEPT ![t] = s] /\ UNCHANGED <<up, sessions, cleanup>>

\* The future is finished or dropped, with the receiver if it still has it.
Over(t) == [task[t] EXCEPT !.phase = "done", !.rx = FALSE, !.queued = 0, !.armed = FALSE]

\* find_best_upstream fails: the task returns without a cleanup.
FindsNoUpstream(t) ==
    /\ Running(t, "spawned")
    /\ Becomes(t, [Over(t) EXCEPT !.refused = TRUE])

FindsUpstreams(t, n) ==
    /\ Running(t, "spawned")
    /\ Becomes(t, [task[t] EXCEPT !.phase = "trying", !.left = n])

\* new_datagram of one upstream fails, the next one is tried.
UpstreamFails(t) ==
    /\ Running(t, "trying")
    /\ task[t].left > 0
    /\ Becomes(t, [task[t] EXCEPT !.left = @ - 1])

\* None is left; the receiver stays with the task until it ends.
NoUpstreamLeft(t) ==
    /\ Running(t, "trying")
    /\ task[t].left = 0
    /\ Becomes(t, [task[t] EXCEPT !.phase = "cleaning"])

\* new_datagram succeeds and serve_udp_on_dgram sends the first datagram.  A
\* one-off query waits for its reply, other sessions start to relay: select!
\* polls the timer, which registers it.
StartServing(t) ==
    /\ Running(t, "trying")
    /\ task[t].left > 0
    /\ Becomes(t, [task[t] EXCEPT
                      !.phase = IF task[t].key \in OneOffKeys THEN "oneOff" ELSE "relaying",
                      !.armed = task[t].key \notin OneOffKeys])

\* Mutant of ServeReturns: its error ends the task before the cleanup.
ServeReturnsEarly(t) ==
    /\ \/ Running(t, "trying") /\ task[t].left > 0
       \/ Running(t, "oneOff")
    /\ Becomes(t, Over(t))

\* Sending the first datagram fails, or the one-off query is answered, fails or
\* times out: serve_udp_on_dgram returns and drops the receiver.
ServeReturns(t) ==
    /\ \/ Running(t, "trying") /\ task[t].left > 0
       \/ Running(t, "oneOff")
    /\ Becomes(t, [task[t] EXCEPT !.phase = "cleaning", !.rx = FALSE, !.queued = 0])

OneOffReturns(t) == task[t].phase = "oneOff" /\ ServeReturns(t)

\* Timer::reset by another task replaces the registered timer by one that is not;
\* only a reset after the timer has fired is noticed.
AfterReset(t) == {FALSE, task[t].armed}

\* The upload task takes a datagram and forwards it to the address that replied
\* last; before the first reply it drops the datagram.
Upload(t) ==
    /\ task[t].phase = "relaying"
    /\ task[t].rx
    /\ task[t].queued > 0
    /\ \E armed \in IF task[t].known THEN AfterReset(t) ELSE {task[t].armed} :
         Becomes(t, [task[t] EXCEPT !.queued = @ - 1, !.armed = armed])

\* The upload task fails on the upstream sink and drops the receiver before the
\* session's task notices.
UploadFails(t) ==
    /\ task[t].phase = "relaying"
    /\ task[t].rx
    /\ Becomes(t, [task[t] EXCEPT !.rx = FALSE, !.queued = 0])

\* The download task sends a reply back to the source.
Download(t) ==
    /\ task[t].phase = "relaying"
    /\ \E armed \in AfterReset(t) :
         Becomes(t, [task[t] EXCEPT !.known = TRUE, !.armed = armed])

\* select! completes: the upload or download task has ended or the timer fired.
\* The executor drops the cancelled upload task, with the receiver, now or later.
Finish(t) ==
    /\ Running(t, "relaying")
    /\ \E rx \in {task[t].rx, FALSE} :
         Becomes(t, [task[t] EXCEPT !.phase = "cleaning", !.armed = FALSE, !.rx = rx,
                                    !.queued = IF rx THEN @ ELSE 0])

IdleTimeout(t) == task[t].armed /\ Finish(t)

UploadEnded(t) == ~task[t].rx /\ Finish(t)

\* Mutant of SendCleanup: a full cleanup channel is not waited for.
SendCleanupTrying(t) ==
    /\ Running(t, "cleaning")
    /\ cleanup' = IF up /\ Len(cleanup) < CleanupCap THEN Append(cleanup, task[t].key)
                                                     ELSE cleanup
    /\ task' = [task EXCEPT ![t] = Over(t)]
    /\ UNCHANGED <<up, sessions>>

\* The key is sent to the loop, which may take a while to have room for it.
SendCleanup(t) ==
    /\ Running(t, "cleaning")
    /\ up
    /\ Len(cleanup) < CleanupCap
    /\ cleanup' = Append(cleanup, task[t].key)
    /\ task' = [task EXCEPT ![t] = Over(t)]
    /\ UNCHANGED <<up, sessions>>

\* The executor drops the future of a cancelled task.
DropCancelled(t) ==
    /\ task[t].phase \notin {"free", "done"}
    /\ task[t].cancelled
    /\ Becomes(t, Over(t))

TaskStep(t) ==
    \/ FindsNoUpstream(t)
    \/ \E n \in 0..MaxUpstreams : FindsUpstreams(t, n)
    \/ UpstreamFails(t)
    \/ NoUpstreamLeft(t)
    \/ StartServing(t)
    \/ ServeReturns(t)
    \/ Upload(t)
    \/ UploadFails(t)
    \/ Download(t)
    \/ Finish(t)
    \/ SendCleanup(t)
    \/ DropCancelled(t)

Next ==
    \/ CleanUp
    \/ \E k \in Keys :
         \/ StartSession(k)
         \/ QueueDatagram(k)
         \/ DropDatagram(k)
         \/ RemoveClosed(k)
    \/ StopLoop
    \/ \E t \in Tasks : TaskStep(t)

Spec == Init /\ [][Next]_vars

\* The loop takes what is on its cleanup channel, the executor polls every task
\* that can run, a one-off query and a registered timer time out, and the cleanup
\* channel serves waiting senders in turn.  An upstream need not answer: new_datagram
\* and the first send have no timeout.
Fairness ==
    /\ WF_vars(CleanUp)
    /\ \A t \in Tasks :
         /\ WF_vars(FindsNoUpstream(t) \/ \E n \in 0..MaxUpstreams : FindsUpstreams(t, n))
         /\ WF_vars(NoUpstreamLeft(t))
         /\ WF_vars(OneOffReturns(t))
         /\ WF_vars(IdleTimeout(t))
         /\ WF_vars(UploadEnded(t))
         /\ SF_vars(SendCleanup(t))
         /\ WF_vars(DropCancelled(t))

FairSpec == Spec /\ Fairness

-----------------------------------------------------------------------------
TaskState ==
    [phase : {"free", "spawned", "trying", "oneOff", "relaying", "cleaning", "done"},
     key : Keys \cup {NoKey}, cancelled : BOOLEAN, refused : BOOLEAN,
     left : 0..MaxUpstreams, queued : 0..QueueCap, rx : BOOLEAN, known : BOOLEAN,
     armed : BOOLEAN]

\* Type correctness of the receive loop and its sessions; the channels keep to
\* their capacities.
TypeOK ==
    /\ up \in BOOLEAN
    /\ sessions \in [Keys -> Tasks \cup {NoTask}]
    /\ cleanup \in Seq(Keys)
    /\ Len(cleanup) <= CleanupCap
    /\ task \in [Tasks -> TaskState]

Alive(t) == task[t].phase \notin {"free", "done"} /\ ~task[t].cancelled

\* The loop and its sessions are well typed, with channels within their capacities,
\* and every session task that has not been cancelled is the session of its key, so
\* two of them never serve the same source and destination.
OneSessionPerKey ==
    TypeOK /\ \A t \in Tasks : Alive(t) => sessions[task[t].key] = t

\* A session whose task has ended leaves the map with the next key of the
\* cleanup channel that names it, or it is one of those whose task returned
\* early, because no upstream was found, and announced nothing.
EndedIsAnnounced ==
    \A k \in Keys :
        (sessions[k] # NoTask /\ task[sessions[k]].phase = "done")
        => \/ task[sessions[k]].refused
           \/ \E i \in 1..Len(cleanup) : cleanup[i] = k

\* A session that works is cancelled only by a key that an earlier session of the
\* same source and destination left in the cleanup channel, or with the loop.
OnlyStaleCleanupEvicts ==
    [][\A t \in Tasks :
         (/\ Alive(t)
          /\ task[t].rx
          /\ task[t].phase # "cleaning"
          /\ task'[t].cancelled
          /\ up')
         => /\ cleanup # <<>> /\ cleanup' = Tail(cleanup)
            /\ \E s \in Tasks \ {t} : task[s].phase = "done" /\ task[s].key = Head(cleanup)
            /\ Head(cleanup) = task[t].key]_vars

\* The task awaits new_datagram, or the first send, of an upstream.
AwaitsUpstream(t) == Running(t, "trying") /\ task[t].left > 0

\* A session leaves the map in the end, unless its task found no upstream and
\* announced nothing, waits for ever for an upstream that does not answer, or has
\* relayed a datagram and so lost its timer.
QuietSessionIsForgotten ==
    \A t \in Tasks :
        (\E k \in Keys : sessions[k] = t) ~>
            \/ \A k \in Keys : sessions[k] # t
            \/ task[t].refused
            \/ []AwaitsUpstream(t)
            \/ task[t].phase = "relaying" /\ ~task[t].armed

=============================================================================
