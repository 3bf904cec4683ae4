----------------------------- MODULE TProxyProofs -----------------------------
(***************************************************************************)
(* The sessions of the transparent UDP proxy, for any keys, tasks, number  *)
(* of upstreams and channel capacities.                                    *)
(*                                                                         *)
(* The argument: the map only ever holds tasks that were started for that  *)
(* key and have not been cancelled (MapHoldsOwn), so a task is in it at    *)
(* most once and leaves it only by being cancelled; and a key in the       *)
(* cleanup channel was put there by a task of that key that has ended      *)
(* (KeysFromEnded), so it can only be stale for a task that still runs.    *)
(***************************************************************************)
EXTENDS TProxy, TLAPS

MapHoldsOwn ==
    \A k \in Keys : sessions[k] # NoTask =>
        /\ task[sessions[k]].key = k
        /\ task[sessions[k]].phase # "free"
        /\ ~task[sessions[k]].cancelled

StartedForKey == \A t \in Tasks : task[t].phase # "free" => task[t].key \in Keys

KeysFromEnded ==
    \A i \in 1..Len(cleanup) :
        \E s \in Tasks : task[s].phase = "done" /\ task[s].key = cleanup[i]

IInv ==
    /\ TypeOK
    /\ MapHoldsOwn
    /\ StartedForKey
    /\ KeysFromEnded
    /\ OneSessionPerKey
    /\ EndedIsAnnounced

\* The loop starts without sessions.
LEMMA InitIInv == Init => IInv
BY TProxyAssumption
   DEF Init, IInv, TypeOK, TaskState, FreeTask, MapHoldsOwn, StartedForKey, KeysFromEnded,
       OneSessionPerKey, EndedIsAnnounced, Alive, NoKey, NoTask

\* A step of a running task that changes nothing but its own record, keeps its key
\* and ends it only if it is refused or already out of the map.
LEMMA LocalStep ==
    ASSUME IInv, NEW t \in Tasks, NEW s \in TaskState, Becomes(t, s),
           task[t].phase \notin {"free", "done"}, s.phase # "free",
           s.key = task[t].key, s.cancelled = task[t].cancelled,
           s.phase = "done" => s.refused \/ s.cancelled
    PROVE  IInv'
<1> USE DEF IInv, Becomes
<1>1. TypeOK' BY DEF TypeOK
<1>2. task' = [task EXCEPT ![t] = s] /\ task'[t] = s
      /\ \A u \in Tasks \ {t} : task'[u] = task[u]
  BY DEF TypeOK
<1>3. MapHoldsOwn' BY <1>2, TProxyAssumption DEF MapHoldsOwn, TypeOK
<1>4. StartedForKey' BY <1>2 DEF StartedForKey
<1>5. KeysFromEnded'
  <2> SUFFICES ASSUME NEW i \in 1..Len(cleanup)
               PROVE  \E u \in Tasks : task'[u].phase = "done" /\ task'[u].key = cleanup[i]
    BY DEF KeysFromEnded
  <2>1. PICK u \in Tasks : task[u].phase = "done" /\ task[u].key = cleanup[i]
    BY DEF KeysFromEnded
  <2> QED BY <1>2, <2>1
<1>6. OneSessionPerKey'
  BY <1>1, <1>2 DEF OneSessionPerKey, Alive
<1>7. EndedIsAnnounced'
  <2> SUFFICES ASSUME NEW k \in Keys, sessions[k] # NoTask,
                      task'[sessions[k]].phase = "done"
               PROVE  task'[sessions[k]].refused \/ \E i \in 1..Len(cleanup) : cleanup[i] = k
    BY DEF EndedIsAnnounced
  <2>1. CASE sessions[k] = t BY <1>2, <2>1 DEF MapHoldsOwn
  <2>2. CASE sessions[k] # t
    <3>1. sessions[k] \in Tasks \ {t} BY <2>2 DEF TypeOK
    <3> QED BY <1>2, <3>1 DEF EndedIsAnnounced
  <2> QED BY <2>1, <2>2
<1> QED BY <1>1, <1>3, <1>4, <1>5, <1>6, <1>7

\* Dropping the future of a task leaves it well typed and ended.
LEMMA OverType ==
    ASSUME TypeOK, NEW t \in Tasks
    PROVE  /\ Over(t) \in TaskState
           /\ Over(t).phase = "done"
           /\ Over(t).key = task[t].key
           /\ Over(t).cancelled = task[t].cancelled
           /\ Over(t).refused = task[t].refused
<1> DEFINE none == 0
           s == [task[t] EXCEPT !.phase = "done", !.rx = FALSE, !.queued = none, !.armed = FALSE]
<1>1. Over(t) = s /\ none \in 0..QueueCap /\ task[t] \in TaskState
  BY TProxyAssumption DEF Over, TypeOK
<1> HIDE DEF none
<1>2. /\ s \in TaskState /\ s.phase = "done" /\ s.key = task[t].key
      /\ s.cancelled = task[t].cancelled /\ s.refused = task[t].refused
  BY <1>1 DEF TaskState
<1> HIDE DEF s
<1> QED BY <1>1, <1>2

\* Before it serves: looking for an upstream and connecting to one.
LEMMA ConnectInv ==
    ASSUME IInv, NEW t \in Tasks,
           \/ FindsNoUpstream(t)
           \/ \E n \in 0..MaxUpstreams : FindsUpstreams(t, n)
           \/ UpstreamFails(t)
           \/ NoUpstreamLeft(t)
           \/ StartServing(t)
           \/ ServeReturns(t)
    PROVE  IInv'
<1> USE TProxyAssumption
<1>1. task[t] \in TaskState /\ TypeOK
  BY DEF IInv, TypeOK
<1>2. CASE FindsNoUpstream(t)
  <2> DEFINE s == [Over(t) EXCEPT !.refused = TRUE]
  <2>1. s \in TaskState /\ s.phase = "done" /\ s.refused
        /\ s.key = task[t].key /\ s.cancelled = task[t].cancelled
    BY <1>1, OverType DEF TaskState
  <2>2. Becomes(t, s) /\ task[t].phase \notin {"free", "done"}
    BY <1>2 DEF FindsNoUpstream, Running
  <2> HIDE DEF s
  <2> QED BY <2>1, <2>2, LocalStep
<1>3. ASSUME NEW n \in 0..MaxUpstreams, FindsUpstreams(t, n) PROVE IInv'
  <2> DEFINE s == [task[t] EXCEPT !.phase = "trying", !.left = n]
  <2>1. s \in TaskState /\ s.phase = "trying"
        /\ s.key = task[t].key /\ s.cancelled = task[t].cancelled
    BY <1>1 DEF TaskState
  <2>2. Becomes(t, s) /\ task[t].phase \notin {"free", "done"}
    BY <1>3 DEF FindsUpstreams, Running
  <2> HIDE DEF s
  <2> QED BY <2>1, <2>2, LocalStep
<1>4. CASE UpstreamFails(t)
  <2> DEFINE s == [task[t] EXCEPT !.left = @ - 1]
  <2>1. s \in TaskState /\ s.phase = "trying"
        /\ s.key = task[t].key /\ s.cancelled = task[t].cancelled
    BY <1>1, <1>4 DEF TaskState, UpstreamFails, Running
  <2>2. Becomes(t, s) /\ task[t].phase \notin {"free", "done"}
    BY <1>4 DEF UpstreamFails, Running
  <2> HIDE DEF s
  <2> QED BY <2>1, <2>2, LocalStep
<1>5. CASE NoUpstreamLeft(t)
  <2> DEFINE s == [task[t] EXCEPT !.phase = "cleaning"]
  <2>1. s \in TaskState /\ s.phase = "cleaning"
        /\ s.key = task[t].key /\ s.cancelled = task[t].cancelled
    BY <1>1 DEF TaskState
  <2>2. Becomes(t, s) /\ task[t].phase \notin {"free", "done"}
    BY <1>5 DEF NoUpstreamLeft, Running
  <2> HIDE DEF s
  <2> QED BY <2>1, <2>2, LocalStep
<1>6. CASE StartServing(t)
  <2> DEFINE s == [task[t] EXCEPT
                      !.phase = IF task[t].key \in OneOffKeys THEN "oneOff" ELSE "relaying",
                      !.armed = task[t].key \notin OneOffKeys]
  <2>1. s \in TaskState /\ s.phase \in {"oneOff", "relaying"}
        /\ s.key = task[t].key /\ s.cancelled = task[t].cancelled
    BY <1>1 DEF TaskState
  <2>2. Becomes(t, s) /\ task[t].phase \notin {"free", "done"}
    BY <1>6 DEF StartServing, Running
  <2> HIDE DEF s
  <2> QED BY <2>1, <2>2, LocalStep
<1>7. CASE ServeReturns(t)
  <2> DEFINE none == 0
             s == [task[t] EXCEPT !.phase = "cleaning", !.rx = FALSE, !.queued = none]
  <2>2. Becomes(t, s) /\ task[t].phase \notin {"free", "done"}
    BY <1>7 DEF ServeReturns, Running
  <2>3. none \in 0..QueueCap OBVIOUS
  <2> HIDE DEF none
  <2>1. s \in TaskState /\ s.phase = "cleaning"
        /\ s.key = task[t].key /\ s.cancelled = task[t].cancelled
    BY <1>1, <2>3 DEF TaskState
  <2> HIDE DEF s
  <2> QED BY <2>1, <2>2, LocalStep
<1> QED BY <1>2, <1>3, <1>4, <1>5, <1>6, <1>7

\* While it relays, and when it stops.
LEMMA RelayInv ==
    ASSUME IInv, NEW t \in Tasks,
           Upload(t) \/ UploadFails(t) \/ Download(t) \/ Finish(t) \/ DropCancelled(t)
    PROVE  IInv'
<1> USE TProxyAssumption
<1>1. task[t] \in TaskState /\ TypeOK
  BY DEF IInv, TypeOK
<1>2. CASE Upload(t)
  <2>1. PICK armed \in BOOLEAN :
          Becomes(t, [task[t] EXCEPT !.queued = @ - 1, !.armed = armed])
    BY <1>1, <1>2 DEF Upload, AfterReset, TaskState
  <2> DEFINE n == task[t].queued - 1
             s == [task[t] EXCEPT !.queued = n, !.armed = armed]
  <2>3. Becomes(t, s) /\ task[t].phase \notin {"free", "done"}
    BY <1>2, <2>1 DEF Upload
  <2>4. n \in 0..QueueCap
    <3>1. task[t].queued \in 0..QueueCap BY <1>1 DEF TaskState
    <3>2. task[t].queued > 0 BY <1>2 DEF Upload
    <3> QED BY <3>1, <3>2
  <2> HIDE DEF n
  <2>2. s \in TaskState /\ s.phase = "relaying"
        /\ s.key = task[t].key /\ s.cancelled = task[t].cancelled
    BY <1>1, <1>2, <2>4 DEF TaskState, Upload
  <2> HIDE DEF s
  <2> QED BY <2>2, <2>3, LocalStep
<1>3. CASE UploadFails(t)
  <2> DEFINE none == 0
             s == [task[t] EXCEPT !.rx = FALSE, !.queued = none]
  <2>2. Becomes(t, s) /\ task[t].phase \notin {"free", "done"}
    BY <1>3 DEF UploadFails
  <2>3. none \in 0..QueueCap OBVIOUS
  <2> HIDE DEF none
  <2>1. s \in TaskState /\ s.phase = "relaying"
        /\ s.key = task[t].key /\ s.cancelled = task[t].cancelled
    BY <1>1, <1>3, <2>3 DEF TaskState, UploadFails
  <2> HIDE DEF s
  <2> QED BY <2>1, <2>2, LocalStep
<1>4. CASE Download(t)
  <2>1. PICK armed \in BOOLEAN :
          Becomes(t, [task[t] EXCEPT !.known = TRUE, !.armed = armed])
    BY <1>1, <1>4 DEF Download, AfterReset, TaskState
  <2> DEFINE s == [task[t] EXCEPT !.known = TRUE, !.armed = armed]
  <2>2. s \in TaskState /\ s.phase = "relaying"
        /\ s.key = task[t].key /\ s.cancelled = task[t].cancelled
    BY <1>1, <1>4 DEF TaskState, Download
  <2>3. Becomes(t, s) /\ task[t].phase \notin {"free", "done"}
    BY <1>4, <2>1 DEF Download
  <2> HIDE DEF s
  <2> QED BY <2>2, <2>3, LocalStep
<1>5. CASE Finish(t)
  <2>1. PICK rx \in BOOLEAN :
          Becomes(t, [task[t] EXCEPT !.phase = "cleaning", !.armed = FALSE, !.rx = rx,
                                     !.queued = IF rx THEN @ ELSE 0])
    BY <1>1, <1>5 DEF Finish, TaskState
  <2> DEFINE n == IF rx THEN task[t].queued ELSE 0
             s == [task[t] EXCEPT !.phase = "cleaning", !.armed = FALSE, !.rx = rx,
                                  !.queued = n]
  <2>3. Becomes(t, s) /\ task[t].phase \notin {"free", "done"}
    BY <1>5, <2>1 DEF Finish, Running
  <2>4. n \in 0..QueueCap BY <1>1 DEF TaskState
  <2> HIDE DEF n
  <2>2. s \in TaskState /\ s.phase = "cleaning"
        /\ s.key = task[t].key /\ s.cancelled = task[t].cancelled
    BY <1>1, <2>4 DEF TaskState
  <2> HIDE DEF s
  <2> QED BY <2>2, <2>3, LocalStep
<1>6. CASE DropCancelled(t)
  <2>1. Becomes(t, Over(t)) /\ task[t].phase \notin {"free", "done"} /\ task[t].cancelled
    BY <1>6 DEF DropCancelled
  <2> QED BY <1>1, <2>1, OverType, LocalStep
<1> QED BY <1>2, <1>3, <1>4, <1>5, <1>6

\* A task that ends announces its key, which is then in the cleanup channel.
LEMMA SendCleanupInv ==
    ASSUME IInv, NEW t \in Tasks, SendCleanup(t)
    PROVE  IInv'
<1> USE DEF IInv, SendCleanup
<1>1. task'[t] = Over(t) /\ task' \in [Tasks -> TaskState]
      /\ \A u \in Tasks \ {t} : task'[u] = task[u]
  BY OverType DEF TypeOK
<1>2. task[t].key \in Keys /\ task[t].phase = "cleaning"
  BY DEF StartedForKey, Running
<1>3. cleanup' \in Seq(Keys) /\ Len(cleanup') = Len(cleanup) + 1
      /\ cleanup'[Len(cleanup')] = task[t].key
      /\ \A i \in 1..Len(cleanup) : cleanup'[i] = cleanup[i]
  BY <1>2 DEF TypeOK
<1>4. TypeOK'
  BY <1>1, <1>3, TProxyAssumption DEF TypeOK
<1>5. MapHoldsOwn' BY <1>1, OverType DEF MapHoldsOwn, TypeOK
<1>6. StartedForKey' BY <1>1, <1>2, OverType DEF StartedForKey
<1>7. KeysFromEnded'
  <2> SUFFICES ASSUME NEW i \in 1..Len(cleanup')
               PROVE  \E u \in Tasks : task'[u].phase = "done" /\ task'[u].key = cleanup'[i]
    BY DEF KeysFromEnded
  <2>1. CASE i = Len(cleanup')
    BY <1>1, <1>3, <2>1, OverType
  <2>2. CASE i # Len(cleanup')
    <3>1. i \in 1..Len(cleanup) /\ cleanup'[i] = cleanup[i]
      BY <1>3, <2>2 DEF TypeOK
    <3>2. PICK u \in Tasks : task[u].phase = "done" /\ task[u].key = cleanup[i]
      BY <3>1 DEF KeysFromEnded
    <3> QED BY <1>1, <1>2, <3>1, <3>2
  <2> QED BY <2>1, <2>2
<1>8. OneSessionPerKey'
  BY <1>1, <1>4, OverType DEF OneSessionPerKey, Alive
<1>9. EndedIsAnnounced'
  <2> SUFFICES ASSUME NEW k \in Keys, sessions[k] # NoTask,
                      task'[sessions[k]].phase = "done"
               PROVE  \/ task'[sessions[k]].refused
                      \/ \E i \in 1..Len(cleanup') : cleanup'[i] = k
    BY DEF EndedIsAnnounced
  <2>0. 1..Len(cleanup) \subseteq 1..Len(cleanup') /\ Len(cleanup') \in 1..Len(cleanup')
    BY <1>3 DEF TypeOK
  <2>1. CASE sessions[k] = t
    <3>1. task[t].key = k BY <2>1 DEF MapHoldsOwn
    <3> QED BY <1>3, <2>0, <3>1
  <2>2. CASE sessions[k] # t
    <3>1. sessions[k] \in Tasks \ {t} BY <2>2 DEF TypeOK
    <3> QED BY <1>1, <1>3, <2>0, <3>1 DEF EndedIsAnnounced
  <2> QED BY <2>1, <2>2
<1> QED BY <1>4, <1>5, <1>6, <1>7, <1>8, <1>9

\* The session of a key, if there is one, leaves the map and is cancelled.
LEMMA CancelSessionIs ==
    ASSUME IInv, NEW k \in Keys
    PROVE  /\ CancelSession(k) \in [Tasks -> TaskState]
           /\ \A u \in Tasks :
                /\ sessions[k] # u => CancelSession(k)[u] = task[u]
                /\ sessions[k] = u => CancelSession(k)[u] = [task[u] EXCEPT !.cancelled = TRUE]
<1>1. ASSUME NEW u \in Tasks PROVE [task[u] EXCEPT !.cancelled = TRUE] \in TaskState
  BY DEF IInv, TypeOK, TaskState
<1>2. ASSUME NEW u \in Tasks PROVE task[u] \in TaskState
  BY DEF IInv, TypeOK
<1> QED BY <1>1, <1>2 DEF CancelSession

\* A session that is taken out of the map for whatever reason: the invariant holds
\* afterwards but for what the step does to the cleanup channel.
LEMMA RemoveSession ==
    ASSUME IInv, NEW k \in Keys, task' = CancelSession(k),
           sessions' = [sessions EXCEPT ![k] = NoTask]
    PROVE  /\ sessions' \in [Keys -> Tasks \cup {NoTask}]
           /\ task' \in [Tasks -> TaskState]
           /\ \A u \in Tasks : /\ task'[u].phase = task[u].phase
                               /\ task'[u].key = task[u].key
                               /\ task'[u].refused = task[u].refused
                               /\ task'[u].cancelled => task[u].cancelled \/ sessions[k] = u
           /\ MapHoldsOwn'
           /\ StartedForKey'
           /\ \A u \in Tasks : Alive(u)' => Alive(u) /\ sessions'[task[u].key] = u
<1>1. /\ sessions' \in [Keys -> Tasks \cup {NoTask}]
      /\ sessions'[k] = NoTask
      /\ \A h \in Keys \ {k} : sessions'[h] = sessions[h]
  BY DEF IInv, TypeOK
<1>2. /\ task' \in [Tasks -> TaskState]
      /\ \A u \in Tasks :
           /\ sessions[k] # u => task'[u] = task[u]
           /\ sessions[k] = u => task'[u] = [task[u] EXCEPT !.cancelled = TRUE]
  BY CancelSessionIs
<1>3. ASSUME NEW u \in Tasks
      PROVE  /\ task'[u].phase = task[u].phase
             /\ task'[u].key = task[u].key
             /\ task'[u].refused = task[u].refused
             /\ task'[u].cancelled <=> task[u].cancelled \/ sessions[k] = u
  <2>1. task[u] \in TaskState BY DEF IInv, TypeOK
  <2>2. CASE sessions[k] # u BY <1>2, <2>2
  <2>3. CASE sessions[k] = u
    <3>1. task'[u] = [task[u] EXCEPT !.cancelled = TRUE] BY <1>2, <2>3
    <3> QED BY <2>1, <2>3, <3>1 DEF TaskState
  <2> QED BY <2>2, <2>3
<1>4. MapHoldsOwn'
  <2> SUFFICES ASSUME NEW h \in Keys, sessions'[h] # NoTask
               PROVE  /\ task'[sessions'[h]].key = h
                      /\ task'[sessions'[h]].phase # "free"
                      /\ ~task'[sessions'[h]].cancelled
    BY DEF MapHoldsOwn
  <2> DEFINE u == sessions[h]
  <2>1. h # k /\ sessions'[h] = u /\ u \in Tasks
    BY <1>1 DEF IInv, TypeOK
  <2>2. task[u].key = h /\ task[u].phase # "free" /\ ~task[u].cancelled
    BY <1>1, <2>1 DEF IInv, MapHoldsOwn
  <2>3. sessions[k] # u
    BY <2>1, <2>2 DEF IInv, MapHoldsOwn
  <2> HIDE DEF u
  <2> QED BY <1>3, <2>1, <2>2, <2>3
<1>5. StartedForKey'
  BY <1>3 DEF IInv, StartedForKey
<1>6. ASSUME NEW u \in Tasks, Alive(u)' PROVE Alive(u) /\ sessions'[task[u].key] = u
  <2>1. Alive(u) /\ sessions[k] # u BY <1>3, <1>6 DEF Alive
  <2>2. sessions[task[u].key] = u /\ task[u].key \in Keys
    BY <2>1 DEF IInv, OneSessionPerKey, StartedForKey, Alive
  <2> QED BY <1>1, <2>1, <2>2
<1> QED BY <1>1, <1>2, <1>3, <1>4, <1>5, <1>6

\* The loop takes a key off the cleanup channel: its session goes with it.
LEMMA CleanUpInv ==
    ASSUME IInv, CleanUp
    PROVE  IInv'
<1> DEFINE k == Head(cleanup)
<1>1. /\ k \in Keys /\ cleanup # <<>> /\ cleanup \in Seq(Keys) /\ up' = up
      /\ cleanup' = Tail(cleanup) /\ Len(cleanup) <= CleanupCap
  BY DEF IInv, TypeOK, CleanUp
<1>2. /\ cleanup' \in Seq(Keys) /\ Len(cleanup') = Len(cleanup) - 1
      /\ \A i \in 1..Len(cleanup') : cleanup'[i] = cleanup[i + 1]
      /\ cleanup[1] = k
  BY <1>1
<1>3. task' = CancelSession(k) /\ sessions' = [sessions EXCEPT ![k] = NoTask]
  BY DEF CleanUp
<1> HIDE DEF k
<1>4. TypeOK'
  <2>1. sessions' \in [Keys -> Tasks \cup {NoTask}] /\ task' \in [Tasks -> TaskState]
    BY <1>1, <1>3, RemoveSession
  <2>2. Len(cleanup') <= CleanupCap
    BY <1>1, <1>2, TProxyAssumption
  <2>3. up \in BOOLEAN BY DEF IInv, TypeOK
  <2> QED BY <1>1, <1>2, <2>1, <2>2, <2>3 DEF TypeOK
<1>5. MapHoldsOwn' /\ StartedForKey'
  BY <1>1, <1>3, RemoveSession
<1>6. OneSessionPerKey'
  <2>1. ASSUME NEW u \in Tasks, Alive(u)' PROVE sessions'[task'[u].key] = u
    <3>1. sessions'[task[u].key] = u /\ task'[u].key = task[u].key
      BY <1>1, <1>3, <2>1, RemoveSession
    <3> QED BY <3>1
  <2> QED BY <1>4, <2>1 DEF OneSessionPerKey
<1>7. KeysFromEnded'
  <2> SUFFICES ASSUME NEW i \in 1..Len(cleanup')
               PROVE  \E u \in Tasks : task'[u].phase = "done" /\ task'[u].key = cleanup'[i]
    BY DEF KeysFromEnded
  <2>1. i + 1 \in 1..Len(cleanup) BY <1>1, <1>2
  <2>2. PICK u \in Tasks : task[u].phase = "done" /\ task[u].key = cleanup[i + 1]
    BY <2>1 DEF IInv, KeysFromEnded
  <2>3. task'[u].phase = "done" /\ task'[u].key = cleanup[i + 1]
    BY <1>1, <1>3, <2>2, RemoveSession
  <2> QED BY <1>2, <2>3
<1>8. EndedIsAnnounced'
  <2> SUFFICES ASSUME NEW h \in Keys, sessions'[h] # NoTask,
                      task'[sessions'[h]].phase = "done", ~task'[sessions'[h]].refused
               PROVE  \E i \in 1..Len(cleanup') : cleanup'[i] = h
    BY DEF EndedIsAnnounced
  <2>1. h # k /\ sessions'[h] = sessions[h] /\ sessions[h] \in Tasks
    BY <1>1, <1>3 DEF IInv, TypeOK
  <2>2. task[sessions[h]].phase = "done" /\ ~task[sessions[h]].refused
    BY <1>1, <1>3, <2>1, RemoveSession
  <2>3. PICK i \in 1..Len(cleanup) : cleanup[i] = h
    BY <2>1, <2>2, TProxyAssumption DEF IInv, EndedIsAnnounced
  <2>4. i - 1 \in 1..Len(cleanup') /\ cleanup'[i - 1] = h
    BY <1>1, <1>2, <2>1, <2>3
  <2> QED BY <2>4
<1> QED BY <1>4, <1>5, <1>6, <1>7, <1>8 DEF IInv

\* A datagram for a session whose channel is closed removes the session.
LEMMA RemoveClosedInv ==
    ASSUME IInv, NEW k \in Keys, RemoveClosed(k)
    PROVE  IInv'
<1>1. /\ up' = up /\ cleanup' = cleanup
      /\ task' = CancelSession(k) /\ sessions' = [sessions EXCEPT ![k] = NoTask]
  BY DEF RemoveClosed
<1>2. TypeOK'
  BY <1>1, RemoveSession DEF IInv, TypeOK
<1>3. MapHoldsOwn' /\ StartedForKey'
  BY <1>1, RemoveSession
<1>4. OneSessionPerKey'
  <2>1. ASSUME NEW u \in Tasks, Alive(u)' PROVE sessions'[task'[u].key] = u
    <3>1. sessions'[task[u].key] = u /\ task'[u].key = task[u].key
      BY <1>1, <2>1, RemoveSession
    <3> QED BY <3>1
  <2> QED BY <1>2, <2>1 DEF OneSessionPerKey
<1>5. KeysFromEnded'
  <2>1. \A u \in Tasks : task'[u].phase = task[u].phase /\ task'[u].key = task[u].key
    BY <1>1, RemoveSession
  <2> QED BY <1>1, <2>1 DEF IInv, KeysFromEnded
<1>6. EndedIsAnnounced'
  <2> SUFFICES ASSUME NEW h \in Keys, sessions'[h] # NoTask,
                      task'[sessions'[h]].phase = "done", ~task'[sessions'[h]].refused
               PROVE  \E i \in 1..Len(cleanup) : cleanup[i] = h
    BY <1>1 DEF EndedIsAnnounced
  <2>1. sessions'[h] = sessions[h] /\ sessions[h] \in Tasks
    BY <1>1 DEF IInv, TypeOK
  <2>2. task[sessions[h]].phase = "done" /\ ~task[sessions[h]].refused
    BY <1>1, <2>1, RemoveSession
  <2> QED BY <2>1, <2>2, TProxyAssumption DEF IInv, EndedIsAnnounced
<1> QED BY <1>2, <1>3, <1>4, <1>5, <1>6 DEF IInv

\* A datagram without a session takes a free task, in the map under its key.
LEMMA StartSessionInv ==
    ASSUME IInv, NEW k \in Keys, StartSession(k)
    PROVE  IInv'
<1>1. PICK t \in Tasks : /\ task[t].phase = "free"
                        /\ sessions' = [sessions EXCEPT ![k] = t]
                        /\ task' = [task EXCEPT ![t] = NewSession(k)]
                        /\ sessions[k] = NoTask
                        /\ up' = up /\ cleanup' = cleanup
  BY DEF StartSession
<1> DEFINE s == NewSession(k)
<1>2. /\ s \in TaskState /\ s.phase = "spawned" /\ s.key = k /\ s.cancelled = FALSE
  <2>1. FreeTask \in TaskState /\ FreeTask.cancelled = FALSE
    BY TProxyAssumption DEF FreeTask, TaskState
  <2> QED BY <2>1 DEF NewSession, TaskState
<1> HIDE DEF s
<1>3. /\ task' \in [Tasks -> TaskState] /\ task'[t] = s
      /\ \A u \in Tasks \ {t} : task'[u] = task[u]
  BY <1>1, <1>2 DEF IInv, TypeOK, s
<1>4. /\ sessions' \in [Keys -> Tasks \cup {NoTask}] /\ sessions'[k] = t
      /\ \A h \in Keys \ {k} : sessions'[h] = sessions[h]
  BY <1>1 DEF IInv, TypeOK
<1>5. TypeOK'
  BY <1>1, <1>3, <1>4 DEF IInv, TypeOK
<1>6. \A h \in Keys \ {k} : sessions[h] # t
  BY <1>1, TProxyAssumption DEF IInv, MapHoldsOwn
<1>7. MapHoldsOwn'
  BY <1>2, <1>3, <1>4, <1>6 DEF IInv, MapHoldsOwn, TypeOK
<1>8. StartedForKey'
  BY <1>2, <1>3 DEF IInv, StartedForKey
<1>9. KeysFromEnded'
  <2> SUFFICES ASSUME NEW i \in 1..Len(cleanup)
               PROVE  \E u \in Tasks : task'[u].phase = "done" /\ task'[u].key = cleanup[i]
    BY <1>1 DEF KeysFromEnded
  <2>1. PICK u \in Tasks : task[u].phase = "done" /\ task[u].key = cleanup[i]
    BY DEF IInv, KeysFromEnded
  <2> QED BY <1>1, <1>3, <2>1
<1>10. OneSessionPerKey'
  <2>1. ASSUME NEW u \in Tasks, Alive(u)' PROVE sessions'[task'[u].key] = u
    <3>1. CASE u = t BY <1>2, <1>3, <1>4, <3>1
    <3>2. CASE u # t
      <4>1. task'[u] = task[u] BY <1>3, <3>2
      <4>2. sessions[task[u].key] = u /\ task[u].key \in Keys
        BY <2>1, <4>1 DEF Alive, IInv, OneSessionPerKey, StartedForKey
      <4>3. task[u].key # k BY <1>1, <4>2, TProxyAssumption
      <4> QED BY <1>4, <4>1, <4>2, <4>3
    <3> QED BY <3>1, <3>2
  <2> QED BY <1>5, <2>1 DEF OneSessionPerKey
<1>11. EndedIsAnnounced'
  <2> SUFFICES ASSUME NEW h \in Keys, sessions'[h] # NoTask,
                      task'[sessions'[h]].phase = "done", ~task'[sessions'[h]].refused
               PROVE  \E i \in 1..Len(cleanup) : cleanup[i] = h
    BY <1>1 DEF EndedIsAnnounced
  <2>1. h # k BY <1>2, <1>3, <1>4
  <2>2. sessions'[h] = sessions[h] /\ sessions[h] \in Tasks \ {t}
    BY <1>4, <1>6, <2>1 DEF IInv, TypeOK
  <2>3. task'[sessions[h]] = task[sessions[h]] BY <1>3, <2>2
  <2> QED BY <2>2, <2>3, TProxyAssumption DEF IInv, EndedIsAnnounced
<1> QED BY <1>5, <1>7, <1>8, <1>9, <1>10, <1>11 DEF IInv

\* A datagram for a session is queued, or dropped when the queue is full.
LEMMA QueueInv ==
    ASSUME IInv, NEW k \in Keys, QueueDatagram(k) \/ DropDatagram(k)
    PROVE  IInv'
<1>1. CASE QueueDatagram(k)
  <2> DEFINE t == sessions[k]
             n == task[t].queued + 1
             s == [task[t] EXCEPT !.queued = n]
  <2>1. t \in Tasks /\ task[t] \in TaskState
    BY <1>1 DEF QueueDatagram, IInv, TypeOK
  <2>2. n \in 0..QueueCap
    <3>1. task[t].queued \in 0..QueueCap BY <2>1 DEF TaskState
    <3>2. task[t].queued < QueueCap BY <1>1 DEF QueueDatagram
    <3> QED BY <3>1, <3>2, TProxyAssumption
  <2>3. task' = [task EXCEPT ![t] = s] /\ UNCHANGED <<up, sessions, cleanup>>
    BY <1>1 DEF QueueDatagram
  <2> HIDE DEF n
  <2>4. /\ s \in TaskState /\ s.phase = task[t].phase /\ s.key = task[t].key
        /\ s.cancelled = task[t].cancelled /\ s.refused = task[t].refused
    BY <2>1, <2>2 DEF TaskState
  <2> HIDE DEF s, t
  <2>5. /\ task' \in [Tasks -> TaskState]
        /\ \A u \in Tasks : /\ task'[u].phase = task[u].phase /\ task'[u].key = task[u].key
                            /\ task'[u].cancelled = task[u].cancelled
                            /\ task'[u].refused = task[u].refused
    BY <2>1, <2>3, <2>4 DEF IInv, TypeOK
  <2>6. TypeOK' BY <2>3, <2>5 DEF IInv, TypeOK
  <2>7. \A h \in Keys : sessions[h] = NoTask \/ sessions[h] \in Tasks
    BY DEF IInv, TypeOK
  <2>8. MapHoldsOwn' BY <2>3, <2>5, <2>7 DEF IInv, MapHoldsOwn
  <2>9. StartedForKey' /\ KeysFromEnded' BY <2>3, <2>5 DEF IInv, StartedForKey, KeysFromEnded
  <2>10. OneSessionPerKey' BY <2>3, <2>5, <2>6 DEF IInv, OneSessionPerKey, Alive
  <2>11. EndedIsAnnounced' BY <2>3, <2>5, <2>7 DEF IInv, EndedIsAnnounced
  <2> QED BY <2>6, <2>8, <2>9, <2>10, <2>11 DEF IInv
<1>2. CASE DropDatagram(k)
  BY <1>2 DEF DropDatagram, vars, IInv, TypeOK, MapHoldsOwn, StartedForKey, KeysFromEnded,
              OneSessionPerKey, Alive, EndedIsAnnounced
<1> QED BY <1>1, <1>2

\* The loop ends and takes every session with it.
LEMMA StopLoopInv ==
    ASSUME IInv, StopLoop
    PROVE  IInv'
<1> DEFINE InMap(u) == \E k \in Keys : sessions[k] = u
<1>1. /\ up' = FALSE /\ cleanup' = <<>>
      /\ sessions' = [k \in Keys |-> NoTask]
      /\ task' = [t \in Tasks |-> IF InMap(t) THEN [task[t] EXCEPT !.cancelled = TRUE]
                                             ELSE task[t]]
  BY DEF StopLoop
<1> HIDE DEF InMap
<1>2. ASSUME NEW u \in Tasks
      PROVE  /\ task'[u] \in TaskState
             /\ task'[u].phase = task[u].phase
             /\ task'[u].key = task[u].key
             /\ task'[u].cancelled <=> task[u].cancelled \/ InMap(u)
  <2>1. task[u] \in TaskState BY DEF IInv, TypeOK
  <2>2. CASE InMap(u)
    <3>1. task'[u] = [task[u] EXCEPT !.cancelled = TRUE] BY <1>1, <2>2
    <3> QED BY <2>1, <2>2, <3>1 DEF TaskState
  <2>3. CASE ~InMap(u) BY <1>1, <2>1, <2>3
  <2> QED BY <2>2, <2>3
<1>3. TypeOK'
  <2>1. cleanup' \in Seq(Keys) /\ Len(cleanup') <= CleanupCap BY <1>1, TProxyAssumption
  <2>2. task' \in [Tasks -> TaskState]
    <3>1. task' = [u \in Tasks |-> task'[u]] BY <1>1
    <3> QED BY <1>2, <3>1
  <2>3. sessions' \in [Keys -> Tasks \cup {NoTask}] BY <1>1
  <2> QED BY <1>1, <2>1, <2>2, <2>3 DEF TypeOK
<1>4. ASSUME NEW u \in Tasks, Alive(u)' PROVE FALSE
  <2>1. Alive(u) /\ ~InMap(u) BY <1>2, <1>4 DEF Alive
  <2>2. task[u].key \in Keys /\ sessions[task[u].key] = u
    BY <2>1 DEF IInv, StartedForKey, OneSessionPerKey, Alive
  <2> QED BY <2>1, <2>2 DEF InMap
<1>5. OneSessionPerKey' BY <1>3, <1>4 DEF OneSessionPerKey
<1>6. MapHoldsOwn' /\ EndedIsAnnounced' BY <1>1 DEF MapHoldsOwn, EndedIsAnnounced
<1>7. StartedForKey' BY <1>2 DEF IInv, StartedForKey
<1>8. KeysFromEnded' BY <1>1 DEF KeysFromEnded
<1> QED BY <1>3, <1>5, <1>6, <1>7, <1>8 DEF IInv

\* Every step of the loop and of the tasks keeps the invariant.
LEMMA NextIInv == IInv /\ [Next]_vars => IInv'
<1> SUFFICES ASSUME IInv, [Next]_vars PROVE IInv'
  OBVIOUS
<1>1. CASE CleanUp BY <1>1, CleanUpInv
<1>2. ASSUME NEW k \in Keys,
             StartSession(k) \/ QueueDatagram(k) \/ DropDatagram(k) \/ RemoveClosed(k)
      PROVE  IInv'
  BY <1>2, StartSessionInv, QueueInv, RemoveClosedInv
<1>3. CASE StopLoop BY <1>3, StopLoopInv
<1>4. ASSUME NEW t \in Tasks, TaskStep(t) PROVE IInv'
  BY <1>4, ConnectInv, RelayInv, SendCleanupInv DEF TaskStep
<1>5. CASE UNCHANGED vars
  BY <1>5 DEF vars, IInv, TypeOK, MapHoldsOwn, StartedForKey, KeysFromEnded,
              OneSessionPerKey, Alive, EndedIsAnnounced
<1> QED BY <1>1, <1>2, <1>3, <1>4, <1>5 DEF Next

\* The inductive invariant holds in every state.
LEMMA SessionInvariance == Spec => []IInv
BY InitIInv, NextIInv, PTL DEF Spec

-----------------------------------------------------------------------------
\* The state of the loop and its tasks is well typed, channels keep to their
\* capacities, and no two running tasks serve the same source and destination,
\* whatever order cleanups, datagrams and the tasks' own steps come in.
THEOREM OneSessionPerKeyTheorem == Spec => []OneSessionPerKey
<1>1. IInv => OneSessionPerKey BY DEF IInv
<1> QED BY <1>1, SessionInvariance, PTL

\* A session whose task has ended stays in the map only as long as its key waits in
\* the cleanup channel, unless its task found no upstream.
THEOREM EndedIsAnnouncedTheorem == Spec => []EndedIsAnnounced
<1>1. IInv => EndedIsAnnounced BY DEF IInv
<1> QED BY <1>1, SessionInvariance, PTL

\* The steps that cancel a running task: what each says about its key.
LEMMA EvictionIsStale ==
    ASSUME IInv, [Next]_vars, NEW t \in Tasks, Alive(t), task[t].rx,
           task'[t].cancelled, up'
    PROVE  /\ cleanup # <<>> /\ cleanup' = Tail(cleanup)
           /\ \E s \in Tasks \ {t} : task[s].phase = "done" /\ task[s].key = Head(cleanup)
           /\ Head(cleanup) = task[t].key
<1>1. ~task[t].cancelled /\ task[t].phase # "done" /\ task[t] \in TaskState
      /\ task[t].phase # "free"
  BY DEF Alive, IInv, TypeOK
<1>2. CASE CleanUp
  <2> DEFINE k == Head(cleanup)
  <2>1. /\ k \in Keys /\ cleanup # <<>> /\ cleanup \in Seq(Keys) /\ cleanup' = Tail(cleanup)
        /\ task' = CancelSession(k) /\ sessions' = [sessions EXCEPT ![k] = NoTask]
    BY <1>2 DEF IInv, TypeOK, CleanUp
  <2>2. 1 \in 1..Len(cleanup) /\ cleanup[1] = k
    BY <2>1
  <2>3. PICK s \in Tasks : task[s].phase = "done" /\ task[s].key = k
    BY <2>2 DEF IInv, KeysFromEnded
  <2> HIDE DEF k
  <2>4. sessions[k] = t BY <1>1, <2>1, RemoveSession
  <2>5. task[t].key = k BY <2>1, <2>4, TProxyAssumption DEF IInv, MapHoldsOwn
  <2> QED BY <1>1, <2>1, <2>3, <2>5 DEF k
<1>3. ASSUME NEW k \in Keys, RemoveClosed(k) PROVE FALSE
  <2>1. task' = CancelSession(k) /\ sessions' = [sessions EXCEPT ![k] = NoTask]
        /\ ~task[sessions[k]].rx
    BY <1>3 DEF RemoveClosed
  <2>2. sessions[k] = t BY <1>1, <2>1, RemoveSession
  <2> QED BY <2>1, <2>2
<1>4. ASSUME NEW k \in Keys, StartSession(k) PROVE FALSE
  <2>1. PICK u \in Tasks : task[u].phase = "free" /\ task' = [task EXCEPT ![u] = NewSession(k)]
    BY <1>4 DEF StartSession
  <2>2. task'[t] = task[t] BY <1>1, <2>1 DEF IInv, TypeOK
  <2> QED BY <1>1, <2>2
<1>5. ASSUME NEW k \in Keys, QueueDatagram(k) PROVE FALSE
  <2> DEFINE u == sessions[k]
             n == task[u].queued + 1
  <2>1. task' = [task EXCEPT ![u] = [task[u] EXCEPT !.queued = n]]
    BY <1>5 DEF QueueDatagram
  <2> HIDE DEF n, u
  <2>2. task'[t] = task[t] \/ task'[t] = [task[t] EXCEPT !.queued = n]
    BY <2>1 DEF IInv, TypeOK
  <2> QED BY <1>1, <2>2 DEF TaskState
<1>6. ASSUME NEW k \in Keys, DropDatagram(k) PROVE FALSE
  BY <1>1, <1>6 DEF DropDatagram, vars
<1>7. CASE StopLoop BY <1>7 DEF StopLoop
<1>8. ASSUME NEW u \in Tasks, TaskStep(u) PROVE FALSE
  <2>1. task[u] \in TaskState /\ task \in [Tasks -> TaskState] BY DEF IInv, TypeOK
  <2>2. ASSUME NEW s, task' = [task EXCEPT ![u] = s], s.cancelled = task[u].cancelled
        PROVE  FALSE
    BY <1>1, <2>1, <2>2
  <2>3. Over(u).cancelled = task[u].cancelled
        /\ [Over(u) EXCEPT !.refused = TRUE].cancelled = task[u].cancelled
    BY OverType DEF IInv, TaskState
  <2>4. CASE FindsNoUpstream(u) \/ SendCleanup(u) \/ DropCancelled(u)
    BY <2>2, <2>3, <2>4 DEF FindsNoUpstream, SendCleanup, DropCancelled, Becomes
  <2>5. ASSUME NEW n, FindsUpstreams(u, n) PROVE FALSE
    <3>1. [task[u] EXCEPT !.phase = "trying", !.left = n].cancelled = task[u].cancelled
      BY <2>1 DEF TaskState
    <3> QED BY <2>2, <2>5, <3>1 DEF FindsUpstreams, Becomes
  <2>6. CASE UpstreamFails(u)
    <3>1. [task[u] EXCEPT !.left = @ - 1].cancelled = task[u].cancelled
      BY <2>1 DEF TaskState
    <3> QED BY <2>2, <2>6, <3>1 DEF UpstreamFails, Becomes
  <2>7. CASE NoUpstreamLeft(u)
    <3>1. [task[u] EXCEPT !.phase = "cleaning"].cancelled = task[u].cancelled
      BY <2>1 DEF TaskState
    <3> QED BY <2>2, <2>7, <3>1 DEF NoUpstreamLeft, Becomes
  <2>8. CASE StartServing(u)
    <3>1. ASSUME NEW p, NEW a
          PROVE  [task[u] EXCEPT !.phase = p, !.armed = a].cancelled = task[u].cancelled
      BY <2>1 DEF TaskState
    <3> QED BY <2>2, <2>8, <3>1 DEF StartServing, Becomes
  <2>9. CASE ServeReturns(u)
    <3>1. [task[u] EXCEPT !.phase = "cleaning", !.rx = FALSE, !.queued = 0].cancelled
          = task[u].cancelled
      BY <2>1 DEF TaskState
    <3> QED BY <2>2, <2>9, <3>1 DEF ServeReturns, Becomes
  <2>10. CASE Upload(u)
    <3>1. ASSUME NEW a
          PROVE  [task[u] EXCEPT !.queued = @ - 1, !.armed = a].cancelled = task[u].cancelled
      BY <2>1 DEF TaskState
    <3> QED BY <2>2, <2>10, <3>1 DEF Upload, Becomes
  <2>11. CASE UploadFails(u)
    <3>1. [task[u] EXCEPT !.rx = FALSE, !.queued = 0].cancelled = task[u].cancelled
      BY <2>1 DEF TaskState
    <3> QED BY <2>2, <2>11, <3>1 DEF UploadFails, Becomes
  <2>12. CASE Download(u)
    <3>1. ASSUME NEW a
          PROVE  [task[u] EXCEPT !.known = TRUE, !.armed = a].cancelled = task[u].cancelled
      BY <2>1 DEF TaskState
    <3> QED BY <2>2, <2>12, <3>1 DEF Download, Becomes
  <2>13. CASE Finish(u)
    <3>1. ASSUME NEW r, NEW n
          PROVE  [task[u] EXCEPT !.phase = "cleaning", !.armed = FALSE, !.rx = r,
                                 !.queued = n].cancelled = task[u].cancelled
      BY <2>1 DEF TaskState
    <3> QED BY <2>2, <2>13, <3>1 DEF Finish, Becomes
  <2> QED BY <1>8, <2>4, <2>5, <2>6, <2>7, <2>8, <2>9, <2>10, <2>11, <2>12, <2>13 DEF TaskStep
<1>9. CASE UNCHANGED vars BY <1>1, <1>9 DEF vars
<1> QED BY <1>2, <1>3, <1>4, <1>5, <1>6, <1>7, <1>8, <1>9 DEF Next

\* A session that works is only cancelled with the loop or by a key that an earlier,
\* ended session of the same source and destination left in the cleanup channel.
THEOREM OnlyStaleCleanupEvictsTheorem == Spec => OnlyStaleCleanupEvicts
<1> DEFINE P == \A t \in Tasks :
                  (/\ Alive(t)
                   /\ task[t].rx
                   /\ task[t].phase # "cleaning"
                   /\ task'[t].cancelled
                   /\ up')
                  => /\ cleanup # <<>> /\ cleanup' = Tail(cleanup)
                     /\ \E s \in Tasks \ {t} : task[s].phase = "done"
                                                /\ task[s].key = Head(cleanup)
                     /\ Head(cleanup) = task[t].key
<1>1. IInv /\ [Next]_vars => [P]_vars BY EvictionIsStale
<1> HIDE DEF P
<1>2. Spec => [][P]_vars BY <1>1, SessionInvariance, PTL DEF Spec
<1> QED BY <1>2 DEF OnlyStaleCleanupEvicts, P

=============================================================================
