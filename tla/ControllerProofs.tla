-------------------------- MODULE ControllerProofs --------------------------
(***************************************************************************)
(* How a configuration travels from a request to the file and to           *)
(* run_client, for any upstreams, settings, batches and number of requests *)
(* and crashes.                                                            *)
(*                                                                         *)
(* The argument is an order on versions: run_client's is at most the       *)
(* channel's, the channel's at most the controller's, the controller's     *)
(* below that of the request being saved, and the initial configuration is *)
(* waiting only while run_client has none (InOrder).  The statistics go    *)
(* with the upstreams by an argument of its own, on what update_upstreams  *)
(* computes (StatsInv).                                                    *)
(***************************************************************************)
EXTENDS Controller, WellFoundedInduction, TLAPS

Versioned(S) == \A c \in S : c.version \in Nat

Shapes ==
    /\ version \in Nat
    /\ current.version \in 0..version
    /\ file.version \in 0..version
    /\ Versioned(writing) /\ Versioned(init) /\ Versioned(slot)
    /\ run = [phase |-> run.phase, version |-> run.version, settings |-> run.settings,
              cleaned |-> run.cleaned]
    /\ run.version \in Nat \cup {-1}
    /\ proxy = [addr |-> proxy.addr, accepting |-> proxy.accepting]

InOrder ==
    /\ run.version <= current.version
    /\ \A c \in init : c.version <= current.version /\ run.version = -1
    /\ \A c \in slot : run.version <= c.version /\ c.version <= current.version
    /\ \A c \in writing : current.version < c.version /\ c.version <= version

Stopped ==
    proc # "up" => /\ run = NotRunning
                   /\ init = {} /\ slot = {} /\ writing = {}

\* The rules of the configuration in use, and nothing else.
OwnRules(s) ==
    /\ s.rules
    /\ rules = [nat |-> To(s.addr.port),
                mangle |-> IF s.udp = NoAddr THEN NoChain ELSE To(s.udp.port)]

\* After a clean_up that left nothing.
RulesOK ==
    run.cleaned =>
        /\ run.phase = "stopped" => rules = NoRules
        /\ run.phase = "bound" => rules = NoRules /\ proxy.addr = run.settings.addr
        /\ run.phase = "proxied" \/ (run.phase = "next" /\ run.version >= 0) =>
             rules = NoRules \/ (OwnRules(run.settings) /\ proxy.addr = run.settings.addr)

CInv ==
    /\ Shapes
    /\ Stopped
    /\ proc = "up" => InOrder /\ AcknowledgedIsSaved
    /\ RulesOK

\* The configuration of the file, or the default one, is the first.
LEMMA InitCInv == Init => CInv
BY DEF Init, CInv, Shapes, Versioned, Stopped, InOrder, AcknowledgedIsSaved, RulesOK,
       Absent, Saved, Started, Config, NotRunning, NoProxy, NoRules

\* A request of any kind starts by truncating the file.
LEMMA BeginSaveInv ==
    ASSUME CInv, NEW b, NEW s, NEW r, BeginSave(b, s, r)
    PROVE  CInv'
BY DEF BeginSave, MayServe, clientVars, CInv, Shapes, Versioned, Stopped, InOrder,
       AcknowledgedIsSaved, RulesOK, OwnRules, Config, Damaged

\* Saving installs, saves and broadcasts a configuration newer than any other.
LEMMA SaveInv ==
    ASSUME CInv, SaveSucceeds \/ SaveFails
    PROVE  CInv'
BY DEF SaveSucceeds, SaveFails, Broadcast, Saved, Damaged, clientVars, CInv, Shapes,
       Versioned, Stopped, InOrder, AcknowledgedIsSaved, RulesOK, OwnRules

\* poll_next hands run_client the newest configuration there is.
LEMMA TakeInv ==
    ASSUME CInv, TakeBroadcast \/ TakeInit
    PROVE  CInv' /\ run'.version >= run.version
BY DEF TakeBroadcast, TakeInit, Take, controllerVars, CInv, Shapes,
       Versioned, Stopped, InOrder, AcknowledgedIsSaved, RulesOK

\* The steps that rebuild the proxy keep the configuration they work with.
LEMMA RebuildInv ==
    ASSUME CInv,
           \/ StopOld \/ BindFails \/ BindSucceeds \/ StartProxy \/ StartUdpProxy
           \/ AcceptFails
    PROVE  CInv' /\ run'.version = run.version
<1> USE DEF controllerVars, CInv, Shapes, Versioned, Stopped, InOrder,
            AcknowledgedIsSaved, RulesOK
<1>1. CASE StopOld BY <1>1 DEF StopOld, NoProxy
<1>2. CASE BindFails BY <1>2 DEF BindFails
<1>3. CASE BindSucceeds BY <1>3 DEF BindSucceeds
<1>4. CASE StartProxy
  <2>1. PICK cleaned :
           /\ run' = [run EXCEPT !.phase = IF run.settings.udp # NoAddr THEN "proxied" ELSE "next",
                                 !.cleaned = cleaned]
           /\ proxy' = [proxy EXCEPT !.accepting = TRUE]
           /\ \/ rules' = rules /\ cleaned = run.cleaned
              \/ /\ run.settings.rules /\ rules' = AllAdded(rules, run.settings)
                 /\ cleaned = run.cleaned
              \/ cleaned = (rules' = NoRules)
    BY <1>4, Zenon DEF StartProxy, Proxied
  <2>2. /\ proc = "up" /\ run.phase = "bound"
        /\ UNCHANGED <<proc, crashes, controllerVars, init, slot, udpProxy>>
    BY <1>4, Zenon DEF StartProxy
  <2>3. proxy'.addr = proxy.addr /\ run'.settings = run.settings /\ run'.cleaned = cleaned
        /\ run'.version = run.version /\ run'.phase \in {"next", "proxied"}
    BY <2>1
  <2>4. ASSUME cleaned PROVE rules' = NoRules \/ (OwnRules(run.settings)' /\ proxy.addr = run.settings.addr)
    <3>1. CASE rules' = NoRules
      BY <3>1
    <3>2. CASE rules' = rules /\ cleaned = run.cleaned
      BY <2>2, <2>4, <3>2
    <3>3. CASE /\ run.settings.rules /\ rules' = AllAdded(rules, run.settings)
               /\ cleaned = run.cleaned
      <4>1. rules = NoRules /\ proxy.addr = run.settings.addr
        BY <2>2, <2>4, <3>3
      <4>2. rules.mangle = NoChain
        BY <4>1 DEF NoRules
      <4> QED BY <2>3, <3>3, <4>1, <4>2 DEF AllAdded, OwnRules
    <3> QED BY <2>1, <2>4, <3>1, <3>2, <3>3
  <2>5. RulesOK' BY <2>3, <2>4
  <2>6. Shapes' BY <2>1, <2>2
  <2>7. Stopped' /\ (proc' = "up" => InOrder' /\ AcknowledgedIsSaved')
    BY <2>2, <2>3
  <2>8. proc' = proc
    BY <2>2
  <2> HIDE DEF Shapes, Stopped, InOrder, AcknowledgedIsSaved, RulesOK
  <2> QED BY <2>3, <2>5, <2>6, <2>7, <2>8
<1>5. CASE StartUdpProxy BY <1>5 DEF StartUdpProxy, OwnRules
<1>6. CASE AcceptFails BY <1>6 DEF AcceptFails, OwnRules
<1> QED BY <1>1, <1>2, <1>3, <1>4, <1>5, <1>6

\* A crash leaves the file and the router rules, a restart reads the file.
LEMMA ProcessInv ==
    ASSUME CInv, Crash \/ Restart \/ RestartOnDamagedFile \/ RestartRefused
    PROVE  CInv'
<1> USE DEF controllerVars, clientVars, CInv, Shapes, Versioned, Stopped, InOrder,
            AcknowledgedIsSaved, RulesOK, NotRunning
<1>1. CASE Crash BY <1>1 DEF Crash, NoProxy
<1>2. CASE Restart BY <1>2 DEF Restart, Starts, Started, Config
<1>3. CASE RestartOnDamagedFile
  BY <1>3 DEF RestartOnDamagedFile, Starts, Started, Config
<1>4. CASE RestartRefused BY <1>4 DEF RestartRefused
<1> QED BY <1>1, <1>2, <1>3, <1>4

\* Every step keeps the order, and none takes run_client back.
LEMMA NextCInv ==
    ASSUME CInv, [Next]_vars
    PROVE  /\ CInv'
           /\ proc = "up" /\ proc' = "up" => run'.version >= run.version
<1>1. CASE ControllerStep
  <2>1. (\E b, s, r : BeginSave(b, s, r)) \/ SaveSucceeds \/ SaveFails
    BY <1>1, Zenon DEF ControllerStep, SetConfig, Update, Delete
  <2>2. CInv' BY <2>1, BeginSaveInv, SaveInv
  <2>3. run' = run
    BY <2>1 DEF BeginSave, SaveSucceeds, SaveFails, clientVars
  <2> QED BY <2>2, <2>3 DEF CInv, Shapes
<1>2. CASE ClientStep \/ AcceptFails
  BY <1>2, TakeInv, RebuildInv DEF ClientStep, CInv, Shapes
<1>3. CASE Crash \/ Restart \/ RestartOnDamagedFile \/ RestartRefused
  <2>1. CInv' BY <1>3, ProcessInv
  <2>2. ~(proc = "up" /\ proc' = "up")
    BY <1>3 DEF Crash, Restart, RestartOnDamagedFile, RestartRefused
  <2> QED BY <2>1, <2>2
<1>4. CASE UNCHANGED vars
  BY <1>4 DEF vars, controllerVars, clientVars, CInv, Shapes, Versioned, Stopped,
              InOrder, AcknowledgedIsSaved, RulesOK, OwnRules
<1> QED BY <1>1, <1>2, <1>3, <1>4 DEF Next

\* The invariant holds in every reachable state.
THEOREM ControllerInvariance == Spec => []CInv
<1>1. Init => CInv BY InitCInv
<1>2. CInv /\ [Next]_vars => CInv' BY NextCInv
<1> QED BY <1>1, <1>2, PTL DEF Spec

\* The file never falls behind the configuration the controller acknowledged.
THEOREM AcknowledgedIsSavedTheorem == Spec => []AcknowledgedIsSaved
<1>1. CInv => AcknowledgedIsSaved BY DEF CInv, AcknowledgedIsSaved
<1> QED BY <1>1, ControllerInvariance, PTL

\* run_client never works with a configuration that was not saved.
THEOREM ClientNeverAheadTheorem == Spec => []ClientNeverAhead
<1>1. CInv => ClientNeverAhead BY DEF CInv, InOrder, ClientNeverAhead
<1> QED BY <1>1, ControllerInvariance, PTL

\* Whatever clean_up and add_rules leave when they fail, and wherever the process is
\* killed, after a clean_up that left nothing the router rules are those of the
\* configuration in use and lead to its proxy.
THEOREM RulesLeadToProxyTheorem == Spec => []RulesLeadToProxy
<1>1. CInv => RulesLeadToProxy
  BY DEF CInv, RulesOK, OwnRules, RulesLeadToProxy, NoRules, NoChain, To
<1> QED BY <1>1, ControllerInvariance, PTL

\* run_client never goes back to an older configuration.
THEOREM NoRollbackTheorem == Spec => NoRollback
<1> DEFINE P == proc = "up" /\ proc' = "up" => run'.version >= run.version
<1>1. CInv /\ [Next]_vars => [P]_vars BY NextCInv
<1> HIDE DEF P
<1>2. Spec => [][P]_vars BY <1>1, ControllerInvariance, PTL DEF Spec
<1> QED BY <1>2 DEF NoRollback, P

-----------------------------------------------------------------------------
(* The statistics.  A counter is told from every other by when it was made: *)
(* the version of the request and the place in its batch.                   *)

\* A set of natural numbers that is not empty has a least element.
LEMMA LeastOf ==
    ASSUME NEW T \in SUBSET Nat, T # {}
    PROVE  \E x \in T : \A y \in T : x <= y
<1> DEFINE R == OpToRel(<, Nat)
<1>1. IsWellFoundedOn(R, Nat)
  BY NatLessThanWellFounded
<1>2. \A x, y \in Nat : <<y, x>> \in R <=> y < x
  BY DEF OpToRel
<1> HIDE DEF R
<1>3. \E x \in T : \A y \in T : ~(<<y, x>> \in R)
  BY <1>1, WFMin, Zenon
<1>4. PICK x \in T : \A y \in T : ~(<<y, x>> \in R)
  BY <1>3, Zenon
<1>5. \A y \in T : x <= y
  <2> SUFFICES ASSUME NEW y \in T PROVE x <= y
    OBVIOUS
  <2>1. x \in Nat /\ y \in Nat
    OBVIOUS
  <2>2. ~(y < x)
    BY <1>2, <1>4, <2>1, Zenon
  <2> QED BY <2>1, <2>2
<1> QED BY <1>5

\* The updates of a batch in turn: the recursive function of update_upstreams exists.
LEMMA UpdatesInTurn ==
    ASSUME NEW b, NEW us, Len(us) \in Nat, NEW v
    PROVE  \E f : /\ f[0] = b
                  /\ \A i \in 1..Len(us) : f[i] = UpdateOne(f[i - 1], us[i], v, i)
                  /\ UpdateUpstreams(b, us, v) = f[Len(us)]
<1> DEFINE U(x, i) == UpdateOne(x, us[i], v, i)
           Sol(f, n) == f = [i \in 0..n |-> IF i = 0 THEN b ELSE U(f[i - 1], i)]
           F == CHOOSE f : Sol(f, Len(us))
<1>1. UpdateUpstreams(b, us, v) = F[Len(us)]
  BY DEF UpdateUpstreams
<1> HIDE DEF U
<1>2. \A n \in Nat : \E f : Sol(f, n)
  <2> DEFINE T == {n \in Nat : ~\E f : Sol(f, n)}
  <2> SUFFICES ASSUME T # {} PROVE FALSE
    OBVIOUS
  <2>1. PICK n \in T : \A y \in T : n <= y
    BY LeastOf
  <2>2. n \in Nat /\ ~\E f : Sol(f, n)
    OBVIOUS
  <2>3. CASE n = 0
    <3>1. PICK f : f = [i \in 0..0 |-> b]
      OBVIOUS
    <3> DEFINE g == [i \in 0..0 |-> IF i = 0 THEN b ELSE U(f[i - 1], i)]
    <3>2. \A i \in 0..0 : g[i] = b
      OBVIOUS
    <3>3. f = g
      BY <3>1, <3>2
    <3>4. Sol(f, 0)
      BY <3>3, Zenon
    <3> QED BY <2>2, <2>3, <3>4
  <2>4. CASE n # 0
    <3>1. n - 1 \in Nat /\ n - 1 \notin T
      <4> HIDE DEF T
      <4> QED BY <2>1, <2>2, <2>4
    <3>2. PICK f : Sol(f, n - 1)
      BY <3>1
    <3> DEFINE g == [i \in 0..n |-> IF i = 0 THEN b ELSE U(f[i - 1], i)]
    <3>3. \A i \in 0..(n - 1) : g[i] = f[i]
      BY <3>1, <3>2
    <3>4. \A i \in 0..n : i # 0 => i - 1 \in 0..(n - 1)
      BY <3>1
    <3>5. \A i \in 0..n : i # 0 => U(f[i - 1], i) = U(g[i - 1], i)
      BY <3>3, <3>4
    <3>6. Sol(g, n)
      BY <3>5
    <3> QED BY <2>2, <3>6
  <2> QED BY <2>3, <2>4
<1>3. Sol(F, Len(us))
  BY <1>2
<1> HIDE DEF F
<1>4. F[0] = b
  BY <1>3
<1>5. \A i \in 1..Len(us) : F[i] = U(F[i - 1], i)
  BY <1>3
<1> QED BY <1>1, <1>4, <1>5 DEF U

\* Counters made for an earlier request, or earlier in the batch of this one.
MadeBefore(c, v, i) ==
    /\ c.made[1] \in Nat
    /\ c.made[1] < v \/ (c.made[1] = v /\ c.made[2] \in 1..(i - 1))

NotShared(stats) == \A m, n \in DOMAIN stats : m # n => stats[m] # stats[n]

\* Each upstream has counters made for its protocol, and nothing else has any.
Follows(b) ==
    /\ DOMAIN b.stats = DOMAIN b.upstreams
    /\ \A n \in DOMAIN b.stats : b.stats[n].protocol = b.upstreams[n]

\* What holds in a batch before its update i.
InBatch(b, v, i) ==
    /\ \A n \in DOMAIN b.stats : MadeBefore(b.stats[n], v, i)
    /\ NotShared(b.stats)

\* What holds of a configuration between requests.
CountersOK(b, v) ==
    /\ \A n \in DOMAIN b.stats : b.stats[n].made[1] \in 0..v
    /\ NotShared(b.stats)

StatsInv ==
    /\ CountersOK(current, version)
    /\ ~current.replaced => Follows(current)
    /\ \A c \in writing : /\ CountersOK(c, version)
                          /\ ~c.replaced => Follows(c)

\* An update gives the new name the old one's counters, which it no longer has, or
\* counters that nothing else has.
LEMMA UpdateOneStats ==
    ASSUME NEW b, NEW u, NEW v \in Nat, NEW i \in Nat, i >= 1, InBatch(b, v, i)
    PROVE  /\ InBatch(UpdateOne(b, u, v, i), v, i + 1)
           /\ Follows(b) => Follows(UpdateOne(b, u, v, i))
<1> DEFINE gone == {u.old} \cap DOMAIN b.upstreams
           X == IF Reused(b, u) THEN b.stats[u.old] ELSE NewCounters(u.protocol, v, i)
           D == (DOMAIN b.stats \ gone) \cup {u.name}
           E == (DOMAIN b.upstreams \ gone) \cup {u.name}
<1>1. PICK a : a = UpdateOne(b, u, v, i)
  OBVIOUS
<1>2. PICK x : x = X
  OBVIOUS
<1>3. /\ DOMAIN a.stats = D
      /\ \A n \in D : a.stats[n] = IF n = u.name THEN x ELSE b.stats[n]
  BY <1>1, <1>2 DEF UpdateOne, With, Without
<1>4. /\ DOMAIN a.upstreams = E
      /\ \A n \in E : a.upstreams[n] = IF n = u.name THEN u.protocol ELSE b.upstreams[n]
  BY <1>1 DEF UpdateOne, With, Without
<1>5. CASE Reused(b, u)
  <2>1. /\ u.old \in DOMAIN b.stats /\ u.old \in gone
        /\ x = b.stats[u.old] /\ b.upstreams[u.old] = u.protocol
    BY <1>2, <1>5 DEF Reused
  <2>2. \A n \in D : MadeBefore(a.stats[n], v, i)
    BY <1>3, <2>1 DEF InBatch
  <2>3. NotShared(a.stats)
    BY <1>3, <2>1 DEF InBatch, NotShared
  <2>4. \A n \in D : MadeBefore(a.stats[n], v, i + 1)
    BY <2>2 DEF MadeBefore
  <2>5. Follows(b) => Follows(a)
    BY <1>3, <1>4, <2>1 DEF Follows
  <2> QED BY <1>1, <1>3, <2>3, <2>4, <2>5 DEF InBatch
<1>6. CASE ~Reused(b, u)
  <2>1. x = NewCounters(u.protocol, v, i)
    BY <1>2, <1>6
  <2>2. /\ x.protocol = u.protocol
        /\ x.made[1] = v /\ x.made[2] = i
    BY <2>1 DEF NewCounters
  <2>3. \A n \in DOMAIN b.stats : b.stats[n] # x
    BY <2>2 DEF InBatch, MadeBefore
  <2>4. \A n \in D : MadeBefore(a.stats[n], v, i + 1)
    BY <1>3, <2>2 DEF InBatch, MadeBefore
  <2>5. NotShared(a.stats)
    BY <1>3, <2>3 DEF InBatch, NotShared
  <2>6. Follows(b) => Follows(a)
    BY <1>3, <1>4, <2>2 DEF Follows
  <2> QED BY <1>1, <1>3, <2>4, <2>5, <2>6 DEF InBatch
<1> QED BY <1>5, <1>6

\* A batch of any length keeps counters apart and with their upstreams, in whatever
\* order its updates rename and replace.
LEMMA UpdateUpstreamsStats ==
    ASSUME NEW b, NEW us, Len(us) \in Nat, NEW v \in Nat, CountersOK(b, v)
    PROVE  /\ CountersOK(UpdateUpstreams(b, us, v + 1), v + 1)
           /\ Follows(b) => Follows(UpdateUpstreams(b, us, v + 1))
<1>1. PICK w \in Nat : w = v + 1
  OBVIOUS
<1>2. PICK k \in Nat : k = Len(us)
  OBVIOUS
<1>3. PICK f : /\ f[0] = b
               /\ \A i \in 1..k : f[i] = UpdateOne(f[i - 1], us[i], w, i)
               /\ UpdateUpstreams(b, us, w) = f[k]
  BY <1>2, UpdatesInTurn
<1> DEFINE Good(i) == InBatch(f[i], w, i + 1) /\ (Follows(b) => Follows(f[i]))
           T == {i \in 0..k : ~Good(i)}
<1>4. Good(0)
  BY <1>1, <1>3 DEF CountersOK, InBatch, MadeBefore
<1>5. T = {}
  <2> SUFFICES ASSUME T # {} PROVE FALSE
    OBVIOUS
  <2>1. T \in SUBSET Nat
    OBVIOUS
  <2>2. PICK i \in T : \A y \in T : i <= y
    BY <2>1, LeastOf, Zenon
  <2>3. i \in 1..k /\ ~Good(i)
    BY <1>4, <2>2
  <2>4. PICK j \in Nat : j = i - 1 /\ j \in 0..k /\ j + 1 = i
    BY <2>3
  <2>5. Good(j)
    <3>1. j \notin T
      <4> HIDE DEF T
      <4> QED BY <2>1, <2>2, <2>3, <2>4
    <3> QED BY <2>4, <3>1
  <2>6. f[i] = UpdateOne(f[j], us[i], w, i)
    BY <1>3, <2>3, <2>4
  <2>7. InBatch(f[j], w, i)
    BY <2>4, <2>5
  <2>8. i \in Nat /\ i >= 1
    BY <2>3
  <2>9. /\ InBatch(UpdateOne(f[j], us[i], w, i), w, i + 1)
        /\ Follows(f[j]) => Follows(UpdateOne(f[j], us[i], w, i))
    BY <2>7, <2>8, UpdateOneStats
  <2> QED BY <2>3, <2>5, <2>6, <2>9
<1>6. Good(k)
  BY <1>5
<1>7. PICK a : a = UpdateUpstreams(b, us, w)
  OBVIOUS
<1>8. InBatch(a, w, k + 1) /\ (Follows(b) => Follows(a))
  BY <1>3, <1>6, <1>7
<1>9. CountersOK(a, w)
  BY <1>8 DEF InBatch, MadeBefore, CountersOK
<1> QED BY <1>1, <1>7, <1>8, <1>9

\* Deleting takes the counters away with their upstreams.
LEMMA DeleteUpstreamsStats ==
    ASSUME NEW b, NEW names, NEW v \in Nat, CountersOK(b, v)
    PROVE  /\ CountersOK(DeleteUpstreams(b, names), v + 1)
           /\ Follows(b) => Follows(DeleteUpstreams(b, names))
BY DEF DeleteUpstreams, Without, CountersOK, NotShared, Follows

\* set_config keeps the counters; only without ?replace=all it keeps the upstreams.
LEMMA SetUpstreamsStats ==
    ASSUME NEW b, NEW m, NEW all \in BOOLEAN, NEW v \in Nat, CountersOK(b, v)
    PROVE  /\ CountersOK(SetUpstreams(b, m, all), v + 1)
           /\ Follows(b) /\ ~all => Follows(SetUpstreams(b, m, all))
<1>1. SetUpstreams(b, m, all).stats = b.stats
  BY DEF SetUpstreams
<1>2. ~all => SetUpstreams(b, m, all).upstreams = b.upstreams
  BY DEF SetUpstreams
<1> QED BY <1>1, <1>2 DEF CountersOK, NotShared, Follows

\* A process that starts counts from zero, on counters of its own for every upstream.
LEMMA StartedStats ==
    ASSUME NEW m, NEW s, NEW v \in Nat, NEW w \in Nat, v <= w
    PROVE  CountersOK(Started(m, s, v), w) /\ Follows(Started(m, s, v))
BY DEF Started, Config, NewStats, NewCounters, CountersOK, NotShared, Follows

\* What a request makes is installed only after it is saved, and is as good.
LEMMA BeginSaveStats ==
    ASSUME version \in Nat, StatsInv, NEW b, NEW s, NEW r, BeginSave(b, s, r),
           CountersOK(b, version + 1), ~r => Follows(b)
    PROVE  StatsInv'
<1>1. /\ current' = current /\ version' = version + 1
      /\ writing' = {Config(b, s, version + 1, r)}
  BY DEF BeginSave
<1>2. PICK c : c = Config(b, s, version + 1, r)
  OBVIOUS
<1>3. c.stats = b.stats /\ c.upstreams = b.upstreams /\ c.replaced = r
  BY <1>2 DEF Config
<1>4. CountersOK(c, version') /\ (~c.replaced => Follows(c))
  BY <1>1, <1>3 DEF CountersOK, Follows
<1>5. CountersOK(current, version') /\ (~current.replaced => Follows(current))
  BY <1>1 DEF StatsInv, CountersOK
<1> QED BY <1>1, <1>2, <1>4, <1>5 DEF StatsInv

\* The configuration of the file, or the default one, starts with its own counters.
LEMMA InitStats == Init => StatsInv
<1> SUFFICES ASSUME Init PROVE StatsInv
  OBVIOUS
<1>1. version = 0 /\ writing = {} /\ current = Started(file.upstreams, file.settings, 0)
  BY DEF Init
<1> QED BY <1>1, StartedStats DEF StatsInv

\* Every step of the process keeps the statistics with the upstreams.
LEMMA NextStats ==
    ASSUME CInv, StatsInv, [Next]_vars
    PROVE  StatsInv'
<1>0. version \in Nat /\ file.version \in 0..version
  BY DEF CInv, Shapes
<1>1. ASSUME NEW s \in Settings, NEW m \in OfferedMaps, NEW r \in BOOLEAN, SetConfig(s, m, r)
      PROVE  StatsInv'
  <2>1. PICK b : b = SetUpstreams(current, m, r)
    OBVIOUS
  <2>2. PICK q : q = (current.replaced \/ r)
    OBVIOUS
  <2>3. BeginSave(b, s, q)
    BY <1>1, <2>1, <2>2, Zenon DEF SetConfig
  <2>4. CountersOK(b, version + 1) /\ (Follows(current) /\ ~r => Follows(b))
    BY <1>0, <2>1, SetUpstreamsStats DEF StatsInv
  <2>5. ~q => Follows(b)
    BY <2>2, <2>4, Zenon DEF StatsInv
  <2> QED BY <1>0, <2>3, <2>4, <2>5, BeginSaveStats
<1>2. ASSUME NEW k \in 1..MaxBatch, NEW us \in [1..k -> Updates], Update(us)
      PROVE  StatsInv'
  <2>1. Len(us) \in Nat
    BY ControllerAssumption DEF ControllerAssumption
  <2>2. PICK b : b = UpdateUpstreams(current, us, version + 1)
    OBVIOUS
  <2>3. BeginSave(b, current.settings, current.replaced)
    BY <1>2, <2>2, Zenon DEF Update
  <2>4. CountersOK(b, version + 1) /\ (Follows(current) => Follows(b))
    BY <1>0, <2>1, <2>2, UpdateUpstreamsStats DEF StatsInv
  <2>5. ~current.replaced => Follows(b)
    BY <2>4 DEF StatsInv
  <2> QED BY <1>0, <2>3, <2>4, <2>5, BeginSaveStats
<1>3. ASSUME NEW names \in SUBSET Names \ {{}}, Delete(names)
      PROVE  StatsInv'
  <2>1. PICK b : b = DeleteUpstreams(current, names)
    OBVIOUS
  <2>2. BeginSave(b, current.settings, current.replaced)
    BY <1>3, <2>1, Zenon DEF Delete
  <2>3. CountersOK(b, version + 1) /\ (Follows(current) => Follows(b))
    BY <1>0, <2>1, DeleteUpstreamsStats DEF StatsInv
  <2>4. ~current.replaced => Follows(b)
    BY <2>3 DEF StatsInv
  <2> QED BY <1>0, <2>2, <2>3, <2>4, BeginSaveStats
<1>4. CASE SaveSucceeds
  BY <1>4 DEF SaveSucceeds, StatsInv
<1>5. CASE SaveFails
  BY <1>5 DEF SaveFails, StatsInv
<1>6. CASE Crash
  BY <1>6 DEF Crash, StatsInv
<1>7. CASE Restart
  <2>1. /\ current' = Started(file.upstreams, file.settings, file.version)
        /\ version' = version /\ writing' = writing
    BY <1>7 DEF Restart, Starts
  <2>2. CountersOK(current', version) /\ Follows(current')
    BY <1>0, <2>1, StartedStats
  <2> QED BY <2>1, <2>2 DEF StatsInv
<1>8. CASE RestartOnDamagedFile
  <2>1. /\ version' = version + 1 /\ writing' = writing /\ proc = "down"
        /\ \E m, s : current' = Started(m, s, version + 1)
    BY <1>8 DEF RestartOnDamagedFile, Starts
  <2>2. CountersOK(current', version + 1) /\ Follows(current')
    BY <1>0, <2>1, StartedStats
  <2>3. writing = {}
    BY <2>1 DEF CInv, Stopped
  <2> QED BY <2>1, <2>2, <2>3 DEF StatsInv
<1>9. CASE ClientStep \/ AcceptFails \/ RestartRefused \/ UNCHANGED vars
  <2>1. current' = current /\ version' = version /\ writing' = writing
    BY <1>9 DEF ClientStep, TakeBroadcast, TakeInit, StopOld, BindFails, BindSucceeds,
                StartProxy, StartUdpProxy, AcceptFails, RestartRefused, vars, controllerVars
  <2> QED BY <2>1 DEF StatsInv
<1> QED BY <1>1, <1>2, <1>3, <1>4, <1>5, <1>6, <1>7, <1>8, <1>9, Zenon DEF Next, ControllerStep

\* Counters go with their upstream through every batch of updates, deletion, save,
\* crash and restart, and no two upstreams ever share one.
THEOREM StatsFollowUpstreamsTheorem == Spec => []StatsFollowUpstreams
<1>1. Init => StatsInv BY InitStats
<1>2. CInv /\ StatsInv /\ [Next]_vars => StatsInv' BY NextStats
<1>3. StatsInv => StatsFollowUpstreams
  BY DEF StatsInv, CountersOK, NotShared, Follows, StatsFollowUpstreams, CountersNotShared
<1> QED BY <1>1, <1>2, <1>3, ControllerInvariance, PTL DEF Spec

=============================================================================
