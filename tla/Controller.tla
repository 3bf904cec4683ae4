------------------------------ MODULE Controller ------------------------------
(***************************************************************************)
(* The client process: the controller that serves configuration requests   *)
(* one after the other and saves them (src/src/controller.rs), the         *)
(* broadcast channel to run_client (src/src/broadcast.rs), and run_client, *)
(* which rebuilds the proxy for each configuration it takes                *)
(* (src/src/client/handler.rs, src/src/iptables.rs).                       *)
(*                                                                         *)
(* A configuration is [upstreams, settings, stats] with two marks that     *)
(* the code does not have and only the properties read: version, the       *)
(* number of the request that made it, and replaced, whether it descends   *)
(* from a request with ?replace=all.                                       *)
(***************************************************************************)
EXTENDS UpstreamStats, FiniteSets

CONSTANTS
    Settings,       \* what run_client reads: [addr, rules, udp], udp NoAddr for None
    DefaultSettings,
    OfferedMaps,    \* bound: the upstreams that files and set_config requests bring
    EditedUnder,    \* bound: the settings under which upstreams are updated and deleted
    MaxBatch,       \* bound: updates in one request
    MaxVersion,     \* bound: requests and restarts that make a configuration
    MaxCrashes      \* bound: times the process is killed

\* A socket address: 127.0.0.1, all addresses or another one, and a port.  Port 0,
\* for which the system picks one, is in no configuration.
Addr == [host : {"loopback", "any", "other"}, port : Nat \ {0}]
NoAddr == [host |-> "none", port |-> 0]

ASSUME ControllerAssumption ==
    /\ DefaultSettings \in Settings
    /\ Settings \subseteq [addr : Addr, rules : BOOLEAN, udp : Addr \cup {NoAddr}]
    /\ DefaultSettings.rules = FALSE
    /\ OfferedMaps \subseteq UpstreamMaps
    /\ EditedUnder \subseteq Settings
    /\ MaxBatch \in Nat
    /\ MaxVersion \in Nat
    /\ MaxCrashes \in Nat

VARIABLES
    proc,           \* "up", "down" after a crash, "refused": the file did not parse
    crashes,        \* how often the process was killed
    version,        \* the last version given
    file,           \* the configuration file
    current,        \* Controller::current
    writing,        \* what set_current_config is saving: empty or one configuration
    init,           \* Receiver::init: empty or one configuration
    slot,           \* the broadcast channel, capacity 1
    run,            \* run_client: its phase and the configuration it works with
    proxy,          \* the socks listener of run_proxy_with
    udpProxy,       \* the UDP transparent proxy serves
    rules           \* the chains of nat (TCP) and mangle (UDP); outlive the process

controllerVars == <<version, file, current, writing>>
clientVars == <<run, proxy, udpProxy, rules>>
vars == <<proc, crashes, controllerVars, init, slot, clientVars>>

NoProxy == [addr |-> NoAddr, accepting |-> FALSE]

\* The chain cpxy of a table: it does not exist, is without effect (PREROUTING does
\* not jump to it or nothing is in it), or redirects to 127.0.0.1 at a port.
NoChain == [state |-> "none", port |-> 0]
IdleChain == [state |-> "idle", port |-> 0]
To(port) == [state |-> "redirects", port |-> port]
NoRules == [nat |-> NoChain, mangle |-> NoChain]

\* run.cleaned, a mark only the properties read: the last clean_up left nothing.
NotRunning ==
    [phase |-> "next", version |-> -1, settings |-> DefaultSettings, cleaned |-> FALSE]

Config(b, settings, v, r) ==
    [upstreams |-> b.upstreams, stats |-> b.stats, settings |-> settings, version |-> v,
     replaced |-> r]

\* A file holds a whole configuration, or what an unfinished write left of one.
Absent == [kind |-> "absent", upstreams |-> <<>>, settings |-> DefaultSettings, version |-> 0]
Damaged == [kind |-> "damaged", upstreams |-> <<>>, settings |-> DefaultSettings, version |-> 0]
Saved(c) ==
    [kind |-> "whole", upstreams |-> c.upstreams, settings |-> c.settings,
     version |-> c.version]

\* run_controller with a configuration read from the file, or the default one.
Started(upstreams, settings, v) ==
    Config([upstreams |-> upstreams, stats |-> NewStats(upstreams, v)], settings, v, FALSE)

Init ==
    /\ proc = "up"
    /\ crashes = 0
    /\ version = 0
    /\ \/ file = Absent
       \/ \E m \in OfferedMaps, s \in Settings : file = Saved(Started(m, s, 0))
    /\ current = Started(file.upstreams, file.settings, 0)
    /\ writing = {}
    /\ init = {current}
    /\ slot = {}
    /\ run = NotRunning
    /\ proxy = NoProxy
    /\ udpProxy = FALSE
    /\ rules = NoRules

-----------------------------------------------------------------------------
(* The controller.  Requests are served one at a time: writing is empty     *)
(* when one arrives.                                                        *)

MayServe == proc = "up" /\ writing = {} /\ version < MaxVersion

\* Mutant of BeginSave: the configuration is installed before it is saved.
BeginSaveInstallsFirst(b, settings, r) ==
    /\ MayServe
    /\ version' = version + 1
    /\ current' = Config(b, settings, version + 1, r)
    /\ writing' = {current'}
    /\ UNCHANGED <<proc, crashes, file, init, slot, clientVars>>

\* Mutant of BeginSave: the configuration is broadcast before it is saved.
BeginSaveBroadcastsFirst(b, settings, r) ==
    /\ MayServe
    /\ version' = version + 1
    /\ writing' = {Config(b, settings, version + 1, r)}
    /\ slot' = writing'
    /\ file' = Damaged
    /\ UNCHANGED <<proc, crashes, current, init, clientVars>>

\* set_current_config up to File::create, which truncates the file.  A request
\* that fails before that changes nothing.
BeginSave(b, settings, r) ==
    /\ MayServe
    /\ version' = version + 1
    /\ writing' = {Config(b, settings, version + 1, r)}
    /\ file' = Damaged
    /\ UNCHANGED <<proc, crashes, current, init, slot, clientVars>>

SetConfig(settings, upstreams, replaceAll) ==
    BeginSave(SetUpstreams(current, upstreams, replaceAll), settings,
              current.replaced \/ replaceAll)

Update(updates) ==
    /\ current.settings \in EditedUnder
    /\ BeginSave(UpdateUpstreams(current, updates, version + 1), current.settings,
                 current.replaced)

Delete(names) ==
    /\ current.settings \in EditedUnder
    /\ BeginSave(DeleteUpstreams(current, names), current.settings, current.replaced)

\* Mutant of Broadcast: a full channel keeps what it has.
BroadcastKeepsOldest(c) == IF slot = {} THEN {c} ELSE slot

\* Sender::broadcast in overflow mode: the newest configuration takes the place
\* of one that run_client has not taken yet.
Broadcast(c) == {c}

\* The text is written and flushed; only then is the configuration installed
\* and broadcast.
SaveSucceeds ==
    /\ proc = "up"
    /\ \E c \in writing :
         /\ file' = Saved(c)
         /\ current' = c
         /\ slot' = Broadcast(c)
    /\ writing' = {}
    /\ UNCHANGED <<proc, crashes, version, init, clientVars>>

\* Writing or flushing fails, after some or all of the text reached the file:
\* the request is answered with an error.
SaveFails ==
    /\ proc = "up"
    /\ \E c \in writing : file' \in {Damaged, Saved(c)}
    /\ writing' = {}
    /\ UNCHANGED <<proc, crashes, version, current, init, slot, clientVars>>

-----------------------------------------------------------------------------
(* run_client.                                                              *)

Take(c) ==
    [phase |-> "taken", version |-> c.version, settings |-> c.settings, cleaned |-> FALSE]

\* Mutant of TakeBroadcast: the initial configuration is not discarded.
TakeBroadcastKeepsInit ==
    /\ proc = "up" /\ run.phase = "next"
    /\ \E c \in slot : run' = Take(c)
    /\ slot' = {}
    /\ UNCHANGED <<proc, crashes, controllerVars, init, proxy, udpProxy, rules>>

\* Receiver::poll_next: a broadcast configuration makes the initial one obsolete.
TakeBroadcast ==
    /\ proc = "up" /\ run.phase = "next"
    /\ \E c \in slot : run' = Take(c)
    /\ slot' = {}
    /\ init' = {}
    /\ UNCHANGED <<proc, crashes, controllerVars, proxy, udpProxy, rules>>

\* Receiver::poll_next: without one the initial configuration is used, once.
TakeInit ==
    /\ proc = "up" /\ run.phase = "next"
    /\ slot = {}
    /\ \E c \in init : run' = Take(c)
    /\ init' = {}
    /\ UNCHANGED <<proc, crashes, controllerVars, slot, proxy, udpProxy, rules>>

\* clean_up on one chain.  Each of its commands may fail, and all of them when iptables
\* cannot be run; a chain that is not empty, or jumped to, is not deleted.
CleanUpChain(c) ==
    {c, NoChain} \cup (IF c.state = "redirects" THEN {IdleChain} ELSE {})

CleanUps(r) == [nat : CleanUpChain(r.nat), mangle : CleanUpChain(r.mangle)]

\* Mutant of StopOld: only a configuration that sets rules cleans up.
StopOldKeepsRules ==
    /\ proc = "up" /\ run.phase = "taken"
    /\ rules' \in IF run.settings.rules THEN CleanUps(rules) ELSE {rules}
    /\ run' = [run EXCEPT !.phase = "stopped",
                          !.cleaned = ~run.settings.rules \/ rules' = NoRules]
    /\ proxy' = NoProxy
    /\ udpProxy' = FALSE
    /\ UNCHANGED <<proc, crashes, controllerVars, init, slot>>

\* The tasks of the configuration before are cancelled, then clean_up, whose errors
\* nobody looks at.
StopOld ==
    /\ proc = "up" /\ run.phase = "taken"
    /\ rules' \in CleanUps(rules)
    /\ run' = [run EXCEPT !.phase = "stopped", !.cleaned = (rules' = NoRules)]
    /\ proxy' = NoProxy
    /\ udpProxy' = FALSE
    /\ UNCHANGED <<proc, crashes, controllerVars, init, slot>>

\* bind_tcp fails: the client waits for another configuration.
BindFails ==
    /\ proc = "up" /\ run.phase = "stopped"
    /\ run' = [run EXCEPT !.phase = "next"]
    /\ UNCHANGED <<proc, crashes, controllerVars, init, slot, proxy, udpProxy, rules>>

BindSucceeds ==
    /\ proc = "up" /\ run.phase = "stopped"
    /\ run' = [run EXCEPT !.phase = "bound"]
    /\ proxy' = [addr |-> run.settings.addr, accepting |-> FALSE]
    /\ UNCHANGED <<proc, crashes, controllerVars, init, slot, udpProxy, rules>>

\* add_rules gets the ports only.  new_chain fails on a chain that is still there.
MayAdd(r, s) == r.nat = NoChain /\ (s.udp # NoAddr => r.mangle = NoChain)

AllAdded(r, s) ==
    [nat |-> To(s.addr.port), mangle |-> IF s.udp = NoAddr THEN r.mangle ELSE To(s.udp.port)]

\* What an add_rules that fails has made of r: nothing, the chain of nat in part, or
\* all of it and the chain of mangle as far as it got.
AddedInPart(r, s) ==
    {r} \cup
    (IF r.nat # NoChain THEN {} ELSE {[r EXCEPT !.nat = IdleChain]}) \cup
    (IF r.nat # NoChain \/ s.udp = NoAddr THEN {}
     ELSE [nat : {To(s.addr.port)},
           mangle : {r.mangle} \cup
                      (IF r.mangle = NoChain THEN {IdleChain, To(s.udp.port)} ELSE {})])

\* run_proxy_with starts to accept.
Proxied(cleaned) ==
    /\ proxy' = [proxy EXCEPT !.accepting = TRUE]
    /\ run' = [run EXCEPT !.phase = IF run.settings.udp # NoAddr THEN "proxied" ELSE "next",
                          !.cleaned = cleaned]

\* The router rules, when the configuration asks for them, are added, or undone by a
\* clean_up that may fail as well; the proxy starts in any case.
StartProxy ==
    /\ proc = "up" /\ run.phase = "bound"
    /\ \/ ~run.settings.rules /\ rules' = rules /\ Proxied(run.cleaned)
       \/ /\ run.settings.rules /\ MayAdd(rules, run.settings)
          /\ rules' = AllAdded(rules, run.settings)
          /\ Proxied(run.cleaned)
       \/ /\ run.settings.rules
          /\ \E r \in AddedInPart(rules, run.settings) : rules' \in CleanUps(r)
          /\ Proxied(rules' = NoRules)
    /\ UNCHANGED <<proc, crashes, controllerVars, init, slot, udpProxy>>

\* serve_udp_transparent_proxy binds its socket, or its error is only logged.
StartUdpProxy ==
    /\ proc = "up" /\ run.phase = "proxied"
    /\ udpProxy' \in BOOLEAN
    /\ run' = [run EXCEPT !.phase = "next"]
    /\ UNCHANGED <<proc, crashes, controllerVars, init, slot, proxy, rules>>

\* accept fails and run_proxy_with returns, unnoticed by run_client.
AcceptFails ==
    /\ proc = "up"
    /\ proxy.accepting
    /\ proxy' = [proxy EXCEPT !.accepting = FALSE]
    /\ UNCHANGED <<proc, crashes, controllerVars, init, slot, run, udpProxy, rules>>

-----------------------------------------------------------------------------
(* The process is killed and started again.                                 *)

\* The chains in the middle of clean_up and add_rules.
HalfWay ==
    CASE run.phase = "taken" -> CleanUps(rules)
      [] run.phase = "bound" /\ run.settings.rules -> AddedInPart(rules, run.settings)
      [] OTHER -> {rules}

\* Everything but the file and the router rules is lost.
Crash ==
    /\ proc = "up"
    /\ crashes < MaxCrashes
    /\ proc' = "down"
    /\ crashes' = crashes + 1
    /\ writing' = {}
    /\ init' = {}
    /\ slot' = {}
    /\ run' = NotRunning
    /\ proxy' = NoProxy
    /\ udpProxy' = FALSE
    /\ rules' \in HalfWay
    /\ UNCHANGED <<version, file, current>>

Starts(c) ==
    /\ proc' = "up"
    /\ current' = c
    /\ init' = {c}
    /\ UNCHANGED <<crashes, file, writing, slot, clientVars>>

\* run_controller with the whole configuration of the file, or without a file.
Restart ==
    /\ proc = "down"
    /\ file.kind # "damaged"
    /\ Starts(Started(file.upstreams, file.settings, file.version))
    /\ UNCHANGED version

\* The beginning of a YAML text may be a configuration as well: every key has a
\* default and a value may be cut short.
RestartOnDamagedFile ==
    /\ proc = "down"
    /\ file.kind = "damaged"
    /\ version < MaxVersion
    /\ version' = version + 1
    /\ \E m \in OfferedMaps, s \in Settings : Starts(Started(m, s, version + 1))

\* Or it does not parse, and run_controller returns the error.
RestartRefused ==
    /\ proc = "down"
    /\ file.kind = "damaged"
    /\ proc' = "refused"
    /\ UNCHANGED <<crashes, controllerVars, init, slot, clientVars>>

ControllerStep ==
    \/ \E s \in Settings, m \in OfferedMaps, r \in BOOLEAN : SetConfig(s, m, r)
    \/ \E k \in 1..MaxBatch : \E us \in [1..k -> Updates] : Update(us)
    \/ \E names \in SUBSET Names \ {{}} : Delete(names)
    \/ SaveSucceeds
    \/ SaveFails

ClientStep ==
    \/ TakeBroadcast
    \/ TakeInit
    \/ StopOld
    \/ BindFails
    \/ BindSucceeds
    \/ StartProxy
    \/ StartUdpProxy

Next ==
    \/ ControllerStep
    \/ ClientStep
    \/ AcceptFails
    \/ Crash
    \/ Restart
    \/ RestartOnDamagedFile
    \/ RestartRefused

Spec == Init /\ [][Next]_vars

\* The executor keeps polling run_client, whose awaits (cancelling, binding) end.
FairSpec == Spec /\ WF_vars(ClientStep)

-----------------------------------------------------------------------------
\* Two upstreams never count their traffic on the same counters.
CountersNotShared ==
    \A m, n \in DOMAIN current.stats : m # n => current.stats[m] # current.stats[n]

\* Every upstream has counters that were made for the protocol it has now, shared
\* with no other, and none are left of upstreams that are gone, whatever is renamed,
\* replaced or deleted in whatever order (update_upstreams moves them); unless
\* upstreams were replaced all at once (set_config keeps the statistics as they are).
StatsFollowUpstreams ==
    /\ CountersNotShared
    /\ (~current.replaced =>
          /\ DOMAIN current.stats = DOMAIN current.upstreams
          /\ \A n \in DOMAIN current.stats :
               current.stats[n].protocol = current.upstreams[n])

\* The file never falls behind the configuration the controller has acknowledged:
\* a restart loses it only to a write that was interrupted or failed.
AcknowledgedIsSaved ==
    proc = "up" => file.kind = "damaged" \/ file.version >= current.version

\* run_client never works with a configuration whose request has not succeeded.
ClientNeverAhead == proc = "up" => run.version <= current.version

\* Within the life of the process run_client never goes back to an older
\* configuration: not to the initial one after a broadcast, not to an overtaken
\* broadcast.
NoRollback ==
    [][proc = "up" /\ proc' = "up" => run'.version >= run.version]_vars

\* A socket bound to addr listens on 127.0.0.1.
IsLocal(addr) == addr.host \in {"loopback", "any"}

\* While run_client waits with a configuration, and the last clean_up did its work, the
\* router rules are those of that configuration: none are left of one before, of an
\* add_rules that failed or of a process that was killed.  They lead to the proxy, if
\* it is bound to 127.0.0.1 or to all addresses: add_rules is not told the host.
RulesLeadToProxy ==
    (proc = "up" /\ run.phase = "next" /\ run.version >= 0 /\ run.cleaned)
        => /\ (rules.nat.state = "redirects" =>
                 /\ run.settings.rules
                 /\ IsLocal(proxy.addr) => rules.nat.port = proxy.addr.port)
           /\ (rules.mangle.state = "redirects" =>
                 run.settings.rules /\ rules.mangle.port = run.settings.udp.port)

\* A configuration the controller acknowledged reaches run_client, itself or a
\* newer one, unless the process is killed.
AcknowledgedIsApplied ==
    \A v \in 0..MaxVersion :
        (proc = "up" /\ current.version = v) ~> (proc # "up" \/ run.version >= v)

=============================================================================
