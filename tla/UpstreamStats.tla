---------------------------- MODULE UpstreamStats ----------------------------
(***************************************************************************)
(* How the controller's requests change the upstreams of a ClientConfig    *)
(* and the ClientStatistics kept beside it (src/src/controller.rs,         *)
(* src/src/client/stats.rs).                                               *)
(*                                                                         *)
(* upstreams maps a name to its protocol.  stats maps a name to its        *)
(* counters, shared by reference with the connections: a counter is known  *)
(* by the request that made it and the protocol it was made for.           *)
(***************************************************************************)
EXTENDS Integers, Sequences, TLC

CONSTANTS
    Names,          \* upstream names
    Protocols       \* the values of UpstreamProtocol

NoName == "none"

\* UpstreamUpdate.
Updates == [old : Names \cup {NoName}, name : Names, protocol : Protocols]

UpstreamMaps == UNION {[S -> Protocols] : S \in SUBSET Names}

NewCounters(protocol, version, i) == [protocol |-> protocol, made |-> <<version, i>>]

\* ClientStatistics::new.
NewStats(upstreams, version) ==
    [n \in DOMAIN upstreams |-> NewCounters(upstreams[n], version, n)]

Without(f, names) == [n \in DOMAIN f \ names |-> f[n]]

With(f, name, value) ==
    [n \in DOMAIN f \cup {name} |-> IF n = name THEN value ELSE f[n]]

\* Mutant of Reused: the counters are kept whatever the new protocol is.
ReusedAlways(b, u) == u.old \in DOMAIN b.upstreams /\ u.old \in DOMAIN b.stats

\* An update of an upstream that exists and keeps its protocol keeps its counters.
Reused(b, u) ==
    /\ u.old \in DOMAIN b.upstreams
    /\ b.upstreams[u.old] = u.protocol
    /\ u.old \in DOMAIN b.stats

\* Mutant of UpdateOne: the old name's counters are copied, not moved.
UpdateOneCopies(b, u, version, i) ==
    [upstreams |-> With(Without(b.upstreams, {u.old}), u.name, u.protocol),
     stats |-> With(b.stats, u.name,
                    IF Reused(b, u) THEN b.stats[u.old]
                    ELSE NewCounters(u.protocol, version, i))]

\* One iteration of update_upstreams: the old entry goes, with its counters if it
\* existed, the new one takes its place or replaces the upstream of its name.
UpdateOne(b, u, version, i) ==
    LET gone == {u.old} \cap DOMAIN b.upstreams
    IN  [upstreams |-> With(Without(b.upstreams, gone), u.name, u.protocol),
         stats |-> With(Without(b.stats, gone), u.name,
                        IF Reused(b, u) THEN b.stats[u.old]
                        ELSE NewCounters(u.protocol, version, i))]

\* update_upstreams: the updates of the batch in turn, each on the result of the
\* one before.
UpdateUpstreams(b, updates, version) ==
    LET after[i \in 0..Len(updates)] ==
          IF i = 0 THEN b ELSE UpdateOne(after[i - 1], updates[i], version, i)
    IN  after[Len(updates)]

\* delete_upstreams.
DeleteUpstreams(b, names) ==
    [upstreams |-> Without(b.upstreams, names), stats |-> Without(b.stats, names)]

\* set_config: the upstreams of the request are taken only with ?replace=all, the
\* statistics stay what they were.
SetUpstreams(b, upstreams, replaceAll) ==
    [upstreams |-> IF replaceAll THEN upstreams ELSE b.upstreams, stats |-> b.stats]

=============================================================================
