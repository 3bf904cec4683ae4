-------------------------------- MODULE Rules --------------------------------
(***************************************************************************)
(* The traffic rules of a ClientConfig (src/src/rule.rs): how the text is  *)
(* read into tables, and what the tables decide for a destination.         *)
(*                                                                         *)
(* A host pattern is the set of the hosts it matches, a network is a       *)
(* model value that an IP belongs to or not.  What the client sent first   *)
(* is known by the host its HTTP Host header and its TLS SNI name, and by  *)
(* the hosts a DNS query asks for.                                         *)
(***************************************************************************)
EXTENDS Integers, Sequences, FiniteSets, FiniteSetsExt, TLC

CONSTANTS
    Tables,         \* table names, the table rules start from among them
    MaxLevel,       \* the deepest level of execute_table: 10 in the code
    RuleLines,      \* the rules a line of the text can hold
    Requests,       \* what the rules are asked: target, proto and first data
    MaxRules        \* bound: rules in one text

Main == "main"

\* What a rule can test, a RuleDestination.
Destinations == {"geoip", "network", "port", "domain", "dnshost"}

\* A rule tests these, and jumps to a name that is a table's or could be.
IsRule(rule) ==
    /\ \A d \in rule.dest : d.kind \in Destinations
    /\ rule.action.kind = "jump" => rule.action.arg \in Tables

IsTarget(t) == t = [host |-> t.host, country |-> t.country, networks |-> t.networks,
                    port |-> t.port, resolved |-> t.resolved]

IsRequest(r) ==
    /\ r = [target |-> r.target, proto |-> r.proto, data |-> r.data]
    /\ IsTarget(r.target)

ASSUME RulesAssumption ==
    /\ Main \in Tables /\ IsFiniteSet(Tables)
    /\ MaxLevel \in Nat
    /\ MaxRules \in Nat
    /\ \A rule \in RuleLines : IsRule(rule)
    /\ \A r \in Requests : IsRequest(r)

NoName  == "no name"
NoHost  == "no host"
NoData  == [given |-> FALSE, http |-> NoHost, sni |-> NoHost, dns |-> {}]

Result(kind, arg) == [kind |-> kind, arg |-> arg]
Undecided == Result("none", NoName)
Return    == Result("return", NoName)

-----------------------------------------------------------------------------
(* Matching one destination of a rule.                                     *)

\* Mutant of DomainMatches: a host that was sniffed and does not match leaves the
\* matter to the DNS cache.
DomainMatchesOr(pattern, target, data) ==
    \/ target.host \in pattern
    \/ data.http \in pattern
    \/ data.sni \in pattern
    \/ target.resolved \cap pattern # {}

\* domain_matches: the name the client asked for decides; else the host of its
\* HTTP header, else that of its TLS hello; only then what the DNS cache holds.
DomainMatches(pattern, target, data) ==
    IF target.host # NoHost    THEN target.host \in pattern
    ELSE IF data.http # NoHost THEN data.http \in pattern
    ELSE IF data.sni # NoHost  THEN data.sni \in pattern
    ELSE target.resolved \cap pattern # {}

\* RuleDestination::matches, for the destinations find_best_upstream makes: a domain
\* comes with no resolved address, so no network and no country matches it.
Matches(dest, target, data) ==
    CASE dest.kind = "geoip"   -> target.host = NoHost /\ target.country = dest.arg
      [] dest.kind = "network" -> target.host = NoHost /\ dest.arg \in target.networks
      [] dest.kind = "port"    -> target.port = dest.arg
      [] dest.kind = "domain"  -> DomainMatches(dest.arg, target, data)
      [] dest.kind = "dnshost" -> /\ target.port = 53
                                  /\ data.given
                                  /\ data.dns \cap dest.arg # {}

\* Every destination of the rule, and its protocol if it names one.
Applies(rule, target, proto, data) ==
    /\ \A d \in rule.dest : Matches(d, target, data)
    /\ rule.proto \in {"any", proto}

-----------------------------------------------------------------------------
(* Executing the tables.                                                   *)

Continue == Result("continue", NoName)

\* Mutant of Outcome: a table that decides nothing also comes back.
OutcomeResumes(rule, jumped) ==
    IF rule.action.kind # "jump" THEN rule.action
    ELSE IF jumped[rule.action.arg] \in {Return, Undecided} THEN Continue
    ELSE jumped[rule.action.arg]

\* What an applicable rule makes of the table that holds it.  jumped is what each
\* table gives one level deeper: only a Return comes back to the rules that follow.
Outcome(rule, jumped) ==
    IF rule.action.kind # "jump" THEN rule.action
    ELSE IF jumped[rule.action.arg] = Return THEN Continue
    ELSE jumped[rule.action.arg]

\* The loop of execute_table over the rules of one table.
FirstOutcome(table, target, proto, data, jumped) ==
    LET ends == {i \in DOMAIN table : /\ Applies(table[i], target, proto, data)
                                      /\ Outcome(table[i], jumped) # Continue}
    IN  IF ends = {} THEN Undecided ELSE Outcome(table[Min(ends)], jumped)

\* execute_table for every table, with depth levels left.  No level left, or no such
\* table, decides nothing.
ExecuteTables(rules, target, proto, data, depth) ==
    LET exec[d \in 0..depth] ==
          [t \in Tables |->
             IF d = 0 \/ t \notin DOMAIN rules THEN Undecided
             ELSE FirstOutcome(rules[t], target, proto, data, exec[d - 1])]
    IN  exec[depth]

\* Mutant of Depth: the test of the level is one too strict.
DepthShort == MaxLevel

\* Levels 0 to MaxLevel run.
Depth == MaxLevel + 1

\* execute_rules: from the main table; a Return there decides nothing.
Verdict(result) == IF result = Return THEN Undecided ELSE result

ExecuteRules(rules, target, proto, data) ==
    Verdict(ExecuteTables(rules, target, proto, data, Depth)[Main])

-----------------------------------------------------------------------------
(* Reading the text.                                                       *)

VARIABLES
    rules,      \* the rulemap: the tables that hold at least one rule
    last,       \* last_name, the table the next rule goes to
    failed      \* the text was refused

vars == <<rules, last, failed>>

RuleCount == FoldSet(LAMBDA t, n : n + Len(rules[t]), 0, DOMAIN rules)

Init ==
    /\ rules = <<>>
    /\ last = NoName
    /\ failed = FALSE

\* A line that ends with a colon names the table of the rules that follow.
TableLine(t) ==
    /\ ~failed
    /\ last' = t
    /\ UNCHANGED <<rules, failed>>

\* A rule goes to the end of its table, which exists from its first rule on.
Pushed(t, rule) ==
    IF t \in DOMAIN rules THEN [rules EXCEPT ![t] = Append(@, rule)]
    ELSE [x \in DOMAIN rules \cup {t} |-> IF x = t THEN <<rule>> ELSE rules[x]]

RuleLine(rule) ==
    /\ ~failed
    /\ last # NoName
    /\ RuleCount < MaxRules
    /\ rules' = Pushed(last, rule)
    /\ UNCHANGED <<last, failed>>

\* A rule before any table name, or one that does not parse, refuses the text.
BadLine ==
    /\ ~failed
    /\ failed' = TRUE
    /\ UNCHANGED <<rules, last>>

Next ==
    \/ \E t \in Tables : TableLine(t)
    \/ \E rule \in RuleLines : RuleLine(rule)
    \/ BadLine

Spec == Init /\ [][Next]_vars

-----------------------------------------------------------------------------
(* Properties.                                                             *)

Decision(table, r) == ExecuteRules(table, r.target, r.proto, r.data)

\* A decided request stays decided the same way whatever lines are added below:
\* a rule is only reached when everything before it let the request through, and a
\* table that ran out of rules ends the execution instead of resuming its caller,
\* so a rule added to it cannot take a request from a rule of the caller.
DecidedIsStable ==
    [][rules' # rules =>
         \A r \in Requests : Decision(rules, r) \in {Undecided, Decision(rules', r)}]_vars

JumpsTo(t) ==
    IF t \in DOMAIN rules
    THEN {rules[t][i].action.arg : i \in {j \in DOMAIN rules[t] :
                                             rules[t][j].action.kind = "jump"}}
    ELSE {}

\* No cycle of jumps: a set of tables that each jump into the set is empty.
Acyclic == \A S \in SUBSET Tables : (\A t \in S : JumpsTo(t) \cap S # {}) => S = {}

\* The limit on levels is for loops only: tables that do not loop, no more than the
\* levels there are, decide as they would with any number of levels.
LimitIsForLoops ==
    Acyclic /\ Cardinality(DOMAIN rules) <= MaxLevel + 1
    => \A r \in Requests :
         Decision(rules, r)
           = Verdict(ExecuteTables(rules, r.target, r.proto, r.data,
                                   MaxLevel + 1 + Cardinality(Tables))[Main])

\* Once the first bytes of a connection name its host, what the DNS cache says of the
\* IP, however stale, cannot change where the connection goes.
SniffedHostDecides ==
    \A r \in Requests :
      r.data.http # NoHost \/ r.data.sni # NoHost
      => Decision(rules, r)
           = Decision(rules, [r EXCEPT !.target.resolved = {}])

=============================================================================
