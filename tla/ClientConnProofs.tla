--------------------------- MODULE ClientConnProofs ---------------------------
(***************************************************************************)
(* Proofs about ClientConn and about the rules it serves, for any tables,  *)
(* rules, upstreams and number of connections.                             *)
(***************************************************************************)
EXTENDS ClientConn, FiniteSetTheorems, SequenceTheorems, TLAPS

-----------------------------------------------------------------------------
(* Natural numbers: every proof by induction goes through a least element. *)

\* A set of natural numbers that is not empty has a least element.
LEMMA LeastNatural ==
    ASSUME NEW T \in SUBSET Nat, T # {}
    PROVE  \E x \in T : \A y \in T : x <= y
<1> DEFINE R == OpToRel(<, Nat)
<1>1. IsWellFoundedOn(R, Nat)
  BY NatLessThanWellFounded
<1>2. \A x, y \in Nat : <<y, x>> \in R <=> y < x
  BY DEF OpToRel
<1> HIDE DEF R
<1>3. \E x \in T : \A y \in T : ~(<<y, x>> \in R)
  BY <1>1, WFMin, Zenon
<1>4. PICK x \in T : \A y \in T : ~(<<y, x>> \in R)
  BY <1>3, Zenon
<1>5. \A y \in T : x <= y
  <2> SUFFICES ASSUME NEW y \in T PROVE x <= y
    OBVIOUS
  <2>1. x \in Nat /\ y \in Nat
    OBVIOUS
  <2>2. ~(y < x)
    BY <1>2, <1>4, <2>1, Zenon
  <2> QED BY <2>1, <2>2
<1> QED BY <1>5

\* Induction: a set of numbers that has 0 and every successor has them all.
LEMMA InductionOnNat ==
    ASSUME NEW S \in SUBSET Nat, 0 \in S, \A n \in S : n + 1 \in S
    PROVE  S = Nat
<1> DEFINE T == Nat \ S
<1> SUFFICES ASSUME T # {} PROVE FALSE
  OBVIOUS
<1>1. PICK n \in T : \A y \in T : n <= y
  BY LeastNatural
<1>2. n \in Nat /\ n # 0 /\ n \notin S
  OBVIOUS
<1>3. n - 1 \in Nat /\ (n - 1) + 1 = n /\ ~(n <= n - 1)
  BY <1>2
<1>4. n - 1 \in S
  BY <1>1, <1>3
<1> QED BY <1>2, <1>3, <1>4

\* Min of FiniteSetsExt is that element.
LEMMA MinIsLeast ==
    ASSUME NEW T \in SUBSET Nat, T # {}
    PROVE  Min(T) \in T /\ \A y \in T : Min(T) <= y
BY LeastNatural DEF Min

-----------------------------------------------------------------------------
(* Executing the tables, one level at a time.                              *)

Nothing == [t \in Tables |-> Undecided]

Level(rs, target, proto, data, jumped) ==
    [t \in Tables |-> IF t \notin DOMAIN rs THEN Undecided
                      ELSE FirstOutcome(rs[t], target, proto, data, jumped)]

\* ExecuteTables is what the levels give, from none left upwards: the recursive
\* function in it exists, and a deeper one agrees with a shallower one.
LEMMA ExecuteUnfolds ==
    ASSUME NEW rs, NEW tg, NEW pr, NEW da
    PROVE  /\ ExecuteTables(rs, tg, pr, da, 0) = Nothing
           /\ \A n \in Nat : ExecuteTables(rs, tg, pr, da, n + 1)
                               = Level(rs, tg, pr, da, ExecuteTables(rs, tg, pr, da, n))
<1> DEFINE L(j) == Level(rs, tg, pr, da, j)
           Def(f, n) == f = [d \in 0..n |->
                          [t \in Tables |->
                             IF d = 0 \/ t \notin DOMAIN rs THEN Undecided
                             ELSE FirstOutcome(rs[t], tg, pr, da, f[d - 1])]]
           Sol(f, n) == f = [d \in 0..n |-> IF d = 0 THEN Nothing ELSE L(f[d - 1])]
           F(n) == CHOOSE f : Def(f, n)
           E(n) == ExecuteTables(rs, tg, pr, da, n)
<1>1. \A n \in Nat : E(n) = F(n)[n]
  BY DEF ExecuteTables
<1>2. \A f, n : Def(f, n) <=> Sol(f, n)
  <2> SUFFICES ASSUME NEW f, NEW n PROVE Def(f, n) <=> Sol(f, n)
    OBVIOUS
  <2>1. \A d \in 0..n : [t \in Tables |->
                           IF d = 0 \/ t \notin DOMAIN rs THEN Undecided
                           ELSE FirstOutcome(rs[t], tg, pr, da, f[d - 1])]
                        = IF d = 0 THEN Nothing ELSE L(f[d - 1])
    BY DEF Nothing, Level
  <2> QED BY <2>1
<1> HIDE DEF E, Def, L
<1>3. \A n \in Nat : \E f : Sol(f, n)
  <2> DEFINE T == {n \in Nat : ~\E f : Sol(f, n)}
  <2> SUFFICES ASSUME T # {} PROVE FALSE
    OBVIOUS
  <2>1. PICK n \in T : \A y \in T : n <= y
    BY LeastNatural
  <2>2. CASE n = 0
    <3>1. PICK f : f = [d \in 0..0 |-> Nothing]
      OBVIOUS
    <3> DEFINE g == [d \in 0..0 |-> IF d = 0 THEN Nothing ELSE L(f[d - 1])]
    <3>2. \A d \in 0..0 : g[d] = Nothing
      OBVIOUS
    <3>3. f = g
      BY <3>1, <3>2
    <3>4. Sol(f, 0)
      BY <3>3, Zenon
    <3> QED BY <2>1, <2>2, <3>4
  <2>3. CASE n # 0
    <3>0. n \in Nat
      OBVIOUS
    <3>1. n - 1 \in Nat /\ n - 1 \notin T
      <4> HIDE DEF T
      <4> QED BY <2>1, <2>3, <3>0
    <3>2. PICK f : Sol(f, n - 1)
      BY <3>1
    <3> DEFINE g == [d \in 0..n |-> IF d = 0 THEN Nothing ELSE L(f[d - 1])]
    <3>3. \A d \in 0..(n - 1) : g[d] = f[d]
      BY <3>1, <3>2
    <3>4. \A d \in 0..n : d # 0 => d - 1 \in 0..(n - 1)
      BY <3>1
    <3>5. \A d \in 0..n : d # 0 => L(f[d - 1]) = L(g[d - 1])
      BY <3>3, <3>4
    <3>6. Sol(g, n)
      BY <3>5
    <3> QED BY <2>1, <3>6
  <2> QED BY <2>2, <2>3
<1>4. \A n \in Nat : Sol(F(n), n)
  BY <1>2, <1>3
<1> HIDE DEF F
<1>5. ASSUME NEW n \in Nat PROVE F(n + 1)[n] = F(n)[n]
  <2> DEFINE T == {d \in 0..n : F(n + 1)[d] # F(n)[d]}
  <2>1. T = {}
    <3> SUFFICES ASSUME T # {} PROVE FALSE
      OBVIOUS
    <3>1. T \in SUBSET Nat
      OBVIOUS
    <3>2. PICK d \in T : \A y \in T : d <= y
      BY <3>1, LeastNatural
    <3>3. Sol(F(n), n) /\ Sol(F(n + 1), n + 1)
      BY <1>4
    <3>4. CASE d = 0
      BY <3>2, <3>3, <3>4
    <3>5. CASE d # 0
      <4>1. d - 1 \in 0..n /\ d - 1 \notin T
        BY <3>2, <3>5
      <4>2. F(n + 1)[d - 1] = F(n)[d - 1]
        BY <4>1
      <4> QED BY <3>2, <3>3, <3>5, <4>2
    <3> QED BY <3>4, <3>5
  <2> QED BY <2>1
<1>6. E(0) = Nothing
  BY <1>1, <1>4
<1>7. ASSUME NEW n \in Nat PROVE E(n + 1) = L(E(n))
  <2>1. n + 1 \in Nat /\ n + 1 # 0 /\ n + 1 \in 0..(n + 1) /\ (n + 1) - 1 = n
    OBVIOUS
  <2>2. F(n + 1)[n + 1] = L(F(n + 1)[n])
    BY <1>4, <2>1
  <2> QED BY <1>1, <1>5, <2>1, <2>2
<1> QED BY <1>6, <1>7 DEF E, L

-----------------------------------------------------------------------------
(* A host that was sniffed decides.                                        *)

\* The tables hold rules only, and are named.
AreRules(rs) ==
    /\ DOMAIN rs \subseteq Tables
    /\ \A t \in DOMAIN rs : rs[t] \in Seq(RuleLines)

\* A rule of a table is a rule.
LEMMA RulesOfTables ==
    ASSUME NEW rs, AreRules(rs), NEW t \in DOMAIN rs, NEW i \in DOMAIN rs[t]
    PROVE  rs[t][i] \in RuleLines /\ IsRule(rs[t][i])
<1>1. rs[t] \in Seq(RuleLines)
  BY DEF AreRules
<1>2. rs[t][i] \in RuleLines
  BY <1>1
<1> QED BY <1>2, RulesAssumption

\* No destination of a rule looks at the DNS cache once the data names a host.
LEMMA MatchesIgnoresResolved ==
    ASSUME NEW tg, IsTarget(tg), NEW da, da.http # NoHost \/ da.sni # NoHost,
           NEW rule, IsRule(rule), NEW d \in rule.dest
    PROVE  Matches(d, tg, da) = Matches(d, [tg EXCEPT !.resolved = {}], da)
<1> DEFINE un == [tg EXCEPT !.resolved = {}]
<1>1. /\ un.host = tg.host /\ un.country = tg.country
      /\ un.networks = tg.networks /\ un.port = tg.port
  BY DEF IsTarget
<1> HIDE DEF un
<1>2. DomainMatches(d.arg, tg, da) = DomainMatches(d.arg, un, da)
  BY <1>1 DEF DomainMatches
<1>3. d.kind \in Destinations
  BY DEF IsRule
<1>4. Matches(d, tg, da) = Matches(d, un, da)
  BY <1>1, <1>2, <1>3 DEF Matches, Destinations
<1> QED BY <1>4 DEF un

\* So no table does, at any level.
LEMMA ExecuteIgnoresResolved ==
    ASSUME NEW rs, AreRules(rs), NEW tg, IsTarget(tg), NEW pr,
           NEW da, da.http # NoHost \/ da.sni # NoHost, NEW n \in Nat
    PROVE  ExecuteTables(rs, tg, pr, da, n)
             = ExecuteTables(rs, [tg EXCEPT !.resolved = {}], pr, da, n)
<1> DEFINE un == [tg EXCEPT !.resolved = {}]
           S == {k \in Nat : ExecuteTables(rs, tg, pr, da, k)
                                = ExecuteTables(rs, un, pr, da, k)}
<1>1. ASSUME NEW t \in DOMAIN rs, NEW i \in DOMAIN rs[t]
      PROVE  Applies(rs[t][i], tg, pr, da) = Applies(rs[t][i], un, pr, da)
  <2>1. IsRule(rs[t][i])
    BY RulesOfTables
  <2>2. \A d \in rs[t][i].dest : Matches(d, tg, da) = Matches(d, un, da)
    BY <2>1, MatchesIgnoresResolved
  <2> QED BY <2>2 DEF Applies
<1> HIDE DEF un
<1>2. ASSUME NEW t \in DOMAIN rs, NEW jumped
      PROVE  FirstOutcome(rs[t], tg, pr, da, jumped)
               = FirstOutcome(rs[t], un, pr, da, jumped)
  <2>1. {i \in DOMAIN rs[t] : /\ Applies(rs[t][i], tg, pr, da)
                              /\ Outcome(rs[t][i], jumped) # Continue}
        = {i \in DOMAIN rs[t] : /\ Applies(rs[t][i], un, pr, da)
                                /\ Outcome(rs[t][i], jumped) # Continue}
    BY <1>1
  <2> QED BY <2>1 DEF FirstOutcome
<1>3. \A jumped : Level(rs, tg, pr, da, jumped) = Level(rs, un, pr, da, jumped)
  BY <1>2 DEF Level
<1>4. 0 \in S
  BY ExecuteUnfolds
<1>5. \A k \in S : k + 1 \in S
  <2> SUFFICES ASSUME NEW k \in S PROVE k + 1 \in S
    OBVIOUS
  <2>1. k \in Nat /\ k + 1 \in Nat
    OBVIOUS
  <2>2. ExecuteTables(rs, tg, pr, da, k) = ExecuteTables(rs, un, pr, da, k)
    OBVIOUS
  <2>3. ExecuteTables(rs, tg, pr, da, k + 1) = ExecuteTables(rs, un, pr, da, k + 1)
    <3>1. ExecuteTables(rs, tg, pr, da, k + 1)
            = Level(rs, tg, pr, da, ExecuteTables(rs, tg, pr, da, k))
      BY <2>1, ExecuteUnfolds, Zenon
    <3>2. ExecuteTables(rs, un, pr, da, k + 1)
            = Level(rs, un, pr, da, ExecuteTables(rs, un, pr, da, k))
      BY <2>1, ExecuteUnfolds, Zenon
    <3> QED BY <1>3, <2>2, <3>1, <3>2, Zenon
  <2> QED BY <2>1, <2>3
<1>6. S = Nat
  <2> HIDE DEF S
  <2> SUFFICES S \in SUBSET Nat
    BY <1>4, <1>5, InductionOnNat
  <2> QED BY DEF S
<1> QED BY <1>6 DEF un

-----------------------------------------------------------------------------
(* Rules added below.                                                      *)

\* Every table is still there, with its rules before any that were added.
Extends(rs, more) ==
    /\ DOMAIN rs \subseteq DOMAIN more
    /\ \A t \in DOMAIN rs :
         /\ Len(rs[t]) <= Len(more[t])
         /\ \A i \in 1..Len(rs[t]) : more[t][i] = rs[t][i]

\* What a table decides with the jumps j, it decides with jumps that decide more.
Refines(j, k) == \A t \in Tables : j[t] \in {Undecided, k[t]}

\* The three results that are not actions of rules are told apart.
LEMMA ResultsDiffer ==
    Undecided # Return /\ Undecided # Continue /\ Return # Continue
BY DEF Undecided, Return, Continue, Result

\* A rule that made something of its table still makes the same.
LEMMA OutcomeRefines ==
    ASSUME NEW rule, IsRule(rule), NEW j, NEW k, Refines(j, k),
           Outcome(rule, j) # Undecided
    PROVE  Outcome(rule, k) = Outcome(rule, j)
<1>1. CASE rule.action.kind # "jump"
  BY <1>1 DEF Outcome
<1>2. CASE rule.action.kind = "jump"
  <2>1. j[rule.action.arg] \in {Undecided, k[rule.action.arg]}
    BY <1>2 DEF IsRule, Refines
  <2> QED BY <1>2, <2>1, ResultsDiffer DEF Outcome
<1> QED BY <1>1, <1>2

\* And so does a table with rules added below.
LEMMA FirstOutcomeRefines ==
    ASSUME NEW table \in Seq(RuleLines), NEW more \in Seq(RuleLines),
           Len(table) <= Len(more),
           \A i \in 1..Len(table) : more[i] = table[i],
           NEW tg, NEW pr, NEW da, NEW j, NEW k, Refines(j, k)
    PROVE  FirstOutcome(table, tg, pr, da, j)
             \in {Undecided, FirstOutcome(more, tg, pr, da, k)}
<1> DEFINE ends == {i \in DOMAIN table : /\ Applies(table[i], tg, pr, da)
                                         /\ Outcome(table[i], j) # Continue}
           ends2 == {i \in DOMAIN more : /\ Applies(more[i], tg, pr, da)
                                         /\ Outcome(more[i], k) # Continue}
<1>1. /\ FirstOutcome(table, tg, pr, da, j)
           = IF ends = {} THEN Undecided ELSE Outcome(table[Min(ends)], j)
      /\ FirstOutcome(more, tg, pr, da, k)
           = IF ends2 = {} THEN Undecided ELSE Outcome(more[Min(ends2)], k)
  BY DEF FirstOutcome
<1> SUFFICES ASSUME ends # {}, Outcome(table[Min(ends)], j) # Undecided
             PROVE  ends2 # {} /\ Outcome(more[Min(ends2)], k) = Outcome(table[Min(ends)], j)
  BY <1>1
<1>2. ends \in SUBSET Nat /\ ends2 \in SUBSET Nat
  OBVIOUS
<1>3. PICK m : m = Min(ends)
  OBVIOUS
<1>4. m \in ends /\ \A i \in ends : m <= i
  BY <1>2, <1>3, MinIsLeast
<1>5. m \in 1..Len(table) /\ m \in 1..Len(more) /\ more[m] = table[m]
  BY <1>4
<1>6. \A i \in 1..Len(table) : IsRule(table[i])
  BY RulesAssumption
<1>7. Outcome(more[m], k) = Outcome(table[m], j)
  BY <1>3, <1>5, <1>6, OutcomeRefines
<1>8. m \in ends2
  BY <1>4, <1>5, <1>7
<1>9. \A i \in ends2 : m <= i
  <2> SUFFICES ASSUME NEW i \in ends2, i < m PROVE FALSE
    BY <1>2, <1>5
  <2>1. i \in 1..Len(table) /\ more[i] = table[i]
    BY <1>5
  <2>2. i \notin ends
    BY <1>4, <1>5, <2>1
  <2>3. Outcome(table[i], j) = Continue
    BY <2>1, <2>2
  <2>4. Outcome(more[i], k) = Continue
    BY <1>6, <2>1, <2>3, OutcomeRefines, ResultsDiffer
  <2> QED BY <2>4
<1>10. Min(ends2) = m
  <2>1. Min(ends2) \in ends2 /\ \A i \in ends2 : Min(ends2) <= i
    BY <1>2, <1>8, MinIsLeast
  <2>2. Min(ends2) \in Nat /\ m \in Nat
    BY <1>2, <1>5, <2>1
  <2>3. Min(ends2) <= m /\ m <= Min(ends2)
    BY <1>8, <1>9, <2>1
  <2> HIDE DEF ends2
  <2> QED BY <2>2, <2>3
<1> QED BY <1>3, <1>7, <1>8, <1>10

\* So every decision of the tables stays, at every level.
LEMMA ExecuteRefines ==
    ASSUME NEW rs, NEW more, AreRules(rs), AreRules(more), Extends(rs, more),
           NEW tg, NEW pr, NEW da, NEW n \in Nat
    PROVE  Refines(ExecuteTables(rs, tg, pr, da, n), ExecuteTables(more, tg, pr, da, n))
<1> DEFINE E(k) == ExecuteTables(rs, tg, pr, da, k)
           M(k) == ExecuteTables(more, tg, pr, da, k)
           S == {k \in Nat : Refines(E(k), M(k))}
<1>1. 0 \in S
  <2>1. E(0) = Nothing
    BY ExecuteUnfolds
  <2>2. Refines(E(0), M(0))
    BY <2>1 DEF Refines, Nothing
  <2> QED BY <2>2
<1>2. \A k \in S : k + 1 \in S
  <2> SUFFICES ASSUME NEW k \in S PROVE k + 1 \in S
    OBVIOUS
  <2>1. k \in Nat /\ k + 1 \in Nat /\ Refines(E(k), M(k))
    OBVIOUS
  <2>2. E(k + 1) = Level(rs, tg, pr, da, E(k))
    BY <2>1, ExecuteUnfolds, Zenon
  <2>3. M(k + 1) = Level(more, tg, pr, da, M(k))
    BY <2>1, ExecuteUnfolds, Zenon
  <2> HIDE DEF E, M
  <2>4. ASSUME NEW t \in Tables
        PROVE  E(k + 1)[t] \in {Undecided, M(k + 1)[t]}
    <3>1. CASE t \notin DOMAIN rs
      BY <2>2, <3>1 DEF Level
    <3>2. CASE t \in DOMAIN rs
      <4>1. /\ rs[t] \in Seq(RuleLines) /\ more[t] \in Seq(RuleLines)
            /\ t \in DOMAIN more
            /\ Len(rs[t]) <= Len(more[t])
            /\ \A i \in 1..Len(rs[t]) : more[t][i] = rs[t][i]
        BY <3>2 DEF AreRules, Extends
      <4>2. FirstOutcome(rs[t], tg, pr, da, E(k))
              \in {Undecided, FirstOutcome(more[t], tg, pr, da, M(k))}
        BY <2>1, <4>1, FirstOutcomeRefines
      <4>3. /\ E(k + 1)[t] = FirstOutcome(rs[t], tg, pr, da, E(k))
            /\ M(k + 1)[t] = FirstOutcome(more[t], tg, pr, da, M(k))
        BY <2>2, <2>3, <3>2, <4>1 DEF Level
      <4> QED BY <4>2, <4>3
    <3> QED BY <3>1, <3>2
  <2>5. Refines(E(k + 1), M(k + 1))
    BY <2>4 DEF Refines
  <2> QED BY <2>1, <2>5
<1>3. S = Nat
  <2> HIDE DEF S
  <2> SUFFICES S \in SUBSET Nat
    BY <1>1, <1>2, InductionOnNat
  <2> QED BY DEF S
<1> QED BY <1>3

-----------------------------------------------------------------------------
(* The limit on levels.                                                    *)

\* A table without a rule decides nothing, at any level.
LEMMA EmptyTableDecidesNothing ==
    ASSUME NEW rs, NEW tg, NEW pr, NEW da, NEW n \in Nat, NEW t \in Tables,
           t \notin DOMAIN rs
    PROVE  ExecuteTables(rs, tg, pr, da, n)[t] = Undecided
<1>1. CASE n = 0
  BY <1>1, ExecuteUnfolds DEF Nothing
<1>2. CASE n # 0
  <2>1. n - 1 \in Nat /\ (n - 1) + 1 = n
    BY <1>2
  <2>2. ExecuteTables(rs, tg, pr, da, (n - 1) + 1)
          = Level(rs, tg, pr, da, ExecuteTables(rs, tg, pr, da, n - 1))
    BY <2>1, ExecuteUnfolds, Zenon
  <2> QED BY <2>1, <2>2 DEF Level
<1> QED BY <1>1, <1>2

\* Of the level below, a table looks at the tables it jumps to only.
LEMMA FirstOutcomeLooksAtJumps ==
    ASSUME AreRules(rules), NEW t \in DOMAIN rules, NEW tg, NEW pr, NEW da,
           NEW j, NEW k, \A x \in JumpsTo(t) : j[x] = k[x]
    PROVE  FirstOutcome(rules[t], tg, pr, da, j) = FirstOutcome(rules[t], tg, pr, da, k)
<1>1. ASSUME NEW i \in DOMAIN rules[t]
      PROVE  Outcome(rules[t][i], j) = Outcome(rules[t][i], k)
  <2>1. CASE rules[t][i].action.kind # "jump"
    BY <2>1 DEF Outcome
  <2>2. CASE rules[t][i].action.kind = "jump"
    <3>1. rules[t][i].action.arg \in JumpsTo(t)
      BY <2>2 DEF JumpsTo
    <3> QED BY <3>1 DEF Outcome
  <2> QED BY <2>1, <2>2
<1> DEFINE ends(x) == {i \in DOMAIN rules[t] : /\ Applies(rules[t][i], tg, pr, da)
                                               /\ Outcome(rules[t][i], x) # Continue}
<1>2. ends(j) = ends(k)
  BY <1>1
<1>3. ends(j) # {} => Min(ends(j)) \in DOMAIN rules[t]
  <2>1. ends(j) \in SUBSET Nat
    BY DEF AreRules
  <2> QED BY <2>1, MinIsLeast
<1>4. \A x : FirstOutcome(rules[t], tg, pr, da, x)
               = IF ends(x) = {} THEN Undecided ELSE Outcome(rules[t][Min(ends(x))], x)
  BY DEF FirstOutcome
<1> HIDE DEF ends
<1> QED BY <1>1, <1>2, <1>3, <1>4

\* The tables whose result is not settled with n levels left: with more, it differs.
Unsettled(tg, pr, da, n) ==
    {t \in DOMAIN rules :
       \E m \in Nat : /\ m >= n
                      /\ ExecuteTables(rules, tg, pr, da, m)[t]
                           # ExecuteTables(rules, tg, pr, da, n)[t]}

\* One more level settles some table and unsettles none: an unsettled table jumps
\* to one that was unsettled a level below.
LEMMA UnsettledJumpsToUnsettled ==
    ASSUME AreRules(rules), NEW tg, NEW pr, NEW da, NEW n \in Nat,
           NEW t \in Unsettled(tg, pr, da, n + 1)
    PROVE  JumpsTo(t) \cap Unsettled(tg, pr, da, n) # {}
<1> DEFINE E(k) == ExecuteTables(rules, tg, pr, da, k)
<1>1. t \in DOMAIN rules /\ t \in Tables
  BY DEF Unsettled, AreRules
<1>2. PICK m \in Nat : m >= n + 1 /\ E(m)[t] # E(n + 1)[t]
  BY DEF Unsettled
<1>3. m - 1 \in Nat /\ (m - 1) + 1 = m /\ m - 1 >= n
  BY <1>2
<1>4. E((m - 1) + 1) = Level(rules, tg, pr, da, E(m - 1))
  BY <1>3, ExecuteUnfolds, Zenon
<1>5. E(n + 1) = Level(rules, tg, pr, da, E(n))
  BY ExecuteUnfolds, Zenon
<1> HIDE DEF E
<1>6. /\ E(m)[t] = FirstOutcome(rules[t], tg, pr, da, E(m - 1))
      /\ E(n + 1)[t] = FirstOutcome(rules[t], tg, pr, da, E(n))
  BY <1>1, <1>3, <1>4, <1>5 DEF Level
<1>7. PICK x \in JumpsTo(t) : E(m - 1)[x] # E(n)[x]
  BY <1>1, <1>2, <1>6, FirstOutcomeLooksAtJumps
<1>8. x \in Tables
  <2>1. PICK i \in DOMAIN rules[t] :
            rules[t][i].action.kind = "jump" /\ x = rules[t][i].action.arg
    BY <1>1, <1>7 DEF JumpsTo
  <2> QED BY <1>1, <2>1, RulesOfTables DEF IsRule
<1>9. x \in DOMAIN rules
  BY <1>3, <1>7, <1>8, EmptyTableDecidesNothing DEF E
<1>10. x \in Unsettled(tg, pr, da, n)
  BY <1>3, <1>7, <1>9 DEF Unsettled, E
<1> QED BY <1>7, <1>10

\* Without loops there are at most as many unsettled tables as there are tables,
\* less one for each level.
LEMMA UnsettledShrinks ==
    ASSUME AreRules(rules), Acyclic, NEW tg, NEW pr, NEW da, NEW n \in Nat
    PROVE  \/ Unsettled(tg, pr, da, n) = {}
           \/ Cardinality(Unsettled(tg, pr, da, n)) + n <= Cardinality(DOMAIN rules)
<1> DEFINE U(k) == Unsettled(tg, pr, da, k)
           K == Cardinality(DOMAIN rules)
           S == {k \in Nat : U(k) = {} \/ Cardinality(U(k)) + k <= K}
<1>1. IsFiniteSet(DOMAIN rules) /\ DOMAIN rules \subseteq Tables /\ K \in Nat
  <2>1. DOMAIN rules \in SUBSET Tables
    BY DEF AreRules
  <2>2. IsFiniteSet(DOMAIN rules)
    BY <2>1, FS_Subset, RulesAssumption
  <2> QED BY <2>1, <2>2, FS_CardinalityType
<1>2. \A k \in Nat : /\ U(k) \in SUBSET (DOMAIN rules)
                     /\ IsFiniteSet(U(k)) /\ Cardinality(U(k)) \in Nat
                     /\ Cardinality(U(k)) <= K
  <2>1. \A k \in Nat : U(k) \in SUBSET (DOMAIN rules)
    BY DEF Unsettled
  <2> QED BY <1>1, <2>1, FS_Subset, FS_CardinalityType
<1>3. 0 \in S
  BY <1>1, <1>2
<1>4. ASSUME NEW k \in Nat PROVE U(k + 1) \subseteq U(k)
  <2> SUFFICES ASSUME NEW t \in U(k + 1) PROVE t \in U(k)
    OBVIOUS
  <2> DEFINE E(i) == ExecuteTables(rules, tg, pr, da, i)
  <2>1. t \in DOMAIN rules
    BY DEF Unsettled
  <2>2. PICK m \in Nat : m >= k + 1 /\ E(m)[t] # E(k + 1)[t]
    BY DEF Unsettled
  <2>3. m >= k /\ k + 1 >= k /\ k + 1 \in Nat
    BY <2>2
  <2>4. E(m)[t] # E(k)[t] \/ E(k + 1)[t] # E(k)[t]
    BY <2>2
  <2> QED BY <2>1, <2>3, <2>4 DEF Unsettled
<1>5. ASSUME NEW k \in Nat, U(k) # {} PROVE U(k + 1) # U(k)
  <2> SUFFICES ASSUME U(k + 1) = U(k) PROVE FALSE
    OBVIOUS
  <2>1. \A t \in U(k) : JumpsTo(t) \cap U(k) # {}
    BY UnsettledJumpsToUnsettled
  <2>2. U(k) \in SUBSET Tables
    BY <1>1, <1>2
  <2> QED BY <1>5, <2>1, <2>2 DEF Acyclic
<1> HIDE DEF U
<1>6. \A k \in S : k + 1 \in S
  <2> SUFFICES ASSUME NEW k \in S PROVE k + 1 \in S
    OBVIOUS
  <2>1. k \in Nat /\ k + 1 \in Nat
    OBVIOUS
  <2>2. CASE U(k) = {}
    BY <1>4, <2>1, <2>2
  <2>3. CASE U(k) # {}
    <3>1. Cardinality(U(k)) + k <= K
      BY <2>3
    <3>2. U(k + 1) \in SUBSET U(k) /\ U(k + 1) # U(k)
      BY <1>4, <1>5, <2>1, <2>3
    <3>3. Cardinality(U(k + 1)) <= Cardinality(U(k))
          /\ Cardinality(U(k + 1)) # Cardinality(U(k))
      BY <1>2, <2>1, <3>2, FS_Subset
    <3>4. Cardinality(U(k + 1)) \in Nat /\ Cardinality(U(k)) \in Nat
      BY <1>2, <2>1
    <3>5. Cardinality(U(k + 1)) + (k + 1) <= K
      BY <1>1, <2>1, <3>1, <3>3, <3>4
    <3> QED BY <2>1, <3>5
  <2> QED BY <2>2, <2>3
<1>7. S = Nat
  <2> HIDE DEF S
  <2> SUFFICES S \in SUBSET Nat
    BY <1>3, <1>6, InductionOnNat
  <2> QED BY DEF S
<1> QED BY <1>7 DEF U

\* With a level for every table, none is left unsettled.
LEMMA LimitIsForLoopsInTables ==
    ASSUME AreRules(rules)
    PROVE  LimitIsForLoops
<1> SUFFICES ASSUME Acyclic, Cardinality(DOMAIN rules) <= MaxLevel + 1,
                    NEW r \in Requests
             PROVE  Decision(rules, r)
                      = Verdict(ExecuteTables(rules, r.target, r.proto, r.data,
                                       MaxLevel + 1 + Cardinality(Tables))[Main])
  BY DEF LimitIsForLoops
<1> DEFINE E(k) == ExecuteTables(rules, r.target, r.proto, r.data, k)
           U(k) == Unsettled(r.target, r.proto, r.data, k)
           N == MaxLevel + 1 + Cardinality(Tables)
<1>1. /\ MaxLevel + 1 \in Nat /\ N \in Nat /\ N >= MaxLevel + 1
      /\ Cardinality(DOMAIN rules) \in Nat
  <2>1. Cardinality(Tables) \in Nat /\ MaxLevel \in Nat
    BY RulesAssumption, FS_CardinalityType
  <2>2. IsFiniteSet(DOMAIN rules)
    <3>1. DOMAIN rules \in SUBSET Tables
      BY DEF AreRules
    <3> QED BY <3>1, RulesAssumption, FS_Subset
  <2>3. Cardinality(DOMAIN rules) \in Nat
    BY <2>2, FS_CardinalityType
  <2> QED BY <2>1, <2>3
<1>2. U(MaxLevel + 1) = {}
  <2>1. U(MaxLevel + 1) \in SUBSET Tables
    BY DEF Unsettled, AreRules
  <2>2. IsFiniteSet(U(MaxLevel + 1))
    BY <2>1, RulesAssumption, FS_Subset
  <2>3. /\ Cardinality(U(MaxLevel + 1)) \in Nat
        /\ Cardinality(U(MaxLevel + 1)) = 0 => U(MaxLevel + 1) = {}
    BY <2>2, FS_CardinalityType, FS_EmptySet
  <2>4. \/ U(MaxLevel + 1) = {}
        \/ Cardinality(U(MaxLevel + 1)) + (MaxLevel + 1) <= Cardinality(DOMAIN rules)
    BY <1>1, UnsettledShrinks
  <2> HIDE DEF U
  <2> QED BY <1>1, <2>3, <2>4
<1>3. E(MaxLevel + 1)[Main] = E(N)[Main]
  <2>1. CASE Main \in DOMAIN rules
    <3>1. Main \notin U(MaxLevel + 1)
      BY <1>2
    <3> HIDE DEF N
    <3> QED BY <1>1, <2>1, <3>1 DEF Unsettled
  <2>2. CASE Main \notin DOMAIN rules
    <3> HIDE DEF N
    <3> QED BY <1>1, <2>2, EmptyTableDecidesNothing, RulesAssumption
  <2> QED BY <2>1, <2>2
<1> QED BY <1>3 DEF Decision, ExecuteRules, Depth

-----------------------------------------------------------------------------
(* The text is read into such tables, and only ever extended.              *)

\* Every rule is in a table that the text has named.
RulesInv ==
    /\ AreRules(rules)
    /\ last \in Tables \cup {NoName}

\* A rule that is pushed goes below those of its table, and changes no other table.
LEMMA PushedExtends ==
    ASSUME RulesInv, last # NoName, NEW rule \in RuleLines
    PROVE  AreRules(Pushed(last, rule)) /\ Extends(rules, Pushed(last, rule))
<1> DEFINE new == Pushed(last, rule)
<1>1. last \in Tables /\ AreRules(rules)
  BY DEF RulesInv
<1>2. CASE last \in DOMAIN rules
  <2>1. new = [rules EXCEPT ![last] = Append(@, rule)]
    BY <1>2 DEF Pushed
  <2>2. DOMAIN new = DOMAIN rules /\ new[last] = Append(rules[last], rule)
        /\ \A t \in DOMAIN rules \ {last} : new[t] = rules[t]
    BY <1>2, <2>1
  <2> HIDE DEF new
  <2>3. \A t \in DOMAIN rules : /\ new[t] \in Seq(RuleLines)
                                /\ Len(rules[t]) <= Len(new[t])
                                /\ \A i \in 1..Len(rules[t]) : new[t][i] = rules[t][i]
    <3> SUFFICES ASSUME NEW t \in DOMAIN rules
                 PROVE  /\ new[t] \in Seq(RuleLines)
                        /\ Len(rules[t]) <= Len(new[t])
                        /\ \A i \in 1..Len(rules[t]) : new[t][i] = rules[t][i]
      OBVIOUS
    <3>1. rules[t] \in Seq(RuleLines)
      BY <1>1 DEF AreRules
    <3> QED BY <2>2, <3>1
  <2>4. AreRules(new) /\ Extends(rules, new)
    BY <1>1, <2>2, <2>3 DEF AreRules, Extends
  <2> QED BY <2>4 DEF new
<1>3. CASE last \notin DOMAIN rules
  <2>1. new = [x \in DOMAIN rules \cup {last} |->
                IF x = last THEN <<rule>> ELSE rules[x]]
    BY <1>3 DEF Pushed
  <2>2. DOMAIN new = DOMAIN rules \cup {last} /\ new[last] = <<rule>>
        /\ \A t \in DOMAIN rules : new[t] = rules[t]
    BY <1>3, <2>1
  <2> HIDE DEF new
  <2>3. <<rule>> \in Seq(RuleLines)
    OBVIOUS
  <2>4. \A t \in DOMAIN rules : rules[t] \in Seq(RuleLines)
    BY <1>1 DEF AreRules
  <2>5. AreRules(new)
    BY <1>1, <2>2, <2>3, <2>4 DEF AreRules
  <2>6. Extends(rules, new)
    <3>1. \A t \in DOMAIN rules : Len(rules[t]) \in Nat
      BY <2>4
    <3> QED BY <2>2, <3>1 DEF Extends
  <2> QED BY <2>5, <2>6 DEF new
<1> QED BY <1>2, <1>3

\* A step of the connections, of the clock or of their start leaves the rules alone.
LEMMA RulesStayWhileServing ==
    ASSUME ClientNext
    PROVE  ReadLine \/ (rules' = rules /\ last' \in {last, NoName})
BY DEF ClientNext, StartServing, ClockMoves, ConnNext, Accept, Handshake, HandshakeFails,
       PreRead, PreReadTimeout, PreReadFails, Select, TryOk, TryFails, Exhausted, TlsOk,
       TlsFails, RespondOk, RespondFails, Relay, RelayEnds, ClientSends, ClientCloses, vars

\* The rules of a step are those before it, or extend them.
LEMMA RulesStep ==
    ASSUME RulesInv, [ClientNext]_allVars
    PROVE  RulesInv' /\ (rules' = rules \/ (Extends(rules, rules') /\ AreRules(rules')))
<1>1. CASE rules' = rules /\ last' \in {last, NoName}
  BY <1>1 DEF RulesInv, AreRules
<1>2. CASE ReadLine
  <2>1. CASE \E t \in Tables : TableLine(t)
    BY <2>1 DEF TableLine, RulesInv, AreRules
  <2>2. CASE BadLine
    BY <2>2 DEF BadLine, RulesInv, AreRules
  <2>3. CASE \E rule \in RuleLines : RuleLine(rule)
    <3>1. PICK rule \in RuleLines : RuleLine(rule)
      BY <2>3
    <3>2. last # NoName /\ rules' = Pushed(last, rule) /\ last' = last
      BY <3>1 DEF RuleLine
    <3>3. AreRules(rules') /\ Extends(rules, rules')
      BY <3>2, PushedExtends
    <3>4. RulesInv'
      BY <3>2, <3>3 DEF RulesInv, AreRules
    <3> QED BY <3>3, <3>4
  <2> QED BY <1>2, <2>1, <2>2, <2>3 DEF ReadLine, Next
<1>3. CASE UNCHANGED allVars
  BY <1>3 DEF allVars, vars, RulesInv, AreRules
<1> QED BY <1>1, <1>2, <1>3, RulesStayWhileServing

\* The rules in force always come from the text.
LEMMA RulesInvariant == ClientSpec => []RulesInv
<1>1. ClientInit => RulesInv
  BY DEF ClientInit, Init, RulesInv, AreRules
<1>2. RulesInv /\ [ClientNext]_allVars => RulesInv'
  BY RulesStep
<1> QED BY <1>1, <1>2, PTL DEF ClientSpec

\* The test of the level in execute_table cuts loops only: whatever rules a text has
\* brought, tables without a loop, no more than the levels, decide every request as
\* they would with any number of levels.
THEOREM LimitIsForLoopsTheorem == ClientSpec => []LimitIsForLoops
<1>1. RulesInv => LimitIsForLoops
  BY LimitIsForLoopsInTables DEF RulesInv
<1> QED BY <1>1, RulesInvariant, PTL

\* domain_matches lets the host that the first bytes name decide: whatever rules a
\* text has brought, the DNS cache then has no say in where the connection goes.
THEOREM SniffedHostDecidesTheorem == ClientSpec => []SniffedHostDecides
<1>1. RulesInv => SniffedHostDecides
  <2> SUFFICES ASSUME AreRules(rules), NEW r \in Requests,
                      r.data.http # NoHost \/ r.data.sni # NoHost
               PROVE  Decision(rules, r) = Decision(rules, [r EXCEPT !.target.resolved = {}])
    BY DEF RulesInv, SniffedHostDecides
  <2> DEFINE un == [r EXCEPT !.target.resolved = {}]
  <2>1. IsTarget(r.target) /\ r = [target |-> r.target, proto |-> r.proto, data |-> r.data]
    BY RulesAssumption DEF IsRequest
  <2>2. /\ un.target = [r.target EXCEPT !.resolved = {}]
        /\ un.proto = r.proto /\ un.data = r.data
    BY <2>1
  <2>3. Depth \in Nat
    BY RulesAssumption DEF Depth
  <2> HIDE DEF un
  <2>4. ExecuteTables(rules, r.target, r.proto, r.data, Depth)
          = ExecuteTables(rules, [r.target EXCEPT !.resolved = {}], r.proto, r.data, Depth)
    BY <2>1, <2>3, ExecuteIgnoresResolved
  <2>5. Decision(rules, r) = Decision(rules, un)
    BY <2>2, <2>4 DEF Decision, ExecuteRules
  <2> QED BY <2>5 DEF un
<1> QED BY <1>1, RulesInvariant, PTL

\* Only a Return resumes the table that jumped: a request that the rules read so far
\* have decided stays decided the same way as the text goes on.
THEOREM DecidedIsStableTheorem == ClientSpec => DecidedIsStable
<1> DEFINE P == rules' # rules =>
                  \A r \in Requests : Decision(rules, r) \in {Undecided, Decision(rules', r)}
<1>1. RulesInv /\ [ClientNext]_allVars => [P]_vars
  <2> SUFFICES ASSUME RulesInv, [ClientNext]_allVars, rules' # rules, NEW r \in Requests
               PROVE  Decision(rules, r) \in {Undecided, Decision(rules', r)}
    OBVIOUS
  <2>1. AreRules(rules) /\ AreRules(rules') /\ Extends(rules, rules')
    BY RulesStep DEF RulesInv
  <2>2. Depth \in Nat
    BY RulesAssumption DEF Depth
  <2> DEFINE E(rs) == ExecuteTables(rs, r.target, r.proto, r.data, Depth)
  <2>3. Refines(E(rules), E(rules'))
    BY <2>1, <2>2, ExecuteRefines
  <2>4. E(rules)[Main] \in {Undecided, E(rules')[Main]}
    BY <2>3, RulesAssumption DEF Refines
  <2>5. Decision(rules, r) = Verdict(E(rules)[Main])
        /\ Decision(rules', r) = Verdict(E(rules')[Main])
    BY DEF Decision, ExecuteRules
  <2> HIDE DEF E
  <2> QED BY <2>4, <2>5, ResultsDiffer DEF Verdict
<1> HIDE DEF P
<1>2. ClientSpec => [][P]_vars
  BY <1>1, RulesInvariant, PTL DEF ClientSpec
<1> QED BY <1>2 DEF P, DecidedIsStable

-----------------------------------------------------------------------------
(* One connection.  What is said of it here mentions the rules in service  *)
(* as rs, and no variable: the rules stay, the other connections and the   *)
(* clock do what they like.                                                *)

IsConn(s) ==
    s = [phase |-> s.phase, kind |-> s.kind, request |-> s.request, data |-> s.data,
         sent |-> s.sent, eof |-> s.eof, taken |-> s.taken, lost |-> s.lost,
         bytes |-> s.bytes, cands |-> s.cands, longer |-> s.longer,
         attempts |-> s.attempts, via |-> s.via, got |-> s.got, told |-> s.told]

Typed(s) ==
    /\ IsConn(s)
    /\ s.sent \in Nat /\ s.taken \in Nat /\ s.lost \in Nat
    /\ s.cands \in Seq(Names) /\ s.attempts \in Seq(Names)

\* Nothing is answered before the relay, and no error with it.
Answered(s) ==
    /\ s.phase \notin {"relay", "closed"} => s.told = "nothing"
    /\ s.phase = "relay" => s.told # "error"

\* What was taken is in the initial data, then with the upstream, but for what came
\* with a handshake; a redirected connection has none.
Uploading(s) ==
    /\ s.lost <= s.taken
    /\ s.kind = "transparent" => s.lost = 0
    /\ s.phase = "handshake" => s.kind # "transparent"
    /\ s.phase \in {"idle", "handshake", "preread"}
       => s.taken = 0 /\ s.lost = 0 /\ s.bytes = <<>>
    /\ s.phase \in {"select", "trying"} => s.bytes = Numbers(s.lost + 1, s.taken)
    /\ s.phase \in {"tls", "answer", "relay"} => s.via # NoUpstream
    /\ s.via # NoUpstream => /\ s.phase \in {"tls", "answer", "relay", "closed"}
                             /\ s.got = Numbers(s.lost + 1, s.taken)

LeftBy(rs, s) == Eligible(ExecuteRules(rs, s.request.target, "tcp", s.data))

\* What the rules left is what was tried and what is still to try.
Trying(s, rs) ==
    /\ s.phase \in {"idle", "handshake", "preread", "select"}
       => s.cands = <<>> /\ s.attempts = <<>>
    /\ s.phase = "trying" => ToSet(s.attempts) \cup ToSet(s.cands) = LeftBy(rs, s)
    /\ s.phase = "tls" => s.kind = "https"
    /\ s.told = "error" => \/ ToSet(s.attempts) = LeftBy(rs, s)
                           \/ s.kind = "https" /\ s.via # NoUpstream

\* The attempts made and those to come are in the order of the idle times.
InOrder(order, longer) ==
    \A i, j \in DOMAIN order : i < j => <<order[j], order[i]>> \notin longer

Ordered(s) == InOrder(s.attempts \o Reverse(s.cands), s.longer)

ConnOK(s, rs) ==
    Typed(s) /\ Answered(s) /\ Uploading(s) /\ Trying(s, rs) /\ Ordered(s)

\* The minimum and the maximum of two.
LEMMA MinMaxOfTwo ==
    ASSUME NEW a \in Int, NEW b \in Int
    PROVE  /\ Min({a, b}) = IF a <= b THEN a ELSE b
           /\ Max({a, b}) = IF a >= b THEN a ELSE b
BY DEF Min, Max

\* The numbers after a up to b.
LEMMA NumbersAre ==
    ASSUME NEW a \in Nat, NEW b \in Nat, a <= b
    PROVE  /\ Numbers(a + 1, b) \in Seq(Int)
           /\ Len(Numbers(a + 1, b)) = b - a
           /\ \A i \in 1..(b - a) : Numbers(a + 1, b)[i] = a + i
<1>1. PICK n \in Nat : n = b - a /\ b - (a + 1) + 1 = n
  OBVIOUS
<1>2. Numbers(a + 1, b) = [i \in 1..n |-> (a + 1) + i - 1]
  BY <1>1 DEF Numbers
<1>3. \A i \in 1..n : (a + 1) + i - 1 \in Int /\ (a + 1) + i - 1 = a + i
  OBVIOUS
<1>4. [i \in 1..n |-> (a + 1) + i - 1] \in Seq(Int)
  BY <1>3
<1> QED BY <1>1, <1>2, <1>3, <1>4

\* Bytes are numbered without a gap.
LEMMA NumbersConcat ==
    ASSUME NEW a \in Nat, NEW b \in Nat, NEW c \in Nat, a <= b, b <= c
    PROVE  Numbers(a + 1, b) \o Numbers(b + 1, c) = Numbers(a + 1, c)
<1> DEFINE x == Numbers(a + 1, b)
           y == Numbers(b + 1, c)
           z == Numbers(a + 1, c)
<1>1. x \in Seq(Int) /\ Len(x) = b - a /\ \A i \in 1..(b - a) : x[i] = a + i
  BY NumbersAre, Zenon
<1>2. y \in Seq(Int) /\ Len(y) = c - b /\ \A i \in 1..(c - b) : y[i] = b + i
  BY NumbersAre, Zenon
<1>0. a <= c
  OBVIOUS
<1>3. z \in Seq(Int) /\ Len(z) = c - a /\ \A i \in 1..(c - a) : z[i] = a + i
  BY <1>0, NumbersAre, Zenon
<1> HIDE DEF x, y, z
<1>4. /\ x \o y \in Seq(Int)
      /\ Len(x \o y) = Len(x) + Len(y)
      /\ \A i \in 1..(Len(x) + Len(y)) :
           (x \o y)[i] = IF i <= Len(x) THEN x[i] ELSE y[i - Len(x)]
  BY <1>1, <1>2, ConcatProperties, Zenon
<1>5. Len(x) + Len(y) = Len(z) /\ Len(z) = c - a
  BY <1>1, <1>2, <1>3
<1>6. ASSUME NEW i \in 1..(c - a) PROVE (x \o y)[i] = z[i]
  <2>1. CASE i <= b - a
    BY <1>1, <1>3, <1>4, <1>5, <2>1
  <2>2. CASE i > b - a
    <3>1. i - (b - a) \in 1..(c - b)
      BY <2>2
    <3>0. i \in 1..(Len(x) + Len(y)) /\ ~(i <= Len(x)) /\ Len(x) = b - a
      BY <1>1, <1>5, <2>2
    <3>2. (x \o y)[i] = y[i - (b - a)]
      BY <1>4, <3>0, Zenon
    <3>3. y[i - (b - a)] = b + (i - (b - a))
      BY <1>2, <3>1, Zenon
    <3>4. b + (i - (b - a)) = a + i
      OBVIOUS
    <3>5. z[i] = a + i
      BY <1>3, Zenon
    <3> QED BY <3>2, <3>3, <3>4, <3>5, Zenon
  <2>3. i <= b - a \/ i > b - a
    OBVIOUS
  <2> QED BY <2>1, <2>2, <2>3, Zenon
<1>7. x \o y = z
  BY <1>3, <1>4, <1>5, <1>6, SeqEqual
<1> QED BY <1>7 DEF x, y, z

\* There is no byte after the last one.
LEMMA NumbersEmpty ==
    ASSUME NEW a \in Nat
    PROVE  Numbers(a + 1, a) = <<>>
BY DEF Numbers

-----------------------------------------------------------------------------
(* The list of upstreams.                                                  *)

\* Popping the list.
LEMMA FrontAndLast ==
    ASSUME NEW q \in Seq(Names), q # <<>>
    PROVE  /\ Len(q) \in Nat \ {0}
           /\ Last(q) \in Names /\ Last(q) = q[Len(q)]
           /\ Front(q) \in Seq(Names) /\ Len(Front(q)) = Len(q) - 1
           /\ \A i \in 1..(Len(q) - 1) : Front(q)[i] = q[i]
<1>1. Len(q) \in Nat \ {0}
  OBVIOUS
<1>2. Last(q) \in Names /\ Last(q) = q[Len(q)]
  BY <1>1 DEF Last
<1>3. /\ Front(q) \in Seq(Names) /\ Len(Front(q)) = Len(q) - 1
      /\ \A i \in 1..(Len(q) - 1) : Front(q)[i] = q[i]
  BY <1>1, SubSeqProperties DEF Front
<1> QED BY <1>1, <1>2, <1>3

LEMMA ReverseIs ==
    ASSUME NEW q \in Seq(Names)
    PROVE  /\ Reverse(q) \in Seq(Names) /\ Len(Reverse(q)) = Len(q)
           /\ \A i \in 1..Len(q) : Reverse(q)[i] = q[(Len(q) - i) + 1]
<1>1. Len(q) \in Nat
  OBVIOUS
<1>2. Reverse(q) = [i \in 1..Len(q) |-> q[(Len(q) - i) + 1]]
  BY DEF Reverse
<1>3. \A i \in 1..Len(q) : q[(Len(q) - i) + 1] \in Names
  <2> SUFFICES ASSUME NEW i \in 1..Len(q) PROVE q[(Len(q) - i) + 1] \in Names
    OBVIOUS
  <2>1. (Len(q) - i) + 1 \in 1..Len(q)
    BY <1>1
  <2> QED BY <2>1
<1> QED BY <1>1, <1>2, <1>3

\* What is popped goes from the end of one part of the order to the other.
LEMMA PoppedKeepsOrder ==
    ASSUME NEW a \in Seq(Names), NEW q \in Seq(Names), q # <<>>
    PROVE  Append(a, Last(q)) \o Reverse(Front(q)) = a \o Reverse(q)
<1> DEFINE f == Front(q)
           n == Len(q)
           x == Append(a, Last(q))
           rf == Reverse(f)
           rq == Reverse(q)
           k == Len(a)
<1>1. /\ n \in Nat \ {0} /\ Last(q) \in Names /\ Last(q) = q[n]
      /\ f \in Seq(Names) /\ Len(f) = n - 1 /\ \A i \in 1..(n - 1) : f[i] = q[i]
  BY FrontAndLast, Zenon
<1>2. rq \in Seq(Names) /\ Len(rq) = n /\ \A i \in 1..n : rq[i] = q[(n - i) + 1]
  BY ReverseIs, Zenon
<1>3. /\ rf \in Seq(Names) /\ Len(rf) = n - 1
      /\ \A i \in 1..(n - 1) : rf[i] = f[((n - 1) - i) + 1]
  BY <1>1, ReverseIs
<1>4. /\ x \in Seq(Names) /\ Len(x) = k + 1 /\ k \in Nat
      /\ x[k + 1] = q[n] /\ \A i \in 1..k : x[i] = a[i]
  BY <1>1
<1> HIDE DEF f, n, x, rf, rq, k
<1>5. /\ x \o rf \in Seq(Names) /\ Len(x \o rf) = (k + 1) + (n - 1)
      /\ \A i \in 1..((k + 1) + (n - 1)) :
           (x \o rf)[i] = IF i <= k + 1 THEN x[i] ELSE rf[i - (k + 1)]
  <2>1. /\ x \o rf \in Seq(Names) /\ Len(x \o rf) = Len(x) + Len(rf)
        /\ \A i \in 1..(Len(x) + Len(rf)) :
             (x \o rf)[i] = IF i <= Len(x) THEN x[i] ELSE rf[i - Len(x)]
    BY <1>3, <1>4, ConcatProperties, Zenon
  <2>2. Len(x) = k + 1 /\ Len(rf) = n - 1
    BY <1>3, <1>4
  <2> QED BY <2>1, <2>2, Zenon
<1>6. /\ a \o rq \in Seq(Names) /\ Len(a \o rq) = k + n
      /\ \A i \in 1..(k + n) : (a \o rq)[i] = IF i <= k THEN a[i] ELSE rq[i - k]
  <2>1. k = Len(a)
    BY DEF k
  <2> QED BY <1>2, <2>1, ConcatProperties
<1>7. ASSUME NEW i \in 1..(k + n) PROVE (x \o rf)[i] = (a \o rq)[i]
  <2>0. i \in 1..((k + 1) + (n - 1)) /\ i \in Nat /\ (i <= k \/ i = k + 1 \/ i > k + 1)
    BY <1>1, <1>4
  <2>1. CASE i <= k
    <3>1. i <= k + 1 /\ i \in 1..k
      BY <1>4, <2>0, <2>1
    <3> QED BY <1>4, <1>5, <1>6, <2>0, <2>1, <3>1
  <2>2. CASE i = k + 1
    <3>1. i - k = 1 /\ 1 \in 1..n /\ (n - 1) + 1 = n /\ i <= k + 1 /\ ~(i <= k)
      BY <1>1, <1>4, <2>2
    <3>2. (a \o rq)[i] = rq[1] /\ rq[1] = q[n]
      BY <1>2, <1>6, <3>1
    <3> QED BY <1>4, <1>5, <2>0, <2>2, <3>1, <3>2
  <2>3. CASE i > k + 1
    <3>1. PICK j \in 1..(n - 1) : j = i - (k + 1)
      BY <1>1, <1>4, <2>3
    <3>2. /\ i - k = j + 1 /\ j + 1 \in 1..n /\ ~(i <= k + 1) /\ ~(i <= k)
          /\ (n - (j + 1)) + 1 = n - j /\ ((n - 1) - j) + 1 = n - j
          /\ n - j \in 1..(n - 1)
      BY <1>1, <1>4, <2>3, <3>1
    <3>3. (x \o rf)[i] = rf[j]
      BY <1>5, <2>0, <3>1, <3>2
    <3>4. rf[j] = f[n - j] /\ f[n - j] = q[n - j]
      BY <1>1, <1>3, <3>1, <3>2
    <3>5. (a \o rq)[i] = rq[j + 1]
      BY <1>6, <3>2
    <3>6. rq[j + 1] = q[n - j]
      BY <1>2, <3>2
    <3> QED BY <3>3, <3>4, <3>5, <3>6
  <2> QED BY <2>0, <2>1, <2>2, <2>3
<1>8. Len(x \o rf) = Len(a \o rq) /\ Len(a \o rq) = k + n
  BY <1>1, <1>4, <1>5, <1>6
<1>9. x \o rf = a \o rq
  BY <1>5, <1>6, <1>7, <1>8, SeqEqual
<1> QED BY <1>9 DEF x, rf, rq, f

\* And neither part loses an upstream.
LEMMA PoppedKeepsAll ==
    ASSUME NEW a \in Seq(Names), NEW q \in Seq(Names), q # <<>>
    PROVE  ToSet(Append(a, Last(q))) \cup ToSet(Front(q)) = ToSet(a) \cup ToSet(q)
<1>1. ToSet(Append(a, Last(q))) = ToSet(a) \cup {Last(q)}
  <2>1. Last(q) \in Names
    BY FrontAndLast
  <2> DEFINE k == Len(a)
             l == Last(q)
             x == Append(a, l)
  <2>2. /\ k \in Nat /\ DOMAIN a = 1..k /\ DOMAIN x = 1..(k + 1)
        /\ x[k + 1] = l /\ \A i \in 1..k : x[i] = a[i]
    BY <2>1
  <2> HIDE DEF k, l, x
  <2>3. 1..(k + 1) = 1..k \cup {k + 1}
    BY <2>2
  <2>4. ToSet(x) = ToSet(a) \cup {l}
    BY <2>2, <2>3 DEF ToSet
  <2> QED BY <2>4 DEF x, l
<1>2. ToSet(q) = ToSet(Front(q)) \cup {Last(q)}
  <2> DEFINE f == Front(q)
             n == Len(q)
             l == Last(q)
  <2>1. /\ n \in Nat \ {0} /\ l = q[n] /\ DOMAIN q = 1..n
        /\ DOMAIN f = 1..(n - 1) /\ \A i \in 1..(n - 1) : f[i] = q[i]
    BY FrontAndLast
  <2> HIDE DEF f, n, l
  <2>2. 1..n = 1..(n - 1) \cup {n}
    BY <2>1
  <2>3. ToSet(q) = ToSet(f) \cup {l}
    BY <2>1, <2>2 DEF ToSet
  <2> QED BY <2>3 DEF f, l
<1> QED BY <1>1, <1>2

\* The list that is made names every upstream the rules leave.
LEMMA ListIsComplete ==
    ASSUME NEW result, NEW order \in BestUpstreams(result)
    PROVE  /\ order \in Seq(Names)
           /\ ToSet(order) = Eligible(result)
<1> DEFINE S == Eligible(result)
           n == Cardinality(S)
<1>1. S \in SUBSET Names
  BY DEF Eligible
<1>2. IsFiniteSet(S) /\ n \in Nat
  BY <1>1, ClientAssumption, FS_Subset, FS_CardinalityType
<1>3. order \in [1..n -> S] /\ \A i, j \in 1..n : i # j => order[i] # order[j]
  BY DEF BestUpstreams, SetToSeqs
<1> HIDE DEF S, n
<1>4. order \in Injection(1..n, S)
  BY <1>3 DEF Injection, IsInjective
<1>5. Cardinality(1..n) = n
  BY <1>2, FS_Interval
<1>6. order \in Surjection(1..n, S)
  BY <1>2, <1>4, <1>5, FS_Injection DEF n
<1>7. \A x \in S : \E i \in 1..n : order[i] = x
  BY <1>6 DEF Surjection
<1>8. ToSet(order) = S
  BY <1>3, <1>7 DEF ToSet
<1>9. order \in Seq(Names)
  <2>1. \A i \in 1..n : order[i] \in Names
    BY <1>1, <1>3
  <2>2. order = [i \in 1..n |-> order[i]]
    BY <1>3
  <2> QED BY <1>2, <2>1, <2>2, IsASeq
<1> QED BY <1>8, <1>9 DEF S

\* The clock and the counters.
ClockTyped == now \in Times /\ activity \in [Counted -> Nat]

\* Of two counted upstreams, one idle for longer has the higher score, if the other
\* has not reached the largest one.
LEMMA IdleLongerScoresHigher ==
    ASSUME ClockTyped, NEW v, NEW u, <<v, u>> \in IdleLonger
    PROVE  Score(u) \in Int /\ Score(v) \in Int /\ Score(u) < Score(v)
<1>1. /\ v \in Counted /\ u \in Counted /\ activity[v] < activity[u]
      /\ activity[v] < now /\ now - activity[u] < ScoreMax
  BY DEF IdleLonger
<1>2. /\ now \in Nat /\ activity[u] \in Nat /\ activity[v] \in Nat
      /\ ScoreMax \in Nat \ {0}
  BY <1>1, ClientAssumption DEF ClockTyped
<1>3. \A n \in Counted : activity[n] \in Nat =>
        Score(n) = Min({ScoreMax, Max({0, now - activity[n]})})
  BY DEF Score
<1>4. ASSUME NEW a \in Nat
      PROVE  Min({ScoreMax, Max({0, now - a})})
               = IF now - a >= ScoreMax THEN ScoreMax
                 ELSE IF now >= a THEN now - a ELSE 0
  <2>0. PICK d \in Int : d = now - a
    BY <1>2
  <2>1. Max({0, d}) = IF 0 >= d THEN 0 ELSE d
    <3>1. 0 \in Int
      OBVIOUS
    <3> QED BY <3>1, MinMaxOfTwo, Zenon
  <2>2. PICK m \in Int : m = Max({0, d})
    BY <1>2, <2>1
  <2>3. Min({ScoreMax, m}) = IF ScoreMax <= m THEN ScoreMax ELSE m
    BY <1>2, MinMaxOfTwo
  <2>4. Min({ScoreMax, Max({0, d})})
          = IF d >= ScoreMax THEN ScoreMax ELSE IF d >= 0 THEN d ELSE 0
    BY <1>2, <2>1, <2>2, <2>3
  <2>5. d >= 0 <=> now >= a
    BY <1>2, <2>0
  <2> QED BY <2>0, <2>4, <2>5, Zenon
<1>5. \A n \in {u, v} : Score(n)
          = IF now - activity[n] >= ScoreMax THEN ScoreMax
            ELSE IF now >= activity[n] THEN now - activity[n] ELSE 0
  BY <1>1, <1>2, <1>3, <1>4, Zenon
<1>6. Score(u) = IF now >= activity[u] THEN now - activity[u] ELSE 0
  BY <1>1, <1>2, <1>5
<1>7. Score(v) = IF now - activity[v] >= ScoreMax THEN ScoreMax ELSE now - activity[v]
  BY <1>1, <1>2, <1>5
<1> QED BY <1>1, <1>2, <1>6, <1>7

\* So the list, popped from its end, starts with the upstream idle for longest.
LEMMA ListIsOrdered ==
    ASSUME ClockTyped, NEW result, NEW order \in BestUpstreams(result)
    PROVE  InOrder(<<>> \o Reverse(order), IdleLonger)
<1>1. order \in Seq(Names) /\ Len(order) \in Nat /\ DOMAIN order = 1..Len(order)
  BY ListIsComplete
<1>2. \A i, j \in DOMAIN order : i < j => Score(order[i]) <= Score(order[j])
  BY DEF BestUpstreams
<1>3. /\ Reverse(order) \in Seq(Names) /\ DOMAIN Reverse(order) = 1..Len(order)
      /\ \A i \in 1..Len(order) : Reverse(order)[i] = order[(Len(order) - i) + 1]
  BY <1>1, ReverseIs
<1>4. <<>> \o Reverse(order) = Reverse(order)
  BY <1>3, ConcatEmptySeq
<1> DEFINE r == Reverse(order)
           n == Len(order)
<1> HIDE DEF r, n
<1>5. ASSUME NEW i \in 1..n, NEW j \in 1..n, i < j, <<r[j], r[i]>> \in IdleLonger
      PROVE  FALSE
  <2>0. n \in Nat
    BY <1>1 DEF n
  <2>1. PICK x \in 1..n : x = (n - i) + 1
    BY <2>0
  <2>2. PICK y \in 1..n : y = (n - j) + 1
    BY <2>0
  <2>3. y < x
    BY <1>5, <2>0, <2>1, <2>2
  <2>4. r[i] = order[x] /\ r[j] = order[y]
    BY <1>3, <2>1, <2>2 DEF r, n
  <2>5. Score(order[y]) <= Score(order[x])
    BY <1>1, <1>2, <2>3, Zenon DEF n
  <2>6. /\ Score(order[x]) \in Int /\ Score(order[y]) \in Int
        /\ Score(order[x]) < Score(order[y])
    BY <1>5, <2>4, IdleLongerScoresHigher
  <2> QED BY <2>5, <2>6
<1> QED BY <1>3, <1>4, <1>5 DEF InOrder, r, n

-----------------------------------------------------------------------------
(* The steps of one connection, from the record s to the record t.         *)

Answers(s, t) ==
    /\ s.told # "nothing" => t.told = s.told
    /\ s.kind # "transparent" /\ s.phase \in {"trying", "tls"}
         /\ t.phase \in {"relay", "closed"}
       => t.told # "nothing"

StepOK(s, t, rs) ==
    s.phase # "idle" /\ t.phase # "idle" /\ ConnOK(t, rs) /\ Answers(s, t)

FirstStepOK(s, t, rs) == t.phase # "idle" /\ ConnOK(t, rs) /\ Answers(s, t)

\* The end of a task that has not answered with an error.
LEMMA EndedOK ==
    ASSUME NEW rs, NEW s, ConnOK(s, rs), s.phase \in {"handshake", "preread", "answer", "relay"}
    PROVE  StepOK(s, Ended(s), rs)
<1>1. PICK t : t = Ended(s)
  OBVIOUS
<1>2. /\ IsConn(t) /\ t.phase = "closed" /\ t.kind = s.kind /\ t.told = s.told
      /\ t.sent = 0 /\ t.taken = 0 /\ t.lost = 0 /\ t.bytes = <<>> /\ t.got = <<>>
      /\ t.cands = <<>> /\ t.attempts = <<>> /\ t.via = NoUpstream
  BY <1>1 DEF Ended, Idle, IsConn
<1>3. s.told # "error"
  BY DEF ConnOK, Answered
<1>4. Typed(t)
  BY <1>2 DEF Typed
<1>5. Answered(t) /\ Uploading(t) /\ Trying(t, rs)
  BY <1>2, <1>3 DEF Answered, Uploading, Trying
<1>6. Ordered(t)
  BY <1>2 DEF Ordered, InOrder, Reverse
<1>7. Answers(s, t)
  BY <1>2 DEF Answers
<1> QED BY <1>1, <1>2, <1>4, <1>5, <1>6, <1>7 DEF StepOK, ConnOK

\* The parts that a step leaves alone.
SameOrder(s, t) == t.attempts = s.attempts /\ t.cands = s.cands /\ t.longer = s.longer

SameBytes(s, t) ==
    /\ t.kind = s.kind /\ t.taken = s.taken /\ t.lost = s.lost /\ t.bytes = s.bytes
    /\ t.via = s.via /\ t.got = s.got

SameRequest(s, t) == t.kind = s.kind /\ t.request = s.request /\ t.data = s.data

\* Handshake: what came with the request is lost.
LEMMA HandshakeOK ==
    ASSUME NEW rs, NEW s, ConnOK(s, rs), s.phase = "handshake",
           NEW extra \in 0..s.sent, NEW data,
           NEW t, t = [s EXCEPT !.phase = "select", !.taken = extra, !.lost = extra,
                                !.data = data]
    PROVE  StepOK(s, t, rs)
<1>1. /\ IsConn(t) /\ t.phase = "select" /\ t.taken = extra /\ t.lost = extra
      /\ t.kind = s.kind /\ t.bytes = s.bytes /\ t.via = s.via /\ t.told = s.told
      /\ t.sent = s.sent /\ SameOrder(s, t)
  BY DEF ConnOK, Typed, IsConn, SameOrder
<1>2. extra \in Nat /\ s.bytes = Numbers(extra + 1, extra)
  BY NumbersEmpty DEF ConnOK, Typed, Uploading
<1>3. Typed(t)
  BY <1>1, <1>2 DEF ConnOK, Typed, SameOrder
<1>4. Answered(t) /\ Answers(s, t)
  BY <1>1 DEF ConnOK, Answered, Answers
<1>5. Uploading(t)
  BY <1>1, <1>2 DEF ConnOK, Uploading
<1>6. Trying(t, rs) /\ Ordered(t)
  BY <1>1, <1>4 DEF ConnOK, Answered, Trying, Ordered, SameOrder
<1> QED BY <1>1, <1>3, <1>4, <1>5, <1>6 DEF StepOK, ConnOK

\* Accept: nothing is taken yet.
LEMMA AcceptOK ==
    ASSUME NEW rs, NEW s, ConnOK(s, rs), s.phase = "idle", NEW kind, NEW request,
           NEW phase \in {"handshake", "preread", "select"},
           phase = "handshake" => kind # "transparent",
           NEW t, t = [s EXCEPT !.kind = kind, !.request = request, !.phase = phase]
    PROVE  FirstStepOK(s, t, rs)
<1>1. /\ IsConn(t) /\ t.phase = phase /\ t.kind = kind /\ t.taken = s.taken
      /\ t.lost = s.lost /\ t.bytes = s.bytes /\ t.via = s.via /\ t.told = s.told
      /\ t.sent = s.sent /\ SameOrder(s, t)
  BY DEF ConnOK, Typed, IsConn, SameOrder
<1>2. s.bytes = Numbers(s.lost + 1, s.taken) /\ s.lost = 0
  BY NumbersEmpty DEF ConnOK, Typed, Uploading
<1>3. Typed(t)
  BY <1>1 DEF ConnOK, Typed, SameOrder
<1>4. Answered(t) /\ Answers(s, t)
  BY <1>1 DEF ConnOK, Answered, Answers
<1>5. Uploading(t)
  BY <1>1, <1>2 DEF ConnOK, Uploading
<1>6. Trying(t, rs) /\ Ordered(t)
  BY <1>1, <1>4 DEF ConnOK, Answered, Trying, Ordered, SameOrder
<1> QED BY <1>1, <1>3, <1>4, <1>5, <1>6 DEF FirstStepOK, ConnOK

\* PreRead: what was read is the initial data.
LEMMA PreReadOK ==
    ASSUME NEW rs, NEW s, ConnOK(s, rs), s.phase = "preread", NEW n \in Nat, NEW data,
           NEW t, t = [s EXCEPT !.phase = "select", !.data = data,
                                !.taken = n, !.bytes = Numbers(1, n)]
    PROVE  StepOK(s, t, rs)
<1>1. /\ IsConn(t) /\ t.phase = "select" /\ t.taken = n /\ t.lost = s.lost
      /\ t.kind = s.kind /\ t.bytes = Numbers(1, n) /\ t.via = s.via /\ t.told = s.told
      /\ t.sent = s.sent /\ SameOrder(s, t)
  BY DEF ConnOK, Typed, IsConn, SameOrder
<1>2. s.lost = 0 /\ s.lost + 1 = 1
  BY DEF ConnOK, Uploading
<1>3. Typed(t)
  BY <1>1 DEF ConnOK, Typed, SameOrder
<1>4. Answered(t) /\ Answers(s, t)
  BY <1>1 DEF ConnOK, Answered, Answers
<1>5. Uploading(t)
  BY <1>1, <1>2 DEF ConnOK, Uploading
<1>6. Trying(t, rs) /\ Ordered(t)
  BY <1>1, <1>4 DEF ConnOK, Answered, Trying, Ordered, SameOrder
<1> QED BY <1>1, <1>3, <1>4, <1>5, <1>6 DEF StepOK, ConnOK

\* PreReadTimeout, TlsOk and RespondOk: the phase moves on.
LEMMA MovedOnOK ==
    ASSUME NEW rs, NEW s, ConnOK(s, rs), NEW phase, NEW told,
           \/ s.phase = "preread" /\ phase = "select" /\ told = s.told
           \/ s.phase = "tls" /\ phase = "answer" /\ told = s.told
           \/ s.phase = "answer" /\ phase = "relay" /\ told \in {s.told, "ok"},
           NEW t, t = [s EXCEPT !.phase = phase, !.told = told]
    PROVE  StepOK(s, t, rs)
<1>1. /\ IsConn(t) /\ t.phase = phase /\ t.told = told /\ t.sent = s.sent
      /\ SameBytes(s, t) /\ SameRequest(s, t) /\ SameOrder(s, t)
  BY DEF ConnOK, Typed, IsConn, SameBytes, SameRequest, SameOrder
<1>2. s.phase = "preread" => s.bytes = Numbers(s.lost + 1, s.taken)
  BY NumbersEmpty DEF ConnOK, Typed, Uploading
<1>3. Typed(t)
  BY <1>1 DEF ConnOK, Typed, SameOrder, SameBytes
<1>4. Answered(t) /\ Answers(s, t)
  BY <1>1 DEF ConnOK, Answered, Answers
<1>5. Uploading(t)
  BY <1>1, <1>2 DEF ConnOK, Uploading, SameBytes
<1>6. Trying(t, rs)
  BY <1>1 DEF ConnOK, Answered, Trying, SameOrder, SameBytes
<1>7. Ordered(t)
  BY <1>1 DEF ConnOK, Ordered, SameOrder
<1> QED BY <1>1, <1>3, <1>4, <1>5, <1>6, <1>7 DEF StepOK, ConnOK

\* ClientSends and ClientCloses.
LEMMA ClientActsOK ==
    ASSUME NEW rs, NEW s, ConnOK(s, rs), s.phase \in {"preread", "handshake", "relay"},
           NEW sent \in Nat, NEW eof,
           NEW t, t = [s EXCEPT !.sent = sent, !.eof = eof]
    PROVE  StepOK(s, t, rs)
<1>1. /\ IsConn(t) /\ t.phase = s.phase /\ t.told = s.told /\ t.sent = sent
      /\ SameBytes(s, t) /\ SameRequest(s, t) /\ SameOrder(s, t)
  BY DEF ConnOK, Typed, IsConn, SameBytes, SameRequest, SameOrder
<1>3. Typed(t)
  BY <1>1 DEF ConnOK, Typed, SameOrder, SameBytes
<1>4. Answered(t) /\ Answers(s, t)
  BY <1>1 DEF ConnOK, Answered, Answers
<1>5. Uploading(t)
  BY <1>1 DEF ConnOK, Uploading, SameBytes
<1>6. Trying(t, rs)
  BY <1>1 DEF ConnOK, Answered, Trying, SameOrder, SameBytes
<1>7. Ordered(t)
  BY <1>1 DEF ConnOK, Ordered, SameOrder
<1> QED BY <1>1, <1>3, <1>4, <1>5, <1>6, <1>7 DEF StepOK, ConnOK

\* Select: every upstream the rules leave, in order.
LEMMA SelectOK ==
    ASSUME ClockTyped, NEW s, ConnOK(s, rules), s.phase = "select",
           NEW order \in BestUpstreams(ResultFor(s)),
           NEW t, t = [s EXCEPT !.phase = "trying", !.cands = order, !.longer = IdleLonger]
    PROVE  StepOK(s, t, rules)
<1>1. /\ IsConn(t) /\ t.phase = "trying" /\ t.told = s.told /\ t.sent = s.sent
      /\ SameBytes(s, t) /\ SameRequest(s, t) /\ t.attempts = s.attempts
      /\ t.cands = order /\ t.longer = IdleLonger
  BY DEF ConnOK, Typed, IsConn, SameBytes, SameRequest
<1>2. order \in Seq(Names) /\ ToSet(order) = Eligible(ResultFor(s))
  BY ListIsComplete
<1>3. s.attempts = <<>> /\ s.told = "nothing"
  BY DEF ConnOK, Trying, Answered
<1>4. Typed(t)
  BY <1>1, <1>2 DEF ConnOK, Typed, SameBytes
<1>5. Answered(t) /\ Answers(s, t)
  BY <1>1, <1>3 DEF Answered, Answers
<1>6. Uploading(t)
  BY <1>1 DEF ConnOK, Uploading, SameBytes
<1>7. Trying(t, rules)
  <2>1. LeftBy(rules, t) = Eligible(ResultFor(s))
    BY <1>1 DEF LeftBy, ResultFor, SameRequest
  <2>2. ToSet(t.attempts) = {}
    BY <1>1, <1>3 DEF ToSet
  <2>3. ToSet(t.attempts) \cup ToSet(t.cands) = LeftBy(rules, t)
    BY <1>1, <1>2, <2>1, <2>2
  <2> QED BY <1>1, <1>3, <2>3 DEF Trying
<1>8. Ordered(t)
  BY <1>1, <1>3, ListIsOrdered DEF Ordered
<1> QED BY <1>1, <1>4, <1>5, <1>6, <1>7, <1>8 DEF StepOK, ConnOK

\* TryFails: what was popped has been tried.
LEMMA TryFailsOK ==
    ASSUME NEW rs, NEW s, ConnOK(s, rs), s.phase = "trying", s.cands # <<>>,
           NEW t, t = [s EXCEPT !.cands = LeftAfterFailure(@),
                                !.attempts = Append(@, Chosen(s.cands))]
    PROVE  StepOK(s, t, rs)
<1>1. s.cands \in Seq(Names) /\ s.attempts \in Seq(Names) /\ s.told = "nothing"
  BY DEF ConnOK, Typed, Answered
<1>2. /\ IsConn(t) /\ t.phase = s.phase /\ t.told = s.told /\ t.sent = s.sent
      /\ SameBytes(s, t) /\ SameRequest(s, t) /\ t.longer = s.longer
      /\ t.cands = Front(s.cands) /\ t.attempts = Append(s.attempts, Last(s.cands))
  BY DEF ConnOK, Typed, IsConn, SameBytes, SameRequest, LeftAfterFailure, Others, Chosen
<1>3. Last(s.cands) \in Names /\ Front(s.cands) \in Seq(Names)
  BY <1>1, FrontAndLast
<1>4. Typed(t)
  BY <1>1, <1>2, <1>3 DEF ConnOK, Typed, SameBytes
<1>5. Answered(t) /\ Answers(s, t)
  BY <1>1, <1>2 DEF Answered, Answers
<1>6. Uploading(t)
  BY <1>2 DEF ConnOK, Uploading, SameBytes
<1>7. Trying(t, rs)
  <2>1. ToSet(t.attempts) \cup ToSet(t.cands) = ToSet(s.attempts) \cup ToSet(s.cands)
    BY <1>1, <1>2, PoppedKeepsAll
  <2>2. LeftBy(rs, t) = LeftBy(rs, s)
    BY <1>2 DEF LeftBy, SameRequest
  <2>3. ToSet(s.attempts) \cup ToSet(s.cands) = LeftBy(rs, s)
    BY DEF ConnOK, Trying
  <2> QED BY <1>1, <1>2, <2>1, <2>2, <2>3 DEF Trying
<1>8. Ordered(t)
  BY <1>1, <1>2, PoppedKeepsOrder DEF ConnOK, Ordered
<1> QED BY <1>2, <1>4, <1>5, <1>6, <1>7, <1>8 DEF StepOK, ConnOK

\* TryOk: the upstream has the initial data.
LEMMA TryOkOK ==
    ASSUME NEW rs, NEW s, ConnOK(s, rs), s.phase = "trying", s.cands # <<>>,
           NEW phase \in {"tls", "relay", "answer"},
           phase = "tls" => s.kind = "https", phase = "relay" => s.kind = "transparent",
           NEW t, t = [s EXCEPT !.phase = phase, !.cands = Others(@),
                                !.attempts = Append(@, Chosen(s.cands)),
                                !.via = Chosen(s.cands), !.got = InitialData(s)]
    PROVE  StepOK(s, t, rs)
<1>1. s.cands \in Seq(Names) /\ s.attempts \in Seq(Names) /\ s.told = "nothing"
  BY DEF ConnOK, Typed, Answered
<1>2. /\ IsConn(t) /\ t.phase = phase /\ t.told = s.told /\ t.sent = s.sent
      /\ SameRequest(s, t) /\ t.longer = s.longer /\ t.taken = s.taken
      /\ t.lost = s.lost /\ t.bytes = s.bytes /\ t.got = s.bytes
      /\ t.via = Last(s.cands)
      /\ t.cands = Front(s.cands) /\ t.attempts = Append(s.attempts, Last(s.cands))
  BY DEF ConnOK, Typed, IsConn, SameRequest, Others, Chosen, InitialData
<1>3. Last(s.cands) \in Names /\ Front(s.cands) \in Seq(Names)
  BY <1>1, FrontAndLast
<1>4. Typed(t)
  BY <1>1, <1>2, <1>3 DEF ConnOK, Typed
<1>5. Answered(t) /\ Answers(s, t)
  BY <1>1, <1>2 DEF Answered, Answers
<1>6. t.via # NoUpstream
  BY <1>2, <1>3, ClientAssumption
<1>7. Uploading(t)
  BY <1>2, <1>6 DEF ConnOK, Uploading, SameRequest
<1>8. Trying(t, rs)
  BY <1>1, <1>2 DEF Trying, SameRequest
<1>9. Ordered(t)
  BY <1>1, <1>2, PoppedKeepsOrder DEF ConnOK, Ordered
<1> QED BY <1>2, <1>4, <1>5, <1>7, <1>8, <1>9 DEF StepOK, ConnOK

\* Exhausted and TlsFails: the connection is closed, with an error if it had a
\* handshake.
LEMMA ClosedOK ==
    ASSUME NEW rs, NEW s, ConnOK(s, rs), NEW told,
           \/ /\ s.phase = "trying" /\ s.cands = <<>>
              /\ told = IF s.kind = "transparent" THEN s.told ELSE "error"
           \/ s.phase = "tls" /\ told = "error",
           NEW t, t = [s EXCEPT !.phase = "closed", !.told = told]
    PROVE  StepOK(s, t, rs)
<1>1. /\ IsConn(t) /\ t.phase = "closed" /\ t.told = told /\ t.sent = s.sent
      /\ SameBytes(s, t) /\ SameRequest(s, t) /\ SameOrder(s, t)
  BY DEF ConnOK, Typed, IsConn, SameBytes, SameRequest, SameOrder
<1>2. s.told = "nothing"
  BY DEF ConnOK, Answered
<1>3. Typed(t)
  BY <1>1 DEF ConnOK, Typed, SameOrder, SameBytes
<1>4. Answered(t) /\ Answers(s, t)
  BY <1>1, <1>2 DEF Answered, Answers
<1>5. Uploading(t)
  BY <1>1 DEF ConnOK, Uploading, SameBytes
<1>6. Trying(t, rs)
  <2>1. CASE s.phase = "trying" /\ s.cands = <<>>
    <3>1. ToSet(s.cands) = {}
      BY <2>1 DEF ToSet
    <3>2. ToSet(s.attempts) = LeftBy(rs, s)
      BY <2>1, <3>1 DEF ConnOK, Trying
    <3>3. LeftBy(rs, t) = LeftBy(rs, s)
      BY <1>1 DEF LeftBy, SameRequest
    <3>4. ToSet(t.attempts) = LeftBy(rs, t)
      BY <1>1, <3>2, <3>3 DEF SameOrder
    <3> QED BY <1>1, <3>4 DEF Trying
  <2>2. CASE s.phase = "tls"
    <3>1. t.kind = "https" /\ t.via # NoUpstream
      BY <1>1, <2>2 DEF ConnOK, Trying, Uploading, SameBytes
    <3> QED BY <1>1, <3>1 DEF Trying
  <2> QED BY <2>1, <2>2
<1>7. Ordered(t)
  BY <1>1 DEF ConnOK, Ordered, SameOrder
<1> QED BY <1>1, <1>3, <1>4, <1>5, <1>6, <1>7 DEF StepOK, ConnOK

\* Relay: the bytes that follow.
LEMMA RelayOK ==
    ASSUME NEW rs, NEW s, ConnOK(s, rs), s.phase = "relay", NEW to \in (s.taken + 1)..s.sent,
           NEW t, t = [s EXCEPT !.taken = to, !.got = @ \o Numbers(s.taken + 1, to)]
    PROVE  StepOK(s, t, rs)
<1>1. /\ IsConn(t) /\ t.phase = "relay" /\ t.told = s.told /\ t.sent = s.sent
      /\ t.kind = s.kind /\ t.lost = s.lost /\ t.via = s.via /\ t.taken = to
      /\ t.got = s.got \o Numbers(s.taken + 1, to)
      /\ SameRequest(s, t) /\ SameOrder(s, t)
  BY DEF ConnOK, Typed, IsConn, SameRequest, SameOrder
<1>2. /\ s.lost \in Nat /\ s.taken \in Nat /\ s.sent \in Nat
      /\ s.lost <= s.taken /\ s.via # NoUpstream
      /\ s.got = Numbers(s.lost + 1, s.taken)
  BY DEF ConnOK, Typed, Uploading
<1>3. to \in Nat /\ s.taken <= to /\ s.lost <= to
  BY <1>2
<1>4. t.got = Numbers(s.lost + 1, to)
  <2>1. Numbers(s.lost + 1, s.taken) \o Numbers(s.taken + 1, to) = Numbers(s.lost + 1, to)
    BY <1>2, <1>3, NumbersConcat, Zenon
  <2> QED BY <1>1, <1>2, <2>1, Zenon
<1>5. Typed(t)
  BY <1>1, <1>3 DEF ConnOK, Typed, SameOrder
<1>6. Answered(t) /\ Answers(s, t)
  BY <1>1 DEF ConnOK, Answered, Answers
<1>7. Uploading(t)
  BY <1>1, <1>2, <1>3, <1>4 DEF ConnOK, Uploading
<1>8. Trying(t, rs)
  BY <1>1 DEF ConnOK, Answered, Trying, SameOrder
<1>9. Ordered(t)
  BY <1>1 DEF ConnOK, Ordered, SameOrder
<1> QED BY <1>1, <1>5, <1>6, <1>7, <1>8, <1>9 DEF StepOK, ConnOK

-----------------------------------------------------------------------------
(* The steps of the client.                                                *)

CInv ==
    /\ RulesInv
    /\ ClockTyped
    /\ conn = [c \in Conns |-> conn[c]]
    /\ \A c \in Conns : ConnOK(conn[c], rules)
    /\ \A c \in Conns : conn[c].phase # "idle" => serving

\* Every step of a connection is one of those above.
LEMMA ConnStepOK ==
    ASSUME CInv, NEW c \in Conns, ConnNext(c)
    PROVE  \E t : Become(c, t) /\ StepOK(conn[c], t, rules)
<1> DEFINE s == conn[c]
<1>1. ConnOK(s, rules) /\ ClockTyped
  BY DEF CInv
<1>2. s.sent \in Nat /\ s.taken \in Nat
  BY <1>1 DEF ConnOK, Typed
<1>3. IsConn(s)
  BY <1>1 DEF ConnOK, Typed
<1>4. CASE Handshake(c)
  <2>1. PICK extra \in 0..s.sent :
          Become(c, [s EXCEPT
            !.phase = "select", !.taken = extra, !.lost = extra,
            !.data = IF s.kind = "http" THEN s.request.data ELSE NoData])
    BY <1>4 DEF Handshake
  <2>2. PICK t : t = [s EXCEPT !.phase = "select", !.taken = extra, !.lost = extra,
                               !.data = IF s.kind = "http" THEN s.request.data ELSE NoData]
    OBVIOUS
  <2>3. StepOK(s, t, rules)
    BY <1>1, <1>4, <2>2, HandshakeOK DEF Handshake
  <2> QED BY <2>1, <2>2, <2>3
<1>5. CASE PreRead(c)
  <2>5. PICK n \in 0..Min({s.sent, PreReadCap}) :
          \E data : Become(c, [s EXCEPT !.phase = "select", !.data = data,
                                        !.taken = n, !.bytes = Numbers(1, n)])
    BY <1>5 DEF PreRead
  <2>1. PICK data : Become(c, [s EXCEPT !.phase = "select", !.data = data,
                                        !.taken = n, !.bytes = Numbers(1, n)])
    BY <2>5
  <2>2. n \in Nat
    <3>1. PreReadCap \in Int /\ s.sent \in Int
      BY <1>2, ClientAssumption
    <3>2. Min({s.sent, PreReadCap}) \in {s.sent, PreReadCap}
      BY <3>1, MinMaxOfTwo
    <3> HIDE DEF s
    <3> QED BY <3>1, <3>2
  <2>3. PICK t : t = [s EXCEPT !.phase = "select", !.data = data,
                               !.taken = n, !.bytes = Numbers(1, n)]
    OBVIOUS
  <2>4. StepOK(s, t, rules)
    BY <1>1, <1>5, <2>2, <2>3, PreReadOK DEF PreRead
  <2> QED BY <2>1, <2>3, <2>4
<1>6. CASE Select(c)
  <2>1. PICK order \in BestUpstreams(ResultFor(s)) :
          Become(c, [s EXCEPT !.phase = "trying", !.cands = order, !.longer = IdleLonger])
    BY <1>6 DEF Select
  <2>2. PICK t : t = [s EXCEPT !.phase = "trying", !.cands = order, !.longer = IdleLonger]
    OBVIOUS
  <2>3. StepOK(s, t, rules)
    BY <1>1, <1>6, <2>2, SelectOK DEF Select
  <2> QED BY <2>1, <2>2, <2>3
<1>7. CASE TryOk(c)
  <2>1. PICK phase : phase = CASE s.kind = "https"       -> "tls"
                               [] s.kind = "transparent" -> "relay"
                               [] OTHER                  -> "answer"
    OBVIOUS
  <2>2. /\ phase \in {"tls", "relay", "answer"}
        /\ phase = "tls" => s.kind = "https"
        /\ phase = "relay" => s.kind = "transparent"
    BY <2>1
  <2>3. PICK t : t = [s EXCEPT !.phase = phase, !.cands = Others(@),
                               !.attempts = Append(@, Chosen(s.cands)),
                               !.via = Chosen(s.cands), !.got = InitialData(s)]
    OBVIOUS
  <2>4. Become(c, t)
    BY <1>7, <2>1, <2>3 DEF TryOk
  <2>5. StepOK(s, t, rules)
    BY <1>1, <1>7, <2>2, <2>3, TryOkOK DEF TryOk
  <2> QED BY <2>4, <2>5
<1>8. CASE TryFails(c)
  <2>1. PICK t : t = [s EXCEPT !.cands = LeftAfterFailure(@),
                               !.attempts = Append(@, Chosen(s.cands))]
    OBVIOUS
  <2>2. StepOK(s, t, rules)
    BY <1>1, <1>8, <2>1, TryFailsOK DEF TryFails
  <2> QED BY <1>8, <2>1, <2>2 DEF TryFails
<1>9. CASE Exhausted(c)
  <2>1. PICK told : told = IF s.kind = "transparent" THEN s.told ELSE "error"
    OBVIOUS
  <2>2. PICK t : t = [s EXCEPT !.phase = "closed", !.told = told]
    OBVIOUS
  <2>3. StepOK(s, t, rules)
    BY <1>1, <1>9, <2>1, <2>2, ClosedOK DEF Exhausted
  <2>4. Become(c, t)
    BY <1>9, <2>1, <2>2 DEF Exhausted
  <2> QED BY <2>3, <2>4
<1>10. CASE TlsFails(c)
  <2>1. PICK t : t = [s EXCEPT !.phase = "closed", !.told = "error"]
    OBVIOUS
  <2>2. StepOK(s, t, rules)
    BY <1>1, <1>10, <2>1, ClosedOK DEF TlsFails
  <2> QED BY <1>10, <2>1, <2>2 DEF TlsFails, AfterTlsFailure
<1>11. CASE PreReadTimeout(c)
  <2>1. PICK t : t = [s EXCEPT !.phase = "select", !.told = s.told]
    OBVIOUS
  <2>2. StepOK(s, t, rules)
    BY <1>1, <1>11, <2>1, MovedOnOK DEF PreReadTimeout
  <2>3. t = [s EXCEPT !.phase = "select"]
    BY <1>3, <2>1 DEF IsConn
  <2> QED BY <1>11, <2>2, <2>3 DEF PreReadTimeout
<1>12. CASE TlsOk(c)
  <2>1. PICK t : t = [s EXCEPT !.phase = "answer", !.told = s.told]
    OBVIOUS
  <2>2. StepOK(s, t, rules)
    BY <1>1, <1>12, <2>1, MovedOnOK DEF TlsOk
  <2>3. t = [s EXCEPT !.phase = "answer"]
    BY <1>3, <2>1 DEF IsConn
  <2> QED BY <1>12, <2>2, <2>3 DEF TlsOk
<1>13. CASE RespondOk(c)
  <2>1. PICK told : told = IF s.kind \in {"http", "https"} THEN s.told ELSE "ok"
    OBVIOUS
  <2>2. PICK t : t = [s EXCEPT !.phase = "relay", !.told = told]
    OBVIOUS
  <2>3. StepOK(s, t, rules)
    BY <1>1, <1>13, <2>1, <2>2, MovedOnOK DEF RespondOk
  <2> QED BY <1>13, <2>1, <2>2, <2>3 DEF RespondOk
<1>14. CASE Relay(c)
  <2>1. PICK to \in (s.taken + 1)..s.sent :
          Become(c, [s EXCEPT !.taken = to, !.got = @ \o Numbers(s.taken + 1, to)])
    BY <1>14 DEF Relay
  <2>2. PICK t : t = [s EXCEPT !.taken = to, !.got = @ \o Numbers(s.taken + 1, to)]
    OBVIOUS
  <2>3. StepOK(s, t, rules)
    BY <1>1, <1>14, <2>2, RelayOK DEF Relay
  <2> QED BY <2>1, <2>2, <2>3
<1>15. CASE ClientSends(c)
  <2>0. PICK sent \in Nat : sent = s.sent + 1
    BY <1>2
  <2>1. PICK t : t = [s EXCEPT !.sent = sent, !.eof = s.eof]
    OBVIOUS
  <2>2. StepOK(s, t, rules)
    BY <1>1, <1>15, <2>1, ClientActsOK DEF ClientSends
  <2>3. t = [s EXCEPT !.sent = @ + 1]
    BY <1>3, <2>0, <2>1 DEF IsConn
  <2> QED BY <1>15, <2>2, <2>3 DEF ClientSends
<1>16. CASE ClientCloses(c)
  <2>1. PICK t : t = [s EXCEPT !.sent = s.sent, !.eof = TRUE]
    OBVIOUS
  <2>2. StepOK(s, t, rules)
    BY <1>1, <1>2, <1>16, <2>1, ClientActsOK DEF ClientCloses
  <2>3. t = [s EXCEPT !.eof = TRUE]
    BY <1>3, <2>1 DEF IsConn
  <2> QED BY <1>16, <2>2, <2>3 DEF ClientCloses
<1>17. CASE HandshakeFails(c) \/ PreReadFails(c) \/ RespondFails(c) \/ RelayEnds(c)
  <2>1. Become(c, Ended(s)) /\ s.phase \in {"handshake", "preread", "answer", "relay"}
    BY <1>17 DEF HandshakeFails, PreReadFails, RespondFails, RelayEnds
  <2> QED BY <1>1, <2>1, EndedOK
<1> QED BY <1>4, <1>5, <1>6, <1>7, <1>8, <1>9, <1>10, <1>11, <1>12, <1>13, <1>14,
           <1>15, <1>16, <1>17 DEF ConnNext

\* What every step leaves of the shared state.
LEMMA SharedState ==
    ASSUME CInv, ClientNext
    PROVE  ClockTyped' /\ RulesInv'
<1>1. RulesInv'
  BY RulesStep DEF CInv
<1>2. /\ now \in Times /\ activity \in [Counted -> Nat] /\ Times \subseteq Nat
  BY ClientAssumption DEF CInv, ClockTyped
<1>3. CASE \E c \in Conns : TryOk(c)
  <2>1. PICK c \in Conns : TryOk(c)
    BY <1>3
  <2>2. now \in Nat /\ now' = now
    BY <1>2, <2>1 DEF TryOk
  <2>3. activity' \in [Counted -> Nat]
    BY <1>2, <2>1, <2>2 DEF TryOk
  <2> QED BY <1>1, <1>2, <2>2, <2>3 DEF ClockTyped
<1>4. CASE ClockMoves
  BY <1>1, <1>2, <1>4 DEF ClockMoves, ClockTyped
<1>5. CASE ~ClockMoves /\ ~\E c \in Conns : TryOk(c)
  <2>1. now' = now /\ activity' = activity
    BY <1>5 DEF ClientNext, StartServing, ReadLine, clientVars, ConnNext, Accept, Handshake,
       HandshakeFails, PreRead, PreReadTimeout, PreReadFails, Select, TryFails, Exhausted,
       TlsOk, TlsFails, RespondOk, RespondFails, Relay, RelayEnds, ClientSends, ClientCloses
  <2> QED BY <1>1, <1>2, <2>1 DEF ClockTyped
<1> QED BY <1>3, <1>4, <1>5

\* Connection c goes on to t, and nothing moves that it shares but the counters.
OneMoves(c, t) ==
    /\ conn' = [conn EXCEPT ![c] = t] /\ rules' = rules
    /\ serving' = serving /\ serving
    /\ t.phase # "idle" /\ ConnOK(t, rules) /\ Answers(conn[c], t)

\* A step changes one connection, and not the rules; or no connection, and the rules
\* only while every connection is idle.
LEMMA OneConnection ==
    ASSUME CInv, ClientNext
    PROVE  \/ \E c \in Conns : \E t : OneMoves(c, t)
           \/ /\ conn' = conn
              /\ \/ rules' = rules /\ (serving => serving')
                 \/ ~serving
<1>1. CASE ReadLine \/ StartServing \/ ClockMoves
  BY <1>1 DEF ReadLine, StartServing, ClockMoves, clientVars, vars
<1>2. CASE \E c \in Conns : serving /\ \E client \in Clients[c] : Accept(c, client)
  <2>1. PICK c \in Conns : serving /\ \E client \in Clients[c] : Accept(c, client)
    BY <1>2
  <2>2. PICK client \in Clients[c] : Accept(c, client)
    BY <2>1
  <2> DEFINE s == conn[c]
  <2>3. PICK phase : phase = CASE client.kind # "transparent" -> "handshake"
                               [] client.kind = "transparent"
                                    /\ client.request.target.port \in {80, 443} -> "preread"
                               [] OTHER -> "select"
    OBVIOUS
  <2>4. /\ phase \in {"handshake", "preread", "select"}
        /\ phase = "handshake" => client.kind # "transparent"
    BY <2>3
  <2>5. PICK t : t = [s EXCEPT !.kind = client.kind, !.request = client.request,
                               !.phase = phase]
    OBVIOUS
  <2>6. FirstStepOK(s, t, rules)
    <3>1. ConnOK(s, rules) /\ s.phase = "idle"
      BY <2>2 DEF Accept, CInv
    <3>2. PICK kind, request : kind = client.kind /\ request = client.request
      OBVIOUS
    <3>3. t = [s EXCEPT !.kind = kind, !.request = request, !.phase = phase]
      BY <2>5, <3>2
    <3>4. phase = "handshake" => kind # "transparent"
      BY <2>4, <3>2
    <3> HIDE DEF s
    <3> QED BY <2>4, <3>1, <3>3, <3>4, AcceptOK
  <2>7. conn' = [conn EXCEPT ![c] = t]
    BY <2>2, <2>3, <2>5 DEF Accept, Become
  <2>8. rules' = rules /\ serving' = serving
    BY <2>2 DEF Accept, vars
  <2>9. OneMoves(c, t)
    BY <2>1, <2>6, <2>7, <2>8 DEF FirstStepOK, OneMoves
  <2> QED BY <2>9
<1>3. CASE \E c \in Conns : ConnNext(c)
  <2>1. PICK c \in Conns : ConnNext(c)
    BY <1>3
  <2>2. PICK t : Become(c, t) /\ StepOK(conn[c], t, rules)
    BY <2>1, ConnStepOK
  <2>3. rules' = rules /\ serving' = serving
    BY <2>1 DEF ConnNext, Handshake, HandshakeFails, PreRead, PreReadTimeout, PreReadFails,
       Select, TryOk, TryFails, Exhausted, TlsOk, TlsFails, RespondOk, RespondFails, Relay,
       RelayEnds, ClientSends, ClientCloses, vars
  <2>4. serving
    BY <2>2 DEF StepOK, CInv
  <2>5. OneMoves(c, t)
    BY <2>2, <2>3, <2>4 DEF Become, StepOK, OneMoves
  <2> QED BY <2>5
<1> QED BY <1>1, <1>2, <1>3 DEF ClientNext

\* An idle connection is right whatever the rules.
LEMMA IdleIsOK ==
    ASSUME NEW s, NEW rs, NEW other, ConnOK(s, rs), s.phase = "idle"
    PROVE  ConnOK(s, other)
BY DEF ConnOK, Trying, Answered

\* The invariant is inductive.
LEMMA CInvStep ==
    ASSUME CInv, [ClientNext]_allVars
    PROVE  CInv'
<1>1. CASE UNCHANGED allVars
  BY <1>1 DEF allVars, vars, clientVars, CInv, RulesInv, ClockTyped, AreRules
<1>2. CASE ClientNext
  <2>1. RulesInv' /\ ClockTyped'
    BY <1>2, SharedState
  <2>2. CASE \E c \in Conns : \E t : OneMoves(c, t)
    <3>0. PICK c \in Conns : \E t : OneMoves(c, t)
      BY <2>2
    <3>1. PICK t : OneMoves(c, t)
      BY <3>0
    <3>2. conn = [d \in Conns |-> conn[d]] /\ \A d \in Conns : ConnOK(conn[d], rules)
      BY DEF CInv
    <3>3. conn' = [d \in Conns |-> IF d = c THEN t ELSE conn[d]]
      BY <3>1, <3>2 DEF OneMoves
    <3>4. \A d \in Conns : ConnOK(conn'[d], rules')
      BY <3>1, <3>2, <3>3 DEF OneMoves
    <3>5. conn' = [d \in Conns |-> conn'[d]]
      BY <3>3
    <3>6. \A d \in Conns : conn'[d].phase # "idle" => serving'
      BY <3>1 DEF OneMoves
    <3> QED BY <2>1, <3>4, <3>5, <3>6 DEF CInv
  <2>3. CASE conn' = conn /\ rules' = rules /\ (serving => serving')
    <3>1. \A d \in Conns : ConnOK(conn'[d], rules')
      BY <2>3 DEF CInv
    <3>2. conn' = [d \in Conns |-> conn'[d]]
      BY <2>3 DEF CInv
    <3>3. \A d \in Conns : conn'[d].phase # "idle" => serving'
      BY <2>3 DEF CInv
    <3> QED BY <2>1, <3>1, <3>2, <3>3 DEF CInv
  <2>4. CASE conn' = conn /\ ~serving
    <3>1. \A d \in Conns : conn[d].phase = "idle"
      BY <2>4 DEF CInv
    <3>2. \A d \in Conns : ConnOK(conn'[d], rules')
      BY <2>4, <3>1, IdleIsOK DEF CInv
    <3>3. conn' = [d \in Conns |-> conn'[d]]
      BY <2>4 DEF CInv
    <3> QED BY <2>1, <2>4, <3>1, <3>2, <3>3 DEF CInv
  <2> QED BY <1>2, <2>2, <2>3, <2>4, OneConnection
<1> QED BY <1>1, <1>2

\* It holds of a client that has not read its rules.
LEMMA CInvInit == ClientInit => CInv
<1> SUFFICES ASSUME ClientInit PROVE CInv
  OBVIOUS
<1>1. RulesInv
  BY DEF ClientInit, Init, RulesInv, AreRules
<1>2. ClockTyped
  <2>1. Times \in SUBSET Nat /\ Times # {}
    BY ClientAssumption
  <2>2. Min(Times) \in Times
    BY <2>1, MinIsLeast
  <2> QED BY <2>2 DEF ClientInit, ClockTyped
<1>3. \A rs : ConnOK(Idle, rs)
  <2> SUFFICES ASSUME NEW rs PROVE ConnOK(Idle, rs)
    OBVIOUS
  <2>1. PICK s : s = Idle
    OBVIOUS
  <2>2. /\ IsConn(s) /\ s.phase = "idle" /\ s.told = "nothing"
        /\ s.sent = 0 /\ s.taken = 0 /\ s.lost = 0 /\ s.bytes = <<>> /\ s.kind = "tunnel"
        /\ s.cands = <<>> /\ s.attempts = <<>> /\ s.via = NoUpstream
    BY <2>1 DEF Idle, IsConn
  <2>3. Typed(s) /\ Answered(s) /\ Uploading(s)
    BY <2>2 DEF Typed, Answered, Uploading
  <2>4. Trying(s, rs)
    BY <2>2 DEF Trying
  <2>5. Ordered(s)
    BY <2>2 DEF Ordered, InOrder, Reverse
  <2> QED BY <2>1, <2>3, <2>4, <2>5 DEF ConnOK
<1>4. conn = [c \in Conns |-> Idle]
  BY DEF ClientInit
<1>5. \A c \in Conns : conn[c] = Idle /\ conn[c].phase = "idle"
  BY <1>4 DEF Idle
<1> QED BY <1>1, <1>2, <1>3, <1>4, <1>5 DEF CInv

\* So it always holds.
LEMMA ClientInvariant == ClientSpec => []CInv
<1>1. CInv /\ [ClientNext]_allVars => CInv'
  BY CInvStep
<1> QED BY <1>1, CInvInit, PTL DEF ClientSpec

\* find_and_connect_stream gives every attempt the same initial data: whichever
\* upstream takes a connection, what the client has sent reaches it in order and
\* whole, but for what came in with a handshake.
THEOREM UploadIsWholeTheorem == ClientSpec => []UploadIsWhole
<1>1. CInv => UploadIsWhole
  BY DEF CInv, ConnOK, Uploading, UploadIsWhole
<1> QED BY <1>1, ClientInvariant, PTL

\* find_best_upstream sorts by calc_last_visit_score and the list is popped from its
\* end: the attempts go by how long the upstreams had been idle, for any number of
\* upstreams and whatever other connections and the clock do meanwhile.
THEOREM LongestIdleFirstTheorem == ClientSpec => []LongestIdleFirst
<1>1. CInv => LongestIdleFirst
  <2> SUFFICES ASSUME CInv, NEW c \in Conns
               PROVE  InOrder(conn[c].attempts \o Reverse(conn[c].cands), conn[c].longer)
    BY DEF LongestIdleFirst, InOrder
  <2> QED BY DEF CInv, ConnOK, Ordered
<1> QED BY <1>1, ClientInvariant, PTL

\* An error is answered only after every upstream the rules leave has failed, or TLS
\* through the one that took the connection.
THEOREM ErrorMeansAllTriedTheorem == ClientSpec => []ErrorMeansAllTried
<1>1. CInv => ErrorMeansAllTried
  <2> SUFFICES ASSUME CInv, NEW c \in Conns, conn[c].told = "error"
               PROVE  \/ ToSet(conn[c].attempts) = Eligible(ResultFor(conn[c]))
                      \/ conn[c].kind = "https" /\ conn[c].via # NoUpstream
    BY DEF ErrorMeansAllTried
  <2>1. LeftBy(rules, conn[c]) = Eligible(ResultFor(conn[c]))
    BY DEF LeftBy, ResultFor
  <2>2. Trying(conn[c], rules)
    BY DEF CInv, ConnOK
  <2> QED BY <2>1, <2>2 DEF Trying
<1> QED BY <1>1, ClientInvariant, PTL

\* serve_proxy_conn tells a client whose upstreams or whose TLS handshake failed before
\* it drops the connection, and never takes an answer back.
THEOREM AnsweredOnceTheorem == ClientSpec => AnsweredOnce
<1> DEFINE P == \A c \in Conns :
                  LET s == conn[c]
                      t == conn'[c]
                  IN  /\ s.told # "nothing" => t.told = s.told
                      /\ s.kind # "transparent" /\ s.phase \in {"trying", "tls"}
                           /\ t.phase \in {"relay", "closed"}
                         => t.told # "nothing"
<1>1. CInv /\ [ClientNext]_allVars => [P]_allVars
  <2> SUFFICES ASSUME CInv, ClientNext, NEW d \in Conns PROVE Answers(conn[d], conn'[d])
    BY DEF Answers
  <2>1. conn = [c \in Conns |-> conn[c]]
    BY DEF CInv
  <2>2. CASE conn' = conn
    <3>1. Answered(conn[d]) /\ Answers(conn[d], conn[d])
      BY DEF CInv, ConnOK, Answered, Answers
    <3> QED BY <2>2, <3>1
  <2>3. ASSUME NEW c \in Conns, NEW t, conn' = [conn EXCEPT ![c] = t], Answers(conn[c], t)
        PROVE  Answers(conn[d], conn'[d])
    <3>1. CASE d = c
      BY <2>1, <2>3, <3>1
    <3>2. CASE d # c
      <4>1. conn'[d] = conn[d]
        BY <2>1, <2>3, <3>2
      <4>2. Answers(conn[d], conn[d])
        BY DEF CInv, ConnOK, Answered, Answers
      <4> QED BY <4>1, <4>2
    <3> QED BY <3>1, <3>2
  <2> QED BY <2>2, <2>3, OneConnection DEF OneMoves
<1> HIDE DEF P
<1>2. ClientSpec => [][P]_allVars
  BY <1>1, ClientInvariant, PTL DEF ClientSpec
<1> QED BY <1>2 DEF P, AnsweredOnce

=============================================================================
