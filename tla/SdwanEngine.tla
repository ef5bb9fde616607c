----------------------------- MODULE SdwanEngine -----------------------------
(***************************************************************************)
(* PolicyEngine of sdwan/policy_engine.py in the loop its docstring shows  *)
(* (lines 295-302): take in metrics, run_policy, apply the decisions, wait. *)
(* The loop is one thread; what moves beside it is the clock, against      *)
(* which metrics go stale, and the kernel, whose commands may fail and     *)
(* which drops the routes of an interface that goes down.                  *)
(*                                                                         *)
(* The event log is left out.                                              *)
(***************************************************************************)
EXTENDS LinkScore, FiniteSets

CONSTANTS
    ClassList,    \* the engine's traffic classes, in the order of its dict
    Injectable,   \* those of them that the module's TRAFFIC_CLASSES names
    Readings,     \* the metrics a link may report
    StaleAfter    \* bound: ticks after which metrics are stale (30 s in the code)

Classes == Range(ClassList)

ASSUME ClassesAssumption ==
    /\ ClassList \in Seq(DOMAIN TrafficClasses)
    /\ \A i, j \in DOMAIN ClassList : ClassList[i] = ClassList[j] => i = j
    /\ Injectable \subseteq Classes
    /\ Readings \subseteq [latency : Nat, loss : Nat, bw : Nat]
    /\ StaleAfter \in Nat

VARIABLES
    metrics,     \* link.metrics, without availability and time
    up,          \* link.metrics.available
    adminUp,     \* link.admin_up
    age,         \* link.metrics.age_s in ticks, up to StaleAfter + 1
    decisions,   \* the selected link of each class, from the last run_policy
    fresh,       \* the loop has run the policy and not yet applied it
    turn,        \* the class of the list whose commands apply() runs; 0 if none
    step,        \* the next of these commands
    table,       \* kernel: the default route in the routing table of each class
    rule,        \* kernel: the classes whose fwmark rule exists
    clean        \* since the last apply() began no command of it has failed and
                 \* the kernel has dropped no route

vars == <<metrics, up, adminUp, age, decisions, fresh, turn, step, table, rule, clean>>

\* LinkMetrics.stale and WanLink.available, given the ages of the metrics.
Stale(l, ages)  == ages[l] > StaleAfter
Usable(l, ages) == adminUp[l] /\ up[l] /\ ~Stale(l, ages)

\* Mutant of Eligible: stale metrics do not count a link out.
EligibleThoughStale(ages) == {l \in Links : adminUp[l] /\ up[l]}

Eligible(ages) == {l \in Links : Usable(l, ages)}

NoDecisions == [c \in {} |-> NoLink]

Init ==
    /\ metrics \in [Links -> Readings]
    /\ up = [l \in Links |-> TRUE] /\ adminUp = up
    /\ age = [l \in Links |-> 0]
    /\ decisions = NoDecisions
    /\ fresh = FALSE
    /\ turn = 0 /\ step = 1
    /\ table = [c \in Classes |-> NoLink]
    /\ rule = {}
    /\ clean = TRUE

Older(ages) == [l \in Links |-> IF ages[l] > StaleAfter THEN ages[l] ELSE ages[l] + 1]

\* Time passes, between steps of the loop and during the commands it runs.
Tick ==
    /\ age' = Older(age) /\ age' # age
    /\ UNCHANGED <<metrics, up, adminUp, decisions, fresh, turn, step, table, rule, clean>>

\* update_metrics(l, ...): the timestamp is that of the call.
UpdateMetrics(l) ==
    /\ turn = 0 /\ ~fresh
    /\ \E m \in Readings : metrics' = [metrics EXCEPT ![l] = m]
    /\ \E ok \in BOOLEAN : up' = [up EXCEPT ![l] = ok]
    /\ age' = [age EXCEPT ![l] = 0]
    /\ UNCHANGED <<adminUp, decisions, fresh, turn, step, table, rule, clean>>

\* An operator sets admin_up.
SetAdmin(l) ==
    /\ turn = 0 /\ ~fresh
    /\ adminUp' = [adminUp EXCEPT ![l] = ~@]
    /\ UNCHANGED <<metrics, up, age, decisions, fresh, turn, step, table, rule, clean>>

Selected(c, eligible, late) == Decide(TrafficClasses[c], metrics, eligible, late)

\* run_policy: one make_decision per class.  Availability is looked up once to
\* list the links and again to score them; time may pass in between, and some
\* of the links listed for the k-th class be stale when they are scored.
RunPolicy ==
    /\ turn = 0 /\ ~fresh
    /\ \/ /\ decisions' = [c \in Classes |-> Selected(c, Eligible(age), {})]
          /\ UNCHANGED age
       \/ \E k \in DOMAIN ClassList :
          \E late \in SUBSET (Eligible(age) \ Eligible(Older(age))) :
             /\ decisions' = [c \in Classes |->
                   LET n == CHOOSE n \in DOMAIN ClassList : ClassList[n] = c IN
                   IF n < k THEN Selected(c, Eligible(age), {})
                   ELSE IF n = k THEN Selected(c, Eligible(age), late)
                   ELSE Selected(c, Eligible(Older(age)), {})]
             /\ age' = Older(age) /\ age' # age
    /\ fresh' = TRUE
    /\ UNCHANGED <<metrics, up, adminUp, turn, step, table, rule, clean>>

\* Mutant of Commands: the flush comes after the route.
CommandsFlushingLate == <<"add", "flush", "rule">>

\* build_route_commands, in the order they are run.
Commands == <<"flush", "add", "rule">>

\* Mutant of Routed: a class without a link is not passed over.
RoutedThoughNone(c) == c \in Injectable

\* inject_routes passes over the classes that TRAFFIC_CLASSES does not have, and
\* build_route_commands makes nothing of one without a link.
Routed(c) == c \in Injectable /\ decisions[c] # NoLink

\* The next of the classes after the k-th that has commands to run.
NextTurn(k) ==
    LET rest == {i \in DOMAIN ClassList : i > k /\ Routed(ClassList[i])} IN
    /\ turn' = IF rest = {} THEN 0 ELSE Min(rest)
    /\ step' = 1

\* apply(decisions): inject_routes goes through the decisions in order.
Apply ==
    /\ fresh
    /\ fresh' = FALSE
    /\ NextTurn(0)
    /\ clean' = TRUE
    /\ UNCHANGED <<metrics, up, adminUp, age, decisions, table, rule>>

\* The command, whether it succeeded or not, is followed by the next.
Advance ==
    IF step < Len(Commands) THEN step' = step + 1 /\ UNCHANGED turn
    ELSE NextTurn(turn)

\* What ip does.  A second default route in a table and a rule that exists are
\* refused; for the rule that changes nothing.
CommandSucceeds ==
    /\ turn # 0
    /\ Advance
    /\ LET c == ClassList[turn] IN
       \/ /\ Commands[step] = "flush"
          /\ table' = [table EXCEPT ![c] = NoLink]
          /\ UNCHANGED <<rule, clean>>
       \/ /\ Commands[step] = "add" /\ table[c] = NoLink
          /\ table' = [table EXCEPT ![c] = decisions[c]]
          /\ UNCHANGED <<rule, clean>>
       \/ /\ Commands[step] = "add" /\ table[c] # NoLink
          /\ clean' = FALSE
          /\ UNCHANGED <<table, rule>>
       \/ /\ Commands[step] = "rule"
          /\ rule' = rule \cup {c}
          /\ UNCHANGED <<table, clean>>
    /\ UNCHANGED <<metrics, up, adminUp, age, decisions, fresh>>

\* A command fails or times out: inject_routes logs it and goes on to the next.
CommandFails ==
    /\ turn # 0
    /\ Advance
    /\ clean' = FALSE
    /\ UNCHANGED <<metrics, up, adminUp, age, decisions, fresh, table, rule>>

\* The interface of a link goes down: the kernel drops the routes through it.
KernelDropsRoutes(l) ==
    /\ \E c \in Classes : table[c] = l
    /\ table' = [c \in Classes |-> IF table[c] = l THEN NoLink ELSE table[c]]
    /\ clean' = FALSE
    /\ UNCHANGED <<metrics, up, adminUp, age, decisions, fresh, turn, step, rule>>

Next ==
    \/ Tick \/ RunPolicy \/ Apply \/ CommandSucceeds \/ CommandFails
    \/ \E l \in Links : UpdateMetrics(l) \/ SetAdmin(l) \/ KernelDropsRoutes(l)

Spec == Init /\ [][Next]_vars

\* The loop keeps going round, and a command that is tried again and again does
\* not fail for ever.
FairSpec ==
    /\ Spec
    /\ WF_vars(RunPolicy) /\ WF_vars(Apply)
    /\ WF_vars(CommandSucceeds \/ CommandFails)
    /\ \A c \in Classes : SF_vars(turn # 0 /\ ClassList[turn] = c /\ Commands[step] = "flush"
                                  /\ CommandSucceeds)
-----------------------------------------------------------------------------
\* The types of the variables.
TypeOK ==
    /\ metrics \in [Links -> Readings]
    /\ up \in [Links -> BOOLEAN] /\ adminUp \in [Links -> BOOLEAN]
    /\ age \in [Links -> 0 .. StaleAfter + 1]
    /\ decisions \in [Classes -> Links \cup {NoLink}] \cup {NoDecisions}
    /\ fresh \in BOOLEAN /\ clean \in BOOLEAN
    /\ turn \in 0 .. Len(ClassList) /\ step \in DOMAIN Commands
    /\ turn # 0 => decisions[ClassList[turn]] \in Links
    /\ table \in [Classes -> Links \cup {NoLink}]
    /\ rule \subseteq Classes

Applied == ~fresh /\ turn = 0 /\ decisions # NoDecisions

\* When apply() is through, no command of it failed and the kernel has dropped
\* nothing since, every class that has a link and can be injected is routed over
\* that link, whatever its table held before.
AppliedLinksCarryTraffic ==
    (Applied /\ clean) => \A c \in Injectable :
        decisions[c] # NoLink => table[c] = decisions[c] /\ c \in rule

\* Traffic leaves a link that stays unusable, if some link stays usable.
FailoverHappens ==
    \A l \in Links : \A c \in Injectable :
        <>[](~Usable(l, age) /\ \E k \in Links : Usable(k, age)) => <>[](table[c] # l)

\* "Apply all policy routing decisions" (policy_engine.py:272): once applied without
\* a failure, a class for which no link is left is not routed any more.
DecisionsEnforced ==
    (Applied /\ clean) => \A c \in Injectable : table[c] = decisions[c]
=============================================================================
