----------------------------- MODULE SdwanEvents -----------------------------
(***************************************************************************)
(* The event log of PolicyEngine (sdwan/policy_engine.py), kept beside the *)
(* loop of SdwanEngine: LINK DOWN and LINK RESTORED when a report changes  *)
(* the availability of a link, FAILOVER when a run of the policy moves a   *)
(* class.  Times and scores of the entries are left out.                   *)
(***************************************************************************)
EXTENDS SdwanEngine, Subsequence

CONSTANT MaxEvents   \* bound: entries of the log

ASSUME EventsAssumption == MaxEvents \in Nat /\ Links \cap Classes = {}

VARIABLES
    events,   \* _event_log: of which link or class, from what, to what
    first     \* history: the decisions of the first run

logVars == <<vars, events, first>>

LogInit == Init /\ events = <<>> /\ first = NoDecisions

Event(of, from, to) == [of |-> of, from |-> from, to |-> to]

\* update_metrics compares the availability reported with the one before.  That
\* metrics have gone stale meanwhile plays no part.
LogLink(l) ==
    events' = IF up'[l] = up[l] THEN events
              ELSE Append(events, Event(l, up[l], up'[l]))

\* Mutant of LogFailovers: _last_decisions is replaced before the comparison.
LogFailoversLate == UNCHANGED events

\* _detect_failovers: an entry for each class that moves, in the order of the
\* classes; the first decisions are no failover.
LogFailovers ==
    LET changed == {i \in DOMAIN ClassList : decisions'[ClassList[i]] # decisions[ClassList[i]]}
        moved   == Subsequence(ClassList, changed)
    IN  events' = IF decisions = NoDecisions THEN events
                  ELSE events \o [n \in DOMAIN moved |->
                                    Event(moved[n], decisions[moved[n]], decisions'[moved[n]])]

UpdateLogged(l) ==
    /\ UpdateMetrics(l)
    /\ LogLink(l)
    /\ UNCHANGED first

RunLogged ==
    /\ RunPolicy
    /\ LogFailovers
    /\ first' = IF decisions = NoDecisions THEN decisions' ELSE first

\* Time, the operator, the kernel and apply() log no event.
Unlogged ==
    /\ \/ Tick \/ Apply \/ CommandSucceeds \/ CommandFails
       \/ \E l \in Links : SetAdmin(l) \/ KernelDropsRoutes(l)
    /\ UNCHANGED <<events, first>>

LogNext ==
    /\ RunLogged \/ Unlogged \/ \E l \in Links : UpdateLogged(l)
    /\ Len(events') <= MaxEvents

LogSpec == LogInit /\ [][LogNext]_logVars
-----------------------------------------------------------------------------
Latest(S) == CHOOSE i \in S : \A j \in S : i >= j

\* The entries of a link or class lead from its first state to the present one:
\* each starts where the one before has ended, and the last ends there.
EntriesOf(of) == {i \in DOMAIN events : events[i].of = of}

LeadsFromTo(of, start, now) ==
    LET After(S) == IF S = {} THEN start ELSE events[Latest(S)].to
    IN  /\ \A i \in EntriesOf(of) :
              /\ events[i].from = After({j \in EntriesOf(of) : j < i})
              /\ events[i].to # events[i].from
        /\ now = After(EntriesOf(of))

\* Whoever replays the log knows the state of the engine: of each link whether it
\* was last reported available, and of each class the link decided for it, though
\* a link may go stale or be taken out without an entry, and reports arrive
\* between any two runs of the policy (policy_engine.py:320-348, 379-393).
LogReplays ==
    /\ \A l \in Links : LeadsFromTo(l, TRUE, up[l])
    /\ decisions # NoDecisions => \A c \in Classes : LeadsFromTo(c, first[c], decisions[c])
=============================================================================
