------------------------------ MODULE Monitor ------------------------------
(***************************************************************************)
(* monitor.py in demo mode, against the telemetry API: it starts the API   *)
(* if nobody has, and then refreshes the screen again and again: it probes *)
(* the API, fetches the current metrics, posts the next scenario's profile *)
(* when the time of the present one is over, and shows the banner of the   *)
(* scenario beside the metrics.  A post may be lost, or reach the API      *)
(* after the client gave it up; others post too; the API may be stopped    *)
(* and started again.  The panels of the lab and of the analysis are in    *)
(* Diagnosis; active_profile and the curves of the history are left out.   *)
(***************************************************************************)
EXTENDS TelemetryApi

CONSTANTS
    Scenarios,      \* the profiles of DEMO_SCENARIOS in their order
    Duration        \* the refreshes a scenario lasts

ASSUME MonitorAssumption ==
    Scenarios \in Seq(DOMAIN Profile) /\ Scenarios # <<>> /\ Duration \in Nat

VARIABLES
    does,       \* what the monitor is about to do
    idx,        \* demo_scenario_idx + 1
    elapsed,    \* refreshes since demo_scenario_start, up to Duration
    apiOk,      \* api_ok
    seen,       \* the keys /metrics/current has read for the monitor
    metrics,    \* the metrics of this refresh, or None
    late,       \* posts given up by the monitor that the API has yet to execute
    disturbed   \* history: since the last switch of the scenario somebody else
                \* has posted, a post came late or never, or the API restarted

monVars == <<does, idx, elapsed, apiOk, seen, metrics, late, disturbed>>
vars == <<apiVars, monVars>>

None == [physical |-> "none", link_state |-> "none", vpn_state |-> "none"]

Init ==
    /\ ApiInit
    /\ does = "start" /\ idx = 1 /\ elapsed = 0
    /\ apiOk = FALSE /\ seen = <<>> /\ metrics = None
    /\ late = {} /\ disturbed = FALSE

\* switch_profile: the API executes the post now, later, or never.  The
\* answer is ignored.
Switch(profile) ==
    \/ /\ up /\ Simulate(Body(profile))
       /\ disturbed' = FALSE /\ UNCHANGED late
    \/ /\ disturbed' = TRUE
       /\ late' \in {late, IF up /\ late = {} THEN {Body(profile)} ELSE late}
       /\ UNCHANGED apiVars

\* The API answers the probe: go on with it.
Reached ==
    /\ does \in {"start", "wait"} /\ up
    /\ does' = "first"
    /\ UNCHANGED <<apiVars, idx, elapsed, apiOk, seen, metrics, late, disturbed>>

\* It does not: start it, and wait (_start_api_server, _wait_for_api).
StartApi ==
    /\ does = "start" /\ ApiStart
    /\ does' = "wait"
    /\ UNCHANGED <<idx, elapsed, apiOk, seen, metrics, late, disturbed>>

\* It did not answer in 15 s: stop it, and go on without an API.
GiveUp ==
    /\ does = "wait"
    /\ ApiStop \/ (~up /\ UNCHANGED apiVars)
    /\ does' = "offline"
    /\ UNCHANGED <<idx, elapsed, apiOk, seen, metrics, late, disturbed>>

First ==
    /\ does = "first"
    /\ Switch(Scenarios[1])
    /\ does' = "probe"
    /\ UNCHANGED <<idx, elapsed, apiOk, seen, metrics>>

\* Mutant of Probe: the metrics of the refresh before are kept.
ProbeKeepMetrics ==
    /\ does = "probe"
    /\ apiOk' \in IF up THEN BOOLEAN ELSE {FALSE}
    /\ seen' = <<>>
    /\ does' = IF apiOk' THEN "current" ELSE "demo"
    /\ UNCHANGED <<apiVars, idx, elapsed, metrics, late, disturbed>>

\* is_reachable may time out though the API is up.
Probe ==
    /\ does = "probe"
    /\ apiOk' \in IF up THEN BOOLEAN ELSE {FALSE}
    /\ metrics' = None /\ seen' = <<>>
    /\ does' = IF apiOk' THEN "current" ELSE "demo"
    /\ UNCHANGED <<apiVars, idx, elapsed, late, disturbed>>

\* /metrics/current reads the keys one by one.
ReadCurrent ==
    /\ does = "current" /\ up /\ ~AllRead(seen)
    /\ seen' = ReadKey(seen)
    /\ UNCHANGED <<apiVars, does, idx, elapsed, apiOk, metrics, late, disturbed>>

\* It answers; a metric it cannot make, a timeout or a stopped API give None.
GetCurrent ==
    /\ does = "current"
    /\ \/ up /\ AllRead(seen) /\ CanMake(seen) /\ metrics' = Sample(seen)
       \/ UNCHANGED metrics
    /\ seen' = <<>>
    /\ does' = "demo"
    /\ UNCHANGED <<apiVars, idx, elapsed, apiOk, late, disturbed>>

\* Mutant of NextScenario: after the last one the demo stays there.
NextScenarioClamped == IF idx < Len(Scenarios) THEN idx + 1 ELSE idx

NextScenario == (idx % Len(Scenarios)) + 1

\* The time of the scenario is over: go to the next, and post its profile.
Advance ==
    /\ does = "demo" /\ apiOk /\ elapsed >= Duration
    /\ idx' = NextScenario
    /\ Switch(Scenarios[idx'])
    /\ elapsed' = 0
    /\ does' = "show"
    /\ UNCHANGED <<apiOk, seen, metrics>>

\* It is not, or the API does not answer.
Stay ==
    /\ does = "demo" /\ ~(apiOk /\ elapsed >= Duration)
    /\ does' = "show"
    /\ UNCHANGED <<apiVars, idx, elapsed, apiOk, seen, metrics, late, disturbed>>

\* The panels are updated, and the time of a refresh passes.
Show ==
    /\ does = "show"
    /\ does' = "probe"
    /\ elapsed' = IF elapsed < Duration THEN elapsed + 1 ELSE elapsed
    /\ UNCHANGED <<apiVars, idx, apiOk, seen, metrics, late, disturbed>>

MonitorStep == \/ Reached \/ StartApi \/ GiveUp \/ First \/ Probe \/ ReadCurrent
               \/ GetCurrent \/ Advance \/ Stay \/ Show

\* A post of somebody else, or one that comes late, at any time.
OtherPost(body) ==
    /\ up /\ Simulate(body)
    /\ disturbed' = TRUE
    /\ UNCHANGED <<does, idx, elapsed, apiOk, seen, metrics, late>>

LatePost(body) ==
    /\ up /\ Simulate(body)
    /\ late' = late \ {body}
    /\ disturbed' = TRUE
    /\ UNCHANGED <<does, idx, elapsed, apiOk, seen, metrics>>

\* Somebody stops the API, with the posts it had accepted, or starts it.
StopOrStart ==
    /\ does # "wait"
    /\ ApiStop \/ ApiStart
    /\ late' = {} /\ disturbed' = TRUE
    /\ seen' = <<>>
    /\ does' = IF does = "current" THEN "demo" ELSE does
    /\ UNCHANGED <<idx, elapsed, apiOk, metrics>>

Next ==
    \/ MonitorStep
    \/ Generator /\ UNCHANGED monVars
    \/ \E body \in Bodies : OtherPost(body)
    \/ \E body \in late : LatePost(body)
    \/ StopOrStart

\* The monitor's loop never blocks for good, and the event loop of a process
\* that runs gets back to its task.
Spec == /\ Init /\ [][Next]_vars
        /\ WF_vars(MonitorStep)
        /\ WF_vars(Generator /\ UNCHANGED monVars)
-----------------------------------------------------------------------------
States  == Bodies \cup {Body(p) : p \in {"baseline"} \cup {Scenarios[i] : i \in DOMAIN Scenarios}}
Mixed   == {[i \in DOMAIN Keys |-> (IF i = 1 THEN a ELSE IF i = 2 THEN b ELSE c)[Keys[i]]] :
              a, b, c \in States}
AnySample == {Sample(m) : m \in Mixed}

\* Types; a sample may mix the keys of several requests.
TypeOK ==
    /\ up \in BOOLEAN /\ lives \in 0..MaxLives
    /\ state \in States
    /\ gen.does \in {"read", "sleep", "dead"} /\ Len(gen.got) <= Len(Keys)
    /\ Len(history) <= HistoryMax /\ \A i \in DOMAIN history : history[i] \in AnySample
    /\ does \in {"start", "wait", "offline", "first", "probe", "current", "demo", "show"}
    /\ idx \in DOMAIN Scenarios /\ elapsed \in 0..Duration
    /\ apiOk \in BOOLEAN /\ disturbed \in BOOLEAN
    /\ Len(seen) <= Len(Keys)
    /\ metrics \in AnySample \cup {None}
    /\ late \subseteq States

\* The metrics shown are those of the scenario on the banner, on every refresh
\* but the one that switches, unless somebody else posted, the post was lost or
\* late, or the API was restarted since (monitor.py:649-691, main.py:126-157).
BannerTellsProfile ==
    [][ Show /\ elapsed > 0 /\ ~disturbed /\ metrics # None
        => metrics = Sample(Values(Body(Scenarios[idx]))) ]_vars

\* The demo shows every scenario again and again once the probes are answered,
\* whatever became of the posts and of the API before (monitor.py:661-675).
DemoCycles == <>[]apiOk => \A i \in DOMAIN Scenarios : []<>(does = "show" /\ idx = i)

\* When nobody posts any more and the generator lives, the history, and so the
\* event stream, comes to show the terminal as it is configured, whatever the
\* generator had read of an earlier request (main.py:78-91, 148-168).
StreamFollows ==
    \A s \in States :
        <>[](up /\ gen.does # "dead" /\ state = s)
            => <>[](history # <<>> /\ history[Len(history)] = Sample(Values(s)))
=============================================================================
