---------------------------- MODULE TelemetryApi ----------------------------
(***************************************************************************)
(* telemetry/api: the simulator of the terminal.  /simulate replaces the   *)
(* keys of _state in one step, in a thread of the pool; the generator, a   *)
(* task of the event loop, and /metrics/current, in another thread, read   *)
(* them one by one.  Of the five keys bgp_state and route_count are left   *)
(* out: they are handled as vpn_state and nat_table_size are.  A sample    *)
(* stands for its random quantities by the profile they are drawn around.  *)
(***************************************************************************)
EXTENDS Integers, Sequences

CONSTANTS
    Bodies,         \* the requests to /simulate made by others than the monitor
    HistoryMax,     \* deque(maxlen=3600)
    MaxLives        \* bound: starts of the API process

ASSUME ApiAssumption == HistoryMax \in Nat \ {0} /\ MaxLives \in Nat

VARIABLES
    up,         \* the API process runs
    lives,      \* starts of it so far
    state,      \* _state
    gen,        \* _background_generator: what it does, and the values it has read
    history     \* _history

apiVars == <<up, lives, state, gen, history>>

Keys == <<"profile", "vpn_state", "nat_table_size">>

\* IMPAIRMENT_PROFILES: latency in ms, loss in tenths of a percent.
Profile == [ baseline      |-> [latency |-> 45,  loss |-> 1],
             rain_fade     |-> [latency |-> 65,  loss |-> 25],
             high_latency  |-> [latency |-> 150, loss |-> 5],
             packet_loss   |-> [latency |-> 50,  loss |-> 50],
             link_down     |-> [latency |-> 0,   loss |-> 1000],
             mtu_blackhole |-> [latency |-> 45,  loss |-> 1] ]

\* SimulateRequest: a body that names a profile only, and the defaults of _state.
Body(p) == [profile |-> p, vpn_state |-> "not_configured", nat_table_size |-> 120]

\* generate: the link state is derived from the profile.
LinkState(p) ==
    IF Profile[p].loss >= 1000 THEN "down"
    ELSE IF Profile[p].loss >= 100 \/ Profile[p].latency >= 200 THEN "degraded"
    ELSE "up"

Sample(s) == [physical |-> s[1], link_state |-> LinkState(s[1]), vpn_state |-> s[2]]

\* SatcomTerminalMetrics refuses a negative table size; up to 10 are taken
\* from the configured one, or up to 20 added.
CanMake(s)  == s[3] + 20 >= 0
CanRaise(s) == s[3] - 10 < 0

\* One key more is read.
ReadKey(got) == Append(got, state[Keys[Len(got) + 1]])
AllRead(got) == Len(got) = Len(Keys)
Values(s)    == [i \in DOMAIN Keys |-> s[Keys[i]]]

ApiInit ==
    /\ up = FALSE /\ lives = 0
    /\ state = Body("baseline")
    /\ gen = [does |-> "read", got |-> <<>>]
    /\ history = <<>>

\* uvicorn imports the module, and lifespan creates the task.
ApiStart ==
    /\ ~up /\ lives < MaxLives
    /\ up' = TRUE /\ lives' = lives + 1
    /\ state' = Body("baseline")
    /\ gen' = [does |-> "read", got |-> <<>>]
    /\ history' = <<>>

\* The process ends, or is stopped.
ApiStop == up /\ up' = FALSE /\ UNCHANGED <<lives, state, gen, history>>

\* simulate: dict.update replaces all keys in one step.
Simulate(body) == state' = body /\ UNCHANGED <<up, lives, gen, history>>

GenRead ==
    /\ up /\ gen.does = "read" /\ ~AllRead(gen.got)
    /\ gen' = [gen EXCEPT !.got = ReadKey(@)]
    /\ UNCHANGED <<up, lives, state, history>>

\* Mutant of LastOf: a plain list, that is never cut.
AllOf(h, n) == h

\* The deque drops the oldest.
LastOf(h, n) == IF Len(h) <= n THEN h ELSE SubSeq(h, Len(h) - n + 1, Len(h))

\* Mutant of GenAppend: the profile is looked up once, before the loop.
GenAppendKeepProfile ==
    /\ up /\ gen.does = "read" /\ AllRead(gen.got) /\ CanMake(gen.got)
    /\ history' = LastOf(Append(history, Sample(gen.got)), HistoryMax)
    /\ gen' = [does |-> "sleep", got |-> <<gen.got[1]>>]
    /\ UNCHANGED <<up, lives, state>>

GenAppend ==
    /\ up /\ gen.does = "read" /\ AllRead(gen.got) /\ CanMake(gen.got)
    /\ history' = LastOf(Append(history, Sample(gen.got)), HistoryMax)
    /\ gen' = [does |-> "sleep", got |-> <<>>]
    /\ UNCHANGED <<up, lives, state>>

\* An exception ends the task for good; nobody awaits it.
GenDie ==
    /\ up /\ gen.does = "read" /\ AllRead(gen.got) /\ CanRaise(gen.got)
    /\ gen' = [does |-> "dead", got |-> <<>>]
    /\ UNCHANGED <<up, lives, state, history>>

GenWake ==
    /\ up /\ gen.does = "sleep"
    /\ gen' = [gen EXCEPT !.does = "read"]
    /\ UNCHANGED <<up, lives, state, history>>

Generator == GenRead \/ GenAppend \/ GenDie \/ GenWake
=============================================================================
