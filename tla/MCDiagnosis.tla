----------------------------- MODULE MCDiagnosis -----------------------------
\* An instance of Diagnosis and, beside it, a system whose quantities get worse
\* step by step, on a grid, to see what the health score makes of it, and a
\* history that grows, to see what the telemetry analyzer reports of it.
EXTENDS Diagnosis, Degradation

CONSTANT MaxSamples     \* bound: samples of the history

VARIABLES
    system,     \* where on the grid the system is
    series      \* the history

\* Each quantity at the bounds of its steps, ordered from good to bad.
Links     == <<"up", "degraded", "down">>
LossSteps == <<9, 10, 49, 50, 99, 100, 990>>
Signals   == <<70, 69, 30, 29>>
Counts    == <<3, 2, 0>>
Delays    == <<199, 200, 399, 400, 500>>
Vpns      == <<"up", "handshaking", "down">>

Steps == [link : DOMAIN Links, loss : DOMAIN LossSteps, signal : DOMAIN Signals,
          routes : DOMAIN Counts, delay : DOMAIN Delays, vpn : DOMAIN Vpns, nat : {1, 2}]

At(s) == [ telemetry |-> [link_state |-> Links[s.link], packet_loss_percent |-> LossSteps[s.loss],
                          signal_quality |-> Signals[s.signal], route_count |-> Counts[s.routes],
                          latency_ms |-> Delays[s.delay], vpn_state |-> Vpns[s.vpn],
                          bgp_state |-> "established"],
           natRead |-> TRUE, hasNat |-> s.nat = 1, routesRead |-> TRUE, hasDefault |-> TRUE,
           ifDown |-> FALSE, pcap |-> {}, largeLost |-> FALSE, smallOk |-> FALSE ]

Best == [q \in {"link", "loss", "signal", "routes", "delay", "vpn", "nat"} |-> 1]

Worsen(q) ==
    /\ [system EXCEPT ![q] = @ + 1] \in Steps
    /\ system' = [system EXCEPT ![q] = @ + 1]
    /\ started = 0 /\ UNCHANGED vars

Seen(latency, loss, signal, link, vpn, bgp, heat) ==
    [ latency_ms |-> latency, packet_loss_percent |-> loss, signal_quality |-> signal, link_state |-> link,
      vpn_state |-> vpn, bgp_state |-> bgp, modem_temperature_c |-> heat ]

\* A terminal under a clear sky, one at the bound of a loss event, and one in
\* heavy rain whose tunnel comes and goes.
Weather == [
    clear |-> Seen(45, 1, 9, "up", "up", "established", 600),
    bound |-> Seen(201, 10, 7, "up", "not_configured", "idle", 750),
    rain  |-> Seen(700, 100, 1, "degraded", "down", "active", 751) ]

Observe(w) ==
    /\ Len(series) < MaxSamples
    /\ series' = Append(series, Weather[w])
    /\ started = 0 /\ system = Best /\ UNCHANGED <<vars, system>>

\* The lab runs as long as the grid is at its best and the history is empty.
MCInit == Init /\ system = Best /\ series = <<>>
MCNext == \/ Next /\ system = Best /\ series = <<>> /\ UNCHANGED <<system, series>>
          \/ \E q \in DOMAIN Best : Worsen(q) /\ series = <<>> /\ UNCHANGED series
          \/ \E w \in DOMAIN Weather : Observe(w)
MCSpec == MCInit /\ [][MCNext]_<<vars, system, series>>

\* No quantity that gets worse raises the health score, whatever the others
\* are: not at the bounds of the elif chains either, nor where a score is
\* clamped at zero or the total capped; and where the analyzer finds the link
\* down, the system fails (health_scorer.py:46-225).
WorseNeverScoresHigher ==
    [][system' # system =>
         /\ TotalScore(At(system')) <= TotalScore(At(system))
         /\ "L1_LINK_DOWN" \in FindingIds(At(system')) => Grade(At(system')) = "F"]_<<vars, system, series>>

\* The degradation events of a history are exactly its windows above the
\* threshold that have come to an end and lasted two samples: none is missed,
\* cut in two or reported twice (telemetry_analyzer.py:91-122).
EventsAreWindows ==
    LET loss == Column(series, "packet_loss_percent")
        over(a, b) == \A i \in a..b : loss[i] > 10
        windows == {w \in (1..Len(loss)) \X (1..Len(loss)) :
                      /\ w[1] < w[2] /\ w[2] < Len(loss) /\ over(w[1], w[2])
                      /\ loss[w[2] + 1] <= 10
                      /\ w[1] > 1 => loss[w[1] - 1] <= 10}
        events == Detect(loss, 10, Levels(10, 50, 100, 500))
    IN  /\ {<<events[i].first, events[i].last>> : i \in DOMAIN events} = windows
        /\ Len(events) = Cardinality(windows)

\* What a report says of a history stands when the history goes on: no event
\* is changed or withdrawn, no flap, and neither is an alert that counts flaps
\* or looks at a maximum (telemetry_analyzer.py:91-122, 148-153, 193-204).
ReportsStand ==
    [][ series # <<>> /\ series' # series =>
          LET was == Report(series)  is == Report(series') IN
          /\ ToSet(was.events) \subseteq ToSet(is.events)
          /\ was.vpn_flaps <= is.vpn_flaps /\ was.bgp_flaps <= is.bgp_flaps
          /\ was.alerts \ {"p95", "loss"} \subseteq is.alerts ]_<<vars, system, series>>
=============================================================================
