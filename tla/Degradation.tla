----------------------------- MODULE Degradation -----------------------------
(***************************************************************************)
(* analyzer/telemetry_analyzer.py: what it reports of a history, one sample *)
(* a second.  Losses, signal quality and temperatures are in tenths, the   *)
(* latency in ms, percentiles in hundredths of their unit.  Means and      *)
(* deviations, which are only printed, and the texts are left out.         *)
(***************************************************************************)
EXTENDS Integers, SequencesExt

Column(h, f) == [i \in DOMAIN h |-> h[i][f]]

\* The level with the greatest bound that the peak of a window reaches.
Severity(peak, levels) ==
    LET reached == {l \in ToSet(levels) : peak >= l.from} IN
    IF reached = {} THEN "low" ELSE (CHOOSE l \in reached : \A k \in reached : l.from >= k.from).name

Levels(low, medium, high, critical) ==
    << [name |-> "low", from |-> low], [name |-> "medium", from |-> medium],
       [name |-> "high", from |-> high], [name |-> "critical", from |-> critical] >>

Peak(values, a, b) == Max({values[i] : i \in a..b})

\* One turn of the loop of detect_degradation_events: a window is opened, or
\* closed and reported if it has two samples.
Scan(values, threshold, levels, acc, i) ==
    IF values[i] > threshold /\ ~acc.inEvent
    THEN [acc EXCEPT !.inEvent = TRUE, !.start = i]
    ELSE IF values[i] <= threshold /\ acc.inEvent
    THEN [acc EXCEPT !.inEvent = FALSE,
            !.events = IF i - acc.start < 2 THEN @
                       ELSE Append(@, [first |-> acc.start, last |-> i - 1,
                                       severity |-> Severity(Peak(values, acc.start, i - 1), levels)])]
    ELSE acc

Closed == [inEvent |-> FALSE, start |-> 1, events |-> <<>>]

\* Where the loop is after each of the samples.
Scans(values, threshold, levels) ==
    LET after[i \in 0..Len(values)] ==
            IF i = 0 THEN Closed ELSE Scan(values, threshold, levels, after[i - 1], i)
    IN  after

\* Mutant of Detect: the window that is still open is reported as well.
DetectOpen(values, threshold, levels) ==
    LET end == Scans(values, threshold, levels)[Len(values)]
    IN  end.events \o IF end.inEvent THEN << [first |-> end.start, last |-> Len(values), severity |-> "low"] >>
                      ELSE <<>>

\* detect_degradation_events: the windows above the threshold that are over
\* and have at least two samples.
Detect(values, threshold, levels) == Scans(values, threshold, levels)[Len(values)].events

Sorted(values) == SortSeq(values, <)

\* _percentile: between the two samples next to the index.
Percentile(values, p) ==
    LET s     == Sorted(values)
        index == p * (Len(s) - 1)
        lower == 1 + index \div 100
        upper == IF lower < Len(s) THEN lower + 1 ELSE lower
    IN  100 * s[lower] + (index % 100) * (s[upper] - s[lower])

\* Changes of a state into one that is configured.
Flaps(states) ==
    Cardinality({i \in 2..Len(states) : states[i] # states[i-1] /\ states[i] # "not_configured"})

Sum(values) == FoldLeft(+, 0, values)

\* analyze_telemetry_history, of a history that is not empty.  The threshold
\* of the signal quality is tested as those of latency and loss are.
Report(h) ==
    LET loss    == Column(h, "packet_loss_percent")
        latency == Column(h, "latency_ms")
        events  == Detect(latency, 100, Levels(100, 200, 400, 600))
                     \o Detect(loss, 10, Levels(10, 50, 100, 500))
                     \o Detect(Column(h, "signal_quality"), 7, Levels(7, 5, 3, 1))
        vpn     == Flaps(Column(h, "vpn_state"))
        bgp     == Flaps(Column(h, "bgp_state"))
        hottest == Peak(Column(h, "modem_temperature_c"), 1, Len(h))
    IN  [ up     |-> Cardinality({i \in DOMAIN h : h[i].link_state = "up"}),
          events |-> events,
          vpn_flaps |-> vpn,
          bgp_flaps |-> bgp,
          alerts |-> {a \in {"p95", "loss", "vpn", "bgp", "heat"} :
                        CASE a = "p95"  -> Percentile(latency, 95) > 20000
                          [] a = "loss" -> Sum(loss) > 10 * Len(h)
                          [] a = "vpn"  -> vpn > 3
                          [] a = "bgp"  -> bgp > 2
                          [] a = "heat" -> hottest > 750} ]
=============================================================================
