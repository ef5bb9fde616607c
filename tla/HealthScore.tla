----------------------------- MODULE HealthScore -----------------------------
(***************************************************************************)
(* analyzer/health_scorer.py: a health score of 0 to 100 with a grade, from *)
(* the telemetry and the tables of a snapshot.  This is a snapshot as      *)
(* RootCause has it, and routesRead and natRead tell whether the texts of  *)
(* the routes and of the NAT table are there at all.  A total is exact, in *)
(* hundredths of a point: the rounding to a tenth, whose ties binary       *)
(* fractions break either way, is left out, and so are totals at a tie     *)
(* just below the bound of a grade.                                        *)
(***************************************************************************)
EXTENDS Integers, FiniteSetsExt

\* telemetry.get(field, default)
Get(tel, f, default) == IF f \in DOMAIN tel THEN tel[f] ELSE default

\* Mutant of Penalty: each step is tested by itself, and a bound is left out.
PenaltyWithGap(v, high, forHigh, low, forLow) ==
    IF v > high THEN forHigh ELSE IF v >= low /\ v < high THEN forLow ELSE 0

\* The penalty of the first step that v reaches: an elif chain of v >= bound.
Penalty(v, high, forHigh, low, forLow) ==
    IF v >= high THEN forHigh ELSE IF v >= low THEN forLow ELSE 0

AtLeast0(n) == IF n < 0 THEN 0 ELSE n

\* score_link_health
LinkHealth(tel) ==
    LET state == Get(tel, "link_state", "unknown")
        loss  == Get(tel, "packet_loss_percent", 0)
        sig   == Get(tel, "signal_quality", 100)
    IN  IF state = "down" THEN 0
        ELSE AtLeast0(100 - (IF state = "degraded" THEN 30 ELSE 0)
                          - (IF loss >= 100 THEN 55 ELSE Penalty(loss, 50, 30, 10, 12))
                          - (IF sig < 30 THEN 30 ELSE IF sig < 70 THEN 15 ELSE 0)
                          - Penalty(Get(tel, "modem_temperature_c", 42), 80, 20, 70, 8)
                          - Penalty(Get(tel, "obstruction_percent", 0), 20, 20, 10, 8))

\* score_routing_health; an empty table text says nothing about its content.
RoutingHealth(d) ==
    LET routes == Get(d.telemetry, "route_count", 0) IN
    AtLeast0(100 - (IF d.natRead /\ ~d.hasNat THEN 35 ELSE 0)
                 - (IF routes = 0 THEN 40 ELSE IF routes < 3 THEN 15 ELSE 0)
                 - (IF d.routesRead /\ ~d.hasDefault THEN 25 ELSE 0)
                 - Penalty(Get(d.telemetry, "latency_ms", 0), 500, 15, 200, 5))

\* score_vpn_health, score_bgp_health
VpnHealth(tel) ==
    LET s == Get(tel, "vpn_state", "not_configured") IN
    CASE s \in {"not_configured", "up"} -> 100
      [] s = "handshaking" -> 30
      [] s = "down" -> 0
      [] OTHER -> 50

BgpHealth(tel) ==
    LET s == Get(tel, "bgp_state", "not_configured") IN
    CASE s \in {"not_configured", "established"} -> 100
      [] s \in {"active", "connect"} -> 20
      [] s = "idle" -> 10
      [] OTHER -> 50

\* score_application_health
ApplicationHealth(d) ==
    AtLeast0(100 - (IF "DNS" \in d.pcap /\ {"no response", "timeout"} \cap d.pcap # {} THEN 40 ELSE 0)
                 - (IF "NXDOMAIN" \in d.pcap THEN 15 ELSE 0)
                 - (IF Get(d.telemetry, "latency_ms", 0) >= 400 THEN 20 ELSE 0))

\* compute_health_score
TotalScore(d) ==
    LET total == 30 * LinkHealth(d.telemetry) + 25 * RoutingHealth(d) + 20 * VpnHealth(d.telemetry)
                   + 15 * BgpHealth(d.telemetry) + 10 * ApplicationHealth(d)
    IN  IF LinkHealth(d.telemetry) = 0 /\ total > 4000 THEN 4000 ELSE total

Grade(d) ==
    LET t == TotalScore(d) IN
    IF t >= 9000 THEN "A" ELSE IF t >= 8000 THEN "B" ELSE IF t >= 7000 THEN "C"
    ELSE IF t >= 5000 THEN "D" ELSE "F"
=============================================================================
