------------------------------ MODULE RootCause ------------------------------
(***************************************************************************)
(* analyzer/root_cause_analyzer.py with the rules of analyzer/rules: what   *)
(* it concludes from a diagnostics snapshot.  A snapshot is a record of    *)
(*   telemetry     a function from the fields reported to their values     *)
(*   hasNat        the text of the NAT table contains MASQUERADE           *)
(*   hasDefault    the routes of the customer edge contain a default route *)
(*   ifDown        the text of the interfaces contains DOWN or NO-CARRIER  *)
(*   pcap          the rule keywords the text of the pcap summary contains *)
(*   largeLost     ping_large.txt contains "100% packet loss"              *)
(*   smallOk       ping_small.txt contains "0% packet loss"                *)
(* Losses are in tenths of a percent, signal quality in percent; a         *)
(* confidence is a percentage times 10^6.  Titles, evidence texts and      *)
(* remedies are left out.                                                  *)
(***************************************************************************)
EXTENDS Integers, SequencesExt

NoNumber == -1      \* None where a number is expected

\* The conditions a rule is made of.
Is(f, S)  == [field |-> f, op |-> "in",  set |-> S,  bound |-> 0]
Gte(f, v) == [field |-> f, op |-> "gte", set |-> {}, bound |-> v]
Lte(f, v) == [field |-> f, op |-> "lte", set |-> {}, bound |-> v]
Lt(f, v)  == [field |-> f, op |-> "lt",  set |-> {}, bound |-> v]
Flag(f)   == Is(f, {TRUE})
Keywords(K) == Is("pcap_keywords", K)

Rule(id, layer, confidence, match) ==
    [id |-> id, layer |-> layer, confidence |-> confidence, match |-> match]

\* Mutant of Layer1: a loss of 5 % is not yet a high loss.
Layer1LossAbove == <<
    Rule("L1_LINK_DOWN", "L1", 97, << Is("link_state", {"down"}), Gte("packet_loss_percent", 990) >>),
    Rule("L1_HIGH_LOSS", "L1", 88, << Gte("packet_loss_percent", 51), Is("link_state", {"up", "degraded"}) >>) >>

Layer1 == <<
    Rule("L1_LINK_DOWN", "L1", 97, << Is("link_state", {"down"}), Gte("packet_loss_percent", 990) >>),
    Rule("L1_HIGH_LOSS", "L1", 88, << Gte("packet_loss_percent", 50), Is("link_state", {"up", "degraded"}) >>),
    Rule("L1_SIGNAL_DEGRADED", "L1", 82, << Lt("signal_quality", 70) >>),
    Rule("L1_THERMAL", "L1", 79, << Gte("modem_temperature_c", 75) >>) >>

Layer2 == <<
    Rule("L2_INTERFACE_DOWN", "L2", 95, << Flag("interface_down_keywords") >>),
    Rule("L2_ARP_FAILURE", "L2", 85, << Keywords({"who-has", "ARP", "no response"}),
                                        Flag("ping_local_fail") >>) >>

Layer3 == <<
    Rule("L3_NO_DEFAULT_ROUTE", "L3", 93, << Lte("route_count", 1), Flag("missing_default_route") >>),
    Rule("L3_BGP_DOWN", "L3", 92, << Is("bgp_state", {"active", "idle", "connect"}) >>),
    Rule("L3_NAT_BROKEN", "L3", 91, << Flag("nat_masquerade_missing") >>),
    Rule("L3_MTU_BLACKHOLE", "L3", 91, << Flag("large_ping_fail"), Flag("small_ping_success"),
                                          Is("vpn_state", {"up"}) >>),
    Rule("L3_ASYMMETRIC_ROUTING", "L3", 78, << Keywords({"SYN without SYN-ACK", "asymmetric"}),
                                               Flag("traceroute_different_paths") >>) >>

Layer4 == <<
    Rule("L4_VPN_BLOCKED", "L4", 90, << Is("vpn_state", {"down", "handshaking"}),
                                        Keywords({"UDP", "no response", "51820"}) >>),
    Rule("L4_HIGH_RETRANSMISSIONS", "L4", 87, << Gte("packet_loss_percent", 10),
                                                 Keywords({"TCP Retransmission", "Dup ACK"}) >>),
    Rule("L4_UDP_LOSS", "L4", 83, << Gte("packet_loss_percent", 20),
                                     Is("application_protocol", {"UDP", "QUIC", "RTP"}) >>) >>

Layer7 == <<
    Rule("L7_DNS_FAILURE", "L7", 93, << Keywords({"DNS", "no response", "NXDOMAIN"}),
                                        Flag("dns_queries_unanswered") >>),
    Rule("L7_APP_TIMEOUT", "L7", 85, << Gte("latency_ms", 200), Flag("application_timeout") >>) >>

Rules == Layer1 \o Layer2 \o Layer3 \o Layer4 \o Layer7

\* Mutant of ValMatches: None counts as the smallest of numbers.
ValMatchesNone(v, c) ==
    IF c.op = "in" THEN v \in c.set
    ELSE CASE c.op = "gte" -> v >= c.bound
           [] c.op = "lte" -> v <= c.bound
           [] c.op = "lt"  -> v <  c.bound

\* _val_matches: only a number satisfies a comparison.
ValMatches(v, c) ==
    IF c.op = "in" THEN v \in c.set
    ELSE /\ v # NoNumber
         /\ CASE c.op = "gte" -> v >= c.bound
              [] c.op = "lte" -> v <= c.bound
              [] c.op = "lt"  -> v <  c.bound

\* The fields that are inferred.  The last three are soft: when they do not
\* hold they lower the confidence to so many percent and block nothing.
Blocking == {"nat_masquerade_missing", "missing_default_route", "interface_down_keywords"}
Soft == [pcap_keywords |-> 75, large_ping_fail |-> 70, small_ping_success |-> 70]

Inferred(c, d) ==
    CASE c.field = "nat_masquerade_missing"  -> ~d.hasNat
      [] c.field = "missing_default_route"   -> ~d.hasDefault
      [] c.field = "interface_down_keywords" -> d.ifDown
      [] c.field = "pcap_keywords"           -> c.set \cap d.pcap # {}
      [] c.field = "large_ping_fail"         -> d.largeLost
      [] c.field = "small_ping_success"      -> d.smallOk

\* Telemetry comes first; a field that is neither reported nor inferred is
\* ignored, and is no evidence.
Judge(c, d) ==
    IF c.field \in DOMAIN d.telemetry
    THEN IF ValMatches(d.telemetry[c.field], c) THEN "met" ELSE "failed"
    ELSE IF c.field \notin Blocking \cup DOMAIN Soft THEN "ignored"
    ELSE IF Inferred(c, d) THEN "met"
    ELSE IF c.field \in Blocking THEN "failed" ELSE "weakened"

Fires(r, d) ==
    /\ \A i \in DOMAIN r.match : Judge(r.match[i], d) # "failed"
    /\ \E i \in DOMAIN r.match : Judge(r.match[i], d) = "met"

Confidence(r, d) ==
    LET Factor(f) == IF \E i \in DOMAIN r.match :
                            r.match[i].field = f /\ Judge(r.match[i], d) = "weakened"
                     THEN Soft[f] ELSE 100
    IN  r.confidence * Factor("pcap_keywords") * Factor("large_ping_fail") * Factor("small_ping_success")

\* analyze_diagnostics: the rules that fire, as positions in Rules.
Findings(d) == {n \in DOMAIN Rules : Fires(Rules[n], d)}
FindingIds(d) == {Rules[n].id : n \in Findings(d)}

Healthy == "none"

\* Mutant of TopFinding: sorted from the lowest confidence up.
LeastConfident(d) ==
    IF Findings(d) = {} THEN Healthy
    ELSE Rules[CHOOSE n \in Findings(d) :
             \A m \in Findings(d) : Confidence(Rules[n], d) <= Confidence(Rules[m], d)].id

\* format_output: the probable cause is the first of the findings sorted, by a
\* stable sort, from the highest confidence down.
TopFinding(d) ==
    IF Findings(d) = {} THEN Healthy
    ELSE Rules[CHOOSE n \in Findings(d) :
             \A m \in Findings(d) \ {n} :
                \/ Confidence(Rules[n], d) > Confidence(Rules[m], d)
                \/ Confidence(Rules[n], d) = Confidence(Rules[m], d) /\ n < m].id
=============================================================================
