------------------------------ MODULE Diagnosis ------------------------------
(***************************************************************************)
(* From a failure in the lab to what the terminal monitor shows of it: the *)
(* scripts of LabFailures write diagnostics.json, the monitor loads the    *)
(* most recent one (get_latest_diagnostics), runs the analyzer over it and *)
(* keeps the result under the name of the experiment (get_rca_for).        *)
(***************************************************************************)
EXTENDS LabFailures, RootCause, HealthScore

VARIABLES
    cached,     \* _rca_cache: the file analysed, and the probable cause found
    shown,      \* the diagnostics on the screen; NoFile if none
    verdict     \* the probable cause on the screen

vars == <<lab, script, at, pings, file, started, asFound, failed, cached, shown, verdict>>

\* write_diagnostics.py: telemetry_defaults, guessed from the failure mode.
Guess(latency, loss, link, vpn, bgp) ==
    [latency_ms |-> latency, packet_loss_percent |-> loss, link_state |-> link,
     vpn_state |-> vpn, bgp_state |-> bgp,
     signal_quality |-> IF link = "down" THEN 0 ELSE 95,
     route_count |-> 3]             \* those of ns-ce, which no script touches

TelemetryOf(mode) ==
    CASE mode \in {"nat_failure", "dns_failure"} -> Guess(90, 1, "up", "not_configured", "not_configured")
      [] mode = "vpn_failure"   -> Guess(90, 1, "up", "down", "not_configured")
      [] mode = "bgp_failure"   -> Guess(90, 1, "up", "not_configured", "active")
      [] mode = "mtu_blackhole" -> Guess(90, 1, "up", "up", "not_configured")
      [] mode = "packet_loss"   -> Guess(90, 50, "degraded", "not_configured", "not_configured")
      [] mode = "high_latency"  -> Guess(300, 5, "degraded", "not_configured", "not_configured")
      [] mode = "failover"      -> Guess(0, 1000, "down", "down", "idle")
      \* run_baseline_test.sh:83-87
      [] mode = "baseline"      -> [Guess(90, 1, "up", "none", "none") EXCEPT !.signal_quality = 97,
                                                                              !.route_count = 5]
      \* collect_diagnostics.sh: nothing of it is measured
      [] mode = "snapshot"      -> [Guess(NoNumber, NoNumber, "unknown", "unknown", "unknown")
                                        EXCEPT !.signal_quality = NoNumber]

\* The snapshot a whole file is read as.  The pcap summary is the name of a
\* directory, whose text holds "dns" for one of the modes; the ping files are
\* looked up under the failure mode; the baseline has no NAT table.
Diag(f, p) ==
    [ telemetry  |-> TelemetryOf(f.mode),
      natRead    |-> f.mode # "baseline",
      hasNat     |-> f.mode # "baseline" /\ f.masquerade,
      routesRead |-> TRUE,
      hasDefault |-> TRUE,
      ifDown     |-> f.ifDown,
      pcap       |-> IF f.mode = "dns_failure" THEN {"DNS"} ELSE {},
      largeLost  |-> f.mode = "mtu_blackhole" /\ p.large = "all",
      smallOk    |-> f.mode = "mtu_blackhole" /\ p.small \in {"none", "all"} ]

NoAnalysis == [of |-> NoFile, cause |-> Healthy]

Init == LabInit /\ cached = NoAnalysis /\ shown = NoFile /\ verdict = Healthy

\* Mutant of Hit: whatever is cached is shown.
HitAnything(diag) == cached # NoAnalysis

\* The cached analysis is used when it is of an experiment of the same name.
\* Every snapshot has a name of its own.
Hit(diag) == cached.of.mode = diag.mode /\ diag.mode # "snapshot"

\* One refresh of the monitor.  A file that is not whole cannot be parsed, and
\* then nothing is shown; older files are not considered.
Refresh ==
    /\ IF ~file.whole
       THEN shown' = NoFile /\ verdict' = Healthy /\ UNCHANGED cached
       ELSE /\ shown' = file
            /\ cached' = IF Hit(file) THEN cached
                         ELSE [of |-> file, cause |-> TopFinding(Diag(file, pings))]
            /\ verdict' = cached'.cause
    /\ UNCHANGED labVars

Next == \/ LabNext /\ UNCHANGED <<cached, shown, verdict>>
        \/ Refresh

Spec == Init /\ [][Next]_vars

Files  == [mode : Scripts \ {"restore"}, whole : {TRUE}, masquerade : BOOLEAN, ifDown : BOOLEAN]
Pings  == [small : {"absent", "none", "some", "all"}, large : {"absent", "none", "some", "all"}]

\* The rule for each of the injected failures, on the layer that the script
\* expects the fault to be found on (the last argument of write_diagnostics.py).
\* None for high_latency: the script expects Layer1, and no rule of that layer
\* looks at the latency; all that is found is L7_APP_TIMEOUT.
RuleFor == [nat_failure |-> "L3_NAT_BROKEN",  vpn_failure   |-> "L4_VPN_BLOCKED",
            bgp_failure |-> "L3_BGP_DOWN",    mtu_blackhole |-> "L3_MTU_BLACKHOLE",
            packet_loss |-> "L1_HIGH_LOSS",   dns_failure   |-> "L7_DNS_FAILURE",
            failover    |-> "L1_LINK_DOWN"]

\* The failure a diagnostics file was written for is among the findings of the
\* analyzer, on the layer the script expects it on, whatever other failures were
\* injected before and left in place or half restored; high_latency has no such
\* rule, and a nat_failure whose first command failed is none
\* (inject_failure.sh:31-135, root_cause_analyzer.py:93-197).
FaultIsFound ==
    /\ file.whole /\ file.mode \in DOMAIN RuleFor
    /\ file.mode = "nat_failure" => ~file.masquerade
    => RuleFor[file.mode] \in FindingIds(Diag(file, pings))

\* It is the probable cause, above all other findings, whenever the lab the
\* failure was injected into had its NAT and its links, even if other failures
\* were left in it (root_cause_analyzer.py:196, 217).
FaultComesFirst ==
    [][ /\ DumpFile /\ script \in DOMAIN RuleFor /\ "nat" \notin failed
        /\ asFound.nat # {} /\ asFound.up = Wan
        => TopFinding(Diag(file', pings)) = RuleFor[script] ]_vars

\* A snapshot taken by collect_diagnostics.sh raises an alarm exactly when the
\* NAT rule is missing or an interface is down at that moment: nothing that is
\* unknown counts as a failure (collect_diagnostics.sh:51-72).
SnapshotIsHonest ==
    file.whole /\ file.mode = "snapshot" =>
        FindingIds(Diag(file, pings)) =
            (IF file.masquerade THEN {} ELSE {"L3_NAT_BROKEN"})
              \cup (IF file.ifDown THEN {"L2_INTERFACE_DOWN"} ELSE {})

\* The probable cause on the screen is one the analyzer gives for the
\* experiment on the screen, in some state of the lab: never that of another
\* experiment, though the analysis is cached, the file may be half written
\* when it is read, and another may follow at any time (monitor.py:206-242).
VerdictIsOfShownExperiment ==
    shown # NoFile =>
        \E f \in Files, p \in Pings : f.mode = shown.mode /\ verdict = TopFinding(Diag(f, p))
=============================================================================
