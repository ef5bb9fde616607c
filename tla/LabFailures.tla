----------------------------- MODULE LabFailures -----------------------------
(***************************************************************************)
(* The laboratory and the scripts that break and restore it:               *)
(* lab/scripts/inject_failure.sh with write_diagnostics.py,                *)
(* run_baseline_test.sh and collect_diagnostics.sh, in the lab that        *)
(* setup_lab.sh has set up.  A script is a sequence of commands, run one   *)
(* by one; whoever runs it may interrupt it between two of them, and one   *)
(* that is followed by "|| true" may fail without ending it.  The kernel's *)
(* part is external: what ip, iptables and tc do to the namespaces, and    *)
(* that an interface set down takes the static routes over it along.       *)
(***************************************************************************)
EXTENDS Integers, Sequences, FiniteSets

CONSTANT MaxScripts     \* bound: scripts started

ASSUME MaxScriptsAssumption == MaxScripts \in Nat

Wan == {"eth0", "eth1"}          \* the interfaces of ns-satcom

VARIABLES
    lab,        \* the state of the namespaces that a script may change
    script,     \* the script that runs, or Idle
    at,         \* the next of its commands
    pings,      \* what ping_small.txt and ping_large.txt say of losses
    file,       \* the diagnostics.json written last
    started,    \* scripts started
    asFound,    \* history: the lab as the script found it
    failed      \* history: the parts of the lab its commands failed on

labVars == <<lab, script, at, pings, file, started, asFound, failed>>

\* setup_lab.sh: NAT and filter of ns-ce, mtu, filter, shaping, links and
\* static routes of ns-satcom.
Baseline ==
    [ nat     |-> {"masquerade"},
      forward |-> {"accept", "established"},
      mtu     |-> [i \in Wan |-> 1500],
      filter  |-> {},
      netem   |-> [i \in Wan |-> "baseline"],
      up      |-> Wan,
      routes  |-> {"lan", "app"} ]

\* The interface each static route of ns-satcom goes over (setup_lab.sh:67-68).
Over == [lan |-> "eth0", app |-> "eth1"]

\* The rules of the FORWARD chain of ns-ce, and what tc makes of a link.
ForwardRules == {"accept", "established", "drop_vpn", "drop_dns"}
Netem == [netem_baseline |-> "baseline", netem_loss |-> "loss", netem_latency |-> "latency"]

Cmd(op, dev) == [op |-> op, dev |-> dev]
Open         == Cmd("open", "file")
Dump         == Cmd("dump", "file")

\* Mutant of RestoreScript: the filter of ns-satcom is not flushed.
RestoreScriptWithoutIcmp ==
    << Cmd("nat_flush", "ce"), Cmd("nat_add", "ce"), Cmd("forward_flush", "ce"),
       Cmd("append", "accept"), Cmd("append", "established"),
       Cmd("mtu_1500", "eth0"), Cmd("mtu_1500", "eth1"),
       Cmd("netem_baseline", "eth0"), Cmd("netem_baseline", "eth1"),
       Cmd("up", "eth0"), Cmd("up", "eth1") >>

RestoreScript ==
    << Cmd("nat_flush", "ce"), Cmd("nat_add", "ce"), Cmd("forward_flush", "ce"),
       Cmd("append", "accept"), Cmd("append", "established"),
       Cmd("mtu_1500", "eth0"), Cmd("mtu_1500", "eth1"), Cmd("icmp_flush", "satcom"),
       Cmd("netem_baseline", "eth0"), Cmd("netem_baseline", "eth1"),
       Cmd("up", "eth0"), Cmd("up", "eth1") >>

Idle == "idle"
Injections == {"nat_failure", "vpn_failure", "bgp_failure", "mtu_blackhole",
               "packet_loss", "high_latency", "dns_failure", "failover"}
Scripts == Injections \cup {"restore", "baseline", "snapshot"}

Commands ==
    [ nat_failure   |-> << Cmd("nat_del", "ce"), Cmd("delete", "accept"), Open, Dump >>,
      vpn_failure   |-> << Cmd("append", "drop_vpn"), Open, Dump >>,
      bgp_failure   |-> << Open, Dump >>,
      mtu_blackhole |-> << Cmd("mtu_1400", "eth0"), Cmd("mtu_1400", "eth1"),
                           Cmd("icmp_drop", "satcom"), Cmd("ping_small", "ce"),
                           Cmd("ping_large", "ce"), Open, Dump >>,
      packet_loss   |-> << Cmd("netem_loss", "eth0"), Cmd("netem_loss", "eth1"), Open, Dump >>,
      high_latency  |-> << Cmd("netem_latency", "eth0"), Cmd("netem_latency", "eth1"), Open, Dump >>,
      dns_failure   |-> << Cmd("append", "drop_dns"), Open, Dump >>,
      failover      |-> << Cmd("down", "eth0"), Cmd("down", "eth1"),
                           Cmd("up", "eth0"), Cmd("up", "eth1"), Open, Dump >>,
      restore       |-> RestoreScript,
      baseline      |-> << Cmd("ping_required", "ce"), Open, Dump >>,
      snapshot      |-> << Open, Dump >> ]

\* The part of the lab that a command is about which may fail, being followed by
\* "|| true" in the two scripts (inject_failure.sh:33-34, 142-156).
Tolerant == {"restore", "nat_failure"}
PartOf == [ nat_del |-> "nat", nat_flush |-> "nat", delete |-> "forward", forward_flush |-> "forward",
            mtu_1500 |-> "mtu", icmp_flush |-> "filter", netem_baseline |-> "netem", up |-> "up" ]

\* What a command makes of the lab.
Exec(c, l) ==
    [ nat     |-> IF c.op = "nat_add" THEN {"masquerade"}
                  ELSE IF c.op \in {"nat_del", "nat_flush"} THEN {} ELSE l.nat,
      forward |-> {r \in ForwardRules :
                     \/ c = Cmd("append", r)
                     \/ r \in l.forward /\ c # Cmd("delete", r) /\ c.op # "forward_flush"},
      mtu     |-> [i \in Wan |-> IF c = Cmd("mtu_1400", i) THEN 1400
                                 ELSE IF c = Cmd("mtu_1500", i) THEN 1500 ELSE l.mtu[i]],
      filter  |-> IF c.op = "icmp_drop" THEN {"drop_icmp"}
                  ELSE IF c.op = "icmp_flush" THEN {} ELSE l.filter,
      netem   |-> [i \in Wan |-> IF c.op \in DOMAIN Netem /\ c.dev = i THEN Netem[c.op] ELSE l.netem[i]],
      up      |-> {i \in Wan : c = Cmd("up", i) \/ (i \in l.up /\ c # Cmd("down", i))},
      routes  |-> {r \in l.routes : c # Cmd("down", Over[r])} ]

\* The path from the enterprise to the application server, and back.
Connected(l) == l.up = Wan /\ l.routes = {"lan", "app"}

\* The losses a few pings of the given size report.
Losses(l, large) ==
    IF ~Connected(l) \/ (large /\ \E i \in Wan : l.mtu[i] = 1400) THEN {"all"}
    ELSE IF \E i \in Wan : l.netem[i] = "loss" THEN {"none", "some", "all"}
    ELSE {"none"}

NoFile == [mode |-> Idle, whole |-> FALSE, masquerade |-> FALSE, ifDown |-> FALSE]

LabInit ==
    /\ lab = Baseline /\ asFound = Baseline
    /\ script = Idle /\ at = 1
    /\ pings = [small |-> "absent", large |-> "absent"]
    /\ file = NoFile
    /\ started = 0 /\ failed = {}

\* make inject-..., make baseline, make collect
StartScript(s) ==
    /\ script = Idle /\ started < MaxScripts
    /\ script' = s /\ at' = 1
    /\ started' = started + 1
    /\ asFound' = lab /\ failed' = {}
    /\ UNCHANGED <<lab, pings, file>>

Next1 == Commands[script][at]

Advance ==
    IF at < Len(Commands[script]) THEN at' = at + 1 /\ UNCHANGED script
    ELSE at' = 1 /\ script' = Idle

\* A command of the kernel; for one that may fail the script goes on.
RunCommand ==
    /\ script # Idle
    /\ Next1.op \notin {"ping_small", "ping_large", "ping_required", "open", "dump"}
    /\ \/ lab' = Exec(Next1, lab) /\ UNCHANGED failed
       \/ /\ script \in Tolerant /\ Next1.op \in DOMAIN PartOf
          /\ failed' = failed \cup {PartOf[Next1.op]} /\ UNCHANGED lab
    /\ Advance
    /\ UNCHANGED <<pings, file, started, asFound>>

\* ping ... | tee ping_small.txt || true, and the same with large packets.
Ping ==
    /\ script # Idle
    /\ Next1.op \in {"ping_small", "ping_large"}
    /\ \E x \in Losses(lab, Next1.op = "ping_large") :
          pings' = IF Next1.op = "ping_small" THEN [pings EXCEPT !.small = x]
                                              ELSE [pings EXCEPT !.large = x]
    /\ Advance
    /\ UNCHANGED <<lab, file, started, asFound, failed>>

\* The baseline test gives up when its pings get no answer (set -e, pipefail).
RequiredPing ==
    /\ script # Idle
    /\ Next1.op = "ping_required"
    /\ \E x \in Losses(lab, FALSE) :
          IF x = "all" THEN at' = 1 /\ script' = Idle ELSE Advance
    /\ UNCHANGED <<lab, pings, file, started, asFound, failed>>

\* open("w") truncates the file, and makes it the most recent one.
OpenFile ==
    /\ script # Idle
    /\ Next1.op = "open"
    /\ file' = [NoFile EXCEPT !.mode = script]
    /\ Advance
    /\ UNCHANGED <<lab, pings, started, asFound, failed>>

\* json.dump; what it writes was read from the namespaces before.
DumpFile ==
    /\ script # Idle
    /\ Next1.op = "dump"
    /\ file' = [mode |-> script, whole |-> TRUE,
                masquerade |-> lab.nat # {}, ifDown |-> lab.up # Wan]
    /\ Advance
    /\ UNCHANGED <<lab, pings, started, asFound, failed>>

\* Ctrl-C, or a command that fails under set -e.
Interrupt ==
    /\ script # Idle
    /\ script' = Idle /\ at' = 1
    /\ UNCHANGED <<lab, pings, file, started, asFound, failed>>

LabNext ==
    \/ \E s \in Scripts : StartScript(s)
    \/ RunCommand \/ Ping \/ RequiredPing \/ OpenFile \/ DumpFile \/ Interrupt

LabSpec == LabInit /\ [][LabNext]_labVars

Parts == {"nat", "forward", "mtu", "filter", "netem", "up"}

LabType == [ nat     : SUBSET {"masquerade"},
             forward : SUBSET ForwardRules,
             mtu     : [Wan -> {1400, 1500}],
             filter  : SUBSET {"drop_icmp"},
             netem   : [Wan -> {"baseline", "loss", "latency"}],
             up      : SUBSET Wan,
             routes  : SUBSET {"lan", "app"} ]

\* Types of the lab and of the scripts that change it.
LabTypeOK ==
    /\ lab \in LabType /\ asFound \in LabType
    /\ script \in Scripts \cup {Idle}
    /\ at \in 1..12 /\ (script # Idle => at <= Len(Commands[script]))
    /\ pings \in [small : {"absent", "none", "some", "all"}, large : {"absent", "none", "some", "all"}]
    /\ file \in [mode : Scripts \cup {Idle}, whole : BOOLEAN, masquerade : BOOLEAN, ifDown : BOOLEAN]
    /\ started \in 0..MaxScripts
    /\ failed \subseteq Parts

\* The last command of the restore script runs in this step.
Restored == script = "restore" /\ at = Len(Commands["restore"]) /\ RunCommand

\* Whatever was injected before, in whatever order, and however many of the
\* scripts were broken off half way, a restore that runs to its end leaves NAT,
\* filters, mtu, shaping and links as the setup made them, each one but those
\* a command for which failed: no failure of one keeps another from being
\* restored (inject_failure.sh:139-157).
RestoreUndoesInjections ==
    [][Restored => \A part \in Parts \ failed' : lab'[part] = Baseline[part]]_labVars

\* "restore - Restore all lab state to baseline" (inject_failure.sh:14): after
\* it has run to its end, and none of its commands failed, the lab is as the
\* setup made it.
RestoreIsBaseline == [][Restored /\ failed' = {} => lab' = Baseline]_labVars
=============================================================================
