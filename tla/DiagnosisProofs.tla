--------------------------- MODULE DiagnosisProofs ---------------------------
(***************************************************************************)
(* Proofs about the lab and what is diagnosed in it, for any number of     *)
(* scripts.  First LabFailures: a restore that runs to its end undoes      *)
(* whatever was injected before, but for the parts its commands failed on. *)
(* Then Diagnosis: the monitor never shows the probable cause of another   *)
(* experiment than the one on the screen; the analyzer finds the injected  *)
(* failure in whatever lab it was injected, puts it first if the lab had   *)
(* its NAT and its links, and takes nothing that is unknown for a failure. *)
(* Last HealthScore: no telemetry that is worse has a higher score.        *)
(***************************************************************************)
EXTENDS MCDiagnosis, SubsequenceProofs

\* What the restore script has done before its command number n, but for the
\* parts f of the lab that its commands failed on.
Undone(n, l, f) ==
    /\ n > 2 => l.nat = {"masquerade"}
    /\ "forward" \notin f =>
          /\ n = 4 => l.forward = {}
          /\ n = 5 => l.forward = {"accept"}
          /\ n > 5 => l.forward = {"accept", "established"}
    /\ "mtu" \notin f =>
          /\ n > 6 => l.mtu["eth0"] = 1500
          /\ n > 7 => l.mtu["eth1"] = 1500
    /\ "filter" \notin f => (n > 8 => l.filter = {})
    /\ "netem" \notin f =>
          /\ n > 9 => l.netem["eth0"] = "baseline"
          /\ n > 10 => l.netem["eth1"] = "baseline"
    /\ "up" \notin f => (n > 11 => "eth0" \in l.up)

\* The inductive invariant.
LabInv ==
    /\ lab \in LabType
    /\ script = "restore" => at \in 1..12 /\ Undone(at, lab, failed)

\* A command leaves a lab a lab.
LEMMA ExecTyped ==
    ASSUME NEW l \in LabType, NEW c
    PROVE  Exec(c, l) \in LabType
<1>1. Exec(c, l).nat \in SUBSET {"masquerade"} /\ Exec(c, l).filter \in SUBSET {"drop_icmp"}
  BY DEF Exec, LabType
<1>2. Exec(c, l).mtu \in [Wan -> {1400, 1500}]
  BY DEF Exec, LabType
<1>3. Exec(c, l).netem \in [Wan -> {"baseline", "loss", "latency"}]
  BY DEF Exec, LabType, Netem
<1>4. Exec(c, l).forward \in SUBSET ForwardRules /\ Exec(c, l).up \in SUBSET Wan
  BY DEF Exec
<1>5. Exec(c, l).routes \in SUBSET {"lan", "app"}
  BY DEF Exec, LabType
<1>6. Exec(c, l) =
        [ nat |-> Exec(c, l).nat, forward |-> Exec(c, l).forward,
          mtu |-> Exec(c, l).mtu, filter |-> Exec(c, l).filter, netem |-> Exec(c, l).netem,
          up |-> Exec(c, l).up, routes |-> Exec(c, l).routes ]
  BY DEF Exec
<1> HIDE DEF Exec
<1> QED
  BY <1>1, <1>2, <1>3, <1>4, <1>5, <1>6 DEF LabType

LEMMA RestoreCommands ==
    /\ Commands["restore"] = RestoreScript
    /\ Len(RestoreScript) = 12
    /\ RestoreScript[1] = Cmd("nat_flush", "ce")
    /\ RestoreScript[2] = Cmd("nat_add", "ce")
    /\ RestoreScript[3] = Cmd("forward_flush", "ce")
    /\ RestoreScript[4] = Cmd("append", "accept")
    /\ RestoreScript[5] = Cmd("append", "established")
    /\ RestoreScript[6] = Cmd("mtu_1500", "eth0")
    /\ RestoreScript[7] = Cmd("mtu_1500", "eth1")
    /\ RestoreScript[8] = Cmd("icmp_flush", "satcom")
    /\ RestoreScript[9] = Cmd("netem_baseline", "eth0")
    /\ RestoreScript[10] = Cmd("netem_baseline", "eth1")
    /\ RestoreScript[11] = Cmd("up", "eth0")
    /\ RestoreScript[12] = Cmd("up", "eth1")
  BY DEF Commands, RestoreScript, Cmd, Open, Dump

\* A command of the restore script undoes what it is there for.
LEMMA RestoreStep ==
    ASSUME NEW l \in LabType, NEW f, NEW n \in 1..11, Undone(n, l, f)
    PROVE  Undone(n + 1, Exec(RestoreScript[n], l), f)
<1> USE RestoreCommands DEF Undone, Exec, Cmd, LabType, ForwardRules, Netem, Wan
<1>1. CASE n = 1
  BY <1>1
<1>2. CASE n = 2
  BY <1>2
<1>3. CASE n = 3
  BY <1>3
<1>4. CASE n = 4
  BY <1>4
<1>5. CASE n = 5
  BY <1>5
<1>6. CASE n = 6
  BY <1>6
<1>7. CASE n = 7
  BY <1>7
<1>8. CASE n = 8
  BY <1>8
<1>9. CASE n = 9
  BY <1>9
<1>10. CASE n = 10
  BY <1>10
<1>11. CASE n = 11
  BY <1>11
<1> HIDE RestoreCommands DEF Undone, Exec, Cmd, LabType, ForwardRules, Netem, Wan
<1> QED
  BY <1>1, <1>2, <1>3, <1>4, <1>5, <1>6, <1>7, <1>8, <1>9, <1>10, <1>11

\* One that fails leaves the others their work.
LEMMA RestoreFails ==
    ASSUME NEW l, NEW f, NEW n \in 1..11, Undone(n, l, f), RestoreScript[n].op \in DOMAIN PartOf
    PROVE  Undone(n + 1, l, f \cup {PartOf[RestoreScript[n].op]})
<1> DEFINE p == PartOf[RestoreScript[n].op]
<1>1. /\ n # 2 /\ n # 4 /\ n # 5
      /\ n = 3 => p = "forward"
      /\ n \in {6, 7} => p = "mtu"
      /\ n = 8 => p = "filter"
      /\ n \in {9, 10} => p = "netem"
      /\ n = 11 => p = "up"
  BY RestoreCommands DEF PartOf, Cmd
<1> HIDE DEF p
<1>2. Undone(n + 1, l, f \cup {p})
  BY <1>1 DEF Undone
<1> QED
  BY <1>2 DEF p

\* All that the script restores and did not fail on is as in the baseline.
LEMMA AllRestored ==
    ASSUME NEW l \in LabType, NEW f, Undone(12, l, f), "up" \notin f => "eth1" \in l.up
    PROVE  \A part \in Parts \ f : l[part] = Baseline[part]
<1>1. /\ "mtu" \notin f => l.mtu = [i \in Wan |-> 1500]
      /\ "netem" \notin f => l.netem = [i \in Wan |-> "baseline"]
      /\ "up" \notin f => l.up = Wan
  BY DEF LabType, Wan, Undone
<1>2. /\ l.nat = {"masquerade"}
      /\ "forward" \notin f => l.forward = {"accept", "established"}
      /\ "filter" \notin f => l.filter = {}
  BY DEF Undone
<1>3. /\ Baseline.nat = {"masquerade"} /\ Baseline.filter = {}
      /\ Baseline.forward = {"accept", "established"} /\ Baseline.up = Wan
      /\ Baseline.mtu = [i \in Wan |-> 1500] /\ Baseline.netem = [i \in Wan |-> "baseline"]
  BY DEF Baseline
<1>4. ASSUME NEW part \in Parts \ f PROVE l[part] = Baseline[part]
  <2>1. CASE part = "nat"
    BY <1>2, <1>3, <2>1
  <2>2. CASE part = "forward"
    BY <1>2, <1>3, <2>2
  <2>3. CASE part = "mtu"
    BY <1>1, <1>3, <2>3
  <2>4. CASE part = "filter"
    BY <1>2, <1>3, <2>4
  <2>5. CASE part = "netem"
    BY <1>1, <1>3, <2>5
  <2>6. CASE part = "up"
    BY <1>1, <1>3, <2>6
  <2> QED
    BY <2>1, <2>2, <2>3, <2>4, <2>5, <2>6 DEF Parts
<1> QED
  BY <1>4

\* The last command sets up eth1, or fails.
LEMMA LastStep ==
    ASSUME NEW l \in LabType, NEW m, NEW f, NEW g, Undone(12, l, f),
           (m = Exec(RestoreScript[12], l) /\ g = f) \/ (m = l /\ g = f \cup {"up"})
    PROVE  \A part \in Parts \ g : m[part] = Baseline[part]
<1>1. CASE m = Exec(RestoreScript[12], l) /\ g = f
  <2>1. m \in LabType
    BY <1>1, ExecTyped
  <2>2. m.nat = l.nat /\ m.filter = l.filter /\ m.mtu["eth0"] = l.mtu["eth0"] /\ m.mtu["eth1"] = l.mtu["eth1"]
    BY <1>1, RestoreCommands DEF Exec, Cmd, Wan, LabType
  <2>3. m.netem["eth0"] = l.netem["eth0"] /\ m.netem["eth1"] = l.netem["eth1"]
    BY <1>1, RestoreCommands DEF Exec, Cmd, Wan, Netem
  <2>4. m.forward = l.forward
    BY <1>1, RestoreCommands DEF Exec, Cmd, LabType
  <2>5. "eth1" \in m.up /\ ("eth0" \in l.up => "eth0" \in m.up)
    BY <1>1, RestoreCommands DEF Exec, Cmd, Wan
  <2>6. Undone(12, m, f)
    BY <2>2, <2>3, <2>4, <2>5 DEF Undone
  <2> QED
    BY <1>1, <2>1, <2>5, <2>6, AllRestored
<1>2. CASE m = l /\ g = f \cup {"up"}
  <2>1. Undone(12, l, g)
    BY <1>2 DEF Undone
  <2> QED
    BY <1>2, <2>1, AllRestored
<1> QED
  BY <1>1, <1>2

LEMMA InitLab == LabInit => LabInv
  BY DEF LabInit, LabInv, LabType, Baseline, Wan, ForwardRules, Idle

LEMMA NextLab == LabInv /\ [LabNext]_labVars => LabInv'
<1> SUFFICES ASSUME LabInv, [LabNext]_labVars
             PROVE  LabInv'
  OBVIOUS
<1>1. CASE UNCHANGED labVars
  BY <1>1 DEF labVars, LabInv, Undone
<1>2. ASSUME NEW s \in Scripts, StartScript(s)
      PROVE  LabInv'
  BY <1>2 DEF StartScript, LabInv, Undone
<1>3. CASE RunCommand
  <2>1. lab' \in LabType
    BY <1>3, ExecTyped DEF RunCommand, LabInv
  <2>2. ASSUME script' = "restore"
        PROVE  at' \in 1..12 /\ Undone(at', lab', failed')
    <3>1. script = "restore" /\ at < 12 /\ at' = at + 1 /\ at \in 1..12 /\ Undone(at, lab, failed)
      BY <1>3, <2>2, RestoreCommands DEF RunCommand, Advance, Idle, LabInv
    <3>2. \/ lab' = Exec(RestoreScript[at], lab) /\ failed' = failed
          \/ /\ RestoreScript[at].op \in DOMAIN PartOf /\ lab' = lab
             /\ failed' = failed \cup {PartOf[RestoreScript[at].op]}
      BY <1>3, <3>1, RestoreCommands DEF RunCommand, Next1
    <3>3. at \in 1..11 /\ lab \in LabType
      BY <3>1 DEF LabInv
    <3>4. CASE lab' = Exec(RestoreScript[at], lab) /\ failed' = failed
      BY <3>1, <3>3, <3>4, RestoreStep
    <3>5. CASE /\ RestoreScript[at].op \in DOMAIN PartOf /\ lab' = lab
               /\ failed' = failed \cup {PartOf[RestoreScript[at].op]}
      <4>1. Undone(at + 1, lab, failed \cup {PartOf[RestoreScript[at].op]})
        BY <3>1, <3>3, <3>5, RestoreFails
      <4> QED
        BY <3>1, <3>3, <3>5, <4>1
    <3> QED
      BY <3>2, <3>4, <3>5
  <2> QED
    BY <2>1, <2>2 DEF LabInv
<1>4. ASSUME Ping \/ RequiredPing \/ OpenFile \/ DumpFile \/ Interrupt
      PROVE  LabInv'
  <2>1. UNCHANGED lab
    BY <1>4 DEF Ping, RequiredPing, OpenFile, DumpFile, Interrupt
  <2>2. script' # "restore"
    <3>1. CASE script = "restore" /\ ~Interrupt
      <4>1. Next1.op \in {"nat_flush", "nat_add", "forward_flush", "append", "mtu_1500",
                          "icmp_flush", "netem_baseline", "up"}
        BY <3>1, RestoreCommands DEF LabInv, Next1, Cmd
      <4> QED
        BY <1>4, <3>1, <4>1 DEF Ping, RequiredPing, OpenFile, DumpFile
    <3>2. CASE Interrupt
      BY <3>2 DEF Interrupt, Idle
    <3>3. CASE script # "restore"
      BY <1>4, <3>3 DEF Ping, RequiredPing, OpenFile, DumpFile, Interrupt, Advance, Idle
    <3> QED
      BY <3>1, <3>2, <3>3
  <2> QED
    BY <2>1, <2>2 DEF LabInv
<1> QED
  BY <1>1, <1>2, <1>3, <1>4 DEF LabNext

\* The invariant, for any number of scripts.
THEOREM LabInvariance == LabSpec => []LabInv
<1> QED
  BY InitLab, NextLab, PTL DEF LabSpec

\* Whatever was injected, in whatever order, and wherever scripts were broken
\* off: a restore that runs to its end undoes it, but for the parts of the lab
\* that a command of its own failed on (inject_failure.sh:139-157).
THEOREM RestoreUndoes == LabSpec => RestoreUndoesInjections
<1>1. LabInv /\ [LabNext]_labVars =>
          [Restored => \A part \in Parts \ failed' : lab'[part] = Baseline[part]]_labVars
  <2> SUFFICES ASSUME LabInv, Restored, NEW part \in Parts \ failed'
               PROVE  lab'[part] = Baseline[part]
    OBVIOUS
  <2>1. script = "restore" /\ at = 12 /\ lab \in LabType /\ Undone(12, lab, failed)
    BY RestoreCommands DEF Restored, LabInv
  <2>2. \/ lab' = Exec(RestoreScript[12], lab) /\ failed' = failed
        \/ lab' = lab /\ failed' = failed \cup {"up"}
    BY <2>1, RestoreCommands DEF Restored, RunCommand, Next1, PartOf, Cmd
  <2> QED
    BY <2>1, <2>2, LastStep
<1> QED
  BY <1>1, LabInvariance, PTL DEF LabSpec, RestoreUndoesInjections
-----------------------------------------------------------------------------
(* Types *)

LEMMA ScriptLengths ==
    \A s \in Scripts : Len(Commands[s]) \in 1..12 /\ 1 <= Len(Commands[s])
<1>1. \A s \in Scripts : Len(Commands[s]) \in 1..12
  BY DEF Scripts, Injections, Commands, RestoreScript
<1>2. ASSUME NEW s \in Scripts PROVE 1 <= Len(Commands[s])
  <2> DEFINE n == Len(Commands[s])
  <2>1. n \in 1..12
    BY <1>1
  <2> HIDE DEF n
  <2>2. 1 <= n
    BY <2>1
  <2> QED
    BY <2>2 DEF n
<1> QED
  BY <1>1, <1>2

\* From one command to the next, a script stays within its commands.
LEMMA AdvanceTyped ==
    ASSUME LabTypeOK, script # Idle, Advance
    PROVE  /\ script' \in Scripts \cup {Idle}
           /\ at' \in 1..12 /\ (script' # Idle => at' <= Len(Commands[script']))
<1>1. script \in Scripts /\ at \in 1..12 /\ at <= Len(Commands[script])
  BY DEF LabTypeOK
<1>2. Len(Commands[script]) \in 1..12
  BY <1>1, ScriptLengths
<1>3. CASE at < Len(Commands[script])
  <2>1. at' = at + 1 /\ script' = script
    BY <1>3 DEF Advance
  <2>2. Len(Commands[script']) = Len(Commands[script])
    BY <2>1
  <2> DEFINE n == Len(Commands[script])
  <2>3. at \in 1..12 /\ n \in 1..12 /\ at < n /\ Len(Commands[script']) = n
    BY <1>1, <1>2, <1>3, <2>2
  <2> HIDE DEF n
  <2>4. at' \in 1..12 /\ at' <= Len(Commands[script'])
    BY <2>1, <2>3
  <2> QED
    BY <1>1, <2>1, <2>4
<1>4. CASE ~(at < Len(Commands[script]))
  BY <1>4 DEF Advance
<1> QED
  BY <1>3, <1>4

\* The variables keep their types, for any number of scripts.
THEOREM LabTypes == LabSpec => []LabTypeOK
<1>1. LabInit => LabTypeOK
  <2>1. Baseline \in LabType
    BY DEF Baseline, LabType, Wan, ForwardRules
  <2>2. Idle \notin Scripts
    BY DEF Idle, Scripts, Injections
  <2> QED
    BY <2>1, MaxScriptsAssumption DEF LabInit, LabTypeOK, NoFile, Idle
<1>2. LabTypeOK /\ [LabNext]_labVars => LabTypeOK'
  <2> SUFFICES ASSUME LabTypeOK, [LabNext]_labVars PROVE LabTypeOK'
    OBVIOUS
  <2> DEFINE Run == /\ script' \in Scripts \cup {Idle}
                    /\ at' \in 1..12 /\ (script' # Idle => at' <= Len(Commands[script']))
  <2>1. CASE UNCHANGED labVars
    BY <2>1 DEF labVars, LabTypeOK
  <2>2. ASSUME NEW s \in Scripts, StartScript(s) PROVE LabTypeOK'
    <3>1. script' = s /\ at' = 1 /\ 1 <= Len(Commands[script'])
      <4>1. script' = s /\ at' = 1
        BY <2>2 DEF StartScript
      <4>2. 1 <= Len(Commands[s])
        BY ScriptLengths
      <4> QED
        BY <4>1, <4>2
    <3>2. started' \in 0..MaxScripts
      BY <2>2, MaxScriptsAssumption DEF StartScript, LabTypeOK
    <3> QED
      BY <2>2, <3>1, <3>2 DEF StartScript, LabTypeOK
  <2>3. CASE RunCommand
    <3>1. Run /\ lab' \in LabType
      BY <2>3, AdvanceTyped, ExecTyped DEF RunCommand, LabTypeOK
    <3>2. failed' \subseteq Parts
      <4>1. \A op \in DOMAIN PartOf : PartOf[op] \in Parts
        BY DEF PartOf, Parts
      <4> QED
        BY <2>3, <4>1 DEF RunCommand, LabTypeOK
    <3> QED
      BY <2>3, <3>1, <3>2 DEF RunCommand, LabTypeOK
  <2>4. CASE Ping
    <3>1. Run
      BY <2>4, AdvanceTyped DEF Ping
    <3>2. pings' \in [small : {"absent", "none", "some", "all"}, large : {"absent", "none", "some", "all"}]
      BY <2>4 DEF Ping, Losses, LabTypeOK
    <3> QED
      BY <2>4, <3>1, <3>2 DEF Ping, LabTypeOK
  <2>5. CASE RequiredPing
    <3>1. Run
      BY <2>5, AdvanceTyped DEF RequiredPing
    <3> QED
      BY <2>5, <3>1 DEF RequiredPing, LabTypeOK
  <2>6. CASE OpenFile
    <3>1. Run /\ script \in Scripts
      BY <2>6, AdvanceTyped DEF OpenFile, LabTypeOK
    <3>2. file' \in [mode : Scripts \cup {Idle}, whole : BOOLEAN, masquerade : BOOLEAN, ifDown : BOOLEAN]
      BY <2>6, <3>1 DEF OpenFile, NoFile
    <3> QED
      BY <2>6, <3>1, <3>2 DEF OpenFile, LabTypeOK
  <2>7. CASE DumpFile
    <3>1. Run /\ script \in Scripts
      BY <2>7, AdvanceTyped DEF DumpFile, LabTypeOK
    <3>2. file' \in [mode : Scripts \cup {Idle}, whole : BOOLEAN, masquerade : BOOLEAN, ifDown : BOOLEAN]
      BY <2>7, <3>1 DEF DumpFile
    <3> QED
      BY <2>7, <3>1, <3>2 DEF DumpFile, LabTypeOK
  <2>8. CASE Interrupt
    BY <2>8 DEF Interrupt, LabTypeOK
  <2> QED
    BY <2>1, <2>2, <2>3, <2>4, <2>5, <2>6, <2>7, <2>8 DEF LabNext
<1> QED
  BY <1>1, <1>2, PTL DEF LabSpec
-----------------------------------------------------------------------------
(* The diagnosis *)

\* A cause the analyzer gives for an experiment of this name.
CauseFor(mode, cause) ==
    \E f \in Files, p \in Pings : f.mode = mode /\ cause = TopFinding(Diag(f, p))

\* What the monitor reads is whole or of no use, and what it keeps is of the
\* experiment under whose name it keeps it.
DiagInv ==
    /\ script \in Scripts \cup {Idle}
    /\ pings \in Pings
    /\ file.whole => file \in Files
    /\ cached = NoAnalysis \/ CauseFor(cached.of.mode, cached.cause)
    /\ shown # NoFile => CauseFor(shown.mode, verdict)

LEMMA InitDiag == Init => DiagInv
  BY DEF Init, LabInit, DiagInv, Pings, NoFile, Idle

\* The scripts write no diagnostics of a restore.
LEMMA LabStep ==
    ASSUME LabInv, DiagInv, LabNext
    PROVE  /\ script' \in Scripts \cup {Idle} /\ pings' \in Pings
           /\ file'.whole => file' \in Files
<1>1. CASE \E s \in Scripts : StartScript(s)
  BY <1>1 DEF StartScript, DiagInv
<1>2. script' \in Scripts \cup {Idle} \/ (\E s \in Scripts : StartScript(s))
  BY DEF LabNext, RunCommand, Ping, RequiredPing, OpenFile, DumpFile, Interrupt, Advance, DiagInv
<1>3. CASE Ping
  <2>1. PICK x \in {"none", "some", "all"} :
            pings' = [pings EXCEPT !.small = x] \/ pings' = [pings EXCEPT !.large = x]
    BY <1>3 DEF Ping, Losses
  <2>2. pings' \in Pings
    BY <2>1 DEF DiagInv, Pings
  <2> QED
    BY <1>2, <1>3, <2>2, <1>1 DEF Ping, DiagInv
<1>4. CASE OpenFile
  <2>1. file' = [NoFile EXCEPT !.mode = script]
    BY <1>4 DEF OpenFile
  <2>2. file'.whole = FALSE
    BY <2>1 DEF NoFile
  <2> QED
    BY <1>1, <1>2, <1>4, <2>2 DEF OpenFile, DiagInv
<1>5. CASE DumpFile
  <2>1. script # "restore"
    <3> SUFFICES ASSUME script = "restore" PROVE FALSE
      OBVIOUS
    <3>1. at \in 1 .. 12 /\ Next1 = RestoreScript[at] /\ Next1.op = "dump"
      BY <1>5, RestoreCommands DEF DumpFile, LabInv, Next1
    <3> QED
      BY <3>1, RestoreCommands DEF Cmd
  <2>2. script \in Scripts \ {"restore"}
    BY <1>5, <2>1 DEF DumpFile, DiagInv
  <2>3. file' = [mode |-> script, whole |-> TRUE,
                 masquerade |-> lab.nat # {}, ifDown |-> lab.up # Wan]
    BY <1>5 DEF DumpFile
  <2>4. file' \in Files
    BY <2>2, <2>3, Zenon DEF Files
  <2> QED
    BY <1>1, <1>2, <1>5, <2>4 DEF DumpFile, DiagInv
<1>6. CASE RunCommand \/ RequiredPing \/ Interrupt
  BY <1>1, <1>2, <1>6 DEF RunCommand, RequiredPing, Interrupt, DiagInv
<1> QED
  BY <1>1, <1>3, <1>4, <1>5, <1>6 DEF LabNext

\* A file that is not whole clears the screen; another is analysed, or has the
\* cause kept under its name.
LEMMA RefreshStep ==
    ASSUME DiagInv, Refresh
    PROVE  DiagInv'
<1>1. UNCHANGED <<script, pings, file>>
  BY DEF Refresh, labVars
<1>2. CASE ~file.whole
  BY <1>1, <1>2 DEF Refresh, DiagInv
<1>3. CASE file.whole
  <2>1. file \in Files /\ pings \in Pings /\ shown' = file /\ verdict' = cached'.cause
    BY <1>3 DEF Refresh, DiagInv
  <2>2. file.mode # Idle
    BY <2>1 DEF Files, Scripts, Injections, Idle
  <2>3. CASE Hit(file)
    <3>1. cached' = cached /\ cached.of.mode = file.mode
      BY <1>3, <2>3 DEF Refresh, Hit
    <3>2. cached # NoAnalysis
      BY <2>2, <3>1 DEF NoAnalysis, NoFile
    <3>3. CauseFor(file.mode, verdict')
      BY <2>1, <3>1, <3>2 DEF DiagInv
    <3> QED
      BY <1>1, <2>1, <3>1, <3>2, <3>3 DEF DiagInv, CauseFor
  <2>4. CASE ~Hit(file)
    <3>1. cached' = [of |-> file, cause |-> TopFinding(Diag(file, pings))]
      BY <1>3, <2>4 DEF Refresh
    <3>2. cached'.of.mode = file.mode /\ cached'.cause = TopFinding(Diag(file, pings))
      BY <3>1
    <3>3. CauseFor(file.mode, cached'.cause)
      BY <2>1, <3>2 DEF CauseFor
    <3> QED
      BY <1>1, <2>1, <3>2, <3>3 DEF DiagInv, CauseFor
  <2> QED
    BY <2>3, <2>4
<1> QED
  BY <1>2, <1>3

LEMMA StepDiag == LabInv /\ DiagInv /\ [Next]_vars => DiagInv'
<1> SUFFICES ASSUME LabInv, DiagInv, [Next]_vars PROVE DiagInv'
  OBVIOUS
<1>1. CASE LabNext /\ UNCHANGED <<cached, shown, verdict>>
  BY <1>1, LabStep DEF DiagInv, CauseFor
<1>2. CASE UNCHANGED vars
  BY <1>2 DEF DiagInv, CauseFor, vars
<1> QED
  BY <1>1, <1>2, RefreshStep DEF Next

\* The cause on the screen is that of the experiment on the screen, for any
\* number of scripts, wherever they and the writing of the file are broken off,
\* and whatever analysis was kept before.
THEOREM VerdictTrue == Spec => []VerdictIsOfShownExperiment
<1>1. Init => LabInv
  BY InitLab DEF Init
<1>2. LabInv /\ [Next]_vars => LabInv'
  <2>1. [Next]_vars => [LabNext]_labVars
    BY DEF Next, Refresh, vars, labVars
  <2> QED
    BY <2>1, NextLab
<1>3. DiagInv => VerdictIsOfShownExperiment
  BY DEF DiagInv, CauseFor, VerdictIsOfShownExperiment
<1> QED
  BY <1>1, <1>2, <1>3, InitDiag, StepDiag, PTL DEF Spec
-----------------------------------------------------------------------------
(* What the analyzer finds in a file of the lab *)

\* The rules of the five layers are one list, Rules: which is where.
LEMMA LayerLengths == /\ Len(Layer1) = 4 /\ Len(Layer2) = 2 /\ Len(Layer3) = 5
                      /\ Len(Layer4) = 3 /\ Len(Layer7) = 2
  BY DEF Layer1, Layer2, Layer3, Layer4, Layer7

AnyRule == {Layer1[i] : i \in 1 .. 4} \cup {Layer2[i] : i \in 1 .. 2} \cup {Layer3[i] : i \in 1 .. 5}
           \cup {Layer4[i] : i \in 1 .. 3} \cup {Layer7[i] : i \in 1 .. 2}

LEMMA Layers == /\ Layer1 \in Seq(AnyRule) /\ Layer2 \in Seq(AnyRule) /\ Layer3 \in Seq(AnyRule)
                /\ Layer4 \in Seq(AnyRule) /\ Layer7 \in Seq(AnyRule)
  <1>1. Layer1 = [i \in 1 .. 4 |-> Layer1[i]]
    BY DEF Layer1
  <1>2. Layer2 = [i \in 1 .. 2 |-> Layer2[i]]
    BY DEF Layer2
  <1>3. Layer3 = [i \in 1 .. 5 |-> Layer3[i]]
    BY DEF Layer3
  <1>4. Layer4 = [i \in 1 .. 3 |-> Layer4[i]]
    BY DEF Layer4
  <1>5. Layer7 = [i \in 1 .. 2 |-> Layer7[i]]
    BY DEF Layer7
  <1> QED
    BY <1>1, <1>2, <1>3, <1>4, <1>5 DEF AnyRule

LEMMA RuleList ==
    /\ DOMAIN Rules = 1 .. 16
    /\ \A n \in 1 .. 4 : Rules[n] = Layer1[n]
    /\ \A n \in 1 .. 2 : Rules[4 + n] = Layer2[n]
    /\ \A n \in 1 .. 5 : Rules[6 + n] = Layer3[n]
    /\ \A n \in 1 .. 3 : Rules[11 + n] = Layer4[n]
    /\ \A n \in 1 .. 2 : Rules[14 + n] = Layer7[n]
  <1> DEFINE A == Layer1 \o Layer2
             B == A \o Layer3
             C == B \o Layer4
  <1>1. A \in Seq(AnyRule) /\ Joined(A, Layer1, 4, Layer2, 2) /\ Len(A) = 6
    <2>1. A \in Seq(AnyRule) /\ Joined(A, Layer1, Len(Layer1), Layer2, Len(Layer2))
      BY Layers, ConcatLemma, Zenon
    <2>2. Joined(A, Layer1, 4, Layer2, 2)
      BY <2>1, LayerLengths
    <2>3. Len(A) = Len(Layer1) + Len(Layer2)
      BY Layers, ConcatProperties, Zenon
    <2> HIDE DEF A
    <2>4. Len(A) = 6
      BY <2>3, LayerLengths
    <2> QED
      BY <2>1, <2>2, <2>4
  <1> HIDE DEF A
  <1>2. B \in Seq(AnyRule) /\ Joined(B, A, 6, Layer3, 5) /\ Len(B) = 11
    <2>1. B \in Seq(AnyRule) /\ Joined(B, A, Len(A), Layer3, Len(Layer3))
      BY <1>1, Layers, ConcatLemma, Zenon
    <2>2. Joined(B, A, 6, Layer3, 5)
      BY <1>1, <2>1, LayerLengths
    <2>3. Len(B) = Len(A) + Len(Layer3)
      BY <1>1, Layers, ConcatProperties, Zenon
    <2> HIDE DEF B
    <2>4. Len(B) = 11
      BY <1>1, <2>3, LayerLengths
    <2> QED
      BY <2>1, <2>2, <2>4
  <1> HIDE DEF B
  <1>3. C \in Seq(AnyRule) /\ Joined(C, B, 11, Layer4, 3) /\ Len(C) = 14
    <2>1. C \in Seq(AnyRule) /\ Joined(C, B, Len(B), Layer4, Len(Layer4))
      BY <1>2, Layers, ConcatLemma, Zenon
    <2>2. Joined(C, B, 11, Layer4, 3)
      BY <1>2, <2>1, LayerLengths
    <2>3. Len(C) = Len(B) + Len(Layer4)
      BY <1>2, Layers, ConcatProperties, Zenon
    <2> HIDE DEF C
    <2>4. Len(C) = 14
      BY <1>2, <2>3, LayerLengths
    <2> QED
      BY <2>1, <2>2, <2>4
  <1>4. Rules = C \o Layer7
    BY DEF Rules, A, B
  <1> HIDE DEF C
  <1>5. Joined(Rules, C, 14, Layer7, 2)
    <2>1. Joined(Rules, C, Len(C), Layer7, Len(Layer7))
      BY <1>3, <1>4, Layers, ConcatLemma, Zenon
    <2> QED
      BY <1>3, <2>1, LayerLengths
  <1>6. /\ DOMAIN Rules = 1 .. 16
        /\ \A n \in 1 .. 14 : Rules[n] = C[n]
        /\ \A n \in 1 .. 2 : Rules[14 + n] = Layer7[n]
    BY <1>5 DEF Joined
  <1>7. /\ \A n \in 1 .. 11 : Rules[n] = B[n]
        /\ \A n \in 1 .. 3 : Rules[11 + n] = Layer4[n]
    BY <1>3, <1>6 DEF Joined
  <1>8. /\ \A n \in 1 .. 6 : Rules[n] = A[n]
        /\ \A n \in 1 .. 5 : Rules[6 + n] = Layer3[n]
    BY <1>2, <1>7 DEF Joined
  <1>9. /\ \A n \in 1 .. 4 : Rules[n] = Layer1[n]
        /\ \A n \in 1 .. 2 : Rules[4 + n] = Layer2[n]
    BY <1>1, <1>8 DEF Joined
  <1> QED
    BY <1>6, <1>7, <1>8, <1>9

\* The conditions of each of the rules.
LEMMA RuleNames ==
    /\ Rules[1] = Rule("L1_LINK_DOWN", "L1", 97,
                          << Is("link_state", {"down"}), Gte("packet_loss_percent", 990) >>)
    /\ Rules[2] = Rule("L1_HIGH_LOSS", "L1", 88,
                          << Gte("packet_loss_percent", 50), Is("link_state", {"up", "degraded"}) >>)
    /\ Rules[3] = Rule("L1_SIGNAL_DEGRADED", "L1", 82, << Lt("signal_quality", 70) >>)
    /\ Rules[4] = Rule("L1_THERMAL", "L1", 79, << Gte("modem_temperature_c", 75) >>)
    /\ Rules[5] = Rule("L2_INTERFACE_DOWN", "L2", 95, << Flag("interface_down_keywords") >>)
    /\ Rules[6] = Rule("L2_ARP_FAILURE", "L2", 85,
                          << Keywords({"who-has", "ARP", "no response"}), Flag("ping_local_fail") >>)
    /\ Rules[7] = Rule("L3_NO_DEFAULT_ROUTE", "L3", 93,
                          << Lte("route_count", 1), Flag("missing_default_route") >>)
    /\ Rules[8] = Rule("L3_BGP_DOWN", "L3", 92,
                          << Is("bgp_state", {"active", "idle", "connect"}) >>)
    /\ Rules[9] = Rule("L3_NAT_BROKEN", "L3", 91, << Flag("nat_masquerade_missing") >>)
    /\ Rules[10] = Rule("L3_MTU_BLACKHOLE", "L3", 91,
                          << Flag("large_ping_fail"), Flag("small_ping_success"), Is("vpn_state", {"up"}) >>)
    /\ Rules[11] = Rule("L3_ASYMMETRIC_ROUTING", "L3", 78,
                          << Keywords({"SYN without SYN-ACK", "asymmetric"}), Flag("traceroute_different_paths") >>)
    /\ Rules[12] = Rule("L4_VPN_BLOCKED", "L4", 90,
                          << Is("vpn_state", {"down", "handshaking"}), Keywords({"UDP", "no response", "51820"}) >>)
    /\ Rules[13] = Rule("L4_HIGH_RETRANSMISSIONS", "L4", 87,
                          << Gte("packet_loss_percent", 10), Keywords({"TCP Retransmission", "Dup ACK"}) >>)
    /\ Rules[14] = Rule("L4_UDP_LOSS", "L4", 83,
                          << Gte("packet_loss_percent", 20), Is("application_protocol", {"UDP", "QUIC", "RTP"}) >>)
    /\ Rules[15] = Rule("L7_DNS_FAILURE", "L7", 93,
                          << Keywords({"DNS", "no response", "NXDOMAIN"}), Flag("dns_queries_unanswered") >>)
    /\ Rules[16] = Rule("L7_APP_TIMEOUT", "L7", 85,
                          << Gte("latency_ms", 200), Flag("application_timeout") >>)
<1>1. /\ Rules[1] = Rule("L1_LINK_DOWN", "L1", 97,
                          << Is("link_state", {"down"}), Gte("packet_loss_percent", 990) >>)
     /\ Rules[2] = Rule("L1_HIGH_LOSS", "L1", 88,
                          << Gte("packet_loss_percent", 50), Is("link_state", {"up", "degraded"}) >>)
     /\ Rules[3] = Rule("L1_SIGNAL_DEGRADED", "L1", 82, << Lt("signal_quality", 70) >>)
     /\ Rules[4] = Rule("L1_THERMAL", "L1", 79, << Gte("modem_temperature_c", 75) >>)
  <2>1. Rules[1] = Layer1[1] /\ Rules[2] = Layer1[2] /\ Rules[3] = Layer1[3] /\ Rules[4] = Layer1[4]
    BY RuleList
  <2> QED
    BY <2>1 DEF Layer1
<1>2. /\ Rules[5] = Rule("L2_INTERFACE_DOWN", "L2", 95, << Flag("interface_down_keywords") >>)
     /\ Rules[6] = Rule("L2_ARP_FAILURE", "L2", 85,
                          << Keywords({"who-has", "ARP", "no response"}), Flag("ping_local_fail") >>)
  <2>1. Rules[5] = Layer2[1] /\ Rules[6] = Layer2[2]
    BY RuleList
  <2> QED
    BY <2>1 DEF Layer2
<1>3. /\ Rules[7] = Rule("L3_NO_DEFAULT_ROUTE", "L3", 93,
                          << Lte("route_count", 1), Flag("missing_default_route") >>)
     /\ Rules[8] = Rule("L3_BGP_DOWN", "L3", 92,
                          << Is("bgp_state", {"active", "idle", "connect"}) >>)
     /\ Rules[9] = Rule("L3_NAT_BROKEN", "L3", 91, << Flag("nat_masquerade_missing") >>)
     /\ Rules[10] = Rule("L3_MTU_BLACKHOLE", "L3", 91,
                          << Flag("large_ping_fail"), Flag("small_ping_success"), Is("vpn_state", {"up"}) >>)
     /\ Rules[11] = Rule("L3_ASYMMETRIC_ROUTING", "L3", 78,
                          << Keywords({"SYN without SYN-ACK", "asymmetric"}), Flag("traceroute_different_paths") >>)
  <2>1. Rules[7] = Layer3[1] /\ Rules[8] = Layer3[2] /\ Rules[9] = Layer3[3]
       /\ Rules[10] = Layer3[4] /\ Rules[11] = Layer3[5]
    BY RuleList
  <2> QED
    BY <2>1 DEF Layer3
<1>4. /\ Rules[12] = Rule("L4_VPN_BLOCKED", "L4", 90,
                          << Is("vpn_state", {"down", "handshaking"}), Keywords({"UDP", "no response", "51820"}) >>)
     /\ Rules[13] = Rule("L4_HIGH_RETRANSMISSIONS", "L4", 87,
                          << Gte("packet_loss_percent", 10), Keywords({"TCP Retransmission", "Dup ACK"}) >>)
     /\ Rules[14] = Rule("L4_UDP_LOSS", "L4", 83,
                          << Gte("packet_loss_percent", 20), Is("application_protocol", {"UDP", "QUIC", "RTP"}) >>)
  <2>1. Rules[12] = Layer4[1] /\ Rules[13] = Layer4[2] /\ Rules[14] = Layer4[3]
    BY RuleList
  <2> QED
    BY <2>1 DEF Layer4
<1>5. /\ Rules[15] = Rule("L7_DNS_FAILURE", "L7", 93,
                          << Keywords({"DNS", "no response", "NXDOMAIN"}), Flag("dns_queries_unanswered") >>)
     /\ Rules[16] = Rule("L7_APP_TIMEOUT", "L7", 85,
                          << Gte("latency_ms", 200), Flag("application_timeout") >>)
  <2>1. Rules[15] = Layer7[1] /\ Rules[16] = Layer7[2]
    BY RuleList
  <2> QED
    BY <2>1 DEF Layer7
<1> QED
  BY <1>1, <1>2, <1>3, <1>4, <1>5, Zenon

\* When a rule of one, of two or of three conditions is among the findings.
LEMMA FoundByOne ==
    ASSUME NEW d, NEW n \in 1 .. 16, NEW id, NEW layer, NEW k, NEW c,
           Rules[n] = Rule(id, layer, k, <<c>>)
    PROVE  n \in Findings(d) <=> Judge(c, d) # "failed" /\ Judge(c, d) = "met"
  <1>1. n \in DOMAIN Rules
    BY RuleList
  <1>2. DOMAIN Rules[n].match = {1} /\ Rules[n].match[1] = c
    BY DEF Rule
  <1> QED
    BY <1>1, <1>2, Zenon DEF Findings, Fires

LEMMA FoundByTwo ==
    ASSUME NEW d, NEW n \in 1 .. 16, NEW id, NEW layer, NEW k, NEW b, NEW c,
           Rules[n] = Rule(id, layer, k, <<b, c>>)
    PROVE  n \in Findings(d) <=> /\ Judge(b, d) # "failed" /\ Judge(c, d) # "failed"
                                 /\ Judge(b, d) = "met" \/ Judge(c, d) = "met"
  <1>1. n \in DOMAIN Rules
    BY RuleList
  <1>2. DOMAIN Rules[n].match = {1, 2} /\ Rules[n].match[1] = b /\ Rules[n].match[2] = c
    BY DEF Rule
  <1> QED
    BY <1>1, <1>2, Zenon DEF Findings, Fires

LEMMA FoundByThree ==
    ASSUME NEW d, NEW n \in 1 .. 16, NEW id, NEW layer, NEW k, NEW a, NEW b, NEW c,
           Rules[n] = Rule(id, layer, k, <<a, b, c>>)
    PROVE  n \in Findings(d) <=>
              /\ Judge(a, d) # "failed" /\ Judge(b, d) # "failed" /\ Judge(c, d) # "failed"
              /\ Judge(a, d) = "met" \/ Judge(b, d) = "met" \/ Judge(c, d) = "met"
  <1>1. n \in DOMAIN Rules
    BY RuleList
  <1>2. DOMAIN Rules[n].match = {1, 2, 3}
        /\ Rules[n].match[1] = a /\ Rules[n].match[2] = b /\ Rules[n].match[3] = c
    BY DEF Rule
  <1> QED
    BY <1>1, <1>2, Zenon DEF Findings, Fires

\* What the scripts report, whatever they have broken.
Telemetry == [ latency_ms : Int, packet_loss_percent : Int,
               link_state : {"up", "degraded", "down", "unknown"},
               vpn_state : {"up", "down", "not_configured", "none", "unknown"},
               bgp_state : {"active", "idle", "not_configured", "none", "unknown"},
               signal_quality : Int, route_count : {3, 5} ]

LEMMA Reported ==
    ASSUME NEW mode \in Scripts \ {"restore"}
    PROVE  TelemetryOf(mode) \in Telemetry
<1>1. CASE mode = "snapshot"
  <2>1. TelemetryOf(mode) = [ Guess(NoNumber, NoNumber, "unknown", "unknown", "unknown")
                                EXCEPT !.signal_quality = NoNumber ]
    BY <1>1 DEF TelemetryOf
  <2> QED
    BY <2>1 DEF Guess, Telemetry, NoNumber
<1>2. CASE mode = "baseline"
  <2> DEFINE g == Guess(90, 1, "up", "none", "none")
  <2>1. TelemetryOf(mode) = [ g EXCEPT !.signal_quality = 97, !.route_count = 5 ]
    BY <1>2 DEF TelemetryOf
  <2>2. g \in Telemetry
    BY DEF Guess, Telemetry
  <2> DEFINE h == [ g EXCEPT !.signal_quality = 97 ]
  <2>3. TelemetryOf(mode) = [ h EXCEPT !.route_count = 5 ]
    BY <2>1
  <2> HIDE DEF g
  <2>4. h \in Telemetry
    BY <2>2 DEF Telemetry
  <2> HIDE DEF h
  <2> QED
    BY <2>3, <2>4 DEF Telemetry
<1>3. CASE mode \in {"nat_failure", "dns_failure", "vpn_failure", "bgp_failure"}
  BY <1>3 DEF TelemetryOf, Guess, Telemetry
<1>4. CASE mode \in {"mtu_blackhole", "packet_loss", "high_latency", "failover"}
  BY <1>4 DEF TelemetryOf, Guess, Telemetry
<1> QED
  BY <1>1, <1>2, <1>3, <1>4 DEF Scripts, Injections

\* Of a field that is reported, only the value counts.
LEMMA JudgeReported ==
    ASSUME NEW c, NEW d, NEW t, d.telemetry = t, t \in Telemetry, c.field \in DOMAIN t
    PROVE  Judge(c, d) = IF ValMatches(t[c.field], c) THEN "met" ELSE "failed"
  BY DEF Judge

\* Keywords that are not in the pcap summary only weaken a finding.
LEMMA JudgeKeywords ==
    ASSUME NEW K, NEW d, d.telemetry \in Telemetry
    PROVE  Judge(Keywords(K), d) = IF K \cap d.pcap # {} THEN "met" ELSE "weakened"
  <1> DEFINE c == Keywords(K)
  <1>1. c.field = "pcap_keywords" /\ c.set = K
    BY DEF Keywords, Is
  <1> HIDE DEF c
  <1>2. c.field \notin DOMAIN d.telemetry /\ c.field \in DOMAIN Soft /\ c.field \notin Blocking
    BY <1>1 DEF Telemetry, Soft, Blocking
  <1>3. Inferred(c, d) <=> K \cap d.pcap # {}
    BY <1>1 DEF Inferred
  <1> QED
    BY <1>2, <1>3, Zenon DEF Judge, c

\* Which rules fire on what a script writes.
LEMMA WhatFires ==
    ASSUME NEW f \in Files, NEW p \in Pings, NEW t, t = TelemetryOf(f.mode)
    PROVE
      /\ 1 \in Findings(Diag(f, p)) <=> (t.link_state = "down" /\ t.packet_loss_percent >= 990)
      /\ 2 \in Findings(Diag(f, p)) <=> (t.packet_loss_percent >= 50 /\ t.link_state \in {"up", "degraded"})
      /\ 3 \in Findings(Diag(f, p)) <=> (t.signal_quality # NoNumber /\ t.signal_quality < 70)
      /\ 4 \in Findings(Diag(f, p)) <=> FALSE
      /\ 5 \in Findings(Diag(f, p)) <=> f.ifDown
      /\ 6 \in Findings(Diag(f, p)) <=> FALSE
      /\ 7 \in Findings(Diag(f, p)) <=> FALSE
      /\ 8 \in Findings(Diag(f, p)) <=> t.bgp_state \in {"active", "idle"}
      /\ 9 \in Findings(Diag(f, p)) <=> (f.mode # "baseline" => ~f.masquerade)
      /\ 10 \in Findings(Diag(f, p)) <=> t.vpn_state = "up"
      /\ 11 \in Findings(Diag(f, p)) <=> FALSE
      /\ 12 \in Findings(Diag(f, p)) <=> t.vpn_state = "down"
      /\ 13 \in Findings(Diag(f, p)) <=> t.packet_loss_percent >= 10
      /\ 14 \in Findings(Diag(f, p)) <=> t.packet_loss_percent >= 20
      /\ 15 \in Findings(Diag(f, p)) <=> f.mode = "dns_failure"
      /\ 16 \in Findings(Diag(f, p)) <=> t.latency_ms >= 200
<1> DEFINE d == Diag(f, p)
<1>1. /\ d.telemetry = t /\ d.ifDown = f.ifDown /\ (d.hasNat <=> f.mode # "baseline" /\ f.masquerade)
      /\ d.hasDefault = TRUE /\ d.pcap = IF f.mode = "dns_failure" THEN {"DNS"} ELSE {}
  BY DEF Diag
<1>2. t \in Telemetry
  BY Reported DEF Files
<1> HIDE DEF d
<1>3. 1 \in Findings(d) <=> (t.link_state = "down" /\ t.packet_loss_percent >= 990)
  <2> DEFINE b == Is("link_state", {"down"})
             c == Gte("packet_loss_percent", 990)
  <2>1. Judge(b, d) = IF t.link_state \in {"down"} THEN "met" ELSE "failed"
    BY <1>1, <1>2 DEF Judge, ValMatches, Telemetry, Is, Gte, Lte, Lt
  <2>2. Judge(c, d) = IF t.packet_loss_percent # NoNumber /\ t.packet_loss_percent >= 990 THEN "met" ELSE "failed"
    BY <1>1, <1>2 DEF Judge, ValMatches, Telemetry, Is, Gte, Lte, Lt
  <2>3. Rules[1] = Rule("L1_LINK_DOWN", "L1", 97, <<b, c>>)
    BY RuleNames, Zenon
  <2> HIDE DEF b, c
  <2> DEFINE jb == Judge(b, d)
             jc == Judge(c, d)
  <2>4. 1 \in Findings(d) <=> jb # "failed" /\ jc # "failed" /\ (jb = "met" \/ jc = "met")
    BY <2>3, FoundByTwo
  <2> QED
    BY <2>1, <2>2, <2>4, <1>2 DEF Telemetry, NoNumber
<1>4. 2 \in Findings(d) <=> (t.packet_loss_percent >= 50 /\ t.link_state \in {"up", "degraded"})
  <2> DEFINE b == Gte("packet_loss_percent", 50)
             c == Is("link_state", {"up", "degraded"})
  <2>1. Judge(b, d) = IF t.packet_loss_percent # NoNumber /\ t.packet_loss_percent >= 50 THEN "met" ELSE "failed"
    BY <1>1, <1>2 DEF Judge, ValMatches, Telemetry, Is, Gte, Lte, Lt
  <2>2. Judge(c, d) = IF t.link_state \in {"up", "degraded"} THEN "met" ELSE "failed"
    BY <1>1, <1>2 DEF Judge, ValMatches, Telemetry, Is, Gte, Lte, Lt
  <2>3. Rules[2] = Rule("L1_HIGH_LOSS", "L1", 88, <<b, c>>)
    BY RuleNames, Zenon
  <2> HIDE DEF b, c
  <2> DEFINE jb == Judge(b, d)
             jc == Judge(c, d)
  <2>4. 2 \in Findings(d) <=> jb # "failed" /\ jc # "failed" /\ (jb = "met" \/ jc = "met")
    BY <2>3, FoundByTwo
  <2> QED
    BY <2>1, <2>2, <2>4, <1>2 DEF Telemetry, NoNumber
<1>5. 3 \in Findings(d) <=> (t.signal_quality # NoNumber /\ t.signal_quality < 70)
  <2> DEFINE c == Lt("signal_quality", 70)
  <2>1. Judge(c, d) = IF t.signal_quality # NoNumber /\ t.signal_quality < 70 THEN "met" ELSE "failed"
    BY <1>1, <1>2 DEF Judge, ValMatches, Telemetry, Is, Gte, Lte, Lt
  <2>2. Rules[3] = Rule("L1_SIGNAL_DEGRADED", "L1", 82, <<c>>)
    BY RuleNames, Zenon
  <2> HIDE DEF c
  <2> DEFINE jc == Judge(c, d)
  <2>3. 3 \in Findings(d) <=> jc # "failed" /\ (jc = "met")
    BY <2>2, FoundByOne
  <2> QED
    BY <2>1, <2>3, <1>2 DEF Telemetry, NoNumber
<1>6. 4 \in Findings(d) <=> FALSE
  <2> DEFINE c == Gte("modem_temperature_c", 75)
  <2>1. Judge(c, d) = "ignored"
    BY <1>1, <1>2 DEF Judge, Telemetry, Flag, Is, Gte, Blocking, Soft
  <2>2. Rules[4] = Rule("L1_THERMAL", "L1", 79, <<c>>)
    BY RuleNames, Zenon
  <2> HIDE DEF c
  <2> DEFINE jc == Judge(c, d)
  <2>3. 4 \in Findings(d) <=> jc # "failed" /\ (jc = "met")
    BY <2>2, FoundByOne
  <2> QED
    BY <2>1, <2>3, <1>2 DEF Telemetry, NoNumber
<1>7. 5 \in Findings(d) <=> f.ifDown
  <2> DEFINE c == Flag("interface_down_keywords")
  <2>1. Judge(c, d) = IF f.ifDown THEN "met" ELSE "failed"
    BY <1>1, <1>2 DEF Judge, Telemetry, Flag, Is, Blocking, Soft, Inferred
  <2>2. Rules[5] = Rule("L2_INTERFACE_DOWN", "L2", 95, <<c>>)
    BY RuleNames, Zenon
  <2> HIDE DEF c
  <2> DEFINE jc == Judge(c, d)
  <2>3. 5 \in Findings(d) <=> jc # "failed" /\ (jc = "met")
    BY <2>2, FoundByOne
  <2> QED
    BY <2>1, <2>3, <1>2 DEF Telemetry, NoNumber
<1>8. 6 \in Findings(d) <=> FALSE
  <2> DEFINE b == Keywords({"who-has", "ARP", "no response"})
             c == Flag("ping_local_fail")
  <2>1. Judge(b, d) = "weakened"
    <3>1. {"who-has", "ARP", "no response"} \cap d.pcap = {}
      BY <1>1
    <3> QED
      BY <1>1, <1>2, <3>1, JudgeKeywords, Zenon
  <2>2. Judge(c, d) = "ignored"
    BY <1>1, <1>2 DEF Judge, Telemetry, Flag, Is, Gte, Blocking, Soft
  <2>3. Rules[6] = Rule("L2_ARP_FAILURE", "L2", 85, <<b, c>>)
    BY RuleNames, Zenon
  <2> HIDE DEF b, c
  <2> DEFINE jb == Judge(b, d)
             jc == Judge(c, d)
  <2>4. 6 \in Findings(d) <=> jb # "failed" /\ jc # "failed" /\ (jb = "met" \/ jc = "met")
    BY <2>3, FoundByTwo
  <2> QED
    BY <2>1, <2>2, <2>4, <1>2 DEF Telemetry, NoNumber
<1>9. 7 \in Findings(d) <=> FALSE
  <2> DEFINE b == Lte("route_count", 1)
             c == Flag("missing_default_route")
  <2>1. Judge(b, d) = IF t.route_count # NoNumber /\ t.route_count <= 1 THEN "met" ELSE "failed"
    BY <1>1, <1>2 DEF Judge, ValMatches, Telemetry, Is, Gte, Lte, Lt
  <2>2. Judge(c, d) = IF FALSE THEN "met" ELSE "failed"
    BY <1>1, <1>2 DEF Judge, Telemetry, Flag, Is, Blocking, Soft, Inferred
  <2>3. Rules[7] = Rule("L3_NO_DEFAULT_ROUTE", "L3", 93, <<b, c>>)
    BY RuleNames, Zenon
  <2> HIDE DEF b, c
  <2> DEFINE jb == Judge(b, d)
             jc == Judge(c, d)
  <2>4. 7 \in Findings(d) <=> jb # "failed" /\ jc # "failed" /\ (jb = "met" \/ jc = "met")
    BY <2>3, FoundByTwo
  <2> QED
    BY <2>1, <2>2, <2>4, <1>2 DEF Telemetry, NoNumber
<1>10. 8 \in Findings(d) <=> t.bgp_state \in {"active", "idle"}
  <2> DEFINE c == Is("bgp_state", {"active", "idle", "connect"})
  <2>1. Judge(c, d) = IF t.bgp_state \in {"active", "idle", "connect"} THEN "met" ELSE "failed"
    BY <1>1, <1>2 DEF Judge, ValMatches, Telemetry, Is, Gte, Lte, Lt
  <2>2. Rules[8] = Rule("L3_BGP_DOWN", "L3", 92, <<c>>)
    BY RuleNames, Zenon
  <2> HIDE DEF c
  <2> DEFINE jc == Judge(c, d)
  <2>3. 8 \in Findings(d) <=> jc # "failed" /\ (jc = "met")
    BY <2>2, FoundByOne
  <2> QED
    BY <2>1, <2>3, <1>2 DEF Telemetry, NoNumber
<1>11. 9 \in Findings(d) <=> (f.mode # "baseline" => ~f.masquerade)
  <2> DEFINE c == Flag("nat_masquerade_missing")
  <2>1. Judge(c, d) = IF f.mode # "baseline" => ~f.masquerade THEN "met" ELSE "failed"
    BY <1>1, <1>2 DEF Judge, Telemetry, Flag, Is, Blocking, Soft, Inferred
  <2>2. Rules[9] = Rule("L3_NAT_BROKEN", "L3", 91, <<c>>)
    BY RuleNames, Zenon
  <2> HIDE DEF c
  <2> DEFINE jc == Judge(c, d)
  <2>3. 9 \in Findings(d) <=> jc # "failed" /\ (jc = "met")
    BY <2>2, FoundByOne
  <2> QED
    BY <2>1, <2>3, <1>2 DEF Telemetry, NoNumber
<1>12. 10 \in Findings(d) <=> t.vpn_state = "up"
  <2> DEFINE a == Flag("large_ping_fail")
             b == Flag("small_ping_success")
             c == Is("vpn_state", {"up"})
  <2>1. Judge(a, d) # "failed"
    BY <1>1, <1>2 DEF Judge, Telemetry, Flag, Is, Blocking, Soft
  <2>2. Judge(b, d) # "failed"
    BY <1>1, <1>2 DEF Judge, Telemetry, Flag, Is, Blocking, Soft
  <2>3. Judge(c, d) = IF t.vpn_state \in {"up"} THEN "met" ELSE "failed"
    BY <1>1, <1>2 DEF Judge, ValMatches, Telemetry, Is, Gte, Lte, Lt
  <2>4. Rules[10] = Rule("L3_MTU_BLACKHOLE", "L3", 91, <<a, b, c>>)
    BY RuleNames, Zenon
  <2> HIDE DEF a, b, c
  <2> DEFINE ja == Judge(a, d)
             jb == Judge(b, d)
             jc == Judge(c, d)
  <2>5. 10 \in Findings(d) <=> ja # "failed" /\ jb # "failed" /\ jc # "failed" /\ (ja = "met" \/ jb = "met" \/ jc = "met")
    BY <2>4, FoundByThree
  <2> QED
    BY <2>1, <2>2, <2>3, <2>5, <1>2 DEF Telemetry, NoNumber
<1>13. 11 \in Findings(d) <=> FALSE
  <2> DEFINE b == Keywords({"SYN without SYN-ACK", "asymmetric"})
             c == Flag("traceroute_different_paths")
  <2>1. Judge(b, d) = IF FALSE THEN "met" ELSE "weakened"
    BY <1>1, <1>2, JudgeKeywords
  <2>2. Judge(c, d) = "ignored"
    BY <1>1, <1>2 DEF Judge, Telemetry, Flag, Is, Gte, Blocking, Soft
  <2>3. Rules[11] = Rule("L3_ASYMMETRIC_ROUTING", "L3", 78, <<b, c>>)
    BY RuleNames, Zenon
  <2> HIDE DEF b, c
  <2> DEFINE jb == Judge(b, d)
             jc == Judge(c, d)
  <2>4. 11 \in Findings(d) <=> jb # "failed" /\ jc # "failed" /\ (jb = "met" \/ jc = "met")
    BY <2>3, FoundByTwo
  <2> QED
    BY <2>1, <2>2, <2>4, <1>2 DEF Telemetry, NoNumber
<1>14. 12 \in Findings(d) <=> t.vpn_state = "down"
  <2> DEFINE b == Is("vpn_state", {"down", "handshaking"})
             c == Keywords({"UDP", "no response", "51820"})
  <2>1. Judge(b, d) = IF t.vpn_state \in {"down", "handshaking"} THEN "met" ELSE "failed"
    BY <1>1, <1>2 DEF Judge, ValMatches, Telemetry, Is, Gte, Lte, Lt
  <2>2. Judge(c, d) = "weakened"
    <3>1. {"UDP", "no response", "51820"} \cap d.pcap = {}
      BY <1>1
    <3> QED
      BY <1>1, <1>2, <3>1, JudgeKeywords, Zenon
  <2>3. Rules[12] = Rule("L4_VPN_BLOCKED", "L4", 90, <<b, c>>)
    BY RuleNames, Zenon
  <2> HIDE DEF b, c
  <2> DEFINE jb == Judge(b, d)
             jc == Judge(c, d)
  <2>4. 12 \in Findings(d) <=> jb # "failed" /\ jc # "failed" /\ (jb = "met" \/ jc = "met")
    BY <2>3, FoundByTwo
  <2> QED
    BY <2>1, <2>2, <2>4, <1>2 DEF Telemetry, NoNumber
<1>15. 13 \in Findings(d) <=> t.packet_loss_percent >= 10
  <2> DEFINE b == Gte("packet_loss_percent", 10)
             c == Keywords({"TCP Retransmission", "Dup ACK"})
  <2>1. Judge(b, d) = IF t.packet_loss_percent # NoNumber /\ t.packet_loss_percent >= 10 THEN "met" ELSE "failed"
    BY <1>1, <1>2 DEF Judge, ValMatches, Telemetry, Is, Gte, Lte, Lt
  <2>2. Judge(c, d) = IF FALSE THEN "met" ELSE "weakened"
    BY <1>1, <1>2, JudgeKeywords
  <2>3. Rules[13] = Rule("L4_HIGH_RETRANSMISSIONS", "L4", 87, <<b, c>>)
    BY RuleNames, Zenon
  <2> HIDE DEF b, c
  <2> DEFINE jb == Judge(b, d)
             jc == Judge(c, d)
  <2>4. 13 \in Findings(d) <=> jb # "failed" /\ jc # "failed" /\ (jb = "met" \/ jc = "met")
    BY <2>3, FoundByTwo
  <2> QED
    BY <2>1, <2>2, <2>4, <1>2 DEF Telemetry, NoNumber
<1>16. 14 \in Findings(d) <=> t.packet_loss_percent >= 20
  <2> DEFINE b == Gte("packet_loss_percent", 20)
             c == Is("application_protocol", {"UDP", "QUIC", "RTP"})
  <2>1. Judge(b, d) = IF t.packet_loss_percent # NoNumber /\ t.packet_loss_percent >= 20 THEN "met" ELSE "failed"
    BY <1>1, <1>2 DEF Judge, ValMatches, Telemetry, Is, Gte, Lte, Lt
  <2>2. Judge(c, d) = "ignored"
    BY <1>1, <1>2 DEF Judge, Telemetry, Flag, Is, Gte, Blocking, Soft
  <2>3. Rules[14] = Rule("L4_UDP_LOSS", "L4", 83, <<b, c>>)
    BY RuleNames, Zenon
  <2> HIDE DEF b, c
  <2> DEFINE jb == Judge(b, d)
             jc == Judge(c, d)
  <2>4. 14 \in Findings(d) <=> jb # "failed" /\ jc # "failed" /\ (jb = "met" \/ jc = "met")
    BY <2>3, FoundByTwo
  <2> QED
    BY <2>1, <2>2, <2>4, <1>2 DEF Telemetry, NoNumber
<1>17. 15 \in Findings(d) <=> f.mode = "dns_failure"
  <2> DEFINE b == Keywords({"DNS", "no response", "NXDOMAIN"})
             c == Flag("dns_queries_unanswered")
  <2>1. Judge(b, d) = IF f.mode = "dns_failure" THEN "met" ELSE "weakened"
    <3> DEFINE K == {"DNS", "no response", "NXDOMAIN"}
    <3>1. K \cap d.pcap # {} <=> f.mode = "dns_failure"
      BY <1>1
    <3> HIDE DEF K
    <3>2. Judge(Keywords(K), d) = IF K \cap d.pcap # {} THEN "met" ELSE "weakened"
      BY <1>1, <1>2, JudgeKeywords
    <3> QED
      BY <3>1, <3>2, Zenon DEF K
  <2>2. Judge(c, d) = "ignored"
    BY <1>1, <1>2 DEF Judge, Telemetry, Flag, Is, Gte, Blocking, Soft
  <2>3. Rules[15] = Rule("L7_DNS_FAILURE", "L7", 93, <<b, c>>)
    BY RuleNames, Zenon
  <2> HIDE DEF b, c
  <2> DEFINE jb == Judge(b, d)
             jc == Judge(c, d)
  <2>4. 15 \in Findings(d) <=> jb # "failed" /\ jc # "failed" /\ (jb = "met" \/ jc = "met")
    BY <2>3, FoundByTwo
  <2> QED
    BY <2>1, <2>2, <2>4, <1>2 DEF Telemetry, NoNumber
<1>18. 16 \in Findings(d) <=> t.latency_ms >= 200
  <2> DEFINE b == Gte("latency_ms", 200)
             c == Flag("application_timeout")
  <2>1. Judge(b, d) = IF t.latency_ms # NoNumber /\ t.latency_ms >= 200 THEN "met" ELSE "failed"
    BY <1>1, <1>2 DEF Judge, ValMatches, Telemetry, Is, Gte, Lte, Lt
  <2>2. Judge(c, d) = "ignored"
    BY <1>1, <1>2 DEF Judge, Telemetry, Flag, Is, Gte, Blocking, Soft
  <2>3. Rules[16] = Rule("L7_APP_TIMEOUT", "L7", 85, <<b, c>>)
    BY RuleNames, Zenon
  <2> HIDE DEF b, c
  <2> DEFINE jb == Judge(b, d)
             jc == Judge(c, d)
  <2>4. 16 \in Findings(d) <=> jb # "failed" /\ jc # "failed" /\ (jb = "met" \/ jc = "met")
    BY <2>3, FoundByTwo
  <2> QED
    BY <2>1, <2>2, <2>4, <1>2 DEF Telemetry, NoNumber
<1> QED
  BY <1>3, <1>4, <1>5, <1>6, <1>7, <1>8, <1>9, <1>10, <1>11, <1>12, <1>13, <1>14, <1>15, <1>16, <1>17, <1>18, Zenon DEF d

\* What each of the rules reports, and how sure it is.
LEMMA RuleIds ==
    /\ Rules[1].id = "L1_LINK_DOWN" /\ Rules[1].confidence = 97
    /\ Rules[2].id = "L1_HIGH_LOSS" /\ Rules[2].confidence = 88
    /\ Rules[3].id = "L1_SIGNAL_DEGRADED" /\ Rules[3].confidence = 82
    /\ Rules[4].id = "L1_THERMAL" /\ Rules[4].confidence = 79
    /\ Rules[5].id = "L2_INTERFACE_DOWN" /\ Rules[5].confidence = 95
    /\ Rules[6].id = "L2_ARP_FAILURE" /\ Rules[6].confidence = 85
    /\ Rules[7].id = "L3_NO_DEFAULT_ROUTE" /\ Rules[7].confidence = 93
    /\ Rules[8].id = "L3_BGP_DOWN" /\ Rules[8].confidence = 92
    /\ Rules[9].id = "L3_NAT_BROKEN" /\ Rules[9].confidence = 91
    /\ Rules[10].id = "L3_MTU_BLACKHOLE" /\ Rules[10].confidence = 91
    /\ Rules[11].id = "L3_ASYMMETRIC_ROUTING" /\ Rules[11].confidence = 78
    /\ Rules[12].id = "L4_VPN_BLOCKED" /\ Rules[12].confidence = 90
    /\ Rules[13].id = "L4_HIGH_RETRANSMISSIONS" /\ Rules[13].confidence = 87
    /\ Rules[14].id = "L4_UDP_LOSS" /\ Rules[14].confidence = 83
    /\ Rules[15].id = "L7_DNS_FAILURE" /\ Rules[15].confidence = 93
    /\ Rules[16].id = "L7_APP_TIMEOUT" /\ Rules[16].confidence = 85
<1>1. /\ Layer1[1].id = "L1_LINK_DOWN" /\ Layer1[1].confidence = 97
     /\ Layer1[2].id = "L1_HIGH_LOSS" /\ Layer1[2].confidence = 88
     /\ Layer1[3].id = "L1_SIGNAL_DEGRADED" /\ Layer1[3].confidence = 82
     /\ Layer1[4].id = "L1_THERMAL" /\ Layer1[4].confidence = 79
  BY DEF Layer1, Rule
<1>2. /\ Layer2[1].id = "L2_INTERFACE_DOWN" /\ Layer2[1].confidence = 95
     /\ Layer2[2].id = "L2_ARP_FAILURE" /\ Layer2[2].confidence = 85
  BY DEF Layer2, Rule
<1>3. /\ Layer3[1].id = "L3_NO_DEFAULT_ROUTE" /\ Layer3[1].confidence = 93
     /\ Layer3[2].id = "L3_BGP_DOWN" /\ Layer3[2].confidence = 92
     /\ Layer3[3].id = "L3_NAT_BROKEN" /\ Layer3[3].confidence = 91
     /\ Layer3[4].id = "L3_MTU_BLACKHOLE" /\ Layer3[4].confidence = 91
     /\ Layer3[5].id = "L3_ASYMMETRIC_ROUTING" /\ Layer3[5].confidence = 78
  BY DEF Layer3, Rule
<1>4. /\ Layer4[1].id = "L4_VPN_BLOCKED" /\ Layer4[1].confidence = 90
     /\ Layer4[2].id = "L4_HIGH_RETRANSMISSIONS" /\ Layer4[2].confidence = 87
     /\ Layer4[3].id = "L4_UDP_LOSS" /\ Layer4[3].confidence = 83
  BY DEF Layer4, Rule
<1>5. /\ Layer7[1].id = "L7_DNS_FAILURE" /\ Layer7[1].confidence = 93
     /\ Layer7[2].id = "L7_APP_TIMEOUT" /\ Layer7[2].confidence = 85
  BY DEF Layer7, Rule
<1>6. /\ Rules[1] = Layer1[1] /\ Rules[2] = Layer1[2] /\ Rules[3] = Layer1[3] /\ Rules[4] = Layer1[4]
     /\ Rules[5] = Layer2[1] /\ Rules[6] = Layer2[2]
     /\ Rules[7] = Layer3[1] /\ Rules[8] = Layer3[2] /\ Rules[9] = Layer3[3] /\ Rules[10] = Layer3[4] /\ Rules[11] = Layer3[5]
     /\ Rules[12] = Layer4[1] /\ Rules[13] = Layer4[2] /\ Rules[14] = Layer4[3]
     /\ Rules[15] = Layer7[1] /\ Rules[16] = Layer7[2]
  BY RuleList
<1> QED
  BY <1>1, <1>2, <1>3, <1>4, <1>5, <1>6

\* The findings as a set of positions.
LEMMA FindingsWithin == ASSUME NEW d PROVE Findings(d) \subseteq 1 .. 16
  BY RuleList DEF Findings

\* Whatever else is wrong in the lab, the rule for the injected failure fires
\* on what the injecting script writes of it.
LEMMA FaultRule ==
    ASSUME NEW f \in Files, NEW p \in Pings, f.mode \in DOMAIN RuleFor,
           f.mode = "nat_failure" => ~f.masquerade
    PROVE  RuleFor[f.mode] \in FindingIds(Diag(f, p))
<1> DEFINE d == Diag(f, p)
           t == TelemetryOf(f.mode)
<1>1. /\ t.packet_loss_percent >= 990 /\ t.link_state = "down" => 1 \in Findings(d)
      /\ t.packet_loss_percent >= 50 /\ t.link_state \in {"up", "degraded"} => 2 \in Findings(d)
      /\ t.bgp_state \in {"active", "idle"} => 8 \in Findings(d)
      /\ (f.mode # "baseline" => ~f.masquerade) => 9 \in Findings(d)
      /\ t.vpn_state = "up" => 10 \in Findings(d)
      /\ t.vpn_state = "down" => 12 \in Findings(d)
      /\ f.mode = "dns_failure" => 15 \in Findings(d)
  BY WhatFires
<1> HIDE DEF d
<1>2. CASE f.mode = "nat_failure"
  <2>1. 9 \in Findings(d)
    BY <1>1, <1>2 DEF TelemetryOf, Guess
  <2>2. RuleFor[f.mode] = Rules[9].id
    BY <1>2, RuleIds DEF RuleFor
  <2> QED
    BY <2>1, <2>2, Zenon DEF FindingIds, d
<1>3. CASE f.mode = "vpn_failure"
  <2>1. 12 \in Findings(d)
    BY <1>1, <1>3 DEF TelemetryOf, Guess
  <2>2. RuleFor[f.mode] = Rules[12].id
    BY <1>3, RuleIds DEF RuleFor
  <2> QED
    BY <2>1, <2>2, Zenon DEF FindingIds, d
<1>4. CASE f.mode = "bgp_failure"
  <2>1. 8 \in Findings(d)
    BY <1>1, <1>4 DEF TelemetryOf, Guess
  <2>2. RuleFor[f.mode] = Rules[8].id
    BY <1>4, RuleIds DEF RuleFor
  <2> QED
    BY <2>1, <2>2, Zenon DEF FindingIds, d
<1>5. CASE f.mode = "mtu_blackhole"
  <2>1. 10 \in Findings(d)
    BY <1>1, <1>5 DEF TelemetryOf, Guess
  <2>2. RuleFor[f.mode] = Rules[10].id
    BY <1>5, RuleIds DEF RuleFor
  <2> QED
    BY <2>1, <2>2, Zenon DEF FindingIds, d
<1>6. CASE f.mode = "packet_loss"
  <2>1. 2 \in Findings(d)
    BY <1>1, <1>6 DEF TelemetryOf, Guess
  <2>2. RuleFor[f.mode] = Rules[2].id
    BY <1>6, RuleIds DEF RuleFor
  <2> QED
    BY <2>1, <2>2, Zenon DEF FindingIds, d
<1>8. CASE f.mode = "dns_failure"
  <2>1. 15 \in Findings(d)
    BY <1>1, <1>8 DEF TelemetryOf, Guess
  <2>2. RuleFor[f.mode] = Rules[15].id
    BY <1>8, RuleIds DEF RuleFor
  <2> QED
    BY <2>1, <2>2, Zenon DEF FindingIds, d
<1>9. CASE f.mode = "failover"
  <2>1. 1 \in Findings(d)
    BY <1>1, <1>9 DEF TelemetryOf, Guess
  <2>2. RuleFor[f.mode] = Rules[1].id
    BY <1>9, RuleIds DEF RuleFor
  <2> QED
    BY <2>1, <2>2, Zenon DEF FindingIds, d
<1> QED
  BY <1>2, <1>3, <1>4, <1>5, <1>6, <1>8, <1>9 DEF RuleFor

\* What is unknown is no failure.
LEMMA SnapshotFindings ==
    ASSUME NEW f \in Files, NEW p \in Pings, f.mode = "snapshot"
    PROVE  FindingIds(Diag(f, p)) =
              (IF f.masquerade THEN {} ELSE {"L3_NAT_BROKEN"})
                \cup (IF f.ifDown THEN {"L2_INTERFACE_DOWN"} ELSE {})
<1> DEFINE d == Diag(f, p)
           t == TelemetryOf(f.mode)
<1>1. /\ t.latency_ms = NoNumber /\ t.packet_loss_percent = NoNumber /\ t.signal_quality = NoNumber
      /\ t.link_state = "unknown" /\ t.vpn_state = "unknown" /\ t.bgp_state = "unknown"
  <2>1. t = [ Guess(NoNumber, NoNumber, "unknown", "unknown", "unknown")
                EXCEPT !.signal_quality = NoNumber ]
    BY DEF TelemetryOf
  <2> QED
    BY <2>1 DEF Guess
<1> HIDE DEF d, t
<1>2. ASSUME NEW n \in Findings(d)
      PROVE  (n = 5 /\ f.ifDown) \/ (n = 9 /\ ~f.masquerade)
  <2>1. n \in 1 .. 16
    BY FindingsWithin
  <2> QED
    BY <1>1, <1>2, <2>1, WhatFires DEF NoNumber, d, t
<1>3. (f.ifDown => 5 \in Findings(d)) /\ (~f.masquerade => 9 \in Findings(d))
  BY WhatFires DEF d
<1>4. Rules[5].id = "L2_INTERFACE_DOWN" /\ Rules[9].id = "L3_NAT_BROKEN"
  BY RuleIds
<1> QED
  BY <1>2, <1>3, <1>4 DEF FindingIds, d

\* nat_failure has taken the NAT rule away when it writes its diagnostics, unless
\* its command failed.
FaultInv == script = "nat_failure" /\ at > 1 => lab.nat = {} \/ "nat" \in failed

\* nat_failure deletes the NAT rule before it writes its file.
LEMMA FaultStep == LabTypeOK /\ FaultInv /\ [LabNext]_labVars => FaultInv'
<1> SUFFICES ASSUME LabTypeOK, FaultInv, [LabNext]_labVars PROVE FaultInv'
  OBVIOUS
<1>1. CASE UNCHANGED labVars
  BY <1>1 DEF labVars, FaultInv
<1>2. ASSUME NEW s \in Scripts, StartScript(s) PROVE FaultInv'
  BY <1>2 DEF StartScript, FaultInv
<1>3. /\ Commands["nat_failure"] = << Cmd("nat_del", "ce"), Cmd("delete", "accept"), Open, Dump >>
      /\ Len(Commands["nat_failure"]) = 4
      /\ script = "nat_failure" => at \in 1 .. 4
  <2>1. /\ Commands["nat_failure"] = << Cmd("nat_del", "ce"), Cmd("delete", "accept"), Open, Dump >>
        /\ Len(Commands["nat_failure"]) = 4
    BY DEF Commands
  <2>2. script = "nat_failure" => at \in 1 .. 12 /\ at <= Len(Commands["nat_failure"])
    BY DEF LabTypeOK, Idle
  <2> QED
    BY <2>1, <2>2
<1>4. CASE RunCommand
  <2>1. ASSUME script' = "nat_failure", at' > 1 PROVE lab'.nat = {} \/ "nat" \in failed'
    <3>1. script = "nat_failure" /\ at \in {1, 2, 3} /\ at' = at + 1
      <4>1. script = "nat_failure"
        BY <1>4, <2>1 DEF RunCommand, Advance, Idle
      <4>2. at' = at + 1 /\ at < 4 /\ at \in 1 .. 4
        BY <1>3, <1>4, <2>1, <4>1 DEF RunCommand, Advance, Idle
      <4> QED
        BY <4>1, <4>2
    <3>2. \/ lab' = Exec(Commands["nat_failure"][at], lab) /\ failed' = failed
          \/ lab' = lab /\ failed' = failed \cup {PartOf[Commands["nat_failure"][at].op]}
      BY <1>4, <3>1 DEF RunCommand, Next1
    <3>3. CASE at = 1
      BY <1>3, <3>2, <3>3 DEF Exec, Cmd, PartOf
    <3>4. CASE at # 1
      BY <1>3, <3>1, <3>2, <3>4 DEF Exec, Cmd, Open, FaultInv
    <3> QED
      BY <3>3, <3>4
  <2> QED
    BY <1>4, <2>1 DEF FaultInv
<1>5. ASSUME Ping \/ RequiredPing \/ OpenFile \/ DumpFile \/ Interrupt
      PROVE  FaultInv'
  <2>1. script = "nat_failure" /\ script' = "nat_failure" => at > 1
    <3>1. script = "nat_failure" /\ at = 1 =>
             Next1.op \notin {"ping_small", "ping_large", "ping_required", "open", "dump"}
      BY <1>3 DEF Next1, Cmd
    <3>2. script' = "nat_failure" =>
             Next1.op \in {"ping_small", "ping_large", "ping_required", "open", "dump"}
      BY <1>5 DEF Ping, RequiredPing, OpenFile, DumpFile, Interrupt, Idle
    <3> QED
      BY <1>3, <3>1, <3>2
  <2>2. script' \in {script, Idle}
    BY <1>5 DEF Ping, RequiredPing, OpenFile, DumpFile, Interrupt, Advance
  <2>3. UNCHANGED <<lab, failed>>
    BY <1>5 DEF Ping, RequiredPing, OpenFile, DumpFile, Interrupt
  <2> QED
    BY <2>1, <2>2, <2>3 DEF FaultInv, Idle
<1> QED
  BY <1>1, <1>2, <1>4, <1>5 DEF LabNext

\* The lab goes its way whether the monitor looks or not.
LEMMA LabRuns == Spec => LabSpec
<1>1. Init => LabInit
  BY DEF Init
<1>2. [Next]_vars => [LabNext]_labVars
  BY DEF Next, Refresh, vars, labVars
<1> QED
  BY <1>1, <1>2, PTL DEF Spec, LabSpec

LEMMA FaultInvariance == LabSpec => []FaultInv
<1>1. LabInit => FaultInv
  BY DEF LabInit, FaultInv, Idle
<1> QED
  BY <1>1, FaultStep, LabTypes, PTL DEF LabSpec

LEMMA DiagInvariance == Spec => []DiagInv
  BY InitDiag, StepDiag, LabRuns, LabInvariance, PTL DEF Spec

\* The failure a file was written for is found in it, whatever other failures
\* were left in the lab (write_diagnostics.py, root_cause_analyzer.py:93-197).
THEOREM FaultFound == Spec => []FaultIsFound
<1>1. DiagInv => FaultIsFound
  BY FaultRule DEF DiagInv, FaultIsFound
<1> QED
  BY <1>1, DiagInvariance, PTL

\* Nothing that is unknown counts as a failure (collect_diagnostics.sh:51-72).
THEOREM SnapshotHonest == Spec => []SnapshotIsHonest
<1>1. DiagInv => SnapshotIsHonest
  BY SnapshotFindings DEF DiagInv, SnapshotIsHonest
<1> QED
  BY <1>1, DiagInvariance, PTL

\* Soft conditions only lower a confidence.
LEMMA ConfidenceBound ==
    ASSUME NEW d, NEW r, NEW k \in Nat, r.confidence = k
    PROVE  /\ Confidence(r, d) \in Int /\ Confidence(r, d) <= k * 1000000
           /\ (\A i \in DOMAIN r.match : r.match[i].field \notin DOMAIN Soft)
                => Confidence(r, d) = k * 1000000
  <1> DEFINE Weak(f) == \E i \in DOMAIN r.match :
                            r.match[i].field = f /\ Judge(r.match[i], d) = "weakened"
             Factor(f) == IF Weak(f) THEN Soft[f] ELSE 100
             x == Factor("pcap_keywords")
             y == Factor("large_ping_fail")
             z == Factor("small_ping_success")
  <1>1. Confidence(r, d) = k * x * y * z
    BY DEF Confidence
  <1>2. (\A i \in DOMAIN r.match : r.match[i].field \notin DOMAIN Soft)
           => x = 100 /\ y = 100 /\ z = 100
    BY DEF Soft
  <1>3. x \in {75, 100} /\ y \in {70, 100} /\ z \in {70, 100}
    BY DEF Soft
  <1> HIDE DEF x, y, z
  <1>4. k * x * y * z \in Int /\ k * x * y * z <= k * 1000000
    BY <1>3
  <1> QED
    BY <1>1, <1>2, <1>4

\* A finding of more confidence than any other is the probable cause.
LEMMA TopLemma ==
    ASSUME NEW d, NEW n \in Findings(d), \A m \in 1 .. 16 : Confidence(Rules[m], d) \in Int,
           \A m \in Findings(d) \ {n} : Confidence(Rules[m], d) < Confidence(Rules[n], d)
    PROVE  TopFinding(d) = Rules[n].id
  <1> DEFINE c(m) == Confidence(Rules[m], d)
             First(k) == \A m \in Findings(d) \ {k} : c(k) > c(m) \/ (c(k) = c(m) /\ k < m)
             top == CHOOSE k \in Findings(d) : First(k)
  <1>1. \A m \in Findings(d) : c(m) \in Int
    BY FindingsWithin
  <1> HIDE DEF c
  <1>2. First(n)
    BY <1>1 DEF c
  <1>3. \A k \in Findings(d) : First(k) => k = n
    BY <1>1 DEF c
  <1> HIDE DEF First
  <1>4. top = n
    BY <1>2, <1>3
  <1>5. TopFinding(d) = Rules[top].id
    BY DEF TopFinding, First, c
  <1> QED
    BY <1>4, <1>5

\* In a lab that has its NAT and its links, the rule for the injected failure is
\* above all others.
LEMMA FaultTops ==
    ASSUME NEW f \in Files, NEW p \in Pings, f.mode \in DOMAIN RuleFor, ~f.ifDown,
           f.masquerade <=> f.mode # "nat_failure"
    PROVE  TopFinding(Diag(f, p)) = RuleFor[f.mode]
<1> DEFINE d == Diag(f, p)
           t == TelemetryOf(f.mode)
           c(n) == Confidence(Rules[n], d)
<1>1. /\ \A n \in 1 .. 16 : c(n) \in Int
      /\ c(1) = 97000000 /\ c(2) = 88000000
      /\ c(3) <= 82000000 /\ c(8) <= 92000000 /\ c(12) <= 90000000
      /\ c(13) <= 87000000 /\ c(14) <= 83000000
  <2>1. ASSUME NEW n \in 1 .. 16 PROVE Rules[n].confidence \in Nat
    BY RuleIds
  <2>2. \A n \in 1 .. 16 : c(n) \in Int /\ c(n) <= Rules[n].confidence * 1000000
    BY <2>1, ConfidenceBound
  <2>3. \A n \in {1, 2} : \A i \in DOMAIN Rules[n].match : Rules[n].match[i].field \notin DOMAIN Soft
    <3>1. /\ Rules[1].match = << Is("link_state", {"down"}), Gte("packet_loss_percent", 990) >>
          /\ Rules[2].match = << Gte("packet_loss_percent", 50), Is("link_state", {"up", "degraded"}) >>
      BY RuleList DEF Layer1, Rule
    <3> QED
      BY <3>1 DEF Is, Gte, Soft
  <2>4. \A n \in {1, 2} : c(n) = Rules[n].confidence * 1000000
    BY <2>1, <2>3, ConfidenceBound
  <2> HIDE DEF c
  <2> QED
    BY <2>2, <2>4, RuleIds
<1> HIDE DEF c
<1>2. ASSUME NEW n \in Findings(d), RuleFor[f.mode] = Rules[n].id,
             \A m \in Findings(d) \ {n} : c(m) < c(n)
      PROVE  TopFinding(d) = RuleFor[f.mode]
  BY <1>1, <1>2, TopLemma DEF c
<1>3. Findings(d) \subseteq 1 .. 16
  BY FindingsWithin
<1>4. /\ 1 \in Findings(d) <=> (t.link_state = "down" /\ t.packet_loss_percent >= 990)
      /\ 2 \in Findings(d) <=> (t.packet_loss_percent >= 50 /\ t.link_state \in {"up", "degraded"})
      /\ 3 \in Findings(d) <=> (t.signal_quality # NoNumber /\ t.signal_quality < 70)
      /\ {4, 5, 6, 7, 11} \cap Findings(d) = {}
      /\ 8 \in Findings(d) <=> t.bgp_state \in {"active", "idle"}
      /\ 9 \in Findings(d) <=> f.mode = "nat_failure"
      /\ 10 \in Findings(d) <=> t.vpn_state = "up"
      /\ 12 \in Findings(d) <=> t.vpn_state = "down"
      /\ 13 \in Findings(d) <=> t.packet_loss_percent >= 10
      /\ 14 \in Findings(d) <=> t.packet_loss_percent >= 20
      /\ 15 \in Findings(d) <=> f.mode = "dns_failure"
      /\ 16 \in Findings(d) <=> t.latency_ms >= 200
  BY WhatFires DEF RuleFor
<1> HIDE DEF d
<1>5. CASE f.mode = "nat_failure"
  <2>1. Findings(d) = {9}
    BY <1>3, <1>4, <1>5 DEF TelemetryOf, Guess, NoNumber
  <2>2. RuleFor[f.mode] = Rules[9].id
    BY <1>5, RuleIds DEF RuleFor
  <2> QED
    BY <1>1, <1>2, <2>1, <2>2 DEF d
<1>6. CASE f.mode = "vpn_failure"
  <2>1. Findings(d) = {12}
    BY <1>3, <1>4, <1>6 DEF TelemetryOf, Guess, NoNumber
  <2>2. RuleFor[f.mode] = Rules[12].id
    BY <1>6, RuleIds DEF RuleFor
  <2> QED
    BY <1>1, <1>2, <2>1, <2>2 DEF d
<1>7. CASE f.mode = "bgp_failure"
  <2>1. Findings(d) = {8}
    BY <1>3, <1>4, <1>7 DEF TelemetryOf, Guess, NoNumber
  <2>2. RuleFor[f.mode] = Rules[8].id
    BY <1>7, RuleIds DEF RuleFor
  <2> QED
    BY <1>1, <1>2, <2>1, <2>2 DEF d
<1>8. CASE f.mode = "mtu_blackhole"
  <2>1. Findings(d) = {10}
    BY <1>3, <1>4, <1>8 DEF TelemetryOf, Guess, NoNumber
  <2>2. RuleFor[f.mode] = Rules[10].id
    BY <1>8, RuleIds DEF RuleFor
  <2> QED
    BY <1>1, <1>2, <2>1, <2>2 DEF d
<1>9. CASE f.mode = "packet_loss"
  <2>1. Findings(d) = {2, 13, 14}
    BY <1>3, <1>4, <1>9 DEF TelemetryOf, Guess, NoNumber
  <2>2. RuleFor[f.mode] = Rules[2].id
    BY <1>9, RuleIds DEF RuleFor
  <2> QED
    BY <1>1, <1>2, <2>1, <2>2 DEF d
<1>11. CASE f.mode = "dns_failure"
  <2>1. Findings(d) = {15}
    BY <1>3, <1>4, <1>11 DEF TelemetryOf, Guess, NoNumber
  <2>2. RuleFor[f.mode] = Rules[15].id
    BY <1>11, RuleIds DEF RuleFor
  <2> QED
    BY <1>1, <1>2, <2>1, <2>2 DEF d
<1>12. CASE f.mode = "failover"
  <2>1. Findings(d) = {1, 3, 8, 12, 13, 14}
    BY <1>3, <1>4, <1>12 DEF TelemetryOf, Guess, NoNumber
  <2>2. RuleFor[f.mode] = Rules[1].id
    BY <1>12, RuleIds DEF RuleFor
  <2> QED
    BY <1>1, <1>2, <2>1, <2>2 DEF d
<1> QED
  BY <1>5, <1>6, <1>7, <1>8, <1>9, <1>11, <1>12 DEF RuleFor

\* What the scripts of the injections leave alone: but for nat_failure, the NAT;
\* but for failover, the links, which it sets up again.
LEMMA Gentle ==
    ASSUME NEW s \in Injections, NEW n \in 1 .. Len(Commands[s])
    PROVE  /\ Commands[s][n].op \in {"nat_del", "nat_flush"} => s = "nat_failure"
           /\ Commands[s][n].op = "down" => s = "failover" /\ n < 3
           /\ s = "failover" /\ n = 3 => Commands[s][n] = Cmd("up", "eth0")
           /\ s = "failover" /\ n = 4 => Commands[s][n] = Cmd("up", "eth1")
           /\ s = "failover" /\ n < 5 => Commands[s][n].op \in {"up", "down"}
<1>1. CASE s = "nat_failure"
  BY <1>1 DEF Commands, Cmd, Open, Dump
<1>2. CASE s = "vpn_failure"
  BY <1>2 DEF Commands, Cmd, Open, Dump
<1>3. CASE s = "bgp_failure"
  BY <1>3 DEF Commands, Cmd, Open, Dump
<1>4. CASE s = "mtu_blackhole"
  BY <1>4 DEF Commands, Cmd, Open, Dump
<1>5. CASE s = "packet_loss"
  BY <1>5 DEF Commands, Cmd, Open, Dump
<1>6. CASE s = "high_latency"
  BY <1>6 DEF Commands, Cmd, Open, Dump
<1>7. CASE s = "dns_failure"
  BY <1>7 DEF Commands, Cmd, Open, Dump
<1>8. CASE s = "failover"
  BY <1>8 DEF Commands, Cmd, Open, Dump
<1> QED
  BY <1>1, <1>2, <1>3, <1>4, <1>5, <1>6, <1>7, <1>8 DEF Injections

\* A lab that had its NAT and its links when an injection began has them still,
\* but for what the injection takes away.
FoundInv ==
    script \in Injections =>
        /\ asFound.nat # {} /\ script # "nat_failure" => lab.nat # {}
        /\ asFound.up = Wan /\ script # "failover" => lab.up = Wan
        /\ script = "failover" /\ at > 3 => "eth0" \in lab.up
        /\ script = "failover" /\ at > 4 => "eth1" \in lab.up

LEMMA FoundStep == LabTypeOK /\ FoundInv /\ [LabNext]_labVars => FoundInv'
<1> SUFFICES ASSUME LabTypeOK, FoundInv, [LabNext]_labVars PROVE FoundInv'
  OBVIOUS
<1>1. CASE UNCHANGED labVars
  BY <1>1 DEF labVars, FoundInv
<1>2. ASSUME NEW s \in Scripts, StartScript(s) PROVE FoundInv'
  BY <1>2 DEF StartScript, FoundInv
<1>3. Idle \notin Injections
  BY DEF Idle, Injections
<1>4. CASE RunCommand
  <2> SUFFICES ASSUME script' \in Injections
               PROVE  FoundInv'
    BY DEF FoundInv
  <2>1. /\ script' = script /\ at' = at + 1 /\ script \in Injections /\ asFound' = asFound
        /\ at \in 1 .. Len(Commands[script])
    BY <1>3, <1>4 DEF RunCommand, Advance, LabTypeOK
  <2> DEFINE c == Commands[script][at]
  <2>2. /\ c.op \in {"nat_del", "nat_flush"} => script = "nat_failure"
        /\ c.op = "down" => script = "failover" /\ at < 3
        /\ script = "failover" /\ at = 3 => c = Cmd("up", "eth0")
        /\ script = "failover" /\ at = 4 => c = Cmd("up", "eth1")
    BY <2>1, Gentle
  <2>3. lab' = Exec(c, lab) \/ (lab' = lab /\ script = "nat_failure")
    BY <1>4, <2>1 DEF RunCommand, Next1, Tolerant, Injections
  <2> HIDE DEF c
  <2>4. lab'.nat = lab.nat \/ lab'.nat = {"masquerade"} \/ script = "nat_failure"
    BY <2>2, <2>3 DEF Exec
  <2>5. \A i \in Wan : i \in lab.up /\ i \notin lab'.up => script = "failover" /\ at < 3
    BY <2>2, <2>3 DEF Exec, Cmd
  <2>6. /\ script = "failover" /\ at = 3 => "eth0" \in lab'.up
        /\ script = "failover" /\ at = 4 => "eth1" \in lab'.up
    BY <2>2, <2>3 DEF Exec, Wan
  <2>7. lab'.up \subseteq Wan
    BY <2>3 DEF Exec, LabTypeOK, LabType
  <2>8. at \in Nat
    BY DEF LabTypeOK
  <2> QED
    BY <2>1, <2>4, <2>5, <2>6, <2>7, <2>8, SMTT(20) DEF FoundInv, Wan
<1>5. CASE Ping \/ RequiredPing \/ OpenFile \/ DumpFile \/ Interrupt
  <2> SUFFICES ASSUME script' \in Injections
               PROVE  FoundInv'
    BY DEF FoundInv
  <2>1. UNCHANGED <<lab, asFound>>
    BY <1>5 DEF Ping, RequiredPing, OpenFile, DumpFile, Interrupt
  <2>2. script' = script /\ at' = at + 1 /\ at \in Nat /\ script \in Injections
    <3>1. script' # Idle
      BY <1>3
    <3>2. Advance
      BY <1>5, <3>1 DEF Ping, RequiredPing, OpenFile, DumpFile, Interrupt
    <3>3. script' = script /\ at' = at + 1
      BY <3>1, <3>2 DEF Advance
    <3> QED
      BY <3>3 DEF LabTypeOK
  <2>3. script = "failover" => at >= 5
    <3>1. at \in 1 .. Len(Commands[script])
      BY <1>3, <2>2 DEF LabTypeOK
    <3>2. Next1.op \in {"ping_small", "ping_large", "ping_required", "open", "dump"}
      BY <1>3, <1>5, <2>2 DEF Ping, RequiredPing, OpenFile, DumpFile, Interrupt
    <3>3. script = "failover" /\ at < 5 => Next1.op \in {"up", "down"}
      BY <2>2, <3>1, Gentle DEF Next1
    <3> QED
      BY <2>2, <3>2, <3>3
  <2> QED
    BY <2>1, <2>2, <2>3 DEF FoundInv
<1> QED
  BY <1>1, <1>2, <1>4, <1>5 DEF LabNext

LEMMA FoundInvariance == LabSpec => []FoundInv
<1>1. LabInit => FoundInv
  BY DEF LabInit, FoundInv, Idle, Injections
<1> QED
  BY <1>1, FoundStep, LabTypes, PTL DEF LabSpec

\* In a lab that had its NAT and its links, the injected failure is the probable
\* cause (root_cause_analyzer.py:196, 217).
THEOREM FaultFirst == Spec => FaultComesFirst
<1>1. LabTypeOK /\ DiagInv /\ FaultInv /\ FoundInv /\ [Next]_vars =>
        [ /\ DumpFile /\ script \in DOMAIN RuleFor /\ "nat" \notin failed
          /\ asFound.nat # {} /\ asFound.up = Wan
          => TopFinding(Diag(file', pings)) = RuleFor[script] ]_vars
  <2> SUFFICES ASSUME LabTypeOK, DiagInv, FaultInv, FoundInv, DumpFile,
                      script \in DOMAIN RuleFor, "nat" \notin failed,
                      asFound.nat # {}, asFound.up = Wan
               PROVE  TopFinding(Diag(file', pings)) = RuleFor[script]
    OBVIOUS
  <2> script \in Injections
    BY DEF RuleFor, Injections
  <2>1. at \in 1 .. Len(Commands[script]) /\ at \in 1 .. 12
    BY DEF DumpFile, LabTypeOK
  <2>2. script = "nat_failure" => lab.nat = {}
    <3>1. Commands["nat_failure"][1].op # "dump"
      BY DEF Commands, Cmd
    <3> QED
      BY <2>1, <3>1 DEF DumpFile, Next1, FaultInv
  <2>3. lab.up = Wan
    <3>1. script = "failover" => at >= 5
      BY <2>1, Gentle DEF DumpFile, Next1
    <3>2. lab.up \subseteq Wan
      BY DEF LabTypeOK, LabType
    <3> QED
      BY <2>1, <3>1, <3>2 DEF FoundInv, Wan
  <2>4. file' = [mode |-> script, whole |-> TRUE,
                 masquerade |-> script # "nat_failure", ifDown |-> FALSE]
    BY <2>2, <2>3 DEF DumpFile, FoundInv
  <2>5. file' \in Files /\ pings \in Pings
    BY <2>4 DEF Files, Scripts, Injections, DiagInv
  <2> QED
    BY <2>4, <2>5, FaultTops
<1> QED
  BY <1>1, LabRuns, LabTypes, DiagInvariance, FaultInvariance, FoundInvariance, PTL DEF Spec, FaultComesFirst

(* The health score. *)

\* What the health score reads of a telemetry.
State(tel)       == Get(tel, "link_state", "unknown")
Loss(tel)        == Get(tel, "packet_loss_percent", 0)
Signal(tel)      == Get(tel, "signal_quality", 100)
Temperature(tel) == Get(tel, "modem_temperature_c", 42)
Obstruction(tel) == Get(tel, "obstruction_percent", 0)
RouteCount(tel)  == Get(tel, "route_count", 0)
Latency(tel)     == Get(tel, "latency_ms", 0)
Vpn(tel)         == Get(tel, "vpn_state", "not_configured")
BgpState(tel)    == Get(tel, "bgp_state", "not_configured")

Measured(tel) == /\ {Loss(tel), Signal(tel), Temperature(tel), Obstruction(tel), Latency(tel)} \subseteq Int
                 /\ RouteCount(tel) \in Nat

\* Telemetry u is in no respect better than t.
LinkNoBetter(u, t) ==
    /\ State(t) = "down" => State(u) = "down"
    /\ State(t) = "degraded" => State(u) \in {"degraded", "down"}
    /\ Loss(t) <= Loss(u) /\ Signal(u) <= Signal(t)
    /\ Temperature(t) <= Temperature(u) /\ Obstruction(t) <= Obstruction(u)

SessionsNoBetter(u, t) ==
    /\ Vpn(t) = "down" => Vpn(u) = "down"
    /\ Vpn(t) = "handshaking" => Vpn(u) \in {"handshaking", "down"}
    /\ Vpn(u) \in {"not_configured", "up"} => Vpn(t) \in {"not_configured", "up"}
    /\ BgpState(t) = "idle" => BgpState(u) = "idle"
    /\ BgpState(t) \in {"active", "connect"} => BgpState(u) \in {"active", "connect", "idle"}
    /\ BgpState(u) \in {"not_configured", "established"} => BgpState(t) \in {"not_configured", "established"}

\* Snapshot e is in no respect better than d.
NoBetter(e, d) ==
    /\ Measured(d.telemetry) /\ Measured(e.telemetry)
    /\ LinkNoBetter(e.telemetry, d.telemetry) /\ SessionsNoBetter(e.telemetry, d.telemetry)
    /\ RouteCount(e.telemetry) <= RouteCount(d.telemetry)
    /\ Latency(d.telemetry) <= Latency(e.telemetry)
    /\ d.natRead /\ ~d.hasNat => e.natRead /\ ~e.hasNat
    /\ d.routesRead /\ ~d.hasDefault => e.routesRead /\ ~e.hasDefault
    /\ d.pcap \subseteq e.pcap

\* The link health falls.
LEMMA LinkFalls ==
    ASSUME NEW t, NEW u, Measured(t), Measured(u), LinkNoBetter(u, t)
    PROVE  LinkHealth(t) \in Int /\ LinkHealth(u) \in 0 .. LinkHealth(t)
<1> DEFINE ofState(x)  == IF State(x) = "degraded" THEN 30 ELSE 0
           ofLoss(x)   == IF Loss(x) >= 100 THEN 55 ELSE Penalty(Loss(x), 50, 30, 10, 12)
           ofSignal(x) == IF Signal(x) < 30 THEN 30 ELSE IF Signal(x) < 70 THEN 15 ELSE 0
           ofHeat(x)   == Penalty(Temperature(x), 80, 20, 70, 8)
           ofView(x)   == Penalty(Obstruction(x), 20, 20, 10, 8)
           p(x) == ofState(x) + ofLoss(x) + ofSignal(x) + ofHeat(x) + ofView(x)
<1>1. ofLoss(t) \in Int /\ ofLoss(u) \in Int /\ ofLoss(t) <= ofLoss(u)
  BY DEF Measured, LinkNoBetter, Penalty
<1>2. ofSignal(t) \in Int /\ ofSignal(u) \in Int /\ ofSignal(t) <= ofSignal(u)
  BY DEF Measured, LinkNoBetter
<1>3. ofHeat(t) \in Int /\ ofHeat(u) \in Int /\ ofHeat(t) <= ofHeat(u)
  BY DEF Measured, LinkNoBetter, Penalty
<1>4. ofView(t) \in Int /\ ofView(u) \in Int /\ ofView(t) <= ofView(u)
  BY DEF Measured, LinkNoBetter, Penalty
<1>5. /\ ofState(t) \in Int /\ ofState(u) \in Int
      /\ State(u) # "down" => ofState(t) <= ofState(u)
  BY DEF LinkNoBetter
<1>6. \A x \in {t, u} : LinkHealth(x) = IF State(x) = "down" THEN 0
          ELSE AtLeast0(100 - ofState(x) - ofLoss(x) - ofSignal(x) - ofHeat(x) - ofView(x))
  BY DEF LinkHealth, State, Loss, Signal, Temperature, Obstruction
<1> HIDE DEF ofState, ofLoss, ofSignal, ofHeat, ofView
<1>7. State(t) = "down" => State(u) = "down"
  BY DEF LinkNoBetter
<1> QED
  BY <1>1, <1>2, <1>3, <1>4, <1>5, <1>6, <1>7 DEF AtLeast0

LEMMA RoutingFalls ==
    ASSUME NEW d, NEW e, NoBetter(e, d)
    PROVE  RoutingHealth(d) \in Int /\ RoutingHealth(e) \in 0 .. RoutingHealth(d)
<1> DEFINE t == d.telemetry
           u == e.telemetry
           ofNat(x)    == IF x.natRead /\ ~x.hasNat THEN 35 ELSE 0
           ofTable(x)  == IF x.routesRead /\ ~x.hasDefault THEN 25 ELSE 0
           ofRoutes(x) == IF RouteCount(x) = 0 THEN 40 ELSE IF RouteCount(x) < 3 THEN 15 ELSE 0
           ofDelay(x)  == Penalty(Latency(x), 500, 15, 200, 5)
<1>1. ofNat(d) \in Int /\ ofNat(e) \in Int /\ ofNat(d) <= ofNat(e)
  BY DEF NoBetter
<1>2. ofTable(d) \in Int /\ ofTable(e) \in Int /\ ofTable(d) <= ofTable(e)
  BY DEF NoBetter
<1>3. ofRoutes(t) \in Int /\ ofRoutes(u) \in Int /\ ofRoutes(t) <= ofRoutes(u)
  BY DEF NoBetter, Measured
<1>4. ofDelay(t) \in Int /\ ofDelay(u) \in Int /\ ofDelay(t) <= ofDelay(u)
  BY DEF NoBetter, Measured, Penalty
<1>5. /\ RoutingHealth(d) = AtLeast0(100 - ofNat(d) - ofRoutes(t) - ofTable(d) - ofDelay(t))
      /\ RoutingHealth(e) = AtLeast0(100 - ofNat(e) - ofRoutes(u) - ofTable(e) - ofDelay(u))
  BY DEF RoutingHealth, RouteCount, Latency
<1> HIDE DEF ofNat, ofTable, ofRoutes, ofDelay, t, u
<1> QED
  BY <1>1, <1>2, <1>3, <1>4, <1>5 DEF AtLeast0

LEMMA SessionsFall ==
    ASSUME NEW t, NEW u, SessionsNoBetter(u, t)
    PROVE  /\ VpnHealth(t) \in Int /\ VpnHealth(u) \in 0 .. VpnHealth(t)
           /\ BgpHealth(t) \in Int /\ BgpHealth(u) \in 0 .. BgpHealth(t)
<1>1. VpnHealth(t) \in Int /\ VpnHealth(u) \in 0 .. VpnHealth(t)
  BY DEF VpnHealth, Vpn, SessionsNoBetter
<1>2. BgpHealth(t) \in Int /\ BgpHealth(u) \in 0 .. BgpHealth(t)
  BY DEF BgpHealth, BgpState, SessionsNoBetter
<1> QED
  BY <1>1, <1>2

LEMMA ApplicationFalls ==
    ASSUME NEW d, NEW e, NoBetter(e, d)
    PROVE  ApplicationHealth(d) \in Int /\ ApplicationHealth(e) \in 0 .. ApplicationHealth(d)
<1> DEFINE t == d.telemetry
           u == e.telemetry
           ofDns(x)   == IF "DNS" \in x.pcap /\ {"no response", "timeout"} \cap x.pcap # {} THEN 40 ELSE 0
           ofName(x)  == IF "NXDOMAIN" \in x.pcap THEN 15 ELSE 0
           ofDelay(x) == IF Latency(x) >= 400 THEN 20 ELSE 0
<1>1. ofDns(d) \in Int /\ ofDns(e) \in Int /\ ofDns(d) <= ofDns(e)
  <2> DEFINE K == {"no response", "timeout"}
             Unanswered(x) == "DNS" \in x.pcap /\ K \cap x.pcap # {}
  <2>1. Unanswered(d) => Unanswered(e)
    <3> HIDE DEF K
    <3> QED
      BY DEF NoBetter
  <2> HIDE DEF Unanswered
  <2>2. \A x \in {d, e} : (IF Unanswered(x) THEN 40 ELSE 0) \in Int
    OBVIOUS
  <2>3. (IF Unanswered(d) THEN 40 ELSE 0) <= (IF Unanswered(e) THEN 40 ELSE 0)
    BY <2>1
  <2> QED
    BY <2>2, <2>3 DEF Unanswered
<1>2. ofName(d) \in Int /\ ofName(e) \in Int /\ ofName(d) <= ofName(e)
  BY DEF NoBetter
<1>3. ofDelay(t) \in Int /\ ofDelay(u) \in Int /\ ofDelay(t) <= ofDelay(u)
  BY DEF NoBetter, Measured
<1>4. /\ ApplicationHealth(d) = AtLeast0(100 - ofDns(d) - ofName(d) - ofDelay(t))
      /\ ApplicationHealth(e) = AtLeast0(100 - ofDns(e) - ofName(e) - ofDelay(u))
  BY DEF ApplicationHealth, Latency
<1> HIDE DEF ofDns, ofName, ofDelay, t, u
<1> QED
  BY <1>1, <1>2, <1>3, <1>4 DEF AtLeast0

\* A snapshot that is in no respect better than another has no higher score,
\* whatever the numbers in it are (health_scorer.py:46-225).
THEOREM ScoreFalls ==
    ASSUME NEW d, NEW e, NoBetter(e, d)
    PROVE  TotalScore(e) <= TotalScore(d)
<1> DEFINE l(x) == LinkHealth(x.telemetry)
           r(x) == RoutingHealth(x)
           v(x) == VpnHealth(x.telemetry)
           b(x) == BgpHealth(x.telemetry)
           a(x) == ApplicationHealth(x)
           sum(x) == 30 * l(x) + 25 * r(x) + 20 * v(x) + 15 * b(x) + 10 * a(x)
<1>1. l(d) \in Int /\ l(e) \in 0 .. l(d)
  BY LinkFalls DEF NoBetter
<1>2. r(d) \in Int /\ r(e) \in 0 .. r(d)
  BY RoutingFalls
<1>3. v(d) \in Int /\ v(e) \in 0 .. v(d) /\ b(d) \in Int /\ b(e) \in 0 .. b(d)
  BY SessionsFall DEF NoBetter
<1>4. a(d) \in Int /\ a(e) \in 0 .. a(d)
  BY ApplicationFalls
<1>5. \A x \in {d, e} : TotalScore(x) = IF l(x) = 0 /\ sum(x) > 4000 THEN 4000 ELSE sum(x)
  BY DEF TotalScore
<1> HIDE DEF l, r, v, b, a
<1> QED
  BY <1>1, <1>2, <1>3, <1>4, <1>5

\* A snapshot of the grid.
LEMMA GridSnapshot ==
    ASSUME NEW s \in Steps
    PROVE  /\ State(At(s).telemetry) = Links[s.link] /\ Loss(At(s).telemetry) = LossSteps[s.loss]
           /\ Signal(At(s).telemetry) = Signals[s.signal]
           /\ Temperature(At(s).telemetry) = 42 /\ Obstruction(At(s).telemetry) = 0
           /\ RouteCount(At(s).telemetry) = Counts[s.routes]
           /\ Latency(At(s).telemetry) = Delays[s.delay]
           /\ Vpn(At(s).telemetry) = Vpns[s.vpn] /\ BgpState(At(s).telemetry) = "established"
           /\ At(s).natRead = TRUE /\ At(s).hasNat = (s.nat = 1)
           /\ At(s).routesRead = TRUE /\ At(s).hasDefault = TRUE /\ At(s).pcap = {}
<1> DEFINE t == At(s).telemetry
<1>1. t = [link_state |-> Links[s.link], packet_loss_percent |-> LossSteps[s.loss],
           signal_quality |-> Signals[s.signal], route_count |-> Counts[s.routes],
           latency_ms |-> Delays[s.delay], vpn_state |-> Vpns[s.vpn],
           bgp_state |-> "established"]
  BY DEF At
<1> HIDE DEF t
<1>2. /\ State(t) = Links[s.link] /\ Loss(t) = LossSteps[s.loss] /\ Signal(t) = Signals[s.signal]
      /\ RouteCount(t) = Counts[s.routes] /\ Latency(t) = Delays[s.delay]
      /\ Vpn(t) = Vpns[s.vpn] /\ BgpState(t) = "established"
  BY <1>1 DEF Get, State, Loss, Signal, RouteCount, Latency, Vpn, BgpState
<1>3. Temperature(t) = 42 /\ Obstruction(t) = 0
  BY <1>1 DEF Get, Temperature, Obstruction
<1>4. /\ At(s).natRead = TRUE /\ At(s).hasNat = (s.nat = 1)
      /\ At(s).routesRead = TRUE /\ At(s).hasDefault = TRUE /\ At(s).pcap = {}
  BY DEF At
<1> QED
  BY <1>2, <1>3, <1>4 DEF t

\* The grid is ordered from good to bad.
LEMMA GridOrder ==
    ASSUME NEW s \in Steps, NEW z \in Steps,
           \A q \in {"link", "loss", "signal", "routes", "delay", "vpn", "nat"} : s[q] <= z[q]
    PROVE  NoBetter(At(z), At(s))
<1>1. /\ s.link \in 1 .. 3 /\ z.link \in 1 .. 3 /\ s.link <= z.link
      /\ s.loss \in 1 .. 7 /\ z.loss \in 1 .. 7 /\ s.loss <= z.loss
      /\ s.signal \in 1 .. 4 /\ z.signal \in 1 .. 4 /\ s.signal <= z.signal
      /\ s.routes \in 1 .. 3 /\ z.routes \in 1 .. 3 /\ s.routes <= z.routes
      /\ s.delay \in 1 .. 5 /\ z.delay \in 1 .. 5 /\ s.delay <= z.delay
      /\ s.vpn \in 1 .. 3 /\ z.vpn \in 1 .. 3 /\ s.vpn <= z.vpn
      /\ s.nat \in {1, 2} /\ z.nat \in {1, 2} /\ s.nat <= z.nat
  BY DEF Steps, Links, LossSteps, Signals, Counts, Delays, Vpns
<1>2. \A i, j \in 1 .. 3 : i <= j =>
         /\ Links[i] = "down" => Links[j] = "down"
         /\ Links[i] = "degraded" => Links[j] \in {"degraded", "down"}
         /\ Vpns[i] = "down" => Vpns[j] = "down"
         /\ Vpns[i] = "handshaking" => Vpns[j] \in {"handshaking", "down"}
         /\ Vpns[j] \in {"not_configured", "up"} => Vpns[i] \in {"not_configured", "up"}
  BY DEF Links, Vpns
<1>3. \A i, j \in 1 .. 7 : i <= j =>
         LossSteps[i] \in Int /\ LossSteps[j] \in Int /\ LossSteps[i] <= LossSteps[j]
  BY DEF LossSteps
<1>4. \A i, j \in 1 .. 4 : i <= j =>
         Signals[i] \in Int /\ Signals[j] \in Int /\ Signals[j] <= Signals[i]
  BY DEF Signals
<1>5. \A i, j \in 1 .. 3 : i <= j =>
         Counts[i] \in Nat /\ Counts[j] \in Nat /\ Counts[j] <= Counts[i]
  BY DEF Counts
<1>6. \A i, j \in 1 .. 5 : i <= j =>
         Delays[i] \in Int /\ Delays[j] \in Int /\ Delays[i] <= Delays[j]
  BY DEF Delays
<1>7. /\ s.link \in 1 .. 3 /\ z.link \in 1 .. 3 /\ s.vpn \in 1 .. 3 /\ z.vpn \in 1 .. 3
      /\ (s.nat = 1) \in BOOLEAN /\ (z.nat = 1) => (s.nat = 1)
  BY <1>1
<1> DEFINE d == At(s)
           e == At(z)
           t == d.telemetry
           u == e.telemetry
           l == Links[s.link]         lz == Links[z.link]
           o == LossSteps[s.loss]     oz == LossSteps[z.loss]
           g == Signals[s.signal]     gz == Signals[z.signal]
           c == Counts[s.routes]      cz == Counts[z.routes]
           y == Delays[s.delay]       yz == Delays[z.delay]
           v == Vpns[s.vpn]           vz == Vpns[z.vpn]
<1>8. /\ State(t) = l /\ Loss(t) = o /\ Signal(t) = g /\ Temperature(t) = 42 /\ Obstruction(t) = 0
      /\ RouteCount(t) = c /\ Latency(t) = y /\ Vpn(t) = v /\ BgpState(t) = "established"
  BY GridSnapshot
<1>9. /\ State(u) = lz /\ Loss(u) = oz /\ Signal(u) = gz /\ Temperature(u) = 42 /\ Obstruction(u) = 0
      /\ RouteCount(u) = cz /\ Latency(u) = yz /\ Vpn(u) = vz /\ BgpState(u) = "established"
  BY GridSnapshot
<1>10. /\ d.natRead /\ ~d.hasNat => e.natRead /\ ~e.hasNat
       /\ d.routesRead /\ ~d.hasDefault => e.routesRead /\ ~e.hasDefault
       /\ d.pcap \subseteq e.pcap
  <2>1. d.hasNat = (s.nat = 1) /\ e.hasNat = (z.nat = 1) /\ e.natRead = TRUE
    BY GridSnapshot
  <2>2. d.hasDefault = TRUE /\ d.pcap = {}
    BY GridSnapshot
  <2> QED
    BY <1>7, <2>1, <2>2
<1>11. /\ l = "down" => lz = "down"
       /\ l = "degraded" => lz \in {"degraded", "down"}
       /\ v = "down" => vz = "down"
       /\ v = "handshaking" => vz \in {"handshaking", "down"}
       /\ vz \in {"not_configured", "up"} => v \in {"not_configured", "up"}
  BY <1>1, <1>2
<1>12. o \in Int /\ oz \in Int /\ o <= oz
  BY <1>1, <1>3
<1>13. g \in Int /\ gz \in Int /\ gz <= g
  BY <1>1, <1>4
<1>14. c \in Nat /\ cz \in Nat /\ cz <= c
  BY <1>1, <1>5
<1>15. y \in Int /\ yz \in Int /\ y <= yz
  BY <1>1, <1>6
<1> HIDE DEF l, lz, o, oz, g, gz, c, cz, y, yz, v, vz, t, u
<1>16. Measured(t) /\ Measured(u)
  BY <1>8, <1>9, <1>12, <1>13, <1>14, <1>15 DEF Measured
<1>17. LinkNoBetter(u, t)
  BY <1>8, <1>9, <1>11, <1>12, <1>13 DEF LinkNoBetter
<1>18. SessionsNoBetter(u, t)
  BY <1>8, <1>9, <1>11 DEF SessionsNoBetter
<1>19. RouteCount(u) <= RouteCount(t) /\ Latency(t) <= Latency(u)
  BY <1>8, <1>9, <1>14, <1>15
<1> HIDE DEF d, e
<1> QED
  BY <1>10, <1>16, <1>17, <1>18, <1>19 DEF NoBetter, t, u, d, e

\* A snapshot of the grid is not better than itself.
LEMMA GridReflexive ==
    ASSUME NEW s \in Steps
    PROVE  \A q \in {"link", "loss", "signal", "routes", "delay", "vpn", "nat"} : s[q] <= s[q]
BY DEF Steps, Links, LossSteps, Signals, Counts, Delays, Vpns

\* Where the analyzer finds the link down, the system fails.
LEMMA LinkDownFails ==
    ASSUME NEW s \in Steps, "L1_LINK_DOWN" \in FindingIds(At(s))
    PROVE  Grade(At(s)) = "F"
<1> DEFINE d == At(s)
           a == Is("link_state", {"down"})
           b == Gte("packet_loss_percent", 990)
<1>1. 1 \in Findings(d)
  <2>1. PICK n \in Findings(d) : Rules[n].id = "L1_LINK_DOWN"
    BY DEF FindingIds
  <2>2. n \in 1 .. 16
    BY FindingsWithin
  <2>3. n = 1
    BY <2>1, <2>2, RuleIds
  <2> QED
    BY <2>1, <2>3
<1>2. Judge(a, d) # "failed"
  <2>1. Rules[1] = Rule("L1_LINK_DOWN", "L1", 97, <<a, b>>)
    BY RuleNames
  <2> HIDE DEF a, b, d
  <2> QED
    BY <1>1, <2>1, FoundByTwo
<1>3. d.telemetry = [link_state |-> Links[s.link], packet_loss_percent |-> LossSteps[s.loss],
           signal_quality |-> Signals[s.signal], route_count |-> Counts[s.routes],
           latency_ms |-> Delays[s.delay], vpn_state |-> Vpns[s.vpn],
           bgp_state |-> "established"]
  BY DEF At
<1> HIDE DEF d
<1>4. State(d.telemetry) = "down"
  <2>1. a.field = "link_state" /\ a.op = "in" /\ a.set = {"down"}
    BY DEF Is
  <2>2. "link_state" \in DOMAIN d.telemetry /\ State(d.telemetry) = d.telemetry["link_state"]
    BY <1>3 DEF State, Get
  <2> HIDE DEF a
  <2>3. ValMatches(d.telemetry["link_state"], a)
    BY <1>2, <2>1, <2>2 DEF Judge
  <2> QED
    BY <2>1, <2>2, <2>3 DEF ValMatches
<1>5. LinkHealth(d.telemetry) = 0
  BY <1>4 DEF LinkHealth, State
<1>6. NoBetter(d, d)
  BY GridOrder, GridReflexive DEF d
<1>7. TotalScore(d) \in Int /\ TotalScore(d) <= 4000
  <2>1. /\ RoutingHealth(d) \in Int /\ VpnHealth(d.telemetry) \in Int
        /\ BgpHealth(d.telemetry) \in Int /\ ApplicationHealth(d) \in Int
    BY <1>6, RoutingFalls, SessionsFall, ApplicationFalls DEF NoBetter
  <2> QED
    BY <1>5, <2>1 DEF TotalScore
<1> QED
  BY <1>7 DEF Grade, d

\* The system is on the grid.
OnGrid == system \in Steps

\* No step of the grid, which has the bounds of all chains, raises the score,
\* and a system whose link is found down fails (health_scorer.py:46-225).
THEOREM WorseScoresNoHigher == MCSpec => WorseNeverScoresHigher
<1>1. MCInit => OnGrid
  BY DEF OnGrid, MCInit, Best, Steps, Links, LossSteps, Signals, Counts, Delays, Vpns
<1>2. OnGrid /\ [MCNext]_<<vars, system, series>> => OnGrid'
  BY DEF OnGrid, MCNext, Worsen, Observe
<1>3. OnGrid /\ [MCNext]_<<vars, system, series>> =>
        [system' # system =>
           /\ TotalScore(At(system')) <= TotalScore(At(system))
           /\ "L1_LINK_DOWN" \in FindingIds(At(system')) => Grade(At(system')) = "F"]_<<vars, system, series>>
  <2> SUFFICES ASSUME system \in Steps, [MCNext]_<<vars, system, series>>, system' # system
               PROVE  /\ TotalScore(At(system')) <= TotalScore(At(system))
                      /\ "L1_LINK_DOWN" \in FindingIds(At(system')) => Grade(At(system')) = "F"
    BY Zenon DEF OnGrid
  <2>1. system' \in Steps
    BY <1>2 DEF OnGrid
  <2>2. PICK r \in DOMAIN Best : Worsen(r)
    BY DEF MCNext, Observe
  <2>3. \A q \in {"link", "loss", "signal", "routes", "delay", "vpn", "nat"} : system[q] <= system'[q]
    BY <2>1, <2>2 DEF Worsen, Steps, Best, Links, LossSteps, Signals, Counts, Delays, Vpns
  <2>4. NoBetter(At(system'), At(system))
    BY <2>1, <2>3, GridOrder
  <2> QED
    BY <2>1, <2>4, ScoreFalls, LinkDownFails
<1> QED
  BY <1>1, <1>2, <1>3, PTL DEF MCSpec, WorseNeverScoresHigher
=============================================================================
