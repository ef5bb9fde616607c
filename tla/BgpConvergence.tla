--------------------------- MODULE BgpConvergence ---------------------------
(***************************************************************************)
(* analyzer/bgp_convergence.py: the benchmark.  A run resets the session   *)
(* of a peer, or finds it reset by somebody, and polls the agent until the *)
(* session is Established with the expected prefixes, or the time is over. *)
(* The sessions go on all the while; a poll may give nothing and takes     *)
(* time.  The clock counts from the trigger of the run, and goes forward:  *)
(* the code reads the clock of the host, which is taken not to be set back *)
(* while a run lasts.  Of the results only how many there are, and how     *)
(* many are complete, is kept.                                             *)
(***************************************************************************)
EXTENDS FrrAgent

CONSTANTS
    Target,         \* peer_addr
    Expected,       \* expected_prefixes
    Timeout,        \* timeout_s
    MaxDelay,       \* bound: the time the reset and the first summary take
    MaxRuns         \* bound: runs

ASSUME BenchAssumption ==
    Target \in Peers /\ Expected \in Nat \ {0} /\ {Timeout, MaxDelay, MaxRuns} \subseteq Nat

VARIABLES
    does,       \* what the run is about to do
    clock,      \* time since the trigger
    deadline,   \* of the run
    record,     \* the ConvergenceRecord
    got,        \* the target in the summary just received
    stats,      \* summary_stats: runs completed, and all
    wasFull     \* history: during the run the session has had all prefixes

benchVars == <<does, clock, deadline, record, got, stats, wasFull>>
bgpVars == <<agentVars, benchVars>>

NoTime == -1
NewRecord == [open_sent |-> NoTime, established |-> NoTime, first_prefix |-> NoTime, full |-> NoTime,
              received |-> 0]

Nothing == [state |-> Unseen, received |-> 0]
FullNow == session[Target] = "Established" /\ prefixes[Target] >= Expected

BgpInit ==
    /\ AgentInit
    /\ does = "idle" /\ clock = 0 /\ deadline = 0
    /\ record = NewRecord /\ got = Nothing
    /\ stats = [completed |-> 0, total |-> 0]
    /\ wasFull = FALSE

\* Mutant of FirstRecord: the record of the run before is used again.
FirstRecordReused == UNCHANGED record

FirstRecord == record' = NewRecord

\* run: t_trigger, and reset_peer if the caller has not disturbed the session.
Begin(trigger) ==
    /\ does = "idle" /\ stats.total < MaxRuns
    /\ IF trigger = "manual_reset" THEN ResetPeer ELSE UNCHANGED <<log, lastState>>
    /\ does' = "capture" /\ clock' = 0
    /\ FirstRecord
    /\ wasFull' = FullNow
    /\ UNCHANGED <<session, prefixes, moves, kind, deadline, got, stats>>

\* The first summary, for the timers; the deadline is set after it.
Capture ==
    /\ does = "capture"
    /\ Note(Answer) \/ (kind = "real" /\ UNCHANGED <<log, lastState>>)
    /\ deadline' = clock + Timeout
    /\ does' = "check"
    /\ UNCHANGED <<session, prefixes, moves, kind, clock, record, got, stats, wasFull>>

\* Mutant of AddResult: the counts are taken for each other.
AddResultSwapped(completed) == stats' = [completed |-> stats.completed + 1, total |-> stats.total + completed]

\* self.results.append(record), and what summary_stats counts of it.
AddResult(completed) == stats' = [completed |-> stats.completed + completed, total |-> stats.total + 1]

\* Mutant of Check: each poll has a deadline of its own.
CheckRenewed ==
    /\ does = "check"
    /\ deadline' = clock + Timeout
    /\ does' = "poll"
    /\ UNCHANGED <<agentVars, clock, record, got, stats, wasFull>>

Check ==
    /\ does = "check"
    /\ IF clock < deadline
       THEN does' = "poll" /\ UNCHANGED stats
       ELSE does' = "idle" /\ AddResult(0)
    /\ UNCHANGED <<agentVars, clock, deadline, record, got, wasFull>>

\* A poll that gives nothing is repeated after a while.
PollFails ==
    /\ does = "poll" /\ kind = "real"
    /\ does' = "sleep"
    /\ UNCHANGED <<agentVars, clock, deadline, record, got, stats, wasFull>>

Poll ==
    /\ does = "poll"
    /\ Note(Answer)
    /\ got' = Answer[Target]
    /\ does' = "record"
    /\ UNCHANGED <<session, prefixes, moves, kind, clock, deadline, record, stats, wasFull>>

Set(t, when) == IF t = NoTime /\ when THEN clock ELSE t

\* The state may have changed since the summary was made; what the summary
\* says is given the time of now.
Record ==
    /\ does = "record"
    /\ LET up   == got.state = "Established"
           full == up /\ got.received >= Expected
       IN  /\ record' = [ open_sent    |-> Set(record.open_sent, got.state = "OpenSent"),
                          established  |-> Set(record.established, up),
                          first_prefix |-> Set(record.first_prefix, up /\ got.received > 0),
                          full         |-> Set(record.full, full),
                          received     |-> IF full THEN got.received ELSE record.received ]
           /\ IF full /\ record.full = NoTime
              THEN does' = "idle" /\ AddResult(1)
              ELSE does' = "sleep" /\ UNCHANGED stats
    /\ got' = Nothing
    /\ UNCHANGED <<agentVars, clock, deadline, wasFull>>

\* time.sleep(poll_interval_s)
Sleep ==
    /\ does = "sleep"
    /\ clock' = IF clock < MaxDelay + Timeout THEN clock + 1 ELSE clock
    /\ does' = "check"
    /\ UNCHANGED <<agentVars, deadline, record, got, stats, wasFull>>

\* vtysh takes its time.
TimePasses ==
    /\ does \in {"capture", "poll", "record"}
    /\ clock < IF does = "capture" THEN MaxDelay ELSE MaxDelay + Timeout
    /\ clock' = clock + 1
    /\ UNCHANGED <<agentVars, does, deadline, record, got, stats, wasFull>>

BenchStep == Capture \/ Check \/ PollFails \/ Poll \/ Record \/ Sleep

\* The sessions do what they do.
Sessions ==
    /\ \E p \in Peers : SessionMoves(p) \/ PrefixArrives(p)
    /\ wasFull' = (wasFull \/ FullNow')
    /\ UNCHANGED <<does, clock, deadline, record, got, stats>>

BgpNext ==
    \/ \E trigger \in {"manual_reset", "link_down"} : Begin(trigger)
    \/ BenchStep \/ TimePasses \/ Sessions

\* A call of vtysh has a timeout, and a sleep ends.
BgpFairness == WF_bgpVars(BenchStep)
BgpSpec == BgpInit /\ [][BgpNext]_bgpVars /\ BgpFairness
-----------------------------------------------------------------------------
BgpTypeOK ==
    /\ AgentTypeOK
    /\ does \in {"idle", "capture", "check", "poll", "record", "sleep"}
    /\ clock \in 0..(MaxDelay + Timeout) /\ deadline \in 0..(MaxDelay + Timeout)
    /\ record.received \in 0..(MaxPrefixes + 2)
    /\ stats.total \in 0..MaxRuns /\ stats.completed \in 0..stats.total

\* A record is in order and true: the session is Established before the first
\* prefix comes and all are there, and when it says so, the session has had
\* all expected prefixes at some time of the run, though states are sampled,
\* polls fail and the session goes on (bgp_convergence.py:118-188).
RecordsAreTrue ==
    /\ record.first_prefix # NoTime => record.established \in 0..record.first_prefix
    /\ record.full # NoTime =>
          /\ record.first_prefix \in 0..record.full
          /\ record.received >= Expected
          /\ kind = "real" => wasFull

\* Every run comes to its end, whatever the session does and however many
\* polls give nothing (bgp_convergence.py:142-193).
RunsEnd == (does # "idle") ~> (does = "idle")
=============================================================================
