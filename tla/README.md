# A TLA+ model of satcom-enterprise-wan

The repository is a laboratory of a satellite enterprise WAN: a TCP proxy that
splits connections in front of the satellite link, an SD-WAN engine that chooses
a link for each traffic class, a telemetry service, an agent for FRR routers, a
set of analyzers that diagnose failures, scripts that inject them, and a terminal
monitor. This project models its parts in TLA+, checks them with TLC on small
instances and proves the properties of its core with TLAPS. `PROJECT.json`
lists, for every definition, the lines of the source it stands for.

## 1. Inventory

| part | state | operations | interacts with | what is hard | what makes it correct |
|---|---|---|---|---|---|
| PEP proxy, connections (`tcp_pep/pep_proxy.py`) | a semaphore, two counters, the tasks and sockets of each client | accept, acquire, connect, relay, release, stop | clients, upstream host, event loop | cancellation at every await, slots handed over before their owner runs, shutdown | slots and gauge exact on every path, limit kept, first come first served, nobody forgotten, no socket left open |
| PEP proxy, relays (same file) | two byte counters, two transports | read, write, drain, close | the peers, back-pressure, the other relay | half-close, reset, slow readers, writes to a closed transport, an interrupt | order and completeness, bounded memory, honest counters, teardown |
| SD-WAN scoring (`sdwan/policy_engine.py`) | none | score, order, choose | telemetry | boundaries of the budgets, ties | scores in range, monotone choice |
| SD-WAN engine (same file) | link metrics with their age, last decisions, the kernel's tables and rules | update_metrics, run_policy, apply | telemetry, `ip` | metrics that go stale, commands that fail half way | applied decisions hold in the kernel, failover happens |
| Telemetry API (`telemetry/api`) | `_state`, the history, gauges | simulate, current, history, stream, background task | monitor, Prometheus | handlers in threads beside a task, a task that dies | snapshots of one profile, a history that goes on |
| Collectors (`telemetry/collector`) | a one-entry cache, an availability flag | get_status, is_available | the dish, the API | stale cache, slow fetch, clock steps, a tier that never answers | no answer older than its lifetime, recovery after an outage |
| FRR agent, convergence benchmark (`lab/frr/frr_agent.py`, `analyzer/bgp_convergence.py`) | last peer states, event log, a record | reset_peer, summary, run | vtysh | polling a session that changes between polls | the times recorded are those of this cycle |
| Root cause analyzer (`analyzer/root_cause_analyzer.py`, `rules/`) | none | analyze | diagnostics files | soft and hard matches, confidence | a healthy lab fires no rule, each failure its own first |
| Health scorer, telemetry, VPN, route, BGP, pcap analyzers | none | classify | telemetry, command output | ends of windows, missing input | no event lost, verdicts consistent |
| Monitor (`monitor.py`) | history, RCA cache, demo scenario | refresh, switch profile | API, files | cached results, an API that comes and goes | what is shown is current |
| Lab scripts (`lab/scripts`) | kernel state of the namespaces | setup, inject, restore, teardown | the analyzers | failures one after another, commands that may fail | restore undoes every failure |

The hazards of each part, at the line where they bite, are in `PROJECT.json`.

## 2. Plan

The modules were written in this order, each with its run before the next:

1. **PepProxy** over **AsyncSemaphore**, refining **Admission**; its proofs.
2. **PepRelay**, refining **ByteRelay**.
3. **LinkScore** and **SdwanEngine**, which extends it, and **SdwanEvents** on top.
4. **TelemetryApi**, and **Monitor**, the demo that drives it.
5. **StarlinkClient**: cache, clock and tiers; its proofs.
6. **FrrAgent** and **BgpConvergence**, which polls it.
7. **LabFailures**: injection and restore; **RootCause**, **HealthScore** and
   **Diagnosis**, which composes the three with the monitor's cache; its proofs.
8. **Degradation**: the telemetry analyzer.

9. **PepRelayProofs**, **SdwanEngineProofs**, **DiagnosisProofs**, **AgentsProofs**,
   **MonitorProofs** and **DegradationProofs**, and **SubsequenceProofs** with what they share.

What could follow: the setup and teardown of the laboratory.

## 3. The modules

### PepProxy and AsyncSemaphore

The proxy is one asyncio event loop, so a handler runs from one suspension point
to the next without interference. `pc[c]` says at which await handler `c` is, and
each action is the code between two of them:

| action | code |
|---|---|
| `Accept` | the server's accept loop creates the handler task |
| `EnterNow`, `Wait`, `EnterGranted` | `async with self._semaphore`: the slot is free; it is not; it was granted |
| `Connected`, `ConnectFails` | `open_connection` returns, or raises (also the cancellation) |
| `RelayEnds` | a `_relay` ends and closes the transport it writes to |
| `RelaysDone`, `Leave` | `gather` returns; the `finally` block and the end of the `async with` |
| `CancelledOutside` | a task cancelled before its first step or in `acquire()` |
| `Stop`, `CancelAll`, `Terminated` | `stop()` or an interrupt; `asyncio.run` cancels what is left; the exit |

`AsyncSemaphore` is asyncio's semaphore as it is in the standard library, external
to the repository: `release` grants a slot to the first pending waiter before that
task runs, `locked` makes newcomers queue while anybody waits, `acquire` passes a
second free slot on when it resumes, and puts a granted one back when cancelled.
The hazards of the proxy are those of this protocol, so it is modelled whole.

`Admission` says what it amounts to: clients that wait, the order in which they came, and
clients that are served, never more than `MaxConn` and in that order. `Admits` maps the
pending waiters to those who wait, their order in the queue to `ahead`, and the handlers
with a slot, granted or used, to those served.

### PepRelay

One connection: two relays, two transports, two peers. An end is the client's side
or the upstream's; chunks are numbered in the order they are sent, so counters
(`sent`, `rcvd`, `taken`) describe the wire and the reader, and `wbuf` and `got` hold
what is buffered for a peer and what its socket took, which is as far as the proxy can
see. `got` is not what the peer has read: a socket that is closed with input unread, as
that of a peer which goes on to send is, is reset by the kernel, and what was on its way is
discarded. `lost` is a history variable, the chunks that went with a broken connection
or with the loop, by which the byte counters can be held to
account under resets too. `RelayCopies` is a read, the
write and the start of `drain()`; where `drain()` suspends, `RelayYields` and
`RelayDrained` go on. `Interrupted` is Ctrl-C: `asyncio.run` cancels the handler and both
relays, each of which swallows the `CancelledError` in `read()` or in `drain()` and closes the
other end with its reader unread (`RelayCancelled`), or, cancelled before its first step, ends
without its `finally` block (`EndUnbegun`); the handler's own closes both ends
(`HandlerEnds`), and the loop closes with whatever the transports still hold (`LoopCloses`).
The transports (`Write`, `Flush`, `Closed`, `ConnectionLost` and
the rest) are asyncio's, marked external: what `write` does to a closing transport,
what `drain` raises, and when `connection_lost` is called decide what is delivered.
`ByteRelay` is what a proxy promises: each direction handed over in order, no chunk twice, none skipped.

### LinkScore and SdwanEngine

`LinkScore` translates the scoring functions, the table of traffic classes and
`make_decision`. Its integers are scaled: a sub-score is 0 to 1000, a score 0 to
100000, rounded down.

`SdwanEngine` is the loop of the class's docstring: `UpdateMetrics`, `RunPolicy`,
`Apply`, and then the `ip` commands one by one (`CommandSucceeds`, `CommandFails`): `turn` is
the position in the list of classes and `step` that in the commands of the class at hand.
Beside it `Tick` lets metrics age, also within `run_policy`, where availability is
looked up twice, and during the commands; `KernelDropsRoutes` is an interface that
goes down. `table` and `rule` are the kernel's routing tables and fwmark rules.

`SdwanEvents` puts the event log beside the same loop: a report that changes a link's
availability and a run of the policy that moves a class append entries. `first` is a history variable,
the decisions of the first run, which log nothing.

`Subsequence` is what a loop appends that goes through a list and passes over some of its
elements: the classes that have moved, for `SdwanEvents`, and the neighbours whose state has
changed, for `FrrAgent`. It is stated by positions instead of `SelectSeq`, so that it can be
proved about.

### LabFailures, RootCause, HealthScore and Diagnosis

`LabFailures` has the laboratory as the scripts change it: `lab` is the state of the
namespaces (NAT, filters, mtu, shaping, links, static routes), `Commands` says of what
commands each script consists, and each command is a step (`RunCommand`, `Ping`,
`RequiredPing`, `OpenFile`, `DumpFile`), because whoever runs `make inject-...` may
break it off (`Interrupt`) and start the next. The commands of restore and nat_failure that
are followed by `|| true` may fail without ending the script (`Tolerant`, `PartOf`); `failed` is a
history variable, the parts of the lab they were about. Any other command that fails ends
its script, which `Interrupt` covers. The file diagnostics.json is truncated
in one step and written in another. What `ip`, `iptables` and `tc` do is external
(`Exec`); so is that a link set down takes its static routes along.

`RootCause` is the rule files and their evaluation: `Rules` are the sixteen rules, `Judge`
says of one condition whether it is met, failed, weakened or ignored, `Fires` and
`Confidence` follow, and `TopFinding` is the head of the stable sort. `HealthScore` has
the five scores, the total with its cap and the grade. Both take a snapshot as a record.

`RuleFor` names for each failure the rule that is to find it, one of the layer that the
script gives as the expected one. For high_latency there is none (section 7).

`Diagnosis` composes them: `Diag` is the snapshot that write_diagnostics.py makes of a
failure mode and the lab, and `Refresh` one refresh of the monitor, which reads the most
recent file, looks for a cached analysis by the experiment's name and shows the cause.

### Degradation

`Scan` is one turn of the loop over the samples, `Scans` the function that gives the state of the
loop after each of them, and `Detect` what it has reported in the end; `Report` puts together what `analyze_telemetry_history` returns, as far as
it is more than a mean. The signal quality is compared as loss and latency are, with the
thresholds of the code.

### TelemetryApi and Monitor

`TelemetryApi` has the shared `_state` and its three kinds of users: `Simulate` replaces all
keys in one step (`dict.update` under the interpreter lock), the generator (`GenRead`,
`GenAppend`, `GenDie`, `GenWake`) and `/metrics/current` (`ReadCurrent`) read them one by
one. `GenDie` is the exception that ends the background task; nothing restarts it.
`Monitor` is the loop of `main`: `does` is where it stands, with one action for each call
that may block or fail (`Probe`, `ReadCurrent` and `GetCurrent`, `Advance`, `Show`).
A post that times out is executed now, later (`LatePost`) or never. `disturbed` is a history
variable: since the last switch somebody else has had a say in the API's state.

### StarlinkClient

Time is a set of ages: of the cached status, of the stamp on it, of the dish's answer on
its way, of the call that runs. `Tick` makes all of them older, and a timeout of a tier is
a bound on `spent`. `ClockSetBack` is the host's clock, which `time.time()` reads; it may be set
back between two calls and during a fetch, once after each reading of it that still counts
(`setBack`). The two tiers are tried in turn. The first returns a status, or fails in one
of the ways a call can fail; the second fails whatever the dish answers (section 7), so `Succeed`
is of the first only.

### FrrAgent and BgpConvergence

`FrrAgent` has the sessions (external: `SessionMoves`, `PrefixArrives`) and what the agent
notes of them when it is asked: `Note` appends a transition for each peer whose state
differs from the one seen last. `BgpConvergence` is `run`, cut where time passes or the
router is asked: `Begin`, `Capture`, then `Check`, `Poll`, `Record`, `Sleep` in a loop.
Sessions move between any two of these, so that transitions are missed, and what a
summary says may be over when it is recorded. The clock goes forward: that the times of a
record are in order is claimed only for a host whose clock is not set back during a run, for
`run` reads `time.time()`. When OpenSent was seen is not ordered with the other times: a session
that goes down again is seen in OpenSent after it was seen Established.

## 4. Runs

| run | instance | properties |
|---|---|---|
| pep_safety | 5 clients, 2 slots | `SlotConservation`, `ActiveIsExact`, `NoLostWakeup`, `NoSocketLeak`; `Admits`: PepProxy implements Admission |
| pep_live | 3 clients, 1 slot | `WaitersServed`, `ShutdownCompletes` |
| relay_bytes | 3 chunks one way, 2 the other | `BufferBound`, `CountersTrackDelivery`, `UploadIsHandedOver`, `EndTearsDown`; `RelaysInOrder`: PepRelay implements ByteRelay |
| relay_eof | 1 chunk each way | *violated:* `RelaysUntilEof`, a relay does not run until EOF (line 99) |
| score_choice | 2 links: a grid of metrics; 2 classes, 3 log entries | `DominantLinkWins`, `NoSpuriousFailover`; `LogReplays` |
| sdwan_loop | 2 links, 2 classes | `AppliedLinksCarryTraffic`, `FailoverHappens` |
| sdwan_enforced | same | *violated:* `DecisionsEnforced`, a decision for no link is not applied (line 240) |
| lab | 3 scripts; a grid of 7 quantities; histories of 7 samples | `FaultIsFound`, `FaultComesFirst`, `SnapshotIsHonest`, `RestoreUndoesInjections`, `VerdictIsOfShownExperiment`; `WorseNeverScoresHigher`; `EventsAreWindows`, `ReportsStand` |
| lab_restore | 2 scripts | *violated:* `RestoreIsBaseline`, restore re-adds no routes (inject_failure.sh line 14) |
| demo | 2 scenarios of 2 refreshes, 2 lives of the API | `BannerTellsProfile`, `DemoCycles`, `StreamFollows` |
| agents | one dish, 2 tiers; 2 sessions, 2 runs | `CachedAnswerIsFresh`, `AnswersAgree`, `DishIsFoundAgain`; `RecordsAreTrue`, `LogIsChain`, `RunsEnd` |
| bgp_cycle | 1 session that goes down twice | *violated:* `MeasuresLastCycle` (frr_agent.py line 231) |

Each component's main run also checks its `TypeOK`, but for the lab's, which is only proved, and
SdwanEvents, whose variables are those of SdwanEngine and a log.
Where an instance names parts apart by a semicolon (score_choice, lab, agents), only one of
them moves in a behaviour.
Every property of a passing run has a mutant in `PROJECT.json`: a definition beside
the one it replaces, changed as a bug in that code would change it, under which
TLC finds the property violated.

**Bounds.** Five clients and two slots are the smallest instance with two grants in
flight, a queue behind them and a newcomer, the situation in which a wakeup can get
lost. Three chunks with a high-water mark of one make the buffer fill, pause, drain
and fill again, and two the other way (`MaxReply`) are one on its way while the other is
buffered; `ReadLimit` makes the transport stop reading. The grid of metrics has
each budget of voice and video, the next value, and values that clamp a sub-score.
Two readings that voice and bulk rank in opposite ways, and one tick of freshness,
let decisions differ by class and go stale between any two steps; three entries of the
log are a link that goes and comes back, and a class that moves in between. `accepted` grows
with the clients; every other counter is bounded by the constants.

Three scripts are a failure, another one on top of it or a restore, and what follows;
with interruptions they reach every combination of two injections that the next one can
find. The grid of the health score has the bounds of its chains and their neighbours, and
seven samples a window of every kind: at the start, in the middle, at the end, of one
sample, and two that touch. Two refreshes per scenario are one that switches and one that
shows; a history of two drops samples; two lives are a restart. A time to live as long as
a fetch of one tier lets an answer expire on its way. Four moves of two sessions take one
down and up again during a run and into the next.

**Deadlock** is checked in every run: the proxy stops only in `Terminated`, a connection
only in `Finished`. The runs `lab`, `demo` and `agents` and those of their findings switch it off:
scripts and runs are bounded, and a monitor that gave up its API does nothing with it.

## 5. Fairness

- *The event loop* runs every task that is ready: weak fairness on each handler's steps
  and on each relay's. A cancelled task is ready. An interrupted loop closes once its tasks
  have ended (weak fairness on `LoopCloses`); nothing obliges anybody to interrupt it.
- *The kernel* ends every connection attempt (its SYN timer): weak fairness on
  `Connected \/ ConnectFails`.
- *The peers* owe nothing. `ShutdownCompletes` needs nothing of them. `WaitersServed`
  says in the property itself that no connection relays for ever, because the code has
  no timeout to see to it; `EndTearsDown` assumes that peers read (weak fairness on
  `Flush`), since a transport that is closing waits for its buffer to empty.
- *The engine's loop* goes round (weak fairness on `RunPolicy`, `Apply` and the commands);
  a `flush` that is run again and again does not fail for ever (strong fairness).
  Nothing obliges anybody to report metrics.
- *The monitor's loop* goes round, for each of its calls has a timeout; the *generator* is a
  task of an event loop that runs (weak fairness on each). Nothing obliges the API to
  answer: `DemoCycles` assumes it in the property.
- *The caller of the dish's client* asks again and again, and a fetch ends because its tiers
  have timeouts (weak fairness). Nothing obliges the dish: `DishIsFoundAgain` assumes that it
  is back for good, that it answers in time, that the first tier can read the answers, and
  that its stubs are installed. They are not by `requirements.txt` (section 7).
- *The benchmark* goes on (weak fairness on its steps): a call of vtysh has a timeout and a
  sleep ends. Nothing obliges the sessions, nor a poll to give anything.

## 6. Proofs

Eight modules prove what TLC checks on small instances for every value of the
constants. They assume what the modules assume of their constants, which TLC evaluates in the
runs, and nothing else. Most of it is that bounds are natural numbers; the rest is what the
code sees to:

- `LinksAssumption`, `ClassesAssumption`, `AgentAssumption`: the lists of links, classes and
  neighbours have no element twice. The engine keeps its links and classes in dicts by name
  (`policy_engine.py` lines 71, 313), and FRR answers with an object that has the neighbours
  as keys. `EventsAssumption` adds that no link is called as a class, for both are named in one
  log.
- `GridAssumption`: latencies, losses and bandwidths are natural numbers, as measurements are.
- `MonitorAssumption`: `DEMO_SCENARIOS` is not empty, and each scenario is of a known profile.

All have one form: an invariant that is inductive, lemmas for the actions that can disturb
it, and the theorems that follow.

| module | proves | inductive invariant |
|---|---|---|
| PepProxyProofs | `TypeCorrect`, `SlotsConserved`, `GaugeExact`, `NoWakeupIsLost`, `NoSocketLeaks`, `ImplementsAdmission` | `IInv`, `WakeInv`, `SocketInv`, `LineInv` |
| PepRelayProofs | `RelayTypes`, `BuffersBounded`, `CountersHonest`, `UploadHandedOver`, `RelaysImplementByteRelay` | `RelayInv`, `UploadInv` |
| SdwanEngineProofs | `AppliedLinksCarry`, `EngineTypes`; `DominantWins`, `NoFlight`; `LogsReplay` | `EngineInv`, `TypeOK`; `GridInv`; `ReplayInv` |
| DiagnosisProofs | `RestoreUndoes`, `LabTypes`; `VerdictTrue`; `FaultFound`, `FaultFirst`, `SnapshotHonest`; `ScoreFalls`, `WorseScoresNoHigher` | `LabInv`, `LabTypeOK`; `DiagInv`; `FaultInv`, `FoundInv`; `OnGrid` |
| AgentsProofs | `AvailabilityAgrees`, `CacheIsFresh`; `RecordsTrue`, `LogChained`, `BenchTypes`, `AgentsTypes` | `DishInv`; `BenchInv`, `ChainInv`, `Bounds` |
| DegradationProofs | `DetectsWindows`, `ReportsGrow`; `EventsWindows`, `ReportsStanding` | `ScanInv`; `SeriesInv` |
| MonitorProofs | `BannerTrue`, `MonitorTypes` | `BannerInv`, `TypeInv` |
| SubsequenceProofs | lemmas on least elements, induction up to a number, subsequences, appended logs | |

**PepProxy**, for any finite set of clients and any limit above zero. `SlotConservation` is not
inductive: it says nothing of where a waiter's future is, and a step that resumes or
abandons an `acquire()` removes the handler from a queue that it must be in. `IInv` adds
that: every waiting handler is in the queue, and only a waiting handler has a future.
The account itself is that of `Owned`, the free and the granted slots of a semaphore; one
lemma per operation says what the operation does to `Owned` and whom it leaves alone
(`Frame`). `NoLostWakeup` needs more: `QueueOK`, that the queue holds each waiter once and
every pending one, so that `FirstPending` finds somebody whenever somebody is pending
(`FirstPendingExists`, by the least index, `LeastNatural`), and `Alert`, the property as one
of a semaphore. Each operation is shown to re-establish `Alert` from `QueueOK`. `SocketInv`
says, for each place a handler can be at, which of its sockets may be open and which relays
still have to close theirs.

The refinement of `Admission` maps each action to one step or a stutter. What needs proof is
the order: that a grant goes to the first pending waiter means that whoever is ahead of it
is granted too (`TakeTurns`), and a newcomer is behind everybody. A step that hands on a slot
lets one client leave and others take their turn at once, which is why `Admission` has the
two in one action. `LineInv` says that no pending waiter is cancelled: `CancelAll` dissolves the
line, and a cancelled handler does not join it again. `ServedCount` turns the account of
the slots into the cardinality of those served.

**PepRelay**, for any number of chunks and any marks. `Took(e)` counts what the transport
opposite to `e` was given: handed over, buffered or lost. `RelayInv` says that nothing is read
before it is received (`Flow`), that a transport that is not lost took all that was read
(`Passed`), that the counter trails `Took` by the chunk in `drain()` (`Account`), that a relay
reads on only below the mark (`Calm`), and that what was handed over and what is buffered are
consecutive (`InOrder`). The four properties are weaker than these parts, and none is
inductive alone: the bound of the buffer needs `Calm`, which needs to know where the relay
is; order needs `Passed`, for the next chunk read to be the next one handed over. The
refinement maps a peer's sending to that of ByteRelay, a flush or a write that is sent at once
to a delivery, and every other step, those of an interrupt included, to a stutter. `UploadInv`
holds while nothing breaks, nobody interrupts and the other peer has not ended: the two
directions then end in a fixed order, and whatever the first relay leaves in the buffer it
closes is handed to the socket before that is closed. This is what `UploadHandedOver` says, and no
more: an interrupted proxy drops what it has not passed on, and what becomes of the chunks
in the kernel is beyond it.

**SdwanEngine**, for any links, classes and decisions; how the links were ranked plays no
part in what the kernel is told. `EngineInv` is the invariant of two nested loops: all
positions of the list before `turn` are in place (`SoFar`), and the table of the class at hand
is empty after its `flush` and right after its `add`. It relies on each class occurring once in
the list: two positions with one table would undo one another. `EngineTypes` needs it too, for
`step` to stay within the commands.

`DominantWins` and `NoFlight` are about the ranking itself, for any number of links and any
natural numbers. They rest on a score that never falls when a link gets better
(`ScoreMonotone`), in spite of three divisions that round down (`DivMonotone`) and of scores
cut off at zero (`BeyondLemma`, `BandwidthLemma`); and on the sort, which picks a link that none
beats by score and then priority (`BestLemma`, `OneBest`). With that, a link that wins before a
change to its favour wins after it.

`LogsReplay` is proved of the engine with its log. `LogReplays` asks of each entry for the
latest before it; `ReplayInv` asks the same of neighbours in the log, of the first entry and of
the last (`Chained`), and says that no class has an entry before its first decision. A run of
the policy may append many entries at once: `SubsequenceLemma` says that each class that moved
is among them once, `ChainedGrows` and `ChainedKeeps` what that does to its chain and to the
others. Every step of the logged loop is one of SdwanEngine or a stutter (`LogImplements`), so
that its theorems hold there as well.

**StarlinkClient**, for any time to live, timeout and set of tiers. `DishInv` orders the ages:
the dish's answer is younger than the call that fetches it, the cached status younger than
its stamp, and when a fetch fails what was cached has expired. `setBack` says of which stamps this
does not hold because the clock was set back after they were taken; a fetch whose call
was stamped before that passes it on to the cache.

**LabFailures**, for any number of scripts, interrupted anywhere. `Undone` states what the
restore script has undone before its n-th command, but for the parts that its own commands
failed on; a restore always starts at the first with none. A command that fails spoils its own
part only, so `RestoreUndoes` says of a restore with failures that it restores the rest.
`LabTypes`, that no script runs past its commands among it, is inductive as it stands.

**Diagnosis**. `DiagInv` says that a file that is read whole is one that the scripts write, and
that what is cached is of the experiment under whose name it is kept; that the lab in
which the file was written was one at all is `LabInv`.

`FaultFound`, `FaultFirst` and `SnapshotHonest` go through the sixteen rules: `WhatFires` says
for each, by the conditions it has, on which of the snapshots that the scripts write it fires.
The rest is about the lab. `FaultInv` says that the NAT rule is gone before nat_failure writes
its file, unless the command that deletes it failed, and serves `FaultFirst`; `FaultIsFound` supposes
of the file itself that nat_failure found the rule deleted. No other injection needs the lab to be
found, which is a property of what write_diagnostics.py guesses. `FoundInv` says that a lab that had its NAT and its links when an
injection began has them still, but for what this injection takes away: then the only
other findings that could have more confidence, a missing NAT rule and an
interface that is down, are out of the question (`FaultTops`).

`ScoreFalls` is about any two snapshots, one of which is in no respect better (`NoBetter`): each
of the five scores is a sum of penalties, each of which grows; what is left is that the
clamps at zero and the cap of the total keep the order. The cap does because a link health of
zero stays zero. `WorseScoresNoHigher` is the property that the run checks, of which the grid is
an instance; its second half is that the rule for a link that is down fires on no link
whose health is above zero, and that the cap then makes an F.

**BgpConvergence**, for any polls, delays and transitions. `BenchInv` says that the times of a
record are in order and past (`InTime`), and that a summary in hand that is complete has
been true during the run, though it may be over by now (`Witnessed`). `ChainInv` is to
`LogIsChain` what `ReplayInv` is to `LogReplays`, and says that a peer not seen since the log was
cleared has no entry in it: a reset clears both. `Bounds` is what `BgpTypeOK` lacks to be
inductive, and `AgentsTypes` puts it beside the type invariant of the client of the dish.

**Monitor**, for any scenarios, durations and posts. `BannerInv` follows the API's state
through the reads of the keys, the sample and the history to the screen, from one switch
to the next. `TypeInv` says more than `TypeOK` of what a reader holds that is between two keys:
each value is that of some request (`ReadBy`), not all of the same one.

**Degradation**, for any samples, thresholds and levels. The loop is a recursive function of the
position, and `ScansDef` shows that there is one. What it computes takes an induction over the
samples; the library's theorems are out of the provers' reach, for they have an operator as a
parameter, so it is one over the set of the positions for which a claim holds (`UpTo`, from the
least position outside of that set). `ScanInv` is the invariant of the loop: all windows that
are over have been reported, in their order and one before the other; an open one began at
`start`, with no sample above the threshold just before, and has stayed above it since
(`Opened`). `DetectsWindows` is `ScanInv` at the last sample. `ReportsGrow` compares two runs of
the loop: over a longer history it does the same up to the end of the shorter one
(`ScansAgree`), and no turn takes an event back (`ScanKeeps`); flaps are a set that grows, the
greatest temperature one that is not below another sample (`PeakLemma`). The two properties of
the run are the instances for its history, which `SeriesInv` says is one of samples.

Only model-checked:

- Liveness under fairness (`WaitersServed`, `ShutdownCompletes`, `EndTearsDown`, `FailoverHappens`,
  `DemoCycles`, `StreamFollows`, `DishIsFoundAgain`, `RunsEnd`), which is beyond the prover.

The percentiles sort with an operator, of which the provers know nothing; no theorem speaks of them,
and `ReportsStand` leaves out the alerts on the 95th percentile and on the mean loss, which a sample
may well take back.

## 7. What the runs found

Four places where the code and its own words differ, each with a run and a quote in
`PROJECT.json`: a relay closes the other direction's socket at its own end of stream;
the decision for no link leaves the old route in place; restore does not bring back the
routes that an interface took along; and the time of the last convergence cycle is
that of the first.

Smaller ones, read off the source, without a run of their own:

- The raw tier of the Starlink client never returns a status. `method.with_call` returns a pair,
  which line 242 of `starlink_grpc.py` unpacks into three names; the `ValueError` is caught at line
  266, and the tier returns `None` whatever the dish answered. The header (line 12) has it as the
  tier for which "no extra package [is] needed", and `requirements.txt` installs grpcio but has
  starlink-grpc-tools commented out (line 18): with just that no dish is ever found, and the caller is
  left with synthetic telemetry. `DishIsFoundAgain` therefore supposes the first tier. The parser
  of the second, which is never reached, would not find its fields either: they are above 1000,
  and it looks for them by the first byte of the tag (lines 204-205).
- `inject_failure.sh` expects high_latency on Layer1 (line 112), which `write_diagnostics.py` puts
  into the file as `expected_osi_layer` (line 58). No rule of that layer looks at the latency, and
  what is found is `L7_APP_TIMEOUT`, on Layer7. `FaultIsFound` and `FaultComesFirst` hold the analyzer
  to the script's word for the other failures and claim nothing of this one.

- The header of `policy_engine.py` promises voice less than 200 ms (line 14) where the table of
  classes says 150 (line 74), and the comment on the latency decay 0.5 at twice the budget
  (line 134) where the formula gives 0.667. An engine given traffic classes of its own decides
  for them, but `inject_routes` passes over every class that `TRAFFIC_CLASSES` lacks (lines
  277-279), which is why SdwanEngine tells `Injectable` from `ClassList`.
- `telemetry_analyzer.py` reports a *good* signal as degraded: `detect_degradation_events` looks
  for values above the threshold (line 100), also for the signal quality (line 189).
- `reset_peer` promises a reconvergence (`frr_agent.py` line 242) and issues a soft clear, which
  leaves the session up (line 244); a run that starts with it ends as converged at the first
  poll. `compare_timer_configs` passes the number of runs as the number of prefixes
  (`bgp_convergence.py` line 275).
- A baseline has no NAT table in its snapshot, so `L3_NAT_BROKEN` is found in a healthy lab. A lab
  that is healthy but for its NAT scores 91.25 points, an A.
- When the generator has died, the stream goes on to send the last sample (`main.py` line 162),
  and `/health` says ok; `history(n=0)` returns everything (line 140).
- The header of the monitor shows the link state as the profile (`monitor.py` line 658).

## 8. Not modelled

Socket options and the proxy's benchmark (no state depends on them); the SD-WAN
summary, fallback link and reason text (only shown); dry runs. The VPN, route, BGP and
packet capture analyzers and `real_collector.py` are parsers of command output: they keep no
state, and a model of them would be a model of regular expressions. Of the telemetry, the
random numbers and the Prometheus gauges; of the monitor, the rendering, the lab panel and
the curves; of the agents, RIB and FIB queries, statistics and the fields of a status; of
the scripts, setup and teardown themselves, FRR and IPv6 namespaces. Configuration files.
Of TCP, what happens to a chunk between one socket and the other.
