----------------------------- MODULE AgentsProofs -----------------------------
(***************************************************************************)
(* Proofs about the two agents of MCAgents.  StarlinkClient, for every     *)
(* time to live, timeout and set of tiers installed: the cached answer and *)
(* the availability agree.  BgpConvergence: whatever the session does      *)
(* while a run samples it, a record is in order and claims nothing that    *)
(* was not, and the agent's log of transitions has no gap.  The last       *)
(* theorem is about the two side by side.                                  *)
(***************************************************************************)
EXTENDS MCAgents, SubsequenceProofs

(* The client of the dish. *)

\* While a fetch runs, the dish's answer is younger than the call.
AnswerYounger ==
    /\ sampled # NoAge => call # "idle"
    /\ call # "idle" /\ "call" \notin setBack => called >= 0 /\ sampled <= called

\* The cached status is younger than its stamp says.
CacheYounger == "cache" \notin setBack => stamp >= 0 /\ (cache # NoAge => cache <= stamp)

\* is_available fetches only when nothing is known.
NothingKnown ==
    /\ call = "is_available" => available = "untested"
    /\ available = "untested" => answer = "untested" /\ cache = NoAge

\* When a fetch fails, or has failed, the cached status has expired.
FailureExpires ==
    cache # NoAge /\ "cache" \notin setBack /\ (call = "get_status" \/ available # "yes") => stamp >= Ttl

DishInv == DishTypeOK /\ AnswerYounger /\ CacheYounger /\ NothingKnown /\ FailureExpires /\ AnswersAgree

USE DEF NoAge

\* One step of the clock.
LEMMA OlderType ==
    ASSUME NEW a \in NoAge..AgeMax
    PROVE  /\ Older(a) \in NoAge..AgeMax
           /\ a \in 0..AgeMax => Older(a) \in 0..AgeMax
           /\ (a = NoAge) <=> (Older(a) = NoAge)
  BY ClientAssumption DEF Older

\* Ages keep their order when the clock goes on.
LEMMA OlderOrder ==
    ASSUME NEW a \in NoAge..AgeMax, NEW b \in 0..AgeMax, a <= b
    PROVE  Older(a) <= Later(b) /\ Later(b) >= 0
  BY ClientAssumption DEF Older, Later

\* The clock's time less a stamp.
LEMMA LaterType ==
    ASSUME NEW b \in (0 - AgeMax)..AgeMax
    PROVE  Later(b) \in (0 - AgeMax)..AgeMax
  BY ClientAssumption DEF Later

\* The invariant holds at first.
LEMMA DishInitInv == DishInit => DishInv
<1> SUFFICES ASSUME DishInit PROVE DishInv
  OBVIOUS
<1>1. DishTypeOK
  <2>1. /\ dishUp \in BOOLEAN /\ setBack \subseteq {"cache", "call"} /\ call = "idle" /\ tier = "tools"
        /\ available = "untested" /\ answer = "untested"
    BY DEF DishInit
  <2>2. /\ spent \in 0..TierTime /\ sampled \in NoAge..AgeMax /\ cache \in NoAge..AgeMax
        /\ called \in (0 - AgeMax)..AgeMax /\ stamp \in (0 - AgeMax)..AgeMax
    BY ClientAssumption DEF DishInit
  <2> QED
    BY <2>1, <2>2 DEF DishTypeOK
<1>2. AnswerYounger /\ CacheYounger /\ NothingKnown /\ FailureExpires /\ AnswersAgree
  BY DEF DishInit, AnswerYounger, CacheYounger, NothingKnown, FailureExpires, AnswersAgree
<1> QED
  BY <1>1, <1>2 DEF DishInv

\* Each step preserves it.
LEMMA DishStepInv == DishInv /\ [DishNext]_dishVars => DishInv'
<1> SUFFICES ASSUME DishInv, [DishNext]_dishVars PROVE DishInv'
  OBVIOUS
<1> USE ClientAssumption
<1> USE DEF DishInv, DishTypeOK, AnswerYounger, CacheYounger, NothingKnown, FailureExpires, AnswersAgree
<1>1. CASE GetCached
  BY <1>1 DEF GetCached, Fresh
<1>2. CASE GetStatus
  <2>1. CASE GetCached
    BY <1>1, <2>1
  <2>2. CASE ~GetCached
    <3>1. /\ call = "idle" /\ ~Fresh /\ call' = "get_status" /\ tier' = "tools"
          /\ spent' = 0 /\ sampled' = NoAge /\ called' = 0 /\ setBack' = setBack \ {"call"}
          /\ UNCHANGED <<dishUp, cache, stamp, available, answer>>
      BY <1>2, <2>2 DEF GetStatus, Fetch
    <3>2. DishTypeOK'
      BY <3>1
    <3>3. (AnswerYounger /\ CacheYounger /\ NothingKnown /\ AnswersAgree)'
      BY <3>1
    <3>4. FailureExpires'
      BY <3>1 DEF Fresh
    <3> QED BY <3>2, <3>3, <3>4
  <2> QED BY <2>1, <2>2
<1>3. CASE IsAvailable
  BY <1>3 DEF IsAvailable, Fetch
<1>4. CASE DishAnswers
  BY <1>4 DEF DishAnswers
<1>5. CASE Succeed
  <2>1. CASE call = "get_status"
    <3>1. /\ available' = "yes" /\ cache' = sampled /\ stamp' = called
          /\ setBack' = IF "call" \in setBack THEN {"call", "cache"} ELSE {}
          /\ answer' = "fresh" /\ call' = "idle" /\ sampled' = NoAge
          /\ UNCHANGED <<dishUp, tier, spent, called>>
      BY <1>5, <2>1 DEF Succeed, StampOfCache
    <3>2. "cache" \notin setBack' => called >= 0 /\ sampled <= called
      BY <2>1, <3>1
    <3>3. DishTypeOK'
      <4>1. dishUp' \in BOOLEAN /\ setBack' \subseteq {"cache", "call"}
        BY <3>1
      <4>2. /\ spent' \in 0..TierTime /\ sampled' \in NoAge..AgeMax /\ cache' \in NoAge..AgeMax
            /\ called' \in (0 - AgeMax)..AgeMax /\ stamp' \in (0 - AgeMax)..AgeMax
        BY <3>1
      <4>3. call' \in {"idle", "get_status", "is_available"} /\ tier' \in {"tools", "raw"}
        BY <3>1
      <4> QED
        BY <3>1, <4>1, <4>2, <4>3
    <3> QED
      BY <3>1, <3>2, <3>3
  <2>2. CASE call # "get_status"
    BY <1>5, <2>2 DEF Succeed
  <2> QED BY <2>1, <2>2
<1>6. CASE TierFails
  <2>1. CASE tier = "tools"
    BY <1>6, <2>1 DEF TierFails
  <2>2. CASE tier # "tools"
    BY <1>6, <2>2 DEF TierFails, NoteFailure
  <2> QED BY <2>1, <2>2
<1>7. CASE Tick
  <2>1. /\ Older(cache) \in NoAge..AgeMax /\ Older(sampled) \in NoAge..AgeMax
        /\ (cache = NoAge) <=> (Older(cache) = NoAge)
        /\ (sampled = NoAge) <=> (Older(sampled) = NoAge)
    BY OlderType
  <2>2. Later(stamp) \in (0 - AgeMax)..AgeMax /\ Later(called) \in (0 - AgeMax)..AgeMax
    BY LaterType
  <2>3. call # "idle" /\ "call" \notin setBack => Older(sampled) <= Later(called) /\ Later(called) >= 0
    BY OlderOrder
  <2>4. cache # NoAge /\ "cache" \notin setBack => Older(cache) <= Later(stamp)
    BY OlderOrder
  <2>5. /\ stamp >= Ttl => Later(stamp) >= Ttl
        /\ stamp >= 0 => Later(stamp) >= 0
    BY DEF Later
  <2>6. /\ cache' = Older(cache) /\ sampled' = Older(sampled) /\ stamp' = Later(stamp)
        /\ called' = IF call = "idle" THEN called ELSE Later(called)
        /\ spent' \in 0..TierTime
        /\ UNCHANGED <<dishUp, call, tier, available, answer, setBack>>
    BY <1>7 DEF Tick
  <2> QED
    BY <2>1, <2>2, <2>3, <2>4, <2>5, <2>6
<1>8. CASE DishChanges
  BY <1>8 DEF DishChanges
<1>9. CASE ClockSetBack
  BY <1>9 DEF ClockSetBack
<1>10. CASE UNCHANGED dishVars
  BY <1>10 DEF dishVars
<1> QED
  BY <1>2, <1>3, <1>4, <1>5, <1>6, <1>7, <1>8, <1>9, <1>10 DEF DishNext, DishStep

\* The invariant holds in every behaviour of the client.
THEOREM DishInvariance == DishSpec => []DishInv
  BY DishInitInv, DishStepInv, PTL DEF DishSpec

\* is_available and get_status never contradict each other.
THEOREM AvailabilityAgrees == DishSpec => []AnswersAgree
<1>1. DishInv => AnswersAgree
  BY DEF DishInv
<1> QED
  BY <1>1, DishInvariance, PTL

\* No status that is older than the time to live is served from the cache.
THEOREM CacheIsFresh == DishSpec => CachedAnswerIsFresh
<1>1. DishInv /\ [DishNext]_dishVars => [GetCached => cache < Ttl \/ "cache" \in setBack]_dishVars
  <2> SUFFICES ASSUME DishInv, GetCached, "cache" \notin setBack PROVE cache < Ttl
    BY DEF dishVars
  <2> QED
    BY ClientAssumption DEF DishInv, DishTypeOK, CacheYounger, GetCached, Fresh
<1> QED
  BY <1>1, DishInvariance, PTL DEF DishSpec, CachedAnswerIsFresh

-----------------------------------------------------------------------------
(* The convergence benchmark. *)

\* The summary in hand, or a record made of one, is of a state of this run.
Witnessed ==
    /\ does # "idle" /\ FullNow => wasFull
    /\ does = "record" /\ kind = "real" /\ got.state = "Established" /\ got.received >= Expected
          => wasFull
    /\ record.full # NoTime /\ kind = "real" => wasFull

\* The times of a record are in order and not in the future.
InTime ==
    /\ record.established = NoTime \/ record.established \in 0 .. clock
    /\ record.first_prefix = NoTime
          \/ (record.first_prefix \in 0 .. clock /\ record.established \in 0 .. record.first_prefix)
    /\ record.full = NoTime
          \/ (record.full \in 0 .. clock /\ record.first_prefix \in 0 .. record.full
                /\ record.received >= Expected)

Numbers == clock \in Nat /\ got.received \in Int /\ prefixes \in [Peers -> Int]

BenchInv == Numbers /\ InTime /\ Witnessed

LEMMA InitBench == BgpInit => BenchInv
  BY BenchAssumption, AgentAssumption
  DEF BgpInit, AgentInit, BenchInv, Numbers, InTime, Witnessed, NewRecord, Nothing, NoTime

\* A step that leaves the run, its record and its summary alone.
LEMMA BenchIdles ==
    ASSUME BenchInv, UNCHANGED <<session, prefixes, kind, record, wasFull>>,
           clock' \in Nat, clock <= clock',
           got'.received \in Int, does' # "record" \/ (does' = does /\ got' = got),
           does = "idle" => does' = "idle"
    PROVE  BenchInv'
<1>1. Numbers' /\ FullNow' = FullNow
  BY DEF BenchInv, Numbers, FullNow
<1>2. InTime'
  <2>1. clock \in Nat
    BY DEF BenchInv, Numbers
  <2> QED
    BY <2>1 DEF BenchInv, InTime, NoTime
<1>3. Witnessed'
  BY <1>1 DEF BenchInv, Witnessed
<1> QED
  BY <1>1, <1>2, <1>3 DEF BenchInv

\* A summary is taken of what the session is, and dates the record.
LEMMA RecordInv ==
    ASSUME BenchInv, Record
    PROVE  BenchInv'
<1> DEFINE up   == got.state = "Established"
           full == up /\ got.received >= Expected
<1>1. clock \in Nat /\ got.received \in Int /\ Expected \in Nat \ {0}
  BY BenchAssumption DEF BenchInv, Numbers
<1>2. UNCHANGED <<session, prefixes, kind, clock, wasFull>> /\ does' # "record" /\ got' = Nothing
  BY DEF Record, agentVars
<1>3. /\ record'.established  = Set(record.established, up)
      /\ record'.first_prefix = Set(record.first_prefix, up /\ got.received > 0)
      /\ record'.full         = Set(record.full, full)
      /\ record'.received     = IF full THEN got.received ELSE record.received
  BY DEF Record
<1>4. Numbers' /\ FullNow' = FullNow
  BY <1>2 DEF BenchInv, Numbers, FullNow, Nothing
<1>5. InTime'
  <2>1. InTime
    BY DEF BenchInv
  <2>2. full => up /\ got.received > 0
    BY <1>1
  <2>3. record'.established = NoTime \/ record'.established \in 0 .. clock
    BY <1>1, <1>3, <2>1 DEF InTime, Set
  <2>4. record'.first_prefix = NoTime \/ (record'.first_prefix \in 0 .. clock
                                    /\ record'.established \in 0 .. record'.first_prefix)
    BY <1>1, <1>3, <2>1 DEF InTime, Set, NoTime
  <2>5. record'.full = NoTime \/ (record'.full \in 0 .. clock
                                    /\ record'.first_prefix \in 0 .. record'.full
                                    /\ record'.received >= Expected)
    BY <1>1, <1>3, <2>1, <2>2 DEF InTime, Set, NoTime
  <2> QED
    BY <1>2, <2>3, <2>4, <2>5 DEF InTime
<1>6. Witnessed'
  <2>1. does = "record"
    BY DEF Record
  <2>2. record'.full # NoTime => record.full # NoTime \/ full
    BY <1>3 DEF Set
  <2>3. record'.full # NoTime /\ kind' = "real" => wasFull'
    BY <1>2, <2>1, <2>2 DEF BenchInv, Witnessed
  <2>4. does' # "idle" /\ FullNow' => wasFull'
    BY <1>2, <1>4, <2>1 DEF BenchInv, Witnessed
  <2> QED
    BY <1>2, <2>3, <2>4 DEF Witnessed
<1> QED
  BY <1>4, <1>5, <1>6 DEF BenchInv

LEMMA PollInv ==
    ASSUME BenchInv, Poll
    PROVE  BenchInv'
<1>1. /\ does = "poll" /\ does' = "record" /\ got' = Answer[Target]
      /\ UNCHANGED <<session, prefixes, kind, clock, record, wasFull>>
  BY DEF Poll
<1>2. Target \in Peers
  BY BenchAssumption
<1>3. got'.received \in Int
  BY <1>1, <1>2 DEF Answer, Synthetic, Summary, BenchInv, Numbers
<1>4. kind = "real" => got' = [state |-> session[Target], received |-> prefixes[Target]]
  BY <1>1, <1>2 DEF Answer, Summary
<1>5. FullNow' = FullNow
  BY <1>1 DEF FullNow
<1>6. Witnessed'
  BY <1>1, <1>4, <1>5 DEF BenchInv, Witnessed, FullNow
<1>7. Numbers' /\ InTime'
  BY <1>1, <1>3 DEF BenchInv, Numbers, InTime
<1> QED
  BY <1>6, <1>7 DEF BenchInv

LEMMA SessionsInv ==
    ASSUME BenchInv, Sessions
    PROVE  BenchInv'
<1>1. UNCHANGED <<does, clock, record, got>> /\ wasFull' = (wasFull \/ FullNow')
  BY DEF Sessions
<1>2. prefixes' \in [Peers -> Int] /\ kind' = kind
  BY DEF Sessions, SessionMoves, PrefixArrives, BenchInv, Numbers
<1>3. Numbers' /\ InTime'
  BY <1>1, <1>2 DEF BenchInv, Numbers, InTime
<1>4. Witnessed'
  BY <1>1, <1>2 DEF BenchInv, Witnessed
<1> QED
  BY <1>3, <1>4 DEF BenchInv

LEMMA StepBench == BenchInv /\ [BgpNext]_bgpVars => BenchInv'
<1> SUFFICES ASSUME BenchInv, [BgpNext]_bgpVars PROVE BenchInv'
  OBVIOUS
<1>1. clock \in Nat /\ got.received \in Int
  BY DEF BenchInv, Numbers
<1>2. CASE UNCHANGED bgpVars
  BY <1>1, <1>2, BenchIdles DEF bgpVars, benchVars, agentVars
<1>3. ASSUME NEW trigger, Begin(trigger) PROVE BenchInv'
  <2>1. /\ does' = "capture" /\ clock' = 0 /\ record' = NewRecord /\ wasFull' = FullNow
        /\ UNCHANGED <<session, prefixes, kind, got>>
    BY <1>3 DEF Begin, FirstRecord
  <2>2. Numbers' /\ FullNow' = FullNow
    BY <2>1 DEF BenchInv, Numbers, FullNow
  <2>3. InTime' /\ Witnessed'
    BY <2>1, <2>2 DEF InTime, Witnessed, NewRecord, NoTime
  <2> QED
    BY <2>2, <2>3 DEF BenchInv
<1>4. CASE Capture \/ Check \/ PollFails
  BY <1>1, <1>4, BenchIdles DEF Capture, Check, PollFails, agentVars
<1>5. CASE Sleep
  BY <1>1, <1>5, BenchIdles DEF Sleep, agentVars
<1>6. CASE TimePasses
  BY <1>1, <1>6, BenchIdles DEF TimePasses, agentVars
<1> QED
  BY <1>2, <1>3, <1>4, <1>5, <1>6, RecordInv, PollInv, SessionsInv DEF BgpNext, BenchStep

\* BenchInv holds of every state of the benchmark.
THEOREM BenchInvariance == BgpSpec => []BenchInv
  BY InitBench, StepBench, PTL DEF BgpSpec

\* A record's times are in order, and it reports full convergence only if the
\* session had all expected prefixes in that very run, for any timeout, any
\* number of runs and prefixes, and whatever polls fail.
THEOREM RecordsTrue == BgpSpec => []RecordsAreTrue
<1>1. BenchInv => RecordsAreTrue
  BY DEF BenchInv, InTime, Witnessed, RecordsAreTrue
<1> QED
  BY <1>1, BenchInvariance, PTL
-----------------------------------------------------------------------------
(***************************************************************************)
(* The log.  `LogIsChain` looks for the next entry of a peer; `ChainInv`   *)
(* says the same of neighbours in the log (`Linked`), and that nothing is  *)
(* logged of a peer that has not been seen since the log was cleared.      *)
(***************************************************************************)
Entry == [peer : Peers, from : SessionStates, to : SessionStates]

EntriesOf(p) == {i \in DOMAIN log : log[i].peer = p}

ChainInv ==
    \A p \in Peers : /\ Linked(log, EntriesOf(p), lastState[p])
                     /\ lastState[p] = Unseen => EntriesOf(p) = {}

LEMMA LogTyped == AgentTypeOK => log \in Seq(Entry) /\ lastState \in [Peers -> SessionStates \cup {Unseen}]
  BY DEF AgentTypeOK, Entry

LEMMA EntriesType ==
    ASSUME AgentTypeOK, NEW p
    PROVE  EntriesOf(p) \in SUBSET (1 .. Len(log)) /\ Len(log) \in Nat
  BY LogTyped DEF EntriesOf

\* What get_bgp_summary appends: one entry for each peer that is in a state other
\* than the one seen last, and these are the entries that the log gains.
LEMMA NoteLemma ==
    ASSUME AgentTypeOK, ChainInv, kind # "synthetic",
           NEW summary, \A p \in Peers : summary[p].state \in SessionStates, Note(summary)
    PROVE  /\ log' \in Seq(Entry) /\ lastState' \in [Peers -> SessionStates \cup {Unseen}]
           /\ ChainInv'
  <1> DEFINE changed == {i \in DOMAIN PeerList :
                           lastState[PeerList[i]] \notin {Unseen, summary[PeerList[i]].state}}
             noted   == Subsequence(PeerList, changed)
             new     == [n \in DOMAIN noted |->
                           [peer |-> noted[n], from |-> lastState[noted[n]],
                            to |-> summary[noted[n]].state]]
             m       == Len(log)
             N       == Len(noted)
  <1>1. log' = log \o new /\ lastState' = [p \in Peers |-> summary[p].state]
    BY DEF Note, Remember
  <1>2. /\ PeerList \in Seq(Peers) /\ changed \in SUBSET DOMAIN PeerList
        /\ \A i, j \in DOMAIN PeerList : PeerList[i] = PeerList[j] => i = j
    BY AgentAssumption DEF Peers
  <1>3. /\ noted \in Seq(Peers)
        /\ \A n \in DOMAIN noted : \E k \in changed : noted[n] = PeerList[k]
        /\ \A k \in changed : \E n \in DOMAIN noted : noted[n] = PeerList[k]
        /\ \A i, n \in DOMAIN noted : noted[i] = noted[n] => i = n
    BY <1>2, SubsequenceLemma
  <1>4. /\ \A n \in DOMAIN noted : noted[n] \in Peers /\ lastState[noted[n]] # Unseen
                                  /\ lastState[noted[n]] # summary[noted[n]].state
        /\ \A p \in Peers : lastState[p] \notin {Unseen, summary[p].state} =>
              \E n \in DOMAIN noted : noted[n] = p
    <2>1. \A k \in changed : PeerList[k] \in Peers /\ lastState[PeerList[k]] # Unseen
                             /\ lastState[PeerList[k]] # summary[PeerList[k]].state
      BY <1>2
    <2>2. \A p \in Peers : \E k \in DOMAIN PeerList : PeerList[k] = p
      BY Zenon DEF Peers, ToSet
    <2>3. \A p \in Peers : lastState[p] \notin {Unseen, summary[p].state} =>
             \E k \in changed : PeerList[k] = p
      BY <2>2
    <2> HIDE DEF changed, noted
    <2>4. ASSUME NEW n \in DOMAIN noted
          PROVE  /\ noted[n] \in Peers /\ lastState[noted[n]] # Unseen
                 /\ lastState[noted[n]] # summary[noted[n]].state
      <3>1. PICK k \in changed : noted[n] = PeerList[k]
        BY <1>3
      <3> QED
        BY <2>1, <3>1
    <2>5. ASSUME NEW p \in Peers, lastState[p] \notin {Unseen, summary[p].state}
          PROVE  \E n \in DOMAIN noted : noted[n] = p
      <3>1. PICK k \in changed : PeerList[k] = p
        BY <2>3, <2>5
      <3> QED
        BY <1>3, <3>1
    <2> QED
      BY <2>4, <2>5
  <1> HIDE DEF noted
  <1>5. /\ log \in Seq(Entry) /\ lastState \in [Peers -> SessionStates \cup {Unseen}]
        /\ m \in Nat /\ DOMAIN log = 1 .. m
    BY LogTyped
  <1>6. N \in Nat /\ DOMAIN noted = 1 .. N
    BY <1>3
  <1>7. new \in Seq(Entry) /\ Len(new) = N
    <2>1. \A p \in Peers : lastState[p] # Unseen => lastState[p] \in SessionStates
      BY <1>5
    <2>2. \A n \in 1 .. N : /\ noted[n] \in Peers /\ lastState[noted[n]] \in SessionStates
                             /\ summary[noted[n]].state \in SessionStates
      BY <1>4, <1>6, <2>1
    <2>3. \A n \in 1 .. N : [peer |-> noted[n], from |-> lastState[noted[n]],
                              to |-> summary[noted[n]].state] \in Entry
      BY <2>2 DEF Entry
    <2> QED
      BY <1>6, <2>3
  <1>8. \A n \in 1 .. N : /\ new[n].peer = noted[n] /\ new[n].from = lastState[noted[n]]
                          /\ new[n].to = summary[noted[n]].state
    BY <1>6
  <1> HIDE DEF new
  <1>9. log' \in Seq(Entry) /\ Joined(log', log, m, new, N)
    <2>1. log \o new \in Seq(Entry) /\ Joined(log \o new, log, Len(log), new, Len(new))
      BY <1>5, <1>7, ConcatLemma, Zenon
    <2> QED
      BY <1>1, <1>7, <2>1
  <1> HIDE DEF m, N
  <1>10. ASSUME NEW p \in Peers
         PROVE  /\ Linked(log', EntriesOf(p)', lastState'[p])
                /\ lastState'[p] = Unseen => EntriesOf(p)' = {}
    <2> DEFINE D == EntriesOf(p)
    <2>1. D \in SUBSET (1 .. m) /\ D \in SUBSET Nat /\ \A i \in D : log'[i] = log[i]
      BY <1>5, <1>9 DEF EntriesOf, Joined
    <2>2. lastState'[p] = summary[p].state /\ lastState'[p] # Unseen
      BY <1>1 DEF SessionStates, Unseen
    <2>3. Linked(log, D, lastState[p]) /\ (lastState[p] = Unseen => D = {})
      BY DEF ChainInv
    <2>4. CASE lastState[p] \notin {Unseen, summary[p].state}
      <3>1. PICK n \in 1 .. N : noted[n] = p
        BY <1>4, <1>6, <2>4
      <3>2. log'[m + n].from = lastState[p] /\ log'[m + n].to = summary[p].state
        BY <1>8, <1>9, <3>1 DEF Joined
      <3>3. EntriesOf(p)' = D \cup {m + n}
        <4>1. \A i \in 1 .. N : new[i].peer = p => i = n
          BY <1>3, <1>6, <1>8, <3>1
        <4>2. log'[m + n].peer = p
          BY <1>8, <1>9, <3>1 DEF Joined
        <4>3. EntriesOf(p)' = {i \in 1 .. m + N : log'[i].peer = p}
          BY <1>9 DEF EntriesOf, Joined
        <4>4. D = {i \in 1 .. m : log[i].peer = p}
          BY <1>5 DEF EntriesOf
        <4> HIDE DEF D
        <4> QED
          BY <1>9, <4>1, <4>2, <4>3, <4>4 DEF Joined
      <3>4. m + n \in Nat /\ \A i \in D : i < m + n
        BY <1>5, <1>6, <2>1
      <3> HIDE DEF D
      <3>5. Linked(log', D \cup {m + n}, summary[p].state)
        BY <2>1, <2>3, <2>4, <3>2, <3>4, LinkedGrows
      <3> QED
        BY <2>2, <3>3, <3>5
    <2>5. CASE lastState[p] \in {Unseen, summary[p].state}
      <3>1. EntriesOf(p)' = D
        <4>1. \A n \in 1 .. N : new[n].peer # p
          BY <1>4, <1>6, <1>8, <2>5
        <4>2. EntriesOf(p)' = {i \in 1 .. m + N : log'[i].peer = p}
          BY <1>9 DEF EntriesOf, Joined
        <4>3. D = {i \in 1 .. m : log[i].peer = p}
          BY <1>5 DEF EntriesOf
        <4> HIDE DEF D
        <4> QED
          BY <1>9, <4>1, <4>2, <4>3 DEF Joined
      <3> HIDE DEF D
      <3>2. Linked(log', D, lastState[p])
        BY <2>1, <2>3, LinkedKeeps
      <3>3. CASE lastState[p] = summary[p].state
        BY <2>2, <3>1, <3>2, <3>3
      <3>4. CASE lastState[p] = Unseen
        BY <2>2, <2>3, <3>1, <3>4 DEF Linked
      <3> QED
        BY <2>5, <3>3, <3>4
    <2> QED
      BY <2>4, <2>5
  <1>11. ChainInv'
    BY <1>10 DEF ChainInv
  <1>12. lastState' \in [Peers -> SessionStates \cup {Unseen}]
    BY <1>1
  <1> QED
    BY <1>9, <1>11, <1>12

\* The first entry of a peer behind the i-th goes on where that one has ended, and
\* behind the last is the state seen last.
LEMMA ChainImplies == AgentTypeOK /\ ChainInv => LogIsChain
  <1> SUFFICES ASSUME AgentTypeOK, ChainInv, NEW i \in DOMAIN log
               PROVE  LET later == {j \in DOMAIN log : j > i /\ log[j].peer = log[i].peer} IN
                      /\ log[i].from # log[i].to
                      /\ log[i].to = IF later = {} THEN lastState[log[i].peer]
                                     ELSE log[Smallest(later)].from
    BY DEF LogIsChain
  <1> DEFINE p == log[i].peer
             D == EntriesOf(p)
             later == {j \in DOMAIN log : j > i /\ log[j].peer = p}
  <1>1. p \in Peers /\ i \in D /\ D \in SUBSET Nat
    <2>1. log[i] \in Entry
      BY LogTyped
    <2>2. D \in SUBSET (1 .. Len(log)) /\ Len(log) \in Nat
      BY EntriesType
    <2>3. i \in D
      BY DEF EntriesOf
    <2> QED
      BY <2>1, <2>2, <2>3 DEF Entry
  <1>2. Linked(log, D, lastState[p])
    BY <1>1 DEF ChainInv
  <1>3. later = {j \in D : j > i}
    BY DEF EntriesOf
  <1> HIDE DEF p, D, later
  <1>4. log[i].from # log[i].to
    BY <1>1, <1>2 DEF Linked
  <1>5. CASE later = {}
    <2>1. \A j \in D : j <= i
      BY <1>1, <1>3, <1>5
    <2> QED
      BY <1>1, <1>2, <1>4, <1>5, <2>1 DEF Linked, later, p
  <1>6. CASE later # {}
    <2> DEFINE s == Smallest(later)
    <2>1. s \in later /\ \A j \in later : s <= j
      <3>1. later \in SUBSET Nat
        BY <1>1, <1>3
      <3>2. \E k \in later : \A j \in later : k <= j
        BY <1>6, <3>1, LeastNatural
      <3> QED
        BY <3>2, Zenon DEF Smallest
    <2> HIDE DEF s
    <2>2. s \in D /\ i < s /\ \A k \in D : ~(i < k /\ k < s)
      BY <1>1, <1>3, <2>1
    <2>3. log[i].to = log[s].from
      BY <1>1, <1>2, <2>2 DEF Linked
    <2> QED
      BY <1>4, <1>6, <2>3 DEF later, p, s
  <1> QED
    BY <1>5, <1>6

\* Steps of the sessions are transitions that the agent has not seen.
LEMMA SessionsLog ==
    ASSUME AgentTypeOK, ChainInv, NEW p \in Peers, SessionMoves(p) \/ PrefixArrives(p)
    PROVE  (AgentTypeOK /\ ChainInv)'
  <1>1. CASE SessionMoves(p)
    <2>1. session' \in [Peers -> SessionStates]
      BY <1>1 DEF SessionMoves, AgentTypeOK, SessionStates
    <2>2. prefixes' \in [Peers -> 0 .. MaxPrefixes] /\ moves' \in 0 .. MaxMoves
      BY <1>1, AgentAssumption DEF SessionMoves, AgentTypeOK
    <2>3. UNCHANGED <<kind, log, lastState>>
      BY <1>1 DEF SessionMoves
    <2> QED
      BY <2>1, <2>2, <2>3 DEF AgentTypeOK, ChainInv, EntriesOf
  <1>2. CASE PrefixArrives(p)
    <2>1. prefixes' \in [Peers -> 0 .. MaxPrefixes]
      BY <1>2, AgentAssumption DEF PrefixArrives, AgentTypeOK
    <2>2. UNCHANGED <<session, moves, kind, log, lastState>>
      BY <1>2 DEF PrefixArrives
    <2> QED
      BY <2>1, <2>2 DEF AgentTypeOK, ChainInv, EntriesOf
  <1> QED
    BY <1>1, <1>2

\* With the log the states last seen are cleared, so nothing is left to go on from.
LEMMA ResetLog ==
    ASSUME AgentTypeOK, ResetPeer, UNCHANGED <<session, prefixes, moves, kind>>
    PROVE  (AgentTypeOK /\ ChainInv)'
  <1>1. log' = <<>> /\ lastState' = [p \in Peers |-> Unseen]
    BY DEF ResetPeer
  <1>2. AgentTypeOK'
    BY <1>1 DEF AgentTypeOK
  <1>3. \A p \in Peers : EntriesOf(p)' = {}
    BY <1>1 DEF EntriesOf
  <1> QED
    BY <1>2, <1>3 DEF ChainInv, Linked

LEMMA NoteLog ==
    ASSUME AgentTypeOK, ChainInv, Note(Answer), UNCHANGED <<session, prefixes, moves, kind>>
    PROVE  (AgentTypeOK /\ ChainInv)'
  <1>1. CASE kind = "synthetic"
    <2>1. UNCHANGED <<log, lastState>>
      BY <1>1 DEF Note
    <2> QED
      BY <2>1 DEF AgentTypeOK, ChainInv, EntriesOf
  <1>2. CASE kind # "synthetic"
    <2>1. \A p \in Peers : Answer[p].state \in SessionStates
      BY <1>2 DEF Answer, Summary, AgentTypeOK
    <2>2. /\ log' \in Seq(Entry) /\ lastState' \in [Peers -> SessionStates \cup {Unseen}]
          /\ ChainInv'
      BY <1>2, <2>1, NoteLemma
    <2> QED
      BY <2>2 DEF AgentTypeOK, Entry
  <1> QED
    BY <1>1, <1>2

LEMMA LogStep == AgentTypeOK /\ ChainInv /\ [BgpNext]_bgpVars => (AgentTypeOK /\ ChainInv)'
  <1> SUFFICES ASSUME AgentTypeOK, ChainInv, [BgpNext]_bgpVars
               PROVE  (AgentTypeOK /\ ChainInv)'
    OBVIOUS
  <1>1. ASSUME UNCHANGED agentVars PROVE (AgentTypeOK /\ ChainInv)'
    BY <1>1 DEF agentVars, AgentTypeOK, ChainInv, EntriesOf
  <1>2. ASSUME NEW trigger, Begin(trigger) PROVE (AgentTypeOK /\ ChainInv)'
    <2>1. UNCHANGED <<session, prefixes, moves, kind>>
          /\ (ResetPeer \/ UNCHANGED <<log, lastState>>)
      BY <1>2 DEF Begin
    <2> QED
      BY <1>1, <2>1, ResetLog DEF agentVars
  <1>3. CASE Capture
    <2>1. UNCHANGED <<session, prefixes, moves, kind>>
          /\ (Note(Answer) \/ UNCHANGED <<log, lastState>>)
      BY <1>3 DEF Capture
    <2> QED
      BY <1>1, <2>1, NoteLog DEF agentVars
  <1>4. CASE Poll
    BY <1>4, NoteLog DEF Poll
  <1>5. CASE Sessions
    BY <1>5, SessionsLog DEF Sessions
  <1>6. CASE Check \/ PollFails \/ Record \/ Sleep \/ TimePasses \/ UNCHANGED bgpVars
    BY <1>1, <1>6 DEF Check, PollFails, Record, Sleep, TimePasses, bgpVars
  <1> QED
    BY <1>2, <1>3, <1>4, <1>5, <1>6 DEF BgpNext, BenchStep

LEMMA InitLog == BgpInit => AgentTypeOK /\ ChainInv
  <1> SUFFICES ASSUME BgpInit PROVE AgentTypeOK /\ ChainInv
    OBVIOUS
  <1>1. AgentInit
    BY DEF BgpInit
  <1>2. AgentTypeOK
    BY <1>1, AgentAssumption DEF AgentInit, AgentTypeOK, SessionStates
  <1>3. \A p \in Peers : EntriesOf(p) = {}
    BY <1>1 DEF AgentInit, EntriesOf
  <1> QED
    BY <1>2, <1>3 DEF ChainInv, Linked

LEMMA LogInvariance == BgpSpec => [](AgentTypeOK /\ ChainInv)
  BY InitLog, LogStep, PTL DEF BgpSpec

\* What the log tells of each peer has no gap and no entry that tells of nothing,
\* for any number of peers and of transitions, whatever the polls miss and
\* whenever the log is cleared.
THEOREM LogChained == BgpSpec => []LogIsChain
  BY LogInvariance, ChainImplies, PTL

\* The clock, the deadline and the counts stay within the bounds of the model:
\* a run that begins has a result left, and the time before its deadline is set
\* is bounded by itself.
Bounds ==
    /\ got.received \in 0 .. MaxPrefixes + 2
    /\ does = "capture" => clock <= MaxDelay
    /\ does # "idle" => stats.total < MaxRuns

LEMMA BoundsStep ==
    ASSUME BgpTypeOK, Bounds, [BgpNext]_bgpVars, AgentTypeOK'
    PROVE  (BgpTypeOK /\ Bounds)'
  <1>1. {Expected, Timeout, MaxDelay, MaxRuns, MaxPrefixes} \subseteq Nat /\ Target \in Peers
    BY BenchAssumption, AgentAssumption
  <1>2. /\ does \in {"idle", "capture", "check", "poll", "record", "sleep"}
        /\ clock \in 0 .. MaxDelay + Timeout /\ deadline \in 0 .. MaxDelay + Timeout
        /\ record.received \in 0 .. MaxPrefixes + 2 /\ got.received \in 0 .. MaxPrefixes + 2
        /\ stats.total \in 0 .. MaxRuns /\ stats.completed \in 0 .. stats.total
        /\ does = "capture" => clock <= MaxDelay
        /\ does # "idle" => stats.total < MaxRuns
    BY DEF BgpTypeOK, Bounds
  <1> SUFFICES /\ does' \in {"idle", "capture", "check", "poll", "record", "sleep"}
               /\ clock' \in 0 .. MaxDelay + Timeout /\ deadline' \in 0 .. MaxDelay + Timeout
               /\ record'.received \in 0 .. MaxPrefixes + 2 /\ got'.received \in 0 .. MaxPrefixes + 2
               /\ stats'.total \in 0 .. MaxRuns /\ stats'.completed \in 0 .. stats'.total
               /\ does' = "capture" => clock' <= MaxDelay
               /\ does' # "idle" => stats'.total < MaxRuns
    BY DEF BgpTypeOK, Bounds
  <1>3. ASSUME NEW trigger, Begin(trigger)
        PROVE  /\ does' = "capture" /\ clock' = 0 /\ record'.received = 0
               /\ stats.total < MaxRuns /\ UNCHANGED <<deadline, got, stats>>
    BY <1>3 DEF Begin, FirstRecord, NewRecord
  <1>4. CASE \E trigger \in {"manual_reset", "link_down"} : Begin(trigger)
    BY <1>1, <1>2, <1>3, <1>4
  <1>5. CASE Capture
    BY <1>1, <1>2, <1>5 DEF Capture
  <1>6. CASE Check
    <2>1. UNCHANGED <<clock, deadline, record, got>> /\ does = "check"
      BY <1>6 DEF Check
    <2>2. \/ does' = "poll" /\ UNCHANGED stats
          \/ does' = "idle" /\ stats'.total = stats.total + 1 /\ stats'.completed = stats.completed + 0
      BY <1>6 DEF Check, AddResult
    <2> QED
      BY <1>1, <1>2, <2>1, <2>2
  <1>7. CASE PollFails
    BY <1>2, <1>7 DEF PollFails
  <1>8. CASE Poll
    <2>1. /\ UNCHANGED <<clock, deadline, record, stats>> /\ does = "poll" /\ does' = "record"
          /\ got' = Answer[Target]
      BY <1>8 DEF Poll
    <2>2. Answer[Target].received \in 0 .. MaxPrefixes + 2
      <3>1. prefixes[Target] \in 0 .. MaxPrefixes
        BY <1>1 DEF BgpTypeOK, AgentTypeOK
      <3>2. Answer[Target].received = IF kind = "synthetic" THEN 2 ELSE prefixes[Target]
        BY <1>1 DEF Answer, Synthetic, Summary
      <3> QED
        BY <1>1, <3>1, <3>2
    <2> QED
      BY <1>2, <2>1, <2>2
  <1>9. CASE Record
    <2>1. /\ UNCHANGED <<clock, deadline>> /\ does = "record" /\ got'.received = 0
          /\ record'.received \in {got.received, record.received}
      BY <1>9 DEF Record, Nothing
    <2>2. \/ does' = "sleep" /\ UNCHANGED stats
          \/ does' = "idle" /\ stats'.total = stats.total + 1 /\ stats'.completed = stats.completed + 1
      BY <1>9 DEF Record, AddResult
    <2> QED
      BY <1>1, <1>2, <2>1, <2>2
  <1>10. CASE Sleep
    BY <1>1, <1>2, <1>10 DEF Sleep
  <1>11. CASE TimePasses
    BY <1>1, <1>2, <1>11 DEF TimePasses
  <1>12. CASE Sessions
    BY <1>2, <1>12 DEF Sessions
  <1>13. CASE UNCHANGED bgpVars
    BY <1>2, <1>13 DEF bgpVars, benchVars
  <1> QED
    BY <1>4, <1>5, <1>6, <1>7, <1>8, <1>9, <1>10, <1>11, <1>12, <1>13 DEF BgpNext, BenchStep

LEMMA BoundsInit == BgpInit => BgpTypeOK /\ Bounds
  BY InitLog, BenchAssumption, AgentAssumption
  DEF BgpInit, BgpTypeOK, Bounds, NewRecord, Nothing

LEMMA BoundsNext ==
    BgpTypeOK /\ Bounds /\ [BgpNext]_bgpVars /\ AgentTypeOK' => (BgpTypeOK /\ Bounds)'
  BY BoundsStep

\* The types of the benchmark and of the agent it polls.
THEOREM BenchTypes == BgpSpec => []BgpTypeOK
  BY BoundsInit, BoundsNext, LogInvariance, PTL DEF BgpSpec
-----------------------------------------------------------------------------
(* Beside the client of the dish *)

LEMMA EachItsSteps == [MCNext]_mcVars => [BgpNext]_bgpVars /\ [DishNext]_dishVars
  <1>1. ASSUME MCNext PROVE [BgpNext]_bgpVars /\ [DishNext]_dishVars
    BY <1>1, Zenon DEF MCNext, Bgp, Dish, BgpNext, BenchStep, DishNext, DishStep
  <1>2. ASSUME UNCHANGED mcVars PROVE UNCHANGED bgpVars /\ UNCHANGED dishVars
    BY <1>2, Zenon DEF mcVars
  <1> QED
    BY <1>1, <1>2

\* Both agents together keep the types of each.
THEOREM AgentsTypes == MCSpec => []TypeOK
  <1>1. MCInit => DishInit /\ BgpInit
    BY DEF MCInit
  <1>2. DishInv => DishTypeOK
    BY DEF DishInv
  <1>3. TypeOK <=> DishTypeOK /\ BgpTypeOK
    BY DEF TypeOK
  <1> QED
    BY <1>1, <1>2, <1>3, EachItsSteps, InitLog, LogStep, BoundsInit, BoundsNext,
       DishInitInv, DishStepInv, PTL DEF MCSpec
=============================================================================
