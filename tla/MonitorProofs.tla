---------------------------- MODULE MonitorProofs ----------------------------
(***************************************************************************)
(* Proofs about Monitor, for any scenarios, any duration and any posts of  *)
(* others: the metrics beside the banner of a scenario are those of its    *)
(* profile, as long as nothing came between; and the variables of the API  *)
(* and the monitor keep their types.                                       *)
(***************************************************************************)
EXTENDS Monitor, SequenceTheorems, TLAPS

\* What the API was asked to simulate for the scenario on the banner.
Wanted == Body(Scenarios[idx])

\* What a reader has read of a state, key by key.
ReadOf(s) == { <<>>, <<s.profile>>, <<s.profile, s.vpn_state>>,
               <<s.profile, s.vpn_state, s.nat_table_size>> }

\* From the switch to the next one the API simulates the scenario; what a
\* refresh has read and fetched is of it, but for the refresh that switches.
BannerInv ==
    /\ does \in {"start", "wait", "first"} => idx = 1
    /\ does = "current" => metrics = None
    /\ ~disturbed /\ does \in {"probe", "current", "demo", "show"} => state = Wanted
    /\ ~disturbed /\ does = "current" => seen \in ReadOf(Wanted)
    /\ ~disturbed /\ does = "demo" /\ metrics # None => metrics = Sample(Values(Wanted))
    /\ ~disturbed /\ does = "show" /\ elapsed > 0 /\ metrics # None
          => metrics = Sample(Values(Wanted))

LEMMA KeysOf ==
    ASSUME NEW p
    PROVE  /\ Len(Keys) = 3 /\ DOMAIN Keys = 1 .. 3
           /\ Keys[1] = "profile" /\ Keys[2] = "vpn_state" /\ Keys[3] = "nat_table_size"
           /\ Values(Body(p))[1] = Body(p).profile
           /\ Values(Body(p))[2] = Body(p).vpn_state
  BY DEF Keys, Values, Body

\* One key more of the same state.
LEMMA ReadMore ==
    ASSUME NEW p, state = Body(p), seen \in ReadOf(Body(p)), ~AllRead(seen)
    PROVE  ReadKey(seen) \in ReadOf(Body(p))
<1> DEFINE a == Body(p).profile
           b == Body(p).vpn_state
           c == Body(p).nat_table_size
<1>1. /\ state["profile"] = a /\ state["vpn_state"] = b /\ state["nat_table_size"] = c
  BY DEF Body
<1>2. seen \in {<<>>, <<a>>, <<a, b>>}
  BY KeysOf DEF ReadOf, AllRead
<1> DEFINE S == {a, b, c}
<1>6. Append(<<a>>, b) = <<a, b>>
  <2>1. <<a>> \in Seq(S) /\ <<a, b>> \in Seq(S) /\ b \in S
    OBVIOUS
  <2>2. /\ Append(<<a>>, b) \in Seq(S) /\ Len(Append(<<a>>, b)) = 2
        /\ Append(<<a>>, b)[1] = a /\ Append(<<a>>, b)[2] = b
    BY <2>1, AppendProperties
  <2> DEFINE t == Append(<<a>>, b)
             u == <<a, b>>
  <2>3. \A i \in 1 .. 2 : t[i] = u[i]
    BY <2>2
  <2>4. t \in Seq(S) /\ u \in Seq(S) /\ Len(t) = 2 /\ Len(u) = 2
    BY <2>1, <2>2
  <2> HIDE DEF t, u
  <2>5. t = u
    BY <2>3, <2>4, SeqEqual
  <2> QED
    BY <2>5 DEF t, u
<1>7. Append(<<a, b>>, c) = <<a, b, c>>
  <2>1. <<a, b>> \in Seq(S) /\ <<a, b, c>> \in Seq(S) /\ c \in S
    OBVIOUS
  <2>2. /\ Append(<<a, b>>, c) \in Seq(S) /\ Len(Append(<<a, b>>, c)) = 3
        /\ Append(<<a, b>>, c)[1] = a /\ Append(<<a, b>>, c)[2] = b
        /\ Append(<<a, b>>, c)[3] = c
    BY <2>1, AppendProperties
  <2> DEFINE t == Append(<<a, b>>, c)
             u == <<a, b, c>>
  <2>3. \A i \in 1 .. 3 : t[i] = u[i]
    BY <2>2
  <2>4. t \in Seq(S) /\ u \in Seq(S) /\ Len(t) = 3 /\ Len(u) = 3
    BY <2>1, <2>2
  <2> HIDE DEF t, u
  <2>5. t = u
    BY <2>3, <2>4, SeqEqual
  <2> QED
    BY <2>5 DEF t, u
<1> HIDE DEF a, b, c
<1>3. CASE seen = <<>>
  <2>1. ReadKey(seen) = <<a>>
    BY <1>1, <1>3, KeysOf DEF ReadKey
  <2> QED
    BY <2>1 DEF ReadOf, a
<1>4. CASE seen = <<a>>
  <2>1. ReadKey(seen) = <<a, b>>
    BY <1>1, <1>4, <1>6, KeysOf DEF ReadKey
  <2> QED
    BY <2>1 DEF ReadOf, a, b
<1>5. CASE seen = <<a, b>>
  <2>1. ReadKey(seen) = <<a, b, c>>
    BY <1>1, <1>5, <1>7, KeysOf DEF ReadKey
  <2> QED
    BY <2>1 DEF ReadOf, a, b, c
<1> QED
  BY <1>2, <1>3, <1>4, <1>5

\* The whole of it makes the sample of that state.
LEMMA ReadAll ==
    ASSUME NEW p, seen \in ReadOf(Body(p)), AllRead(seen)
    PROVE  Sample(seen) = Sample(Values(Body(p)))
<1>1. seen[1] = Body(p).profile /\ seen[2] = Body(p).vpn_state
  BY KeysOf DEF ReadOf, AllRead
<1> QED
  BY <1>1, KeysOf DEF Sample

LEMMA InitBanner == Init => BannerInv
  BY DEF Init, BannerInv

\* A switch is undisturbed only if the API has what it asks for.
LEMMA SwitchDone ==
    ASSUME NEW p, Switch(p), ~disturbed'
    PROVE  state' = Body(p)
  BY DEF Switch, Simulate

LEMMA MonitorStepBanner ==
    ASSUME BannerInv, MonitorStep
    PROVE  BannerInv'
<1>1. CASE Reached
  BY <1>1 DEF Reached, BannerInv, Wanted, apiVars
<1>2. CASE StartApi
  BY <1>2 DEF StartApi, BannerInv, Wanted
<1>3. CASE GiveUp
  BY <1>3 DEF GiveUp, BannerInv, Wanted
<1>4. CASE First
  <2>1. idx = 1 /\ idx' = 1 /\ does' = "probe" /\ Switch(Scenarios[1])
    BY <1>4 DEF First, BannerInv
  <2>2. ~disturbed' => state' = Wanted'
    BY <2>1, SwitchDone DEF Wanted
  <2> QED
    BY <2>1, <2>2 DEF BannerInv
<1>5. CASE Probe
  BY <1>5 DEF Probe, BannerInv, Wanted, apiVars, ReadOf
<1>6. CASE ReadCurrent
  <2>1. /\ does = "current" /\ does' = "current" /\ ~AllRead(seen) /\ seen' = ReadKey(seen)
        /\ UNCHANGED <<state, idx, elapsed, metrics, disturbed>>
    BY <1>6 DEF ReadCurrent, apiVars
  <2>2. ~disturbed => seen' \in ReadOf(Wanted)
    BY <2>1, ReadMore DEF BannerInv, Wanted
  <2> QED
    BY <2>1, <2>2 DEF BannerInv, Wanted
<1>7. CASE GetCurrent
  <2>1. /\ does = "current" /\ does' = "demo"
        /\ \/ AllRead(seen) /\ metrics' = Sample(seen)
           \/ metrics' = metrics
        /\ UNCHANGED <<state, idx, elapsed, disturbed>>
    BY <1>7 DEF GetCurrent, apiVars
  <2>2. ~disturbed /\ metrics' # None => metrics' = Sample(Values(Wanted))
    BY <2>1, ReadAll DEF BannerInv, Wanted
  <2> QED
    BY <2>1, <2>2 DEF BannerInv, Wanted
<1>8. CASE Advance
  <2>1. does' = "show" /\ elapsed' = 0 /\ Switch(Scenarios[idx'])
    BY <1>8 DEF Advance
  <2>2. ~disturbed' => state' = Wanted'
    BY <2>1, SwitchDone DEF Wanted
  <2> QED
    BY <2>1, <2>2 DEF BannerInv
<1>9. CASE Stay
  BY <1>9 DEF Stay, BannerInv, Wanted, apiVars
<1>10. CASE Show
  BY <1>10 DEF Show, BannerInv, Wanted, apiVars
<1> QED
  BY <1>1, <1>2, <1>3, <1>4, <1>5, <1>6, <1>7, <1>8, <1>9, <1>10 DEF MonitorStep

LEMMA StepBanner == BannerInv /\ [Next]_vars => BannerInv'
<1> SUFFICES ASSUME BannerInv, [Next]_vars PROVE BannerInv'
  OBVIOUS
<1>1. CASE MonitorStep
  BY <1>1, MonitorStepBanner
<1>2. CASE Generator /\ UNCHANGED monVars
  <2>1. state' = state
    BY <1>2 DEF Generator, GenRead, GenAppend, GenDie, GenWake
  <2> QED
    BY <1>2, <2>1 DEF monVars, BannerInv, Wanted
<1>3. ASSUME NEW body, OtherPost(body) \/ LatePost(body) PROVE BannerInv'
  BY <1>3 DEF OtherPost, LatePost, BannerInv
<1>4. CASE StopOrStart
  BY <1>4 DEF StopOrStart, BannerInv
<1>5. CASE UNCHANGED vars
  BY <1>5 DEF vars, monVars, apiVars, BannerInv, Wanted
<1> QED
  BY <1>1, <1>2, <1>3, <1>4, <1>5 DEF Next

\* Whatever is shown beside a banner, without anything having come between the
\* post and the refresh, is a sample of the scenario's profile: never one of the
\* scenario before, nor one whose keys are of two requests.
THEOREM BannerTrue == Spec => BannerTellsProfile
<1>1. BannerInv /\ [Next]_vars =>
         [Show /\ elapsed > 0 /\ ~disturbed /\ metrics # None
            => metrics = Sample(Values(Body(Scenarios[idx])))]_vars
  BY DEF BannerInv, Show, Wanted
<1> QED
  BY <1>1, InitBanner, StepBanner, PTL DEF Spec, BannerTellsProfile
-----------------------------------------------------------------------------
(* Types: whatever requests a reader has met on its way, each key it has read  *)
(* is of one of them.                                                          *)

ReadBy == {g \in Seq({s[Keys[i]] : s \in States, i \in 1 .. 3}) :
             Len(g) <= 3 /\ \A i \in 1 .. Len(g) : \E s \in States : g[i] = s[Keys[i]]}

TypeInv ==
    /\ up \in BOOLEAN /\ lives \in 0 .. MaxLives
    /\ state \in States
    /\ gen \in [does : {"read", "sleep", "dead"}, got : ReadBy]
    /\ history \in Seq(AnySample) /\ Len(history) <= HistoryMax
    /\ does \in {"start", "wait", "offline", "first", "probe", "current", "demo", "show"}
    /\ idx \in DOMAIN Scenarios /\ elapsed \in 0 .. Duration
    /\ apiOk \in BOOLEAN /\ disturbed \in BOOLEAN
    /\ seen \in ReadBy
    /\ metrics \in AnySample \cup {None}
    /\ late \subseteq States

LEMMA ThreeKeys == Len(Keys) = 3 /\ DOMAIN Keys = 1 .. 3
  BY DEF Keys

LEMMA NothingRead == <<>> \in ReadBy
  BY DEF ReadBy

\* One key more, of whatever request is in force now.
LEMMA ReadOne ==
    ASSUME NEW g \in ReadBy, state \in States, ~AllRead(g)
    PROVE  ReadKey(g) \in ReadBy
<1> DEFINE T == {s[Keys[i]] : s \in States, i \in 1 .. 3}
           n == Len(g)
           v == state[Keys[n + 1]]
           h == Append(g, v)
<1>1. g \in Seq(T) /\ n \in 0 .. 2 /\ \A i \in 1 .. n : \E s \in States : g[i] = s[Keys[i]]
  <2>1. n \in Nat /\ n <= 3 /\ n # 3 /\ g \in Seq(T)
    BY ThreeKeys DEF ReadBy, AllRead
  <2>2. \A i \in 1 .. n : \E s \in States : g[i] = s[Keys[i]]
    BY DEF ReadBy
  <2> HIDE DEF n, T
  <2>3. n \in 0 .. 2
    BY <2>1
  <2> QED
    BY <2>1, <2>2, <2>3
<1>2. v \in T
  BY <1>1
<1> HIDE DEF T, n, v, h
<1>3. h \in Seq(T) /\ Len(h) = n + 1 /\ (\A i \in 1 .. n : h[i] = g[i]) /\ h[n + 1] = v
  BY <1>1, <1>2, AppendProperties DEF h, n
<1>4. ASSUME NEW i \in 1 .. n + 1 PROVE \E s \in States : h[i] = s[Keys[i]]
  <2>1. CASE i \in 1 .. n
    BY <1>1, <1>3, <2>1
  <2>2. CASE i = n + 1
    BY <1>3, <2>2 DEF v
  <2> QED
    BY <1>1, <2>1, <2>2
<1>5. Len(h) <= 3
  BY <1>1, <1>3
<1>6. h \in ReadBy
  BY <1>3, <1>4, <1>5 DEF ReadBy, T
<1> QED
  BY <1>6 DEF ReadKey, h, v, n

\* What has been read in full makes a sample, if a mixed one.
LEMMA SampleTyped ==
    ASSUME NEW g \in ReadBy, AllRead(g)
    PROVE  Sample(g) \in AnySample
<1>1. Len(g) = 3
  BY ThreeKeys DEF AllRead
<1>2. \A i \in 1 .. 3 : \E s \in States : g[i] = s[Keys[i]]
  BY <1>1 DEF ReadBy
<1>3. PICK a \in States, b \in States, c \in States :
         g[1] = a[Keys[1]] /\ g[2] = b[Keys[2]] /\ g[3] = c[Keys[3]]
  BY <1>2
<1> DEFINE m == [i \in DOMAIN Keys |-> (IF i = 1 THEN a ELSE IF i = 2 THEN b ELSE c)[Keys[i]]]
<1>4. m \in Mixed
  BY DEF Mixed
<1>5. m[1] = g[1] /\ m[2] = g[2]
  BY <1>3, ThreeKeys
<1> HIDE DEF m
<1>6. Sample(m) = Sample(g)
  BY <1>5 DEF Sample
<1> QED
  BY <1>4, <1>6 DEF AnySample

\* The history never grows beyond its length.
LEMMA LastTyped ==
    ASSUME NEW S, NEW h \in Seq(S), NEW n \in Nat
    PROVE  LastOf(h, n) \in Seq(S) /\ Len(LastOf(h, n)) <= n
<1> DEFINE len == Len(h)
<1>1. len \in Nat
  OBVIOUS
<1> HIDE DEF len
<1>2. CASE len <= n
  BY <1>2 DEF LastOf, len
<1>3. CASE ~(len <= n)
  <2> DEFINE from == len - n + 1
             t == SubSeq(h, from, len)
  <2>1. from \in 1 .. len + 1 /\ len - from + 1 = n
    BY <1>1, <1>3
  <2>2. LastOf(h, n) = t
    BY <1>3 DEF LastOf, len
  <2> HIDE DEF from
  <2>3. t \in Seq(S) /\ Len(t) = len - from + 1
    BY <1>1, <2>1, SubSeqProperties DEF len
  <2> HIDE DEF t
  <2> QED
    BY <2>1, <2>2, <2>3
<1> QED
  BY <1>2, <1>3

\* What the monitor asks for, and what the API answers to it.
LEMMA Wishes ==
    /\ Bodies \subseteq States /\ Body("baseline") \in States
    /\ \A i \in DOMAIN Scenarios : Body(Scenarios[i]) \in States
    /\ 1 \in DOMAIN Scenarios
<1>1. 1 \in DOMAIN Scenarios
  BY MonitorAssumption
<1> QED
  BY <1>1 DEF States

LEMMA SwitchTyped ==
    ASSUME TypeInv, NEW i \in DOMAIN Scenarios, Switch(Scenarios[i])
    PROVE  /\ up' \in BOOLEAN /\ lives' \in 0 .. MaxLives /\ state' \in States
           /\ gen' = gen /\ history' = history
           /\ late' \subseteq States /\ disturbed' \in BOOLEAN
  BY Wishes DEF Switch, Simulate, TypeInv, apiVars

LEMMA StartTyped ==
    ASSUME TypeInv, ApiStart
    PROVE  /\ up' \in BOOLEAN /\ lives' \in 0 .. MaxLives /\ state' \in States
           /\ gen' \in [does : {"read", "sleep", "dead"}, got : ReadBy]
           /\ history' = <<>>
  BY Wishes, NothingRead, ApiAssumption DEF ApiStart, TypeInv

\* The generator.
LEMMA GeneratorTyped ==
    ASSUME TypeInv, Generator
    PROVE  /\ up' = up /\ lives' = lives /\ state' = state
           /\ gen' \in [does : {"read", "sleep", "dead"}, got : ReadBy]
           /\ history' \in Seq(AnySample) /\ Len(history') <= HistoryMax
<1>1. CASE GenRead
  <2>1. gen.got \in ReadBy /\ state \in States /\ ~AllRead(gen.got)
    BY <1>1 DEF GenRead, TypeInv
  <2>2. ReadKey(gen.got) \in ReadBy
    BY <2>1, ReadOne
  <2>3. gen' \in [does : {"read", "sleep", "dead"}, got : ReadBy]
    BY <1>1, <2>2 DEF GenRead, TypeInv
  <2> QED
    BY <1>1, <2>3 DEF GenRead, TypeInv
<1>2. CASE GenAppend
  <2> DEFINE x == Sample(gen.got)
             h == Append(history, x)
  <2>1. x \in AnySample
    BY <1>2, SampleTyped DEF GenAppend, TypeInv
  <2>2. history' = LastOf(h, HistoryMax) /\ gen' = [does |-> "sleep", got |-> <<>>]
        /\ UNCHANGED <<up, lives, state>>
    BY <1>2 DEF GenAppend
  <2> HIDE DEF x
  <2>3. h \in Seq(AnySample)
    BY <2>1, AppendProperties DEF TypeInv
  <2> HIDE DEF h
  <2>4. history' \in Seq(AnySample) /\ Len(history') <= HistoryMax
    BY <2>2, <2>3, LastTyped, ApiAssumption
  <2> QED
    BY <2>2, <2>4, NothingRead
<1>3. CASE GenDie \/ GenWake
  BY <1>3, NothingRead DEF GenDie, GenWake, TypeInv
<1> QED
  BY <1>1, <1>2, <1>3 DEF Generator

LEMMA MonitorStepTyped ==
    ASSUME TypeInv, MonitorStep
    PROVE  TypeInv'
<1>1. CASE Reached \/ Stay
  BY <1>1 DEF Reached, Stay, apiVars, TypeInv
<1>2. CASE StartApi
  <2>1. Len(history') <= HistoryMax /\ history' \in Seq(AnySample)
    BY <1>2, ApiAssumption DEF StartApi, ApiStart
  <2> QED
    BY <1>2, <2>1, StartTyped DEF StartApi, TypeInv
<1>3. CASE GiveUp
  BY <1>3 DEF GiveUp, ApiStop, apiVars, TypeInv
<1>4. CASE First
  BY <1>4, Wishes, SwitchTyped DEF First, TypeInv
<1>5. CASE Probe
  BY <1>5, NothingRead DEF Probe, apiVars, TypeInv
<1>6. CASE ReadCurrent
  <2>1. seen' \in ReadBy
    BY <1>6, ReadOne DEF ReadCurrent, TypeInv
  <2> QED
    BY <1>6, <2>1 DEF ReadCurrent, apiVars, TypeInv
<1>7. CASE GetCurrent
  <2>1. metrics' \in AnySample \cup {None}
    BY <1>7, SampleTyped DEF GetCurrent, TypeInv
  <2> QED
    BY <1>7, <2>1, NothingRead DEF GetCurrent, apiVars, TypeInv
<1>8. CASE Advance
  <2>1. idx' \in DOMAIN Scenarios
    <3> DEFINE n == Len(Scenarios)
    <3>1. DOMAIN Scenarios = 1 .. n /\ n \in Nat /\ idx \in 1 .. n
      BY MonitorAssumption DEF TypeInv
    <3>2. idx' = (idx % n) + 1
      BY <1>8 DEF Advance, NextScenario
    <3> HIDE DEF n
    <3> QED
      BY <3>1, <3>2
  <2>2. Switch(Scenarios[idx'])
    BY <1>8 DEF Advance
  <2>3. elapsed' \in 0 .. Duration
    BY <1>8, MonitorAssumption DEF Advance
  <2> QED
    BY <1>8, <2>1, <2>2, <2>3, SwitchTyped DEF Advance, TypeInv
<1>9. CASE Show
  <2>1. elapsed' \in 0 .. Duration
    BY <1>9, MonitorAssumption DEF Show, TypeInv
  <2> QED
    BY <1>9, <2>1 DEF Show, apiVars, TypeInv
<1> QED
  BY <1>1, <1>2, <1>3, <1>4, <1>5, <1>6, <1>7, <1>8, <1>9 DEF MonitorStep

\* The variables keep their types: the history never outgrows its bound, and a
\* sample is of keys that were asked for, whoever posts and restarts.
THEOREM MonitorTypes == Spec => []TypeOK
<1>1. Init => TypeInv
  <2> SUFFICES ASSUME Init PROVE TypeInv
    OBVIOUS
  <2>1. /\ up \in BOOLEAN /\ lives \in 0 .. MaxLives /\ state \in States
        /\ gen \in [does : {"read", "sleep", "dead"}, got : ReadBy]
        /\ history \in Seq(AnySample) /\ Len(history) <= HistoryMax
    <3>1. gen = [does |-> "read", got |-> <<>>] /\ history = <<>> /\ lives = 0
          /\ up = FALSE /\ state = Body("baseline")
      BY DEF Init, ApiInit
    <3>2. gen \in [does : {"read", "sleep", "dead"}, got : ReadBy]
      BY <3>1, NothingRead
    <3>3. history \in Seq(AnySample) /\ Len(history) <= HistoryMax
      BY <3>1, ApiAssumption
    <3>4. lives \in 0 .. MaxLives
      BY <3>1, ApiAssumption
    <3>5. up \in BOOLEAN /\ state \in States
      BY <3>1, Wishes
    <3> QED
      BY <3>2, <3>3, <3>4, <3>5
  <2>2. idx \in DOMAIN Scenarios /\ elapsed \in 0 .. Duration /\ seen \in ReadBy
    BY Wishes, NothingRead, MonitorAssumption DEF Init
  <2> QED
    BY <2>1, <2>2 DEF Init, TypeInv
<1>2. TypeInv /\ [Next]_vars => TypeInv'
  <2> SUFFICES ASSUME TypeInv, [Next]_vars PROVE TypeInv'
    OBVIOUS
  <2>1. CASE Generator /\ UNCHANGED monVars
    BY <2>1, GeneratorTyped DEF monVars, TypeInv
  <2>2. ASSUME NEW body \in Bodies, OtherPost(body) PROVE TypeInv'
    BY <2>2, Wishes DEF OtherPost, Simulate, TypeInv
  <2>3. ASSUME NEW body \in late, LatePost(body) PROVE TypeInv'
    BY <2>3 DEF LatePost, Simulate, TypeInv
  <2>4. CASE StopOrStart
    <3>1. /\ up' \in BOOLEAN /\ lives' \in 0 .. MaxLives /\ state' \in States
          /\ gen' \in [does : {"read", "sleep", "dead"}, got : ReadBy]
          /\ history' \in Seq(AnySample) /\ Len(history') <= HistoryMax
      <4>1. CASE ApiStart
        <5>1. history' \in Seq(AnySample) /\ Len(history') <= HistoryMax
          BY <4>1, ApiAssumption DEF ApiStart
        <5> QED
          BY <4>1, <5>1, StartTyped
      <4>2. CASE ApiStop
        BY <4>2 DEF ApiStop, TypeInv
      <4> QED
        BY <2>4, <4>1, <4>2 DEF StopOrStart
    <3> QED
      BY <2>4, <3>1, NothingRead DEF StopOrStart, TypeInv
  <2>5. CASE UNCHANGED vars
    BY <2>5 DEF vars, apiVars, monVars, TypeInv
  <2> QED
    BY <2>1, <2>2, <2>3, <2>4, <2>5, MonitorStepTyped DEF Next
<1>3. TypeInv => TypeOK
  <2>1. \A g \in ReadBy : Len(g) <= Len(Keys)
    BY ThreeKeys DEF ReadBy
  <2>2. history \in Seq(AnySample) => \A i \in DOMAIN history : history[i] \in AnySample
    OBVIOUS
  <2> QED
    BY <2>1, <2>2 DEF TypeInv, TypeOK
<1> QED
  BY <1>1, <1>2, <1>3, PTL DEF Spec
=============================================================================
