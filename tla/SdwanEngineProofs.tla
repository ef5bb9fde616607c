-------------------------- MODULE SdwanEngineProofs --------------------------
(***************************************************************************)
(* Proofs about the SD-WAN engine, for any links, classes and metrics: how *)
(* a link is decided (LinkScore, on the grid of MCLinkScore), what apply() *)
(* leaves in the kernel's tables whichever of its commands fail            *)
(* (SdwanEngine), and what the event log tells (SdwanEvents).              *)
(***************************************************************************)
EXTENDS MCLinkScore, SubsequenceProofs

\* The class at position i of the list is routed as decided.
InPlace(i) ==
    Routed(ClassList[i]) => /\ table[ClassList[i]] = decisions[ClassList[i]]
                            /\ ClassList[i] \in rule

\* The present apply(), or the last one, is through with position i.
Through(i) == IF turn = 0 THEN ~fresh ELSE i < turn

\* Nothing failed and nothing was dropped: what apply() is through with is in
\* place, and the commands run so far for the class at hand have done their work.
SoFar ==
    clean /\ decisions # NoDecisions =>
        /\ \A i \in DOMAIN ClassList : Through(i) => InPlace(i)
        /\ turn # 0 /\ step = 2 => table[ClassList[turn]] = NoLink
        /\ turn # 0 /\ step = 3 => table[ClassList[turn]] = decisions[ClassList[turn]]

Positions ==
    /\ turn \in {0} \cup DOMAIN ClassList /\ step \in 1 .. 3
    /\ turn # 0 => Routed(ClassList[turn]) /\ ~fresh
    /\ fresh \/ turn # 0 => DOMAIN decisions = Classes
    /\ DOMAIN table = Classes

EngineInv == Positions /\ SoFar

LEMMA ListOfClasses ==
    /\ DOMAIN ClassList = 1 .. Len(ClassList) /\ Len(ClassList) \in Nat
    /\ \A i \in DOMAIN ClassList : ClassList[i] \in Classes
    /\ \A c \in Classes : \E i \in DOMAIN ClassList : c = ClassList[i]
    /\ \A i, j \in DOMAIN ClassList : ClassList[i] = ClassList[j] => i = j
    /\ Injectable \subseteq Classes
  BY ClassesAssumption DEF Classes, Range

LEMMA CommandList == Len(Commands) = 3 /\ Commands[1] = "flush" /\ Commands[2] = "add" /\ Commands[3] = "rule"
  BY DEF Commands

\* The next turn is that of a class with commands, and none is passed over.
LEMMA NextTurnLemma ==
    ASSUME NEW k \in Nat, NextTurn(k)
    PROVE  /\ step' = 1 /\ turn' \in {0} \cup DOMAIN ClassList
           /\ turn' # 0 => turn' > k /\ Routed(ClassList[turn'])
           /\ \A i \in DOMAIN ClassList :
                 i > k /\ Routed(ClassList[i]) => turn' # 0 /\ turn' <= i
<1> DEFINE rest == {i \in DOMAIN ClassList : i > k /\ Routed(ClassList[i])}
<1>1. step' = 1 /\ turn' = IF rest = {} THEN 0 ELSE Min(rest)
  BY DEF NextTurn
<1>2. rest \in SUBSET Nat
  BY ListOfClasses
<1>3. CASE rest = {}
  BY <1>1, <1>3
<1>4. CASE rest # {}
  <2>1. PICK m \in rest : \A j \in rest : m <= j
    BY <1>2, <1>4, LeastNatural
  <2>2. Min(rest) \in rest /\ \A j \in rest : Min(rest) <= j
    <3> HIDE DEF rest
    <3> QED
      BY <2>1, Zenon DEF Min
  <2>3. turn' \in rest /\ (\A j \in rest : turn' <= j)
    BY <1>1, <1>4, <2>2
  <2>4. turn' # 0
    BY <2>3, ListOfClasses
  <2> QED
    BY <1>1, <2>3, <2>4
<1> QED
  BY <1>3, <1>4

LEMMA InitEngine == Init => EngineInv
  BY DEF Init, EngineInv, Positions, SoFar

\* A step that leaves apply() and the kernel alone.
LEMMA Elsewhere ==
    ASSUME EngineInv, UNCHANGED <<decisions, fresh, turn, step, table, rule, clean>>
    PROVE  EngineInv'
  BY DEF EngineInv, Positions, SoFar, Through, InPlace, Routed

\* A run of the policy leaves nothing applied.
LEMMA RunPolicyInv ==
    ASSUME EngineInv, RunPolicy
    PROVE  EngineInv'
<1>1. turn = 0 /\ fresh' = TRUE /\ UNCHANGED <<turn, step, table, rule, clean>>
  BY DEF RunPolicy
<1>2. DOMAIN decisions' = Classes
  BY DEF RunPolicy
<1> QED
  BY <1>1, <1>2 DEF EngineInv, Positions, SoFar, Through

\* apply() begins: nothing has been done, but for the classes passed over there
\* is nothing to do.
LEMMA ApplyInv ==
    ASSUME EngineInv, Apply
    PROVE  EngineInv'
<1>1. /\ fresh /\ fresh' = FALSE /\ clean' = TRUE /\ NextTurn(0)
      /\ UNCHANGED <<decisions, table, rule>>
  BY DEF Apply
<1>2. /\ step' = 1 /\ turn' \in {0} \cup DOMAIN ClassList
      /\ turn' # 0 => Routed(ClassList[turn'])
      /\ \A i \in DOMAIN ClassList : Routed(ClassList[i]) => turn' # 0 /\ turn' <= i
  BY <1>1, NextTurnLemma, ListOfClasses
<1>3. Positions'
  BY <1>1, <1>2 DEF EngineInv, Positions, Routed
<1>4. \A i \in DOMAIN ClassList : Through(i)' => ~Routed(ClassList[i])
  BY <1>2, ListOfClasses DEF Through
<1>5. SoFar'
  BY <1>1, <1>2, <1>4 DEF SoFar, InPlace, Routed
<1> QED
  BY <1>3, <1>5 DEF EngineInv

\* After the last command of a class that is in place, the next one's turn
\* comes with all before it in place.
LEMMA AdvanceInv ==
    ASSUME EngineInv, turn # 0, Advance, UNCHANGED <<decisions, fresh>>,
           DOMAIN table' = Classes,
           clean' => clean,
           \A i \in DOMAIN ClassList \ {turn} :
               /\ table'[ClassList[i]] = table[ClassList[i]]
               /\ ClassList[i] \in rule => ClassList[i] \in rule',
           clean' /\ step = 1 => table'[ClassList[turn]] = NoLink,
           clean' /\ step = 2 => table'[ClassList[turn]] = decisions[ClassList[turn]],
           clean' /\ step = 3 /\ table[ClassList[turn]] = decisions[ClassList[turn]] =>
               /\ table'[ClassList[turn]] = decisions[ClassList[turn]]
               /\ ClassList[turn] \in rule'
    PROVE  EngineInv'
<1>1. turn \in DOMAIN ClassList /\ turn \in Nat /\ step \in 1 .. 3 /\ ~fresh'
      /\ DOMAIN decisions' = Classes /\ Routed(ClassList[turn])
  BY ListOfClasses DEF EngineInv, Positions
<1>2. CASE step < 3
  <2>1. step' = step + 1 /\ turn' = turn
    BY <1>2, CommandList DEF Advance
  <2>2. Positions'
    BY <1>1, <1>2, <2>1 DEF EngineInv, Positions, Routed
  <2>3. ASSUME clean', decisions' # NoDecisions, NEW i \in DOMAIN ClassList, Through(i)'
        PROVE  InPlace(i)'
    <3>1. i # turn /\ Through(i)
      BY <1>1, <2>1, <2>3, ListOfClasses DEF Through
    <3>2. InPlace(i)
      BY <2>3, <3>1 DEF EngineInv, SoFar
    <3> QED
      BY <3>1, <3>2 DEF InPlace, Routed
  <2>4. clean' => /\ step' = 2 => table'[ClassList[turn']] = NoLink
                  /\ step' = 3 => table'[ClassList[turn']] = decisions'[ClassList[turn']]
    BY <1>1, <1>2, <2>1
  <2> QED
    BY <2>2, <2>3, <2>4 DEF EngineInv, SoFar
<1>3. CASE step = 3
  <2>1. NextTurn(turn)
    BY <1>3, CommandList DEF Advance
  <2>2. /\ step' = 1 /\ turn' \in {0} \cup DOMAIN ClassList
        /\ turn' # 0 => turn' > turn /\ Routed(ClassList[turn'])
        /\ \A i \in DOMAIN ClassList :
              i > turn /\ Routed(ClassList[i]) => turn' # 0 /\ turn' <= i
    BY <1>1, <2>1, NextTurnLemma
  <2>3. Positions'
    BY <1>1, <2>2 DEF EngineInv, Positions, Routed
  <2>4. ASSUME clean', decisions' # NoDecisions, NEW i \in DOMAIN ClassList, Through(i)'
        PROVE  InPlace(i)'
    <3>1. CASE i < turn
      <4>1. InPlace(i) /\ i # turn
        BY <1>1, <2>4, <3>1 DEF EngineInv, SoFar, Through
      <4> QED
        BY <4>1 DEF InPlace, Routed
    <3>2. CASE i = turn
      <4>1. table[ClassList[turn]] = decisions[ClassList[turn]]
        BY <1>3, <2>4 DEF EngineInv, SoFar
      <4> QED
        BY <1>1, <1>3, <2>4, <3>2, <4>1 DEF InPlace
    <3>3. CASE i > turn
      <4>1. ~Routed(ClassList[i])
        BY <2>2, <2>4, <3>3, ListOfClasses DEF Through
      <4> QED
        BY <4>1 DEF InPlace, Routed
    <3> QED
      BY <1>1, <3>1, <3>2, <3>3, ListOfClasses
  <2> QED
    BY <2>2, <2>3, <2>4 DEF EngineInv, SoFar
<1> QED
  BY <1>1, <1>2, <1>3

\* The table of the class at hand changes, no other.
LEMMA OtherTables ==
    ASSUME EngineInv, turn # 0, NEW l, table' = [table EXCEPT ![ClassList[turn]] = l]
    PROVE  /\ DOMAIN table' = Classes /\ table'[ClassList[turn]] = l
           /\ \A i \in DOMAIN ClassList \ {turn} : table'[ClassList[i]] = table[ClassList[i]]
  BY ListOfClasses DEF EngineInv, Positions

LEMMA CommandInv ==
    ASSUME EngineInv, CommandSucceeds \/ CommandFails
    PROVE  EngineInv'
<1> DEFINE c == ClassList[turn]
<1>1. turn # 0 /\ Advance /\ UNCHANGED <<decisions, fresh>>
  BY DEF CommandSucceeds, CommandFails
<1>2. step \in 1 .. 3 /\ DOMAIN table = Classes /\ turn \in DOMAIN ClassList
  BY <1>1 DEF EngineInv, Positions
<1>3. CASE ~clean' /\ UNCHANGED <<table, rule>>
  BY <1>1, <1>2, <1>3, AdvanceInv
<1>4. CASE step = 1 /\ table' = [table EXCEPT ![c] = NoLink] /\ UNCHANGED <<rule, clean>>
  <2>1. /\ DOMAIN table' = Classes /\ table'[c] = NoLink
        /\ \A i \in DOMAIN ClassList \ {turn} : table'[ClassList[i]] = table[ClassList[i]]
    BY <1>1, <1>4, OtherTables
  <2> QED
    BY <1>1, <1>4, <2>1, AdvanceInv
<1>5. CASE step = 2 /\ table' = [table EXCEPT ![c] = decisions[c]] /\ UNCHANGED <<rule, clean>>
  <2>1. /\ DOMAIN table' = Classes /\ table'[c] = decisions[c]
        /\ \A i \in DOMAIN ClassList \ {turn} : table'[ClassList[i]] = table[ClassList[i]]
    BY <1>1, <1>5, OtherTables
  <2> QED
    BY <1>1, <1>5, <2>1, AdvanceInv
<1>6. CASE step = 3 /\ rule' = rule \cup {c} /\ UNCHANGED <<table, clean>>
  BY <1>1, <1>2, <1>6, AdvanceInv
<1> QED
  BY <1>2, <1>3, <1>4, <1>5, <1>6, CommandList DEF CommandSucceeds, CommandFails

LEMMA KernelInv ==
    ASSUME NEW l \in Links, EngineInv, KernelDropsRoutes(l)
    PROVE  EngineInv'
<1>1. clean' = FALSE /\ UNCHANGED <<decisions, fresh, turn, step>> /\ DOMAIN table' = Classes
  BY DEF KernelDropsRoutes
<1> QED
  BY <1>1 DEF EngineInv, Positions, SoFar, Routed

LEMMA StepEngine == EngineInv /\ [Next]_vars => EngineInv'
<1> SUFFICES ASSUME EngineInv, [Next]_vars PROVE EngineInv'
  OBVIOUS
<1>1. CASE UNCHANGED vars
  BY <1>1, Elsewhere DEF vars
<1>2. CASE Tick
  BY <1>2, Elsewhere DEF Tick
<1>3. ASSUME NEW l \in Links, UpdateMetrics(l) \/ SetAdmin(l) PROVE EngineInv'
  BY <1>3, Elsewhere DEF UpdateMetrics, SetAdmin
<1> QED
  BY <1>1, <1>2, <1>3, RunPolicyInv, ApplyInv, CommandInv, KernelInv DEF Next

\* EngineInv holds of every state of the loop.
THEOREM EngineInvariance == Spec => []EngineInv
  BY InitEngine, StepEngine, PTL DEF Spec

\* After an apply() of which nothing failed, every class with a link is routed
\* over that link, for any number of links and classes and whatever their
\* tables held before.
THEOREM AppliedLinksCarry == Spec => []AppliedLinksCarryTraffic
<1>1. EngineInv => AppliedLinksCarryTraffic
  <2> SUFFICES ASSUME EngineInv, Applied, clean, NEW c \in Injectable, decisions[c] # NoLink
               PROVE  table[c] = decisions[c] /\ c \in rule
    BY DEF AppliedLinksCarryTraffic
  <2>1. PICK i \in DOMAIN ClassList : c = ClassList[i]
    BY ListOfClasses
  <2> QED
    BY <2>1 DEF EngineInv, SoFar, Applied, Through, InPlace, Routed
<1> QED
  BY <1>1, EngineInvariance, PTL
-----------------------------------------------------------------------------
(***************************************************************************)
(* The decision.  A link that is at least as good in every respect scores  *)
(* at least as high, and the order of the links has one first.             *)
(***************************************************************************)
\* Division by a positive number keeps the order.
LEMMA DivMonotone ==
    ASSUME NEW a \in Nat, NEW b \in Nat, NEW d \in Nat \ {0}, a <= b
    PROVE  a \div d \in Nat /\ b \div d \in Nat /\ a \div d <= b \div d
  <1> DEFINE p == a \div d
             q == b \div d
             r == a % d
             s == b % d
  <1>1. /\ p \in Int /\ q \in Int /\ r \in 0 .. d - 1 /\ s \in 0 .. d - 1
        /\ a = d * p + r /\ b = d * q + s
    OBVIOUS
  <1> HIDE DEF p, q, r, s
  <1>2. p >= 0 /\ q >= 0
    <2>1. ASSUME NEW x \in Int, x <= -1 PROVE d * x <= -d
      BY <2>1
    <2>2. ASSUME p <= -1 PROVE FALSE
      BY <1>1, <2>1, <2>2
    <2>3. ASSUME q <= -1 PROVE FALSE
      BY <1>1, <2>1, <2>3
    <2> QED
      BY <1>1, <2>2, <2>3
  <1>3. ASSUME q + 1 <= p PROVE FALSE
    <2>1. d * (q + 1) <= d * p
      BY <1>1, <1>3
    <2>2. d * (q + 1) = d * q + d
      BY <1>1
    <2>3. d * q \in Int /\ d * p \in Int
      BY <1>1
    <2> QED
      BY <1>1, <2>1, <2>2, <2>3
  <1> QED
    BY <1>1, <1>2, <1>3 DEF p, q

\* What is at most u times d is at most u after division by d.
LEMMA DivBound ==
    ASSUME NEW a \in Nat, NEW u \in Nat, NEW d \in Nat \ {0}, a <= u * d
    PROVE  a \div d <= u
  <1> DEFINE q == a \div d
             r == a % d
  <1>1. q \in Nat /\ r \in 0 .. d - 1 /\ a = d * q + r
    BY DivMonotone
  <1> HIDE DEF q, r
  <1>2. ASSUME u + 1 <= q PROVE FALSE
    <2>1. d * (u + 1) <= d * q
      BY <1>1, <1>2
    <2>2. d * (u + 1) = u * d + d /\ u * d \in Nat /\ d * q \in Nat
      BY <1>1
    <2> QED
      BY <1>1, <2>1, <2>2
  <1> QED
    BY <1>1, <1>2 DEF q

\* How far x is beyond its budget b, in parts of d, off the full score: what
\* ScoreLatency and ScoreLoss do.
Beyond(x, b, d) == IF x <= b THEN Unit ELSE AtLeastZero(Unit - (Unit * (x - b)) \div d)

LEMMA BeyondLemma ==
    ASSUME NEW b \in Nat, NEW d \in Nat \ {0}, NEW x \in Nat, NEW y \in Nat, x <= y
    PROVE  /\ Beyond(x, b, d) \in 0 .. Unit /\ Beyond(y, b, d) \in 0 .. Unit
           /\ Beyond(y, b, d) <= Beyond(x, b, d)
  <1>1. ASSUME NEW z \in Nat, z > b
        PROVE  Unit * (z - b) \in Nat /\ (Unit * (z - b)) \div d \in Nat
    <2>1. Unit * (z - b) \in Nat
      BY <1>1 DEF Unit
    <2> QED
      BY <2>1, DivMonotone
  <1>2. ASSUME NEW z \in Nat PROVE Beyond(z, b, d) \in 0 .. Unit
    <2>1. CASE z <= b
      BY <2>1 DEF Beyond, Unit
    <2>2. CASE z > b
      <3> DEFINE q == (Unit * (z - b)) \div d
      <3>1. q \in Nat
        BY <1>1, <2>2
      <3>2. Beyond(z, b, d) = AtLeastZero(Unit - q)
        BY <2>2 DEF Beyond
      <3> HIDE DEF q
      <3> QED
        BY <3>1, <3>2 DEF AtLeastZero, Unit
    <2> QED
      BY <2>1, <2>2
  <1>3. CASE x <= b
    <2>1. Beyond(x, b, d) = Unit
      BY <1>3 DEF Beyond
    <2>2. Beyond(x, b, d) \in 0 .. Unit /\ Beyond(y, b, d) \in 0 .. Unit
      BY <1>2
    <2> QED
      BY <2>1, <2>2 DEF Unit
  <1>4. CASE x > b
    <2> DEFINE p == (Unit * (x - b)) \div d
               q == (Unit * (y - b)) \div d
    <2>1. p \in Nat /\ q \in Nat
      BY <1>1, <1>4
    <2>2. p <= q
      <3>1. Unit * (x - b) <= Unit * (y - b) /\ x > b /\ y > b
        BY <1>4 DEF Unit
      <3>2. Unit * (x - b) \in Nat /\ Unit * (y - b) \in Nat
        BY <1>1, <3>1
      <3> QED
        BY <3>1, <3>2, DivMonotone
    <2>3. Beyond(x, b, d) = AtLeastZero(Unit - p) /\ Beyond(y, b, d) = AtLeastZero(Unit - q)
      BY <1>4 DEF Beyond
    <2> HIDE DEF p, q
    <2>4. AtLeastZero(Unit - q) <= AtLeastZero(Unit - p)
      BY <2>1, <2>2 DEF AtLeastZero, Unit
    <2> QED
      BY <1>2, <2>3, <2>4
  <1> QED
    BY <1>3, <1>4

LEMMA BandwidthLemma ==
    ASSUME NEW min \in Nat, NEW x \in Nat, NEW y \in Nat, x <= y
    PROVE  /\ ScoreBandwidth(x, min) \in 0 .. Unit /\ ScoreBandwidth(y, min) \in 0 .. Unit
           /\ ScoreBandwidth(x, min) <= ScoreBandwidth(y, min)
  <1>1. ASSUME NEW z \in Nat, z < min
        PROVE  /\ (Unit * z) \div (min + 1) \in 0 .. Unit
               /\ ScoreBandwidth(z, min) = (Unit * z) \div (min + 1)
    <2> DEFINE q == (Unit * z) \div (min + 1)
    <2>1. Unit * z \in Nat /\ Unit * z <= Unit * (min + 1) /\ min + 1 \in Nat \ {0} /\ Unit \in Nat
      BY <1>1 DEF Unit
    <2>2. q \in Nat
      BY <2>1, DivMonotone
    <2>3. q <= Unit
      BY <2>1, DivBound
    <2>4. ScoreBandwidth(z, min) = AtLeastZero(q)
      BY <1>1 DEF ScoreBandwidth
    <2> HIDE DEF q
    <2>5. q \in 0 .. Unit /\ ScoreBandwidth(z, min) = q
      BY <2>1, <2>2, <2>3, <2>4 DEF AtLeastZero
    <2> QED
      BY <2>5 DEF q
  <1>2. ASSUME NEW z \in Nat PROVE ScoreBandwidth(z, min) \in 0 .. Unit
    <2>1. CASE z >= min
      BY <2>1 DEF ScoreBandwidth, Unit
    <2>2. CASE z < min
      BY <1>1, <2>2
    <2> QED
      BY <2>1, <2>2
  <1>3. CASE y >= min
    <2>1. ScoreBandwidth(y, min) = Unit
      BY <1>3 DEF ScoreBandwidth
    <2>2. ScoreBandwidth(x, min) \in 0 .. Unit /\ ScoreBandwidth(y, min) \in 0 .. Unit
      BY <1>2
    <2> QED
      BY <2>1, <2>2 DEF Unit
  <1>4. CASE y < min
    <2> DEFINE p == (Unit * x) \div (min + 1)
               q == (Unit * y) \div (min + 1)
    <2>1. Unit * x \in Nat /\ Unit * y \in Nat /\ Unit * x <= Unit * y /\ min + 1 \in Nat \ {0}
      BY DEF Unit
    <2>2. p <= q
      BY <2>1, DivMonotone
    <2>3. ScoreBandwidth(x, min) = p /\ ScoreBandwidth(y, min) = q
      BY <1>1, <1>4
    <2> HIDE DEF p, q
    <2> QED
      BY <1>2, <2>2, <2>3
  <1> QED
    BY <1>3, <1>4

LEMMA Budgets ==
    ASSUME NEW c \in DOMAIN TrafficClasses
    PROVE  LET tc == TrafficClasses[c] IN
           /\ tc.latency \in Nat \ {0} /\ tc.loss \in Nat \ {0} /\ tc.bw \in Nat
           /\ tc.w[1] \in Nat /\ tc.w[2] \in Nat /\ tc.w[3] \in Nat
           /\ tc.w[1] + tc.w[2] + tc.w[3] = 100
  BY DEF TrafficClasses

\* A weighted part of a score.
LEMMA Weighted ==
    ASSUME NEW w \in Nat, NEW x \in 0 .. Unit, NEW y \in 0 .. Unit, x <= y
    PROVE  w * x \in Nat /\ w * y \in Nat /\ w * x <= w * y /\ w * y <= w * Unit
  <1>1. x \in Nat /\ y \in Nat /\ y <= Unit /\ Unit \in Nat
    BY DEF Unit
  <1>2. w * x <= w * y
    BY <1>1
  <1>3. w * y <= w * Unit
    BY <1>1
  <1> QED
    BY <1>1, <1>2, <1>3

\* Metrics as good in every respect score as high.
LEMMA ScoreMonotone ==
    ASSUME NEW c \in DOMAIN TrafficClasses,
           NEW m \in [latency : Nat, loss : Nat, bw : Nat],
           NEW n \in [latency : Nat, loss : Nat, bw : Nat], AsGood(m, n)
    PROVE  /\ Score(TrafficClasses[c], m) \in 0 .. 100 * Unit
           /\ Score(TrafficClasses[c], n) \in 0 .. 100 * Unit
           /\ Score(TrafficClasses[c], n) <= Score(TrafficClasses[c], m)
  <1> DEFINE tc == TrafficClasses[c]
             a(k) == ScoreLatency(k.latency, tc.latency)
             b(k) == ScoreLoss(k.loss, tc.loss)
             d(k) == ScoreBandwidth(k.bw, tc.bw)
  <1>1. /\ tc.latency \in Nat \ {0} /\ tc.loss \in Nat \ {0} /\ tc.bw \in Nat
        /\ tc.w[1] \in Nat /\ tc.w[2] \in Nat /\ tc.w[3] \in Nat
        /\ tc.w[1] + tc.w[2] + tc.w[3] = 100
    BY Budgets
  <1> HIDE DEF tc
  <1>2. a(m) \in 0 .. Unit /\ a(n) \in 0 .. Unit /\ a(n) <= a(m)
    <2> DEFINE e == 3 * tc.latency
               x == m.latency
               y == n.latency
    <2>1. tc.latency \in Nat /\ e \in Nat \ {0}
      BY <1>1
    <2>2. x \in Nat /\ y \in Nat /\ x <= y
      BY DEF AsGood
    <2>3. a(m) = Beyond(x, tc.latency, e) /\ a(n) = Beyond(y, tc.latency, e)
      BY DEF ScoreLatency, Beyond
    <2> HIDE DEF a, e, x, y
    <2>4. /\ Beyond(x, tc.latency, e) \in 0 .. Unit /\ Beyond(y, tc.latency, e) \in 0 .. Unit
          /\ Beyond(y, tc.latency, e) <= Beyond(x, tc.latency, e)
      BY <2>1, <2>2, BeyondLemma
    <2> QED
      BY <2>3, <2>4
  <1>3. b(m) \in 0 .. Unit /\ b(n) \in 0 .. Unit /\ b(n) <= b(m)
    <2> DEFINE e == 5 * tc.loss + 1
               x == m.loss
               y == n.loss
    <2>1. tc.loss \in Nat /\ e \in Nat \ {0}
      BY <1>1
    <2>2. x \in Nat /\ y \in Nat /\ x <= y
      BY DEF AsGood
    <2>3. b(m) = Beyond(x, tc.loss, e) /\ b(n) = Beyond(y, tc.loss, e)
      BY DEF ScoreLoss, Beyond
    <2> HIDE DEF b, e, x, y
    <2>4. /\ Beyond(x, tc.loss, e) \in 0 .. Unit /\ Beyond(y, tc.loss, e) \in 0 .. Unit
          /\ Beyond(y, tc.loss, e) <= Beyond(x, tc.loss, e)
      BY <2>1, <2>2, BeyondLemma
    <2> QED
      BY <2>3, <2>4
  <1>4. d(m) \in 0 .. Unit /\ d(n) \in 0 .. Unit /\ d(n) <= d(m)
    <2> DEFINE x == n.bw
               y == m.bw
               min == tc.bw
    <2>1. x \in Nat /\ y \in Nat /\ x <= y /\ min \in Nat
      BY <1>1 DEF AsGood
    <2>2. d(m) = ScoreBandwidth(y, min) /\ d(n) = ScoreBandwidth(x, min)
      OBVIOUS
    <2> HIDE DEF d, x, y, min
    <2>3. /\ ScoreBandwidth(x, min) \in 0 .. Unit /\ ScoreBandwidth(y, min) \in 0 .. Unit
          /\ ScoreBandwidth(x, min) <= ScoreBandwidth(y, min)
      BY <2>1, BandwidthLemma
    <2> QED
      BY <2>2, <2>3
  <1>5. \A k : Score(tc, k) = tc.w[1] * a(k) + tc.w[2] * b(k) + tc.w[3] * d(k)
    BY DEF Score
  <1> HIDE DEF a, b, d
  <1> DEFINE u == tc.w[1]
             v == tc.w[2]
             w == tc.w[3]
  <1> HIDE DEF u, v, w
  <1>6. /\ u * a(n) \in Nat /\ u * a(m) \in Nat /\ u * a(n) <= u * a(m) /\ u * a(m) <= u * Unit
        /\ v * b(n) \in Nat /\ v * b(m) \in Nat /\ v * b(n) <= v * b(m) /\ v * b(m) <= v * Unit
        /\ w * d(n) \in Nat /\ w * d(m) \in Nat /\ w * d(n) <= w * d(m) /\ w * d(m) <= w * Unit
    <2>1. u \in Nat /\ v \in Nat /\ w \in Nat
      BY <1>1 DEF u, v, w
    <2>2. u * a(n) \in Nat /\ u * a(m) \in Nat /\ u * a(n) <= u * a(m) /\ u * a(m) <= u * Unit
      BY <1>2, <2>1, Weighted
    <2>3. v * b(n) \in Nat /\ v * b(m) \in Nat /\ v * b(n) <= v * b(m) /\ v * b(m) <= v * Unit
      BY <1>3, <2>1, Weighted
    <2>4. w * d(n) \in Nat /\ w * d(m) \in Nat /\ w * d(n) <= w * d(m) /\ w * d(m) <= w * Unit
      BY <1>4, <2>1, Weighted
    <2> QED
      BY <2>2, <2>3, <2>4
  <1>7. u * Unit + v * Unit + w * Unit = 100 * Unit
    BY <1>1 DEF Unit, u, v, w
  <1>8. /\ Score(tc, m) = u * a(m) + v * b(m) + w * d(m)
        /\ Score(tc, n) = u * a(n) + v * b(n) + w * d(n)
    BY <1>5 DEF u, v, w
  <1>9. u * Unit \in Nat /\ v * Unit \in Nat /\ w * Unit \in Nat
    BY <1>1 DEF Unit, u, v, w
  <1> QED
    <2> DEFINE a1 == u * a(m)
               b1 == v * b(m)
               d1 == w * d(m)
               a2 == u * a(n)
               b2 == v * b(n)
               d2 == w * d(n)
               U == u * Unit
               V == v * Unit
               W == w * Unit
               T == 100 * Unit
    <2> HIDE DEF a1, b1, d1, a2, b2, d2, U, V, W, T
    <2>1. /\ a2 \in Nat /\ a1 \in Nat /\ a2 <= a1 /\ a1 <= U /\ U \in Nat
          /\ b2 \in Nat /\ b1 \in Nat /\ b2 <= b1 /\ b1 <= V /\ V \in Nat
          /\ d2 \in Nat /\ d1 \in Nat /\ d2 <= d1 /\ d1 <= W /\ W \in Nat
          /\ U + V + W = T /\ Score(tc, m) = a1 + b1 + d1 /\ Score(tc, n) = a2 + b2 + d2
      BY <1>6, <1>7, <1>8, <1>9 DEF a1, b1, d1, a2, b2, d2, U, V, W, T
    <2>2. /\ Score(tc, m) \in 0 .. T /\ Score(tc, n) \in 0 .. T /\ Score(tc, n) <= Score(tc, m)
      BY <2>1
    <2> QED
      BY <2>2 DEF T, tc

LEMMA ListOfLinks ==
    /\ DOMAIN LinkList \in SUBSET Nat
    /\ \A l \in Links : Priority[l] \in Nat /\ \E i \in DOMAIN LinkList : l = LinkList[i]
    /\ \A i, j \in DOMAIN LinkList : LinkList[i] = LinkList[j] => i = j
  <1>1. DOMAIN LinkList = 1 .. Len(LinkList) /\ Len(LinkList) \in Nat
    BY LinksAssumption
  <1>2. \A l \in Links : \E i \in DOMAIN LinkList : l = LinkList[i]
    BY Zenon DEF Links, Range
  <1> QED
    BY <1>1, <1>2, LinksAssumption

\* One of the links comes before all others: of those with the highest score, of
\* them those with the least priority number, of them the first of the list.
LEMMA BestLemma ==
    ASSUME NEW E \in SUBSET Links, E # {}, NEW n \in Nat,
           NEW score, \A l \in E : score[l] \in 0 .. n
    PROVE  \E l \in E : \A k \in E \ {l} : Precedes(l, k, score)
  <1> DEFINE S == {score[l] : l \in E}
  <1>1. PICK s \in S : \A t \in S : s >= t
    <2>1. S \in SUBSET (0 .. n) /\ S # {}
      OBVIOUS
    <2> HIDE DEF S
    <2> QED
      BY <2>1, LargestNatural
  <1> DEFINE E1 == {l \in E : score[l] = s}
             P == {Priority[l] : l \in E1}
  <1>2. PICK p \in P : \A q \in P : p <= q
    <2>1. P \in SUBSET Nat /\ P # {}
      BY ListOfLinks
    <2> HIDE DEF P
    <2> QED
      BY <2>1, LeastNatural
  <1> DEFINE E2 == {l \in E1 : Priority[l] = p}
             J == {i \in DOMAIN LinkList : LinkList[i] \in E2}
  <1>3. PICK j \in J : \A i \in J : j <= i
    <2>1. J \in SUBSET Nat
      BY ListOfLinks
    <2>2. E2 # {} /\ E2 \subseteq Links
      OBVIOUS
    <2>3. J # {}
      <3> HIDE DEF E2
      <3> QED
        BY <2>2, ListOfLinks
    <2> HIDE DEF J
    <2> QED
      BY <2>1, <2>3, LeastNatural
  <1> DEFINE l == LinkList[j]
  <1>4. l \in E /\ score[l] = s /\ Priority[l] = p /\ j \in DOMAIN LinkList
    OBVIOUS
  <1>5. ASSUME NEW k \in E \ {l}
        PROVE  Precedes(l, k, score)
    <2>1. score[k] \in S /\ score[k] \in Nat /\ s \in Nat /\ Priority[k] \in Nat /\ p \in Nat
      BY ListOfLinks
    <2>2. s >= score[k]
      BY <1>1, <2>1
    <2>3. CASE s > score[k]
      BY <1>4, <2>3 DEF Precedes
    <2>4. CASE s = score[k]
      <3>1. Priority[k] \in P
        BY <2>4
      <3>2. p <= Priority[k]
        BY <1>2, <3>1
      <3>3. CASE p < Priority[k]
        BY <1>4, <2>4, <3>3 DEF Precedes
      <3>4. CASE p = Priority[k]
        <4>1. k \in E2
          BY <2>4, <3>4
        <4>2. PICK i \in DOMAIN LinkList : k = LinkList[i]
          BY ListOfLinks
        <4>3. j <= i /\ i # j /\ i \in Nat /\ j \in Nat
          BY <1>3, <1>4, <4>1, <4>2, ListOfLinks
        <4>4. j < i
          BY <4>3
        <4> QED
          BY <1>4, <2>4, <3>4, <4>2, <4>4 DEF Precedes
      <3> QED
        BY <2>1, <3>2, <3>3, <3>4
    <2> QED
      BY <2>1, <2>2, <2>3, <2>4
  <1> QED
    BY <1>4, <1>5

\* No two links come before each other.
LEMMA OneBest ==
    ASSUME NEW l \in Links, NEW k \in Links, NEW score, score[l] \in Nat, score[k] \in Nat,
           Precedes(l, k, score), Precedes(k, l, score)
    PROVE  FALSE
  <1>1. Priority[l] \in Nat /\ Priority[k] \in Nat
    BY ListOfLinks
  <1>2. score[l] = score[k] /\ Priority[l] = Priority[k]
    BY <1>1 DEF Precedes
  <1>3. PICK i, j \in DOMAIN LinkList : i < j /\ LinkList[i] = l /\ LinkList[j] = k
    BY <1>1, <1>2 DEF Precedes
  <1>4. PICK m, n \in DOMAIN LinkList : m < n /\ LinkList[m] = k /\ LinkList[n] = l
    BY <1>1, <1>2 DEF Precedes
  <1>5. i = n /\ j = m
    BY <1>3, <1>4, ListOfLinks
  <1> QED
    BY <1>3, <1>4, <1>5, ListOfLinks

\* The scores make_decision sorts by.
ScoresOf(c, M, E, late) ==
    [l \in E |-> IF l \in late THEN 0 ELSE Score(TrafficClasses[c], M[l])]

\* The link decided for a class is the one that comes before all others.
LEMMA DecideLemma ==
    ASSUME NEW c \in DOMAIN TrafficClasses, NEW E \in SUBSET Links, NEW late,
           NEW M, \A l \in E : M[l] \in [latency : Nat, loss : Nat, bw : Nat]
    PROVE  LET score == ScoresOf(c, M, E, late)
               d     == Decide(TrafficClasses[c], M, E, late)
           IN  /\ \A l \in E : score[l] \in Nat
               /\ E = {} => d = NoLink
               /\ E # {} => d \in E /\ \A k \in E \ {d} : Precedes(d, k, score)
               /\ \A l \in E : (\A k \in E \ {l} : Precedes(l, k, score)) => d = l
  <1> DEFINE score == ScoresOf(c, M, E, late)
             d     == Decide(TrafficClasses[c], M, E, late)
             Best(l) == \A k \in E \ {l} : Precedes(l, k, score)
  <1>1. 100 * Unit \in Nat
    BY DEF Unit
  <1>2. ASSUME NEW l \in E PROVE score[l] \in 0 .. 100 * Unit
    <2>1. score[l] = IF l \in late THEN 0 ELSE Score(TrafficClasses[c], M[l])
      BY DEF ScoresOf
    <2>2. Score(TrafficClasses[c], M[l]) \in 0 .. 100 * Unit
      <3>1. M[l] \in [latency : Nat, loss : Nat, bw : Nat]
        OBVIOUS
      <3>2. AsGood(M[l], M[l])
        BY <3>1 DEF AsGood
      <3> QED
        BY <3>1, <3>2, ScoreMonotone
    <2> QED
      BY <1>1, <2>1, <2>2
  <1>3. d = IF E = {} THEN NoLink ELSE CHOOSE l \in E : Best(l)
    BY DEF Decide, ScoresOf
  <1> HIDE DEF score, d
  <1>4. E # {} => \E l \in E : Best(l)
    BY <1>1, <1>2, BestLemma
  <1>5. E # {} => d \in E /\ Best(d)
    <2> HIDE DEF Best
    <2> QED
      BY <1>3, <1>4
  <1>6. ASSUME NEW l \in E, Best(l) PROVE d = l
    <2>1. d \in E /\ Best(d)
      BY <1>5
    <2>2. ASSUME d # l PROVE FALSE
      <3>1. Precedes(l, d, score) /\ Precedes(d, l, score)
        BY <1>6, <2>1, <2>2
      <3>2. score[l] \in Nat /\ score[d] \in Nat
        BY <1>2, <2>1
      <3> QED
        BY <2>1, <3>1, <3>2, OneBest
    <2> QED
      BY <2>2
  <1>7. \A l \in E : score[l] \in Nat
    BY <1>2
  <1> QED
    BY <1>3, <1>5, <1>6, <1>7 DEF score, d

\* The metrics that links report on the grid.
GridInv == available \subseteq Links /\ (moving = "grid" => grid \in [Links -> Metrics])

LEMMA GridMetrics ==
    ASSUME GridInv, moving = "grid", NEW l \in Links
    PROVE  grid[l] \in [latency : Nat, loss : Nat, bw : Nat]
  <1>1. grid[l] \in Metrics
    BY DEF GridInv
  <1> QED
    BY <1>1, GridAssumption DEF Metrics

LEMMA GridStep == GridInv /\ [MCNext]_mcVars => GridInv'
  <1> SUFFICES ASSUME GridInv, [MCNext]_mcVars PROVE GridInv'
    OBVIOUS
  <1>1. CASE UNCHANGED <<moving, gridVars>>
    BY <1>1 DEF GridInv, gridVars
  <1>2. ASSUME moving = "grid", UNCHANGED moving, NEW l \in Links, Report(l) PROVE GridInv'
    BY <1>2 DEF Report, GridInv
  <1>3. ASSUME moving = "grid", UNCHANGED moving, NEW l \in Links, Toggle(l) PROVE GridInv'
    BY <1>3 DEF Toggle, GridInv
  <1> QED
    BY <1>1, <1>2, <1>3 DEF MCNext, mcVars, gridVars

LEMMA GridInvariance == MCSpec => []GridInv
  <1>1. MCInit => GridInv
    BY DEF MCInit, GridInv
  <1> QED
    BY <1>1, GridStep, PTL DEF MCSpec

\* A class is given the link that is at least as good as all others in every
\* respect and preferred among equals, for any links, whatever they report.
THEOREM DominantWins == MCSpec => []DominantLinkWins
  <1>1. GridInv => DominantLinkWins
    <2> SUFFICES ASSUME GridInv, moving = "grid", NEW c \in DOMAIN TrafficClasses, NEW l \in available,
                        \A k \in available \ {l} : AsGood(grid[l], grid[k]) /\ Priority[l] < Priority[k]
                 PROVE  Choice(c) = l
      BY DEF DominantLinkWins
    <2> DEFINE score == ScoresOf(c, grid, available, {})
    <2>1. available \in SUBSET Links /\ \A k \in available : grid[k] \in [latency : Nat, loss : Nat, bw : Nat]
      BY GridMetrics DEF GridInv
    <2>2. ASSUME NEW k \in available \ {l} PROVE Precedes(l, k, score)
      <3>1. /\ score[l] = Score(TrafficClasses[c], grid[l])
            /\ score[k] = Score(TrafficClasses[c], grid[k])
        BY DEF ScoresOf
      <3>2. /\ Score(TrafficClasses[c], grid[k]) <= Score(TrafficClasses[c], grid[l])
            /\ Score(TrafficClasses[c], grid[k]) \in Nat /\ Score(TrafficClasses[c], grid[l]) \in Nat
        <4>1. 100 * Unit \in Nat
          BY DEF Unit
        <4> QED
          BY <2>1, <4>1, ScoreMonotone
      <3> HIDE DEF score
      <3> QED
        BY <3>1, <3>2 DEF Precedes
    <2> QED
      BY <2>1, <2>2, DecideLemma DEF Choice
  <1> QED
    BY <1>1, GridInvariance, PTL

\* No class leaves its link because that one's report gets better, another's gets
\* worse or another link goes, for any links, whatever they report.
THEOREM NoFlight == MCSpec => NoSpuriousFailover
  <1>1. GridInv /\ GridInv' /\ [MCNext]_mcVars =>
          [moving = "grid" => \A c \in DOMAIN TrafficClasses :
             LET s == Choice(c) IN
             ( /\ s # NoLink /\ s \in available' /\ available' \subseteq available
               /\ AsGood(grid'[s], grid[s])
               /\ \A k \in Links \ {s} : AsGood(grid[k], grid'[k]) )
             => Choice(c)' = s]_gridVars
    <2> DEFINE s(c) == Choice(c)
    <2> SUFFICES ASSUME GridInv, GridInv', moving = "grid", moving' = "grid",
                        NEW c \in DOMAIN TrafficClasses,
                        s(c) # NoLink, s(c) \in available', available' \subseteq available,
                        AsGood(grid'[s(c)], grid[s(c)]),
                        \A k \in Links \ {s(c)} : AsGood(grid[k], grid'[k])
                 PROVE  Choice(c)' = s(c)
      BY DEF MCNext, mcVars, gridVars
    <2> DEFINE d     == s(c)
               old   == ScoresOf(c, grid, available, {})
               new   == ScoresOf(c, grid', available', {})
    <2>1. available \in SUBSET Links /\ \A k \in available : grid[k] \in [latency : Nat, loss : Nat, bw : Nat]
      BY GridMetrics DEF GridInv
    <2>2. available' \in SUBSET Links /\ \A k \in available' : grid'[k] \in [latency : Nat, loss : Nat, bw : Nat]
      <3>1. grid' \in [Links -> Metrics]
        BY DEF GridInv
      <3> QED
        BY <2>1, <3>1, GridAssumption DEF Metrics
    <2>3. d = Decide(TrafficClasses[c], grid, available, {})
      BY DEF Choice
    <2>4. Choice(c)' = Decide(TrafficClasses[c], grid', available', {})
      BY DEF Choice
    <2>5. d \in available /\ \A k \in available \ {d} : Precedes(d, k, old)
      <3>1. available # {}
        OBVIOUS
      <3> HIDE DEF d
      <3> QED
        BY <2>1, <2>3, <3>1, DecideLemma
    <2> HIDE DEF s
    <2>6. ASSUME NEW k \in available' \ {d} PROVE Precedes(d, k, new)
      <3>1. /\ old[d] = Score(TrafficClasses[c], grid[d]) /\ old[k] = Score(TrafficClasses[c], grid[k])
            /\ new[d] = Score(TrafficClasses[c], grid'[d]) /\ new[k] = Score(TrafficClasses[c], grid'[k])
        BY <2>5 DEF ScoresOf
      <3>2. 100 * Unit \in Nat
        BY DEF Unit
      <3>3. Precedes(d, k, old)
        BY <2>5
      <3>4. /\ Score(TrafficClasses[c], grid[d]) <= Score(TrafficClasses[c], grid'[d])
            /\ Score(TrafficClasses[c], grid[d]) \in Nat /\ Score(TrafficClasses[c], grid'[d]) \in Nat
        BY <2>1, <2>2, <2>5, <3>2, ScoreMonotone
      <3>5. /\ Score(TrafficClasses[c], grid'[k]) <= Score(TrafficClasses[c], grid[k])
            /\ Score(TrafficClasses[c], grid'[k]) \in Nat /\ Score(TrafficClasses[c], grid[k]) \in Nat
        <4>1. AsGood(grid[k], grid'[k])
          BY <2>2
        <4> QED
          BY <2>1, <2>2, <3>2, <4>1, ScoreMonotone
      <3> HIDE DEF old, new, d
      <3> QED
        BY <3>1, <3>3, <3>4, <3>5 DEF Precedes
    <2> QED
      BY <2>2, <2>4, <2>6, DecideLemma
  <1> QED
    BY <1>1, GridInvariance, PTL DEF MCSpec, NoSpuriousFailover
-----------------------------------------------------------------------------
(***************************************************************************)
(* The types of the loop.  A decision is a link, as the order of the links *)
(* has one first.                                                          *)
(***************************************************************************)
LEMMA SelectedLemma ==
    ASSUME metrics \in [Links -> Readings], NEW c \in Classes, NEW E \in SUBSET Links, NEW late
    PROVE  Selected(c, E, late) \in Links \cup {NoLink}
  <1>1. c \in DOMAIN TrafficClasses
    BY ClassesAssumption, ListOfClasses DEF Classes, Range
  <1>2. \A l \in E : metrics[l] \in [latency : Nat, loss : Nat, bw : Nat]
    BY ClassesAssumption
  <1>3. /\ E = {} => Selected(c, E, late) = NoLink
        /\ E # {} => Selected(c, E, late) \in E
    BY <1>1, <1>2, DecideLemma DEF Selected
  <1> QED
    BY <1>3

LEMMA OlderLemma ==
    ASSUME age \in [Links -> 0 .. StaleAfter + 1]
    PROVE  Older(age) \in [Links -> 0 .. StaleAfter + 1]
  BY ClassesAssumption DEF Older

LEMMA NextTurnTypes ==
    ASSUME TypeOK, DOMAIN decisions = Classes, NEW k \in Nat, NextTurn(k)
    PROVE  turn' \in 0 .. Len(ClassList) /\ step' \in DOMAIN Commands
           /\ (turn' # 0 => decisions[ClassList[turn']] \in Links)
  <1>1. /\ step' = 1 /\ turn' \in {0} \cup DOMAIN ClassList
        /\ turn' # 0 => Routed(ClassList[turn'])
    BY NextTurnLemma
  <1>2. turn' \in 0 .. Len(ClassList) /\ step' \in DOMAIN Commands
    BY <1>1, ListOfClasses DEF Commands
  <1>3. ASSUME turn' # 0 PROVE decisions[ClassList[turn']] \in Links
    <2>1. ClassList[turn'] \in Classes /\ decisions[ClassList[turn']] # NoLink
          /\ ClassList[turn'] \in Injectable
      BY <1>1, <1>3, ListOfClasses DEF Routed
    <2>2. decisions \in [Classes -> Links \cup {NoLink}]
      BY DEF TypeOK, NoDecisions
    <2> QED
      BY <2>1, <2>2
  <1> QED
    BY <1>2, <1>3

LEMMA CommandTypes ==
    ASSUME TypeOK, EngineInv, CommandSucceeds \/ CommandFails
    PROVE  TypeOK'
  <1>1. /\ turn # 0 /\ Advance
        /\ UNCHANGED <<metrics, up, adminUp, age, decisions, fresh>>
    BY DEF CommandSucceeds, CommandFails
  <1>2. /\ turn \in Nat /\ DOMAIN decisions = Classes /\ ClassList[turn] \in Classes
        /\ decisions[ClassList[turn]] \in Links
    BY <1>1, ListOfClasses DEF TypeOK, EngineInv, Positions
  <1>3. /\ turn' \in 0 .. Len(ClassList) /\ step' \in DOMAIN Commands
        /\ turn' # 0 => decisions'[ClassList[turn']] \in Links
    <2>1. CASE step < Len(Commands)
      <3>1. step' = step + 1 /\ turn' = turn
        BY <1>1, <2>1 DEF Advance
      <3>2. step \in 1 .. 3 /\ step < 3 /\ DOMAIN Commands = 1 .. 3
        BY <2>1, CommandList DEF EngineInv, Positions, Commands
      <3> QED
        BY <1>1, <1>2, <3>1, <3>2 DEF TypeOK
    <2>2. CASE ~(step < Len(Commands))
      <3>1. NextTurn(turn)
        BY <1>1, <2>2 DEF Advance
      <3> QED
        BY <1>1, <1>2, <3>1, NextTurnTypes
    <2> QED
      BY <2>1, <2>2
  <1>4. table' \in [Classes -> Links \cup {NoLink}] /\ rule' \subseteq Classes /\ clean' \in BOOLEAN
    BY <1>2 DEF CommandSucceeds, CommandFails, TypeOK
  <1> QED
    BY <1>1, <1>3, <1>4 DEF TypeOK

LEMMA RunTypes ==
    ASSUME TypeOK, RunPolicy
    PROVE  TypeOK'
  <1>1. /\ turn = 0 /\ fresh' = TRUE
        /\ UNCHANGED <<metrics, up, adminUp, turn, step, table, rule, clean>>
    BY DEF RunPolicy
  <1>2. /\ metrics \in [Links -> Readings] /\ age \in [Links -> 0 .. StaleAfter + 1]
        /\ \A ages : Eligible(ages) \in SUBSET Links
    BY DEF TypeOK, Eligible
  <1>3. \A c \in Classes : \A ages, late : Selected(c, Eligible(ages), late) \in Links \cup {NoLink}
    BY <1>2, SelectedLemma
  <1>4. decisions' \in [Classes -> Links \cup {NoLink}]
    <2>1. CASE decisions' = [c \in Classes |-> Selected(c, Eligible(age), {})]
      BY <1>3, <2>1
    <2>2. ASSUME NEW k, NEW late,
                 decisions' = [c \in Classes |->
                   LET n == CHOOSE n \in DOMAIN ClassList : ClassList[n] = c IN
                   IF n < k THEN Selected(c, Eligible(age), {})
                   ELSE IF n = k THEN Selected(c, Eligible(age), late)
                   ELSE Selected(c, Eligible(Older(age)), {})]
          PROVE  decisions' \in [Classes -> Links \cup {NoLink}]
      BY <1>3, <2>2
    <2> QED
      BY <2>1, <2>2 DEF RunPolicy
  <1>5. age' \in [Links -> 0 .. StaleAfter + 1]
    BY <1>2, OlderLemma DEF RunPolicy
  <1> QED
    BY <1>1, <1>4, <1>5 DEF TypeOK

LEMMA StepTypes == TypeOK /\ EngineInv /\ [Next]_vars => TypeOK'
  <1> SUFFICES ASSUME TypeOK, EngineInv, [Next]_vars PROVE TypeOK'
    OBVIOUS
  <1>1. CASE UNCHANGED vars
    BY <1>1 DEF vars, TypeOK
  <1>2. CASE Tick
    BY <1>2, OlderLemma DEF Tick, TypeOK
  <1>3. CASE Apply
    <2>1. fresh' = FALSE /\ clean' = TRUE /\ NextTurn(0) /\ DOMAIN decisions = Classes
      BY <1>3 DEF Apply, EngineInv, Positions
    <2>2. UNCHANGED <<metrics, up, adminUp, age, decisions, table, rule>>
      BY <1>3 DEF Apply
    <2>3. /\ turn' \in 0 .. Len(ClassList) /\ step' \in DOMAIN Commands
          /\ turn' # 0 => decisions[ClassList[turn']] \in Links
      BY <2>1, NextTurnTypes
    <2> QED
      BY <2>1, <2>2, <2>3 DEF TypeOK
  <1>4. ASSUME NEW l \in Links, UpdateMetrics(l) PROVE TypeOK'
    <2>1. metrics' \in [Links -> Readings] /\ up' \in [Links -> BOOLEAN]
      BY <1>4 DEF UpdateMetrics, TypeOK
    <2>2. age' \in [Links -> 0 .. StaleAfter + 1]
      BY <1>4, ClassesAssumption DEF UpdateMetrics, TypeOK
    <2>3. UNCHANGED <<adminUp, decisions, fresh, turn, step, table, rule, clean>>
      BY <1>4 DEF UpdateMetrics
    <2> QED
      BY <2>1, <2>2, <2>3 DEF TypeOK
  <1>5. ASSUME NEW l \in Links, SetAdmin(l) PROVE TypeOK'
    <2>1. adminUp' \in [Links -> BOOLEAN]
      BY <1>5, Zenon DEF SetAdmin, TypeOK
    <2>2. UNCHANGED <<metrics, up, age, decisions, fresh, turn, step, table, rule, clean>>
      BY <1>5 DEF SetAdmin
    <2> QED
      BY <2>1, <2>2 DEF TypeOK
  <1>6. ASSUME NEW l \in Links, KernelDropsRoutes(l) PROVE TypeOK'
    <2>1. table' \in [Classes -> Links \cup {NoLink}] /\ clean' = FALSE
      BY <1>6 DEF KernelDropsRoutes, TypeOK
    <2>2. UNCHANGED <<metrics, up, adminUp, age, decisions, fresh, turn, step, rule>>
      BY <1>6 DEF KernelDropsRoutes
    <2> QED
      BY <2>1, <2>2 DEF TypeOK
  <1> QED
    BY <1>1, <1>2, <1>3, <1>4, <1>5, <1>6, RunTypes, CommandTypes DEF Next

\* The types of the loop: above all, what is decided for a class, and what its
\* table has, is a link or none.
THEOREM EngineTypes == Spec => []TypeOK
  <1>1. Init => TypeOK
    <2> SUFFICES ASSUME Init PROVE TypeOK
      OBVIOUS
    <2>1. up \in [Links -> BOOLEAN] /\ adminUp \in [Links -> BOOLEAN]
      BY Zenon DEF Init
    <2>2. age \in [Links -> 0 .. StaleAfter + 1]
      BY ClassesAssumption DEF Init
    <2>3. turn \in 0 .. Len(ClassList) /\ step \in DOMAIN Commands /\ turn = 0
      BY ListOfClasses DEF Init, Commands
    <2>4. table \in [Classes -> Links \cup {NoLink}]
      BY DEF Init
    <2> QED
      BY <2>1, <2>2, <2>3, <2>4 DEF Init, TypeOK
  <1> QED
    BY <1>1, StepTypes, EngineInvariance, PTL DEF Spec
-----------------------------------------------------------------------------
(***************************************************************************)
(* The event log.  `LogReplays` looks for the latest of the entries before *)
(* each; `ReplayInv` says the same of neighbours in the log (`Linked`) and *)
(* of the first, and that no class has an entry before its first decision. *)
(***************************************************************************)
Value    == BOOLEAN \cup Links \cup {NoLink}
LogEntry == [of : Links \cup Classes, from : Value, to : Value]

\* The first of the entries at positions D of log L starts at `start`.
StartsAt(L, D, start, now) ==
    /\ D = {} => now = start
    /\ \A i \in D : (\A j \in D : i <= j) => L[i].from = start

Chained(L, D, start, now) == Linked(L, D, now) /\ StartsAt(L, D, start, now)

ReplayInv ==
    /\ events \in Seq(LogEntry)
    /\ \A l \in Links : Chained(events, EntriesOf(l), TRUE, up[l])
    /\ decisions = NoDecisions => \A c \in Classes : EntriesOf(c) = {}
    /\ decisions # NoDecisions =>
          \A c \in Classes : Chained(events, EntriesOf(c), first[c], decisions[c])

LEMMA ChainedGrows ==
    ASSUME NEW L, NEW M, NEW D \in SUBSET Nat, NEW n \in Nat, NEW start, NEW now, NEW next,
           Chained(L, D, start, now), \A i \in D : i < n /\ M[i] = L[i],
           M[n].from = now, M[n].to = next, now # next
    PROVE  Chained(M, D \cup {n}, start, next)
  <1>1. Linked(M, D \cup {n}, next)
    BY LinkedGrows DEF Chained
  <1>2. ASSUME NEW i \in D \cup {n}, \A j \in D \cup {n} : i <= j
        PROVE  M[i].from = start
    <2>1. CASE i \in D
      BY <1>2, <2>1 DEF Chained, StartsAt
    <2>2. CASE i = n
      <3>1. \A j \in D : j \in Nat /\ j < n /\ n <= j
        BY <1>2, <2>2
      <3>2. D = {}
        BY <3>1
      <3> QED
        BY <2>2, <3>2 DEF Chained, StartsAt
    <2> QED
      BY <2>1, <2>2
  <1> QED
    BY <1>1, <1>2 DEF Chained, StartsAt

LEMMA ChainedKeeps ==
    ASSUME NEW L, NEW M, NEW D, NEW start, NEW now, Chained(L, D, start, now), \A i \in D : M[i] = L[i]
    PROVE  Chained(M, D, start, now)
  BY LinkedKeeps DEF Chained, StartsAt

\* A chain leads from its start to what is now.
LEMMA ChainLeads ==
    ASSUME events \in Seq(LogEntry), NEW of, NEW start, NEW now,
           Chained(events, EntriesOf(of), start, now)
    PROVE  LeadsFromTo(of, start, now)
  <1> DEFINE D == EntriesOf(of)
             After(S) == IF S = {} THEN start ELSE events[Latest(S)].to
  <1>1. D \in SUBSET (0 .. Len(events)) /\ Len(events) \in Nat
    BY DEF EntriesOf
  <1>2. ASSUME NEW S \in SUBSET D, S # {}
        PROVE  Latest(S) \in S /\ \A j \in S : Latest(S) >= j
    <2>1. S \in SUBSET (0 .. Len(events))
      BY <1>1
    <2>2. \E k \in S : \A j \in S : k >= j
      BY <1>1, <1>2, <2>1, LargestNatural
    <2> QED
      BY <2>2, Zenon DEF Latest
  <1> HIDE DEF D
  <1>3. ASSUME NEW i \in D
        PROVE  events[i].from = After({j \in D : j < i}) /\ events[i].to # events[i].from
    <2> DEFINE before == {j \in D : j < i}
    <2>1. events[i].from # events[i].to
      BY DEF Chained, Linked, D
    <2>2. CASE before = {}
      <3>1. \A j \in D : i <= j
        BY <1>1, <2>2
      <3>2. events[i].from = start
        BY <3>1 DEF Chained, StartsAt, D
      <3> QED
        BY <2>1, <2>2, <3>2
    <2>3. CASE before # {}
      <3> DEFINE m == Latest(before)
      <3>1. m \in before /\ \A j \in before : m >= j
        BY <1>2, <2>3
      <3> HIDE DEF m
      <3>2. m \in D /\ m < i /\ \A k \in D : ~(m < k /\ k < i)
        BY <1>1, <3>1
      <3>3. events[m].to = events[i].from
        BY <3>2 DEF Chained, Linked, D
      <3> QED
        BY <2>1, <2>3, <3>3 DEF m
    <2> QED
      BY <2>2, <2>3
  <1>4. now = After(D)
    <2>1. CASE D = {}
      BY <2>1 DEF Chained, StartsAt, D
    <2>2. CASE D # {}
      <3> DEFINE m == Latest(D)
      <3>1. m \in D /\ \A j \in D : m >= j
        BY <1>2, <2>2
      <3> HIDE DEF m
      <3>2. \A j \in D : j <= m
        BY <1>1, <3>1
      <3>3. events[m].to = now
        BY <3>1, <3>2 DEF Chained, Linked, D
      <3> QED
        BY <2>2, <3>3 DEF m
    <2> QED
      BY <2>1, <2>2
  <1> QED
    BY <1>3, <1>4 DEF LeadsFromTo, D

\* What is recorded of a link or class when list K is put behind the log.
LEMMA EntriesGrow ==
    ASSUME events \in Seq(LogEntry), NEW K \in Seq(LogEntry), events' = events \o K, NEW of
    PROVE  /\ events' \in Seq(LogEntry) /\ EntriesOf(of) \in SUBSET Nat
           /\ \A i \in EntriesOf(of) : events'[i] = events[i] /\ i <= Len(events)
           /\ \A n \in 1 .. Len(K) : events'[Len(events) + n] = K[n] /\ Len(events) + n \in Nat
           /\ EntriesOf(of)' = EntriesOf(of) \cup {Len(events) + n : n \in {k \in 1 .. Len(K) : K[k].of = of}}
  <1> DEFINE m == Len(events)
             N == Len(K)
             D == EntriesOf(of)
  <1>1. events' \in Seq(LogEntry) /\ Joined(events', events, m, K, N)
    <2>1. events \o K \in Seq(LogEntry) /\ Joined(events \o K, events, Len(events), K, Len(K))
      BY ConcatLemma, Zenon
    <2> QED
      BY <2>1
  <1>2. m \in Nat /\ N \in Nat /\ DOMAIN events = 1 .. m
    OBVIOUS
  <1>3. D = {i \in 1 .. m : events[i].of = of}
    BY <1>2 DEF EntriesOf
  <1> HIDE DEF m, N, D
  <1>4. EntriesOf(of)' = {i \in 1 .. m + N : events'[i].of = of}
    BY <1>1 DEF EntriesOf, Joined
  <1>5. /\ D \in SUBSET Nat /\ \A i \in D : events'[i] = events[i] /\ i <= m
        /\ \A n \in 1 .. N : events'[m + n] = K[n] /\ m + n \in Nat
    BY <1>1, <1>2, <1>3 DEF Joined
  <1>6. EntriesOf(of)' = D \cup {m + n : n \in {k \in 1 .. N : K[k].of = of}}
    <2>1. ASSUME NEW i \in EntriesOf(of)'
          PROVE  i \in D \cup {m + n : n \in {k \in 1 .. N : K[k].of = of}}
      <3>1. i \in 1 .. m + N /\ events'[i].of = of
        BY <1>4
      <3>2. CASE i \in 1 .. m
        <4>1. i \in D
          BY <1>1, <1>3, <3>1, <3>2 DEF Joined
        <4> QED
          BY <4>1
      <3>3. CASE i \notin 1 .. m
        <4>1. PICK n \in 1 .. N : i = m + n
          BY <1>1, <3>1, <3>3 DEF Joined
        <4>2. K[n].of = of
          BY <1>1, <3>1, <4>1 DEF Joined
        <4> QED
          BY <4>1, <4>2
      <3> QED
        BY <3>2, <3>3
    <2>2. ASSUME NEW i \in D PROVE i \in EntriesOf(of)'
      BY <1>1, <1>3, <1>4 DEF Joined
    <2>3. ASSUME NEW n \in {k \in 1 .. N : K[k].of = of} PROVE m + n \in EntriesOf(of)'
      BY <1>1, <1>4 DEF Joined
    <2> QED
      BY <2>1, <2>2, <2>3
  <1> QED
    BY <1>1, <1>5, <1>6 DEF m, N, D

\* update_metrics: an entry of the link if its availability changes.
LEMMA ReportReplays ==
    ASSUME ReplayInv, TypeOK, TypeOK', NEW l \in Links, UpdateLogged(l)
    PROVE  ReplayInv'
  <1>1. /\ UNCHANGED <<decisions, first>> /\ events \in Seq(LogEntry)
        /\ \A k \in Links \ {l} : up'[k] = up[k]
    BY DEF UpdateLogged, UpdateMetrics, ReplayInv, TypeOK
  <1>2. CASE up'[l] = up[l]
    <2>1. events' = events /\ \A k \in Links : up'[k] = up[k]
      BY <1>1, <1>2 DEF UpdateLogged, LogLink
    <2> QED
      BY <1>1, <2>1 DEF ReplayInv, EntriesOf
  <1>3. CASE up'[l] # up[l]
    <2> DEFINE e == Event(l, up[l], up'[l])
               n == Len(events) + 1
    <2>1. events' = events \o <<e>>
      BY <1>1, <1>3 DEF UpdateLogged, LogLink
    <2>2. e \in LogEntry
      <3>1. up[l] \in BOOLEAN /\ up'[l] \in BOOLEAN
        BY DEF TypeOK
      <3> QED
        BY <3>1 DEF Event, LogEntry, Value
    <2>3. e.of = l /\ e.from = up[l] /\ e.to = up'[l]
      BY DEF Event
    <2> HIDE DEF e
    <2>4. <<e>> \in Seq(LogEntry) /\ Len(<<e>>) = 1 /\ <<e>>[1] = e /\ 1 .. 1 = {1}
      BY <2>2
    <2>5. ASSUME NEW of
          PROVE  /\ events' \in Seq(LogEntry) /\ EntriesOf(of) \in SUBSET Nat
                 /\ \A i \in EntriesOf(of) : events'[i] = events[i] /\ i < n
                 /\ events'[n] = e /\ n \in Nat
                 /\ EntriesOf(of)' = EntriesOf(of) \cup IF of = l THEN {n} ELSE {}
      <3> DEFINE K == <<e>>
      <3>1. K \in Seq(LogEntry) /\ Len(K) = 1 /\ K[1] = e /\ 1 .. Len(K) = {1}
        BY <2>4
      <3>2. events' = events \o K
        BY <2>1
      <3> HIDE DEF K
      <3>3. /\ events' \in Seq(LogEntry) /\ EntriesOf(of) \in SUBSET Nat
            /\ \A i \in EntriesOf(of) : events'[i] = events[i] /\ i <= Len(events)
            /\ \A k \in 1 .. Len(K) : events'[Len(events) + k] = K[k] /\ Len(events) + k \in Nat
            /\ EntriesOf(of)' = EntriesOf(of) \cup
                  {Len(events) + k : k \in {k \in 1 .. Len(K) : K[k].of = of}}
        BY <1>1, <3>1, <3>2, EntriesGrow
      <3>4. {k \in 1 .. Len(K) : K[k].of = of} = IF of = l THEN {1} ELSE {}
        BY <2>3, <3>1
      <3>5. \A i \in EntriesOf(of) : i < n
        BY <1>1, <3>3
      <3> QED
        BY <3>1, <3>3, <3>4, <3>5
    <2> HIDE DEF n
    <2>6. Chained(events', EntriesOf(l)', TRUE, up'[l])
      <3> DEFINE D     == EntriesOf(l)
                 start == TRUE
                 now   == up[l]
                 next  == up'[l]
      <3>1. Chained(events, D, start, now) /\ now # next
        BY <1>3 DEF ReplayInv
      <3>2. /\ EntriesOf(l)' = D \cup {n} /\ D \in SUBSET Nat /\ n \in Nat
            /\ \A i \in D : i < n /\ events'[i] = events[i]
            /\ events'[n].from = now /\ events'[n].to = next
        BY <2>3, <2>5
      <3> HIDE DEF D, start, now, next
      <3>3. Chained(events', D \cup {n}, start, next)
        BY <3>1, <3>2, ChainedGrows
      <3> QED
        BY <3>2, <3>3 DEF start, next
    <2>7. ASSUME NEW of, of # l
          PROVE  EntriesOf(of)' = EntriesOf(of) /\ \A i \in EntriesOf(of) : events'[i] = events[i]
      BY <2>5, <2>7
    <2>8. \A k \in Links \ {l} : Chained(events', EntriesOf(k)', TRUE, up'[k])
      BY <1>1, <2>7, ChainedKeeps DEF ReplayInv
    <2>9. \A c \in Classes : c # l
      BY EventsAssumption
    <2>10. decisions' = NoDecisions => \A c \in Classes : EntriesOf(c)' = {}
      BY <1>1, <2>7, <2>9 DEF ReplayInv
    <2>11. ASSUME decisions' # NoDecisions, NEW c \in Classes
           PROVE  Chained(events', EntriesOf(c)', first'[c], decisions'[c])
      <3>1. Chained(events, EntriesOf(c), first[c], decisions[c])
        BY <1>1, <2>11 DEF ReplayInv
      <3> QED
        BY <1>1, <2>7, <2>9, <3>1, ChainedKeeps
    <2>12. events' \in Seq(LogEntry)
      BY <2>5
    <2> QED
      BY <2>6, <2>8, <2>10, <2>11, <2>12 DEF ReplayInv
  <1> QED
    BY <1>2, <1>3

\* _detect_failovers: an entry of each class that moves, and no other.
LEMMA FailoversReplay ==
    ASSUME ReplayInv, TypeOK, TypeOK', decisions # NoDecisions, LogFailovers,
           decisions' # NoDecisions, UNCHANGED <<up, first>>
    PROVE  ReplayInv'
  <1> DEFINE changed == {i \in DOMAIN ClassList : decisions'[ClassList[i]] # decisions[ClassList[i]]}
             moved   == Subsequence(ClassList, changed)
             K       == [n \in DOMAIN moved |->
                           Event(moved[n], decisions[moved[n]], decisions'[moved[n]])]
             m       == Len(events)
  <1>1. events' = events \o K /\ events \in Seq(LogEntry) /\ m \in Nat
    <2>1. events' = events \o K
      BY Zenon DEF LogFailovers
    <2>2. events \in Seq(LogEntry)
      BY DEF ReplayInv
    <2>3. m \in Nat
      BY <2>2
    <2> QED
      BY <2>1, <2>2, <2>3, Zenon
  <1>2. /\ ClassList \in Seq(Classes) /\ changed \in SUBSET DOMAIN ClassList
        /\ \A i, j \in DOMAIN ClassList : ClassList[i] = ClassList[j] => i = j
    BY ClassesAssumption, ListOfClasses
  <1>3. /\ moved \in Seq(Classes)
        /\ \A n \in DOMAIN moved : \E k \in changed : moved[n] = ClassList[k]
        /\ \A k \in changed : \E n \in DOMAIN moved : moved[n] = ClassList[k]
        /\ \A i, n \in DOMAIN moved : moved[i] = moved[n] => i = n
    BY <1>2, SubsequenceLemma
  <1> DEFINE N == Len(moved)
  <1>4. N \in Nat /\ DOMAIN moved = 1 .. N
    BY <1>3
  <1>5. /\ \A n \in 1 .. N : moved[n] \in Classes /\ decisions'[moved[n]] # decisions[moved[n]]
        /\ \A c \in Classes : decisions'[c] # decisions[c] => \E n \in 1 .. N : moved[n] = c
    <2>1. \A k \in changed : /\ ClassList[k] \in Classes
                             /\ decisions'[ClassList[k]] # decisions[ClassList[k]]
      BY ListOfClasses
    <2>2. \A c \in Classes : decisions'[c] # decisions[c] => \E k \in changed : ClassList[k] = c
      BY ListOfClasses
    <2> HIDE DEF changed, moved
    <2>3. ASSUME NEW n \in 1 .. N
          PROVE  moved[n] \in Classes /\ decisions'[moved[n]] # decisions[moved[n]]
      <3>1. PICK k \in changed : moved[n] = ClassList[k]
        BY <1>3, <1>4
      <3> QED
        BY <2>1, <3>1
    <2>4. ASSUME NEW c \in Classes, decisions'[c] # decisions[c]
          PROVE  \E n \in 1 .. N : moved[n] = c
      <3>1. PICK k \in changed : ClassList[k] = c
        BY <2>2, <2>4
      <3> QED
        BY <1>3, <1>4, <3>1
    <2> QED
      BY <2>3, <2>4
  <1>6. \A c \in Classes : decisions[c] \in Value /\ decisions'[c] \in Value
    BY DEF TypeOK, NoDecisions, Value
  <1> HIDE DEF changed, moved
  <1>7. \A n \in 1 .. N : /\ K[n].of = moved[n] /\ K[n].from = decisions[moved[n]]
                          /\ K[n].to = decisions'[moved[n]]
    BY <1>4 DEF Event
  <1>8. K \in Seq(LogEntry) /\ Len(K) = N
    <2>1. ASSUME NEW n \in 1 .. N
          PROVE  Event(moved[n], decisions[moved[n]], decisions'[moved[n]]) \in LogEntry
      <3>1. /\ moved[n] \in Links \cup Classes /\ decisions[moved[n]] \in Value
            /\ decisions'[moved[n]] \in Value
        BY <1>5, <1>6
      <3> QED
        BY <3>1 DEF Event, LogEntry
    <2> QED
      BY <1>4, <2>1
  <1> HIDE DEF K, m, N
  <1>9. ASSUME NEW of
        PROVE  /\ events' \in Seq(LogEntry) /\ EntriesOf(of) \in SUBSET Nat
               /\ \A i \in EntriesOf(of) : events'[i] = events[i] /\ i <= m
               /\ \A n \in 1 .. N : events'[m + n] = K[n] /\ m + n \in Nat
               /\ EntriesOf(of)' = EntriesOf(of) \cup {m + n : n \in {k \in 1 .. N : K[k].of = of}}
    <2>1. /\ events' \in Seq(LogEntry) /\ EntriesOf(of) \in SUBSET Nat
          /\ \A i \in EntriesOf(of) : events'[i] = events[i] /\ i <= Len(events)
          /\ \A n \in 1 .. Len(K) : events'[Len(events) + n] = K[n] /\ Len(events) + n \in Nat
          /\ EntriesOf(of)' = EntriesOf(of) \cup
                {Len(events) + n : n \in {k \in 1 .. Len(K) : K[k].of = of}}
      BY <1>1, <1>8, EntriesGrow
    <2> QED
      BY <1>8, <2>1 DEF m
  <1>10. ASSUME NEW of, {k \in 1 .. N : K[k].of = of} = {}
         PROVE  EntriesOf(of)' = EntriesOf(of) /\ \A i \in EntriesOf(of) : events'[i] = events[i]
    <2>1. EntriesOf(of)' = EntriesOf(of) \cup {m + n : n \in {}}
      BY <1>9, <1>10
    <2> QED
      BY <1>9, <2>1
  <1>11. ASSUME NEW l \in Links
         PROVE  Chained(events', EntriesOf(l)', TRUE, up'[l])
    <2>1. {k \in 1 .. N : K[k].of = l} = {}
      BY <1>5, <1>7, EventsAssumption
    <2>2. Chained(events, EntriesOf(l), TRUE, up[l])
      BY DEF ReplayInv
    <2> QED
      BY <1>10, <2>1, <2>2, ChainedKeeps
  <1>12. ASSUME NEW c \in Classes
         PROVE  Chained(events', EntriesOf(c)', first'[c], decisions'[c])
    <2>1. Chained(events, EntriesOf(c), first[c], decisions[c])
      BY DEF ReplayInv
    <2>2. CASE decisions'[c] = decisions[c]
      <3>1. {k \in 1 .. N : K[k].of = c} = {}
        BY <1>5, <1>7, <2>2
      <3> QED
        BY <1>10, <2>1, <2>2, <3>1, ChainedKeeps
    <2>3. CASE decisions'[c] # decisions[c]
      <3>1. PICK n \in 1 .. N : moved[n] = c
        BY <1>5, <2>3
      <3>2. {k \in 1 .. N : K[k].of = c} = {n}
        BY <1>3, <1>4, <1>7, <3>1
      <3> DEFINE D == EntriesOf(c)
                 p == m + n
                 start == first[c]
                 now  == decisions[c]
                 next == decisions'[c]
      <3>3. EntriesOf(c)' = D \cup {p}
        BY <1>9, <3>2
      <3>4. /\ D \in SUBSET Nat /\ p \in Nat /\ \A i \in D : i < p /\ events'[i] = events[i]
        <4>1. m \in Nat /\ n \in Nat /\ n >= 1
          BY <1>1, <1>4
        <4> QED
          BY <1>9, <4>1
      <3>5. events'[p].from = now /\ events'[p].to = next /\ now # next
        BY <1>7, <1>9, <2>3, <3>1
      <3>6. Chained(events, D, start, now)
        BY <2>1
      <3> HIDE DEF D, p, start, now, next
      <3>7. Chained(events', D \cup {p}, start, next)
        BY <3>4, <3>5, <3>6, ChainedGrows
      <3> QED
        BY <3>3, <3>7 DEF start, next
    <2> QED
      BY <2>2, <2>3
  <1>13. events' \in Seq(LogEntry)
    BY <1>9
  <1> QED
    BY <1>11, <1>12, <1>13 DEF ReplayInv

\* run_policy: the first decisions are where the entries of the classes start.
LEMMA RunReplays ==
    ASSUME ReplayInv, TypeOK, TypeOK', RunLogged
    PROVE  ReplayInv'
  <1>1. up' = up /\ DOMAIN decisions' = Classes /\ LogFailovers
        /\ first' = IF decisions = NoDecisions THEN decisions' ELSE first
    BY DEF RunLogged, RunPolicy
  <1>2. CASE decisions = NoDecisions
    <2>1. events' = events /\ first' = decisions'
      BY <1>1, <1>2 DEF LogFailovers
    <2>2. \A c \in Classes : EntriesOf(c)' = {}
      BY <1>2, <2>1 DEF ReplayInv, EntriesOf
    <2>3. \A c \in Classes : Chained(events', EntriesOf(c)', first'[c], decisions'[c])
      BY <2>1, <2>2 DEF Chained, Linked, StartsAt
    <2> QED
      BY <1>1, <2>1, <2>2, <2>3 DEF ReplayInv, EntriesOf
  <1>3. CASE decisions # NoDecisions
    <2>1. decisions' # NoDecisions
      <3>1. decisions \in [Classes -> Links \cup {NoLink}]
        BY <1>3 DEF TypeOK
      <3>2. Classes # {}
        BY <1>3, <3>1 DEF NoDecisions
      <3> QED
        BY <1>1, <3>2 DEF NoDecisions
    <2> QED
      BY <1>1, <1>3, <2>1, FailoversReplay
  <1> QED
    BY <1>2, <1>3

LEMMA StepReplays == ReplayInv /\ TypeOK /\ TypeOK' /\ [LogNext]_logVars => ReplayInv'
  <1> SUFFICES ASSUME ReplayInv, TypeOK, TypeOK', [LogNext]_logVars PROVE ReplayInv'
    OBVIOUS
  <1>1. CASE UNCHANGED <<up, decisions, events, first>>
    BY <1>1 DEF ReplayInv, EntriesOf
  <1>2. CASE Unlogged
    <2>1. UNCHANGED <<up, decisions, events, first>>
      BY <1>2 DEF Unlogged, Tick, Apply, CommandSucceeds, CommandFails, SetAdmin, KernelDropsRoutes
    <2> QED
      BY <1>1, <2>1
  <1>3. CASE UNCHANGED logVars
    BY <1>1, <1>3 DEF logVars, vars
  <1> QED
    BY <1>2, <1>3, RunReplays, ReportReplays DEF LogNext

\* The loop of SdwanEngine goes on beneath the log.
LEMMA LogImplements == LogSpec => Spec
  <1>1. LogInit => Init
    BY DEF LogInit
  <1>2. [LogNext]_logVars => [Next]_vars
    BY DEF LogNext, logVars, RunLogged, Unlogged, UpdateLogged, Next
  <1> QED
    BY <1>1, <1>2, PTL DEF LogSpec, Spec

\* Whoever replays the log knows which links are reported available and which
\* link is decided for each class, for any links and classes, whatever is
\* reported and however runs of the policy and reports are mixed.
THEOREM LogsReplay == LogSpec => []LogReplays
  <1>1. LogInit => ReplayInv
    <2> SUFFICES ASSUME LogInit PROVE ReplayInv
      OBVIOUS
    <2>1. events = <<>> /\ decisions = NoDecisions /\ \A l \in Links : up[l] = TRUE
      BY DEF LogInit, Init
    <2>2. \A of : EntriesOf(of) = {}
      BY <2>1 DEF EntriesOf
    <2>3. \A l \in Links : Chained(events, EntriesOf(l), TRUE, up[l])
      BY <2>1, <2>2 DEF Chained, Linked, StartsAt
    <2>4. events \in Seq(LogEntry)
      BY <2>1
    <2> QED
      BY <2>1, <2>2, <2>3, <2>4, Zenon DEF ReplayInv
  <1>2. ReplayInv => LogReplays
    <2> SUFFICES ASSUME ReplayInv PROVE LogReplays
      OBVIOUS
    <2>1. events \in Seq(LogEntry)
      BY DEF ReplayInv
    <2>2. \A l \in Links : LeadsFromTo(l, TRUE, up[l])
      BY <2>1, ChainLeads, Zenon DEF ReplayInv
    <2>3. decisions # NoDecisions => \A c \in Classes : LeadsFromTo(c, first[c], decisions[c])
      BY <2>1, ChainLeads, Zenon DEF ReplayInv
    <2> QED
      BY <2>2, <2>3 DEF LogReplays
  <1> QED
    BY <1>1, <1>2, StepReplays, LogImplements, EngineTypes, PTL DEF LogSpec
=============================================================================
