------------------------------ MODULE LinkScore ------------------------------
(***************************************************************************)
(* The scoring engine and the decision of sdwan/policy_engine.py, as pure  *)
(* operators.                                                              *)
(*                                                                         *)
(* Units: latency in ms; loss in hundredths of a percent; bandwidth in     *)
(* hundredths of a Mbps; weights in percent.  The code's floats between 0  *)
(* and 1 are integers from 0 to Unit, rounded down, so the model tells two *)
(* sub-scores apart that differ by a thousandth.                           *)
(***************************************************************************)
EXTENDS Integers, Sequences, SequencesExt

CONSTANTS
    LinkList,   \* the links, in the order the engine was given them
    Priority    \* lower is preferred when scores are equal

Links == Range(LinkList)

\* The engine knows its links by their names (links_by_name).
ASSUME LinksAssumption ==
    /\ LinkList \in Seq(Links)
    /\ \A i, j \in DOMAIN LinkList : LinkList[i] = LinkList[j] => i = j
    /\ Priority \in [Links -> Nat]

NoLink == "none"

\* TRAFFIC_CLASSES: budgets and weights.
TrafficClasses ==
    [voice   |-> [latency |-> 150,  loss |-> 50,   bw |-> 100,  w |-> <<60, 35, 5>>],
     video   |-> [latency |-> 400,  loss |-> 200,  bw |-> 1000, w |-> <<35, 35, 30>>],
     bulk    |-> [latency |-> 2000, loss |-> 1000, bw |-> 50,   w |-> <<10, 20, 70>>],
     default |-> [latency |-> 500,  loss |-> 500,  bw |-> 500,  w |-> <<40, 35, 25>>]]

Unit == 1000

AtLeastZero(x) == IF x < 0 THEN 0 ELSE x

\* Mutant of ScoreLatency: what counts is the distance from the budget.
ScoreLatencyByDistance(lat, budget) ==
    AtLeastZero(Unit - (Unit * (IF lat > budget THEN lat - budget ELSE budget - lat)) \div (3 * budget))

ScoreLatency(lat, budget) ==
    IF lat <= budget THEN Unit
    ELSE AtLeastZero(Unit - (Unit * (lat - budget)) \div (3 * budget))

ScoreLoss(loss, budget) ==
    IF loss <= budget THEN Unit
    ELSE AtLeastZero(Unit - (Unit * (loss - budget)) \div (5 * budget + 1))

ScoreBandwidth(bw, min) ==
    IF bw >= min THEN Unit ELSE AtLeastZero((Unit * bw) \div (min + 1))

\* score_link of a link that is available, from its metrics m.
Score(tc, m) == tc.w[1] * ScoreLatency(m.latency, tc.latency)
              + tc.w[2] * ScoreLoss(m.loss, tc.loss)
              + tc.w[3] * ScoreBandwidth(m.bw, tc.bw)

\* Mutant of Precedes: among equals the higher priority number comes first.
PrecedesBackwards(l, k, score) ==
    \/ score[l] > score[k]
    \/ score[l] = score[k] /\ Priority[l] > Priority[k]
    \/ /\ score[l] = score[k] /\ Priority[l] = Priority[k]
       /\ \E i, j \in DOMAIN LinkList : i < j /\ LinkList[i] = l /\ LinkList[j] = k

\* The order of sorted() on (-score, priority), which is stable: score[l] is
\* the score of link l.
Precedes(l, k, score) ==
    \/ score[l] > score[k]
    \/ score[l] = score[k] /\ Priority[l] < Priority[k]
    \/ /\ score[l] = score[k] /\ Priority[l] = Priority[k]
       /\ \E i, j \in DOMAIN LinkList : i < j /\ LinkList[i] = l /\ LinkList[j] = k

\* make_decision's selected_link.  `eligible` are the links found available
\* when they were listed, `late` those of them whose metrics went stale before
\* they were scored, which makes their score zero.
Decide(tc, metrics, eligible, late) ==
    LET score == [l \in eligible |-> IF l \in late THEN 0 ELSE Score(tc, metrics[l])]
    IN  IF eligible = {} THEN NoLink
        ELSE CHOOSE l \in eligible : \A k \in eligible \ {l} : Precedes(l, k, score)
=============================================================================
