----------------------------- MODULE MCLinkScore -----------------------------
(***************************************************************************)
(* LinkScore over a grid of metrics, on which each link reports values at, *)
(* just beyond and far from the budgets of the traffic classes, one report *)
(* of one link changing at a time; and SdwanEvents on the lab's links and  *)
(* classes.  In a behaviour one of them moves, the grid or the engine.     *)
(***************************************************************************)
EXTENDS SdwanEvents, MCSdwanEngine

CONSTANTS Latencies, Losses, Bandwidths

ASSUME GridAssumption == Latencies \cup Losses \cup Bandwidths \subseteq Nat

Metrics == [latency : Latencies, loss : Losses, bw : Bandwidths]

VARIABLES
    moving,      \* "grid" or "engine"
    grid,        \* the metrics of each link
    available    \* the links that are available

gridVars == <<grid, available>>
mcVars   == <<moving, logVars, gridVars>>

Report(l) ==
    \E m \in Metrics :
        /\ \/ m.latency = grid[l].latency /\ m.loss = grid[l].loss
           \/ m.latency = grid[l].latency /\ m.bw = grid[l].bw
           \/ m.loss = grid[l].loss /\ m.bw = grid[l].bw
        /\ grid' = [grid EXCEPT ![l] = m]
        /\ UNCHANGED available

Toggle(l) ==
    /\ available' = IF l \in available THEN available \ {l} ELSE available \cup {l}
    /\ UNCHANGED grid

Still(S) == [l \in Links |-> CHOOSE m \in S : TRUE]

MCInit ==
    /\ LogInit /\ available = Links
    /\ \/ moving = "engine" /\ grid = Still(Metrics)
       \/ moving = "grid" /\ metrics = Still(Readings) /\ grid \in [Links -> Metrics]

MCNext ==
    \/ moving = "engine" /\ LogNext /\ UNCHANGED <<moving, gridVars>>
    \/ /\ moving = "grid" /\ UNCHANGED <<moving, logVars>>
       /\ \E l \in Links : Report(l) \/ Toggle(l)

MCSpec == MCInit /\ [][MCNext]_mcVars
-----------------------------------------------------------------------------
Choice(c) == Decide(TrafficClasses[c], grid, available, {})

AsGood(m, n) == m.latency <= n.latency /\ m.loss <= n.loss /\ m.bw >= n.bw

\* A class is given a link that is at least as good in every respect as all
\* others, if there is one and it is the preferred one by priority.
DominantLinkWins ==
    moving = "grid" => \A c \in DOMAIN TrafficClasses : \A l \in available :
        (\A k \in available \ {l} : AsGood(grid[l], grid[k]) /\ Priority[l] < Priority[k])
            => Choice(c) = l

\* Traffic does not flee from good news: a class keeps its link while that
\* link's report improves, or another link's gets worse, or another link goes.
NoSpuriousFailover ==
    [][moving = "grid" => \A c \in DOMAIN TrafficClasses :
          LET s == Choice(c) IN
          ( /\ s # NoLink /\ s \in available' /\ available' \subseteq available
            /\ AsGood(grid'[s], grid[s])
            /\ \A k \in Links \ {s} : AsGood(grid[k], grid'[k]) )
          => Choice(c)' = s]_gridVars
=============================================================================
