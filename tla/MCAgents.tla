------------------------------ MODULE MCAgents ------------------------------
\* Instances of the two agents that ask another system for its state, the
\* client of the dish and the benchmark of BGP.  They have nothing to do with
\* each other: in a behaviour only one of them is in use.
EXTENDS StarlinkClient, BgpConvergence

VARIABLE subject

mcVars == <<subject, dishVars, bgpVars>>

MCPeers == <<"pop", "upstream">>
MCOnePeer == <<"pop">>

Dish(A) == subject = "dish" /\ A /\ UNCHANGED <<subject, bgpVars>>
Bgp(A)  == subject = "bgp" /\ A /\ UNCHANGED <<subject, dishVars>>

MCInit ==
    /\ DishInit /\ BgpInit
    /\ \/ subject = "dish" /\ kind = "real" /\ \A p \in Peers : prefixes[p] = 0
       \/ subject = "bgp" /\ ~dishUp

MCNext ==
    \/ Dish(GetStatus) \/ Dish(IsAvailable) \/ Dish(DishAnswers) \/ Dish(Succeed)
    \/ Dish(TierFails) \/ Dish(Tick) \/ Dish(DishChanges) \/ Dish(ClockSetBack)
    \/ \E trigger \in {"manual_reset", "link_down"} : Bgp(Begin(trigger))
    \/ Bgp(Capture) \/ Bgp(Check) \/ Bgp(PollFails) \/ Bgp(Poll) \/ Bgp(Record) \/ Bgp(Sleep)
    \/ Bgp(TimePasses) \/ Bgp(Sessions)

\* The fairness of both.
MCSpec == /\ MCInit /\ [][MCNext]_mcVars
          /\ WF_mcVars(Dish(GetStatus))
          /\ WF_mcVars(Dish(DishAnswers \/ Succeed))
          /\ WF_mcVars(Dish(TierFails))
          /\ WF_mcVars(Bgp(BenchStep))

\* Types of both.
TypeOK == DishTypeOK /\ BgpTypeOK
=============================================================================
