------------------------------ MODULE FrrAgent ------------------------------
(***************************************************************************)
(* lab/frr/frr_agent.py: the agent that asks FRR for the BGP sessions of a *)
(* router and keeps a log of the transitions it sees.  The sessions are    *)
(* external.  Of their states Idle and Connect are handled as Active is,   *)
(* and OpenConfirm, of which nobody takes note, is left out.  Timestamps   *)
(* of the log are left out: its events are in the order of time.           *)
(***************************************************************************)
EXTENDS Integers, SequencesExt, Subsequence

CONSTANTS
    PeerList,       \* the neighbours of the router, in the order FRR lists them
    MaxPrefixes,    \* bound: prefixes a neighbour may announce
    MaxMoves        \* bound: transitions of the sessions

\* FRR answers with an object that has the neighbours as keys.
ASSUME AgentAssumption ==
    /\ {MaxPrefixes, MaxMoves} \subseteq Nat
    /\ PeerList \in Seq(ToSet(PeerList))
    /\ \A i, j \in DOMAIN PeerList : PeerList[i] = PeerList[j] => i = j

VARIABLES
    session,    \* for each peer the state of its session
    prefixes,   \* and the prefixes received
    moves,      \* transitions so far
    kind,       \* "real", or "synthetic" where FRR is not installed
    log,        \* _convergence_log
    lastState   \* _last_peer_states

agentVars == <<session, prefixes, moves, kind, log, lastState>>

SessionStates == {"Active", "OpenSent", "Established"}
Unseen == "unseen"

Peers == ToSet(PeerList)

AgentInit ==
    /\ session = [p \in Peers |-> "Established"]
    /\ prefixes \in [Peers -> 0..MaxPrefixes]
    /\ moves = 0
    /\ kind \in {"real", "synthetic"}       \* make_agent
    /\ log = <<>>
    /\ lastState = [p \in Peers |-> Unseen]

\* A session goes down, or comes up step by step.
SessionMoves(p) ==
    /\ moves < MaxMoves
    /\ moves' = moves + 1
    /\ session' \in {[session EXCEPT ![p] = s] :
                       s \in CASE session[p] = "Established" -> {"Active"}
                               [] session[p] = "Active"      -> {"OpenSent"}
                               [] session[p] = "OpenSent"    -> {"Active", "Established"}}
    /\ prefixes' = [prefixes EXCEPT ![p] = 0]
    /\ UNCHANGED <<kind, log, lastState>>

\* The neighbour announces a prefix.
PrefixArrives(p) ==
    /\ session[p] = "Established" /\ prefixes[p] < MaxPrefixes
    /\ prefixes' = [prefixes EXCEPT ![p] = @ + 1]
    /\ UNCHANGED <<session, moves, kind, log, lastState>>

Summary == [p \in Peers |-> [state |-> session[p], received |-> prefixes[p]]]

\* SyntheticFRRAgent: always up, with its two prefixes.
Synthetic == [p \in Peers |-> [state |-> "Established", received |-> 2]]

\* Mutant of Remember: only the first state of a peer is remembered.
RememberFirst(summary) ==
    lastState' = [p \in Peers |-> IF lastState[p] = Unseen THEN summary[p].state ELSE lastState[p]]

Remember(summary) == lastState' = [p \in Peers |-> summary[p].state]

\* get_bgp_summary: what FRR has answered, the transitions since the last
\* answer noted.  The synthetic agent has no log.
Note(summary) ==
    IF kind = "synthetic" THEN UNCHANGED <<log, lastState>>
    ELSE /\ LET changed == {i \in DOMAIN PeerList :
                              lastState[PeerList[i]] \notin {Unseen, summary[PeerList[i]].state}}
                noted   == Subsequence(PeerList, changed)
            IN  log' = log \o [n \in DOMAIN noted |->
                                 [peer |-> noted[n], from |-> lastState[noted[n]],
                                  to |-> summary[noted[n]].state]]
         /\ Remember(summary)

Answer == IF kind = "synthetic" THEN Synthetic ELSE Summary

\* reset_peer: the log is cleared; `clear bgp <peer> soft` asks for the routes
\* again and leaves the session up.
ResetPeer ==
    /\ log' = <<>>
    /\ lastState' = [p \in Peers |-> Unseen]

\* measure_convergence: the events between which it measures, or None.
NoCycle == <<0, 0>>
Smallest(S) == CHOOSE i \in S : \A j \in S : i <= j
Largest(S)  == CHOOSE i \in S : \A j \in S : i >= j
Downs(events) == {i \in DOMAIN events : events[i].to = "Active"}
Ups(events)   == {i \in DOMAIN events : events[i].to = "Established"}

MeasureConvergence(events) ==
    IF Downs(events) = {} THEN NoCycle
    ELSE LET d == Smallest(Downs(events))
             u == {i \in Ups(events) : i > d}
         IN  IF u = {} THEN NoCycle ELSE <<d, Smallest(u)>>
-----------------------------------------------------------------------------
AgentTypeOK ==
    /\ session \in [Peers -> SessionStates] /\ prefixes \in [Peers -> 0..MaxPrefixes]
    /\ moves \in 0..MaxMoves /\ kind \in {"real", "synthetic"}
    /\ lastState \in [Peers -> SessionStates \cup {Unseen}]
    /\ log \in Seq([peer : Peers, from : SessionStates, to : SessionStates])

\* What the log says of a peer is a chain: each transition starts where the one
\* before has ended, and the last ends in the state seen last, whatever was
\* missed between two polls or cleared between two runs (frr_agent.py:170-180).
LogIsChain ==
    \A i \in DOMAIN log :
        LET later == {j \in DOMAIN log : j > i /\ log[j].peer = log[i].peer} IN
        /\ log[i].from # log[i].to
        /\ log[i].to = IF later = {} THEN lastState[log[i].peer] ELSE log[Smallest(later)].from

\* "Return seconds for last full BGP convergence cycle (down -> established)"
\* (frr_agent.py:231): of the transitions of one peer, those of the last cycle,
\* where its beginning was seen.
MeasuresLastCycle ==
    LET up   == Largest(Ups(log))
        from == {i \in Downs(log) : \A j \in Ups(log) : j < up => j < i}
    IN  Len(PeerList) = 1 /\ MeasureConvergence(log) # NoCycle /\ from # {}
            => MeasureConvergence(log) = <<Smallest(from), up>>
=============================================================================
