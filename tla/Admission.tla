------------------------------ MODULE Admission ------------------------------
(***************************************************************************)
(* What the proxy's connection limit promises its clients: no more than    *)
(* MaxConn are served at a time, and those that have to wait are served in *)
(* the order they came, none overtaken by a later one.                     *)
(***************************************************************************)
EXTENDS Integers, FiniteSets

CONSTANTS Conns, MaxConn

VARIABLES
    waiting,  \* the clients that wait
    ahead,    \* who of them came before whom
    served    \* the clients that own a slot

vars == <<waiting, ahead, served>>

Init == waiting = {} /\ ahead = {} /\ served = {}

\* A client that nobody is ahead of is served at once.
ServeAtOnce(c) ==
    /\ c \notin served /\ waiting = {}
    /\ Cardinality(served) < MaxConn
    /\ served' = served \cup {c}
    /\ UNCHANGED <<waiting, ahead>>

\* A client gets in line behind the others.
GetInLine(c) ==
    /\ c \notin served \cup waiting
    /\ waiting' = waiting \cup {c}
    /\ ahead' = ahead \cup (waiting \X {c})
    /\ UNCHANGED served

\* Clients leave and those whose turn it is are served: with any of them
\* everybody who came before.
TakeTurns(leaving, turn) ==
    /\ \A p \in ahead : p[2] \in turn => p[1] \in turn
    /\ waiting' = waiting \ turn
    /\ ahead' = ahead \cap (waiting' \X waiting')
    /\ served' = (served \ leaving) \cup turn
    /\ Cardinality(served') <= MaxConn

\* The proxy shuts down: the line is dissolved.
Dissolve == waiting' = {} /\ ahead' = {} /\ UNCHANGED served

Next ==
    \/ \E c \in Conns : ServeAtOnce(c) \/ GetInLine(c)
    \/ \E leaving \in SUBSET served, turn \in SUBSET waiting : TakeTurns(leaving, turn)
    \/ Dissolve

Spec == Init /\ [][Next]_vars
=============================================================================
