------------------------------ MODULE PepProxy ------------------------------
(***************************************************************************)
(* PEPProxy of tcp_pep/pep_proxy.py: the life of every client connection   *)
(* of the proxy, from accept() to the release of its slot, and shutdown.   *)
(*                                                                         *)
(* The proxy is one asyncio event loop.  A handler task runs from one      *)
(* suspension point to the next without interference, so each action below *)
(* is one such segment; what the two _relay tasks of a connection do with  *)
(* bytes is the subject of PepRelay, here they only run and end.           *)
(***************************************************************************)
EXTENDS Integers, FiniteSets, AsyncSemaphore

CONSTANTS
    Conns,     \* client connections; each is one run of _handle_connection
    MaxConn    \* max_connections, 256 by default

ASSUME ConnsAssumption   == IsFiniteSet(Conns)
ASSUME MaxConnAssumption == MaxConn \in Nat \ {0}

Directions == {"ce_to_pop", "pop_to_ce"}

VARIABLES
    phase,      \* the main task: serving, closing (listener closed), cancelled
    pc,         \* where each handler task is
    cancel,     \* Task.cancel() was called and the error not yet delivered
    relays,     \* the _relay tasks of the connection that still run
    client,     \* the client's transport
    upstream,   \* the transport to the upstream host
    sem,        \* self._semaphore
    accepted,   \* stats.connections_accepted
    active      \* stats.active_connections

vars == <<phase, pc, cancel, relays, client, upstream, sem, accepted, active>>

PcStates == {"idle", "accepted", "waiting", "connecting", "relaying", "done"}
TrStates == {"none", "open", "closed"}

\* Handlers inside the `async with`, at one of its two awaits.
Inside == {c \in Conns : pc[c] \in {"connecting", "relaying"}}

\* Handlers that own a slot: those inside and those about to enter.
Granted == {c \in Conns : sem.fut[c] = "granted"}

Init ==
    /\ phase = "serving"
    /\ pc = [c \in Conns |-> "idle"]
    /\ cancel = [c \in Conns |-> FALSE]
    /\ relays = [c \in Conns |-> {}]
    /\ client = [c \in Conns |-> "none"]
    /\ upstream = [c \in Conns |-> "none"]
    /\ sem = NewSemaphore(Conns, MaxConn)
    /\ accepted = 0
    /\ active = 0

\* The server accepts a client and creates its handler task.
Accept(c) ==
    /\ phase = "serving"
    /\ pc[c] = "idle"
    /\ pc' = [pc EXCEPT ![c] = "accepted"]
    /\ client' = [client EXCEPT ![c] = "open"]
    /\ UNCHANGED <<phase, cancel, relays, upstream, sem, accepted, active>>

\* The body of the `async with`, once the slot is held and the semaphore is s,
\* up to the await of open_connection.
EnterBody(c, s) ==
    /\ pc' = [pc EXCEPT ![c] = "connecting"]
    /\ accepted' = accepted + 1
    /\ active' = active + 1
    /\ sem' = s
    /\ UNCHANGED <<phase, cancel, relays, client, upstream>>

\* Mutant of EnterNow: the body runs without asking the semaphore.
EnterUnlimited(c) ==
    /\ pc[c] = "accepted" /\ ~cancel[c]
    /\ EnterBody(c, TakeSlot(sem))

\* The handler starts and finds a free slot.
EnterNow(c) ==
    /\ pc[c] = "accepted" /\ ~cancel[c]
    /\ ~Locked(sem)
    /\ EnterBody(c, TakeSlot(sem))

\* The handler starts and has to wait, with no timeout, for a slot.
Wait(c) ==
    /\ pc[c] = "accepted" /\ ~cancel[c]
    /\ Locked(sem)
    /\ pc' = [pc EXCEPT ![c] = "waiting"]
    /\ sem' = Enqueue(sem, c)
    /\ UNCHANGED <<phase, cancel, relays, client, upstream, accepted, active>>

\* A handler that was granted a slot runs again.
EnterGranted(c) ==
    /\ pc[c] = "waiting" /\ ~cancel[c]
    /\ sem.fut[c] = "granted"
    /\ EnterBody(c, ResumeAcquire(sem, c))

\* open_connection returns: the two relays are gathered.
Connected(c) ==
    /\ pc[c] = "connecting" /\ ~cancel[c]
    /\ pc' = [pc EXCEPT ![c] = "relaying"]
    /\ upstream' = [upstream EXCEPT ![c] = "open"]
    /\ relays' = [relays EXCEPT ![c] = Directions]
    /\ UNCHANGED <<phase, cancel, client, sem, accepted, active>>

\* A relay ends (end of stream, a reset, an error, a cancellation) and closes
\* the transport it writes to.
RelayEnds(c, d) ==
    /\ pc[c] = "relaying" /\ d \in relays[c]
    /\ relays' = [relays EXCEPT ![c] = @ \ {d}]
    /\ IF d = "ce_to_pop"
       THEN upstream' = [upstream EXCEPT ![c] = "closed"] /\ UNCHANGED client
       ELSE client' = [client EXCEPT ![c] = "closed"] /\ UNCHANGED upstream
    /\ UNCHANGED <<phase, pc, cancel, sem, accepted, active>>

\* Mutants of Leave: a release of its own beside that of the `async with`; the
\* gauge lowered only where the upstream was reached; the client left open.
LeaveReleasingTwice(c) ==
    /\ upstream' = [upstream EXCEPT ![c] = IF @ = "none" THEN @ ELSE "closed"]
    /\ client' = [client EXCEPT ![c] = "closed"]
    /\ active' = active - 1
    /\ sem' = Release(Release(sem))
    /\ pc' = [pc EXCEPT ![c] = "done"]
    /\ cancel' = [cancel EXCEPT ![c] = FALSE]
    /\ UNCHANGED <<phase, relays, accepted>>

LeaveCountingConnected(c) ==
    /\ upstream' = [upstream EXCEPT ![c] = IF @ = "none" THEN @ ELSE "closed"]
    /\ client' = [client EXCEPT ![c] = "closed"]
    /\ active' = IF upstream[c] = "none" THEN active ELSE active - 1
    /\ sem' = Release(sem)
    /\ pc' = [pc EXCEPT ![c] = "done"]
    /\ cancel' = [cancel EXCEPT ![c] = FALSE]
    /\ UNCHANGED <<phase, relays, accepted>>

LeaveForgettingClient(c) ==
    /\ upstream' = [upstream EXCEPT ![c] = IF @ = "none" THEN @ ELSE "closed"]
    /\ active' = active - 1
    /\ sem' = Release(sem)
    /\ pc' = [pc EXCEPT ![c] = "done"]
    /\ cancel' = [cancel EXCEPT ![c] = FALSE]
    /\ UNCHANGED <<phase, relays, client, accepted>>

\* The `finally` block and the end of the `async with`.
Leave(c) ==
    /\ upstream' = [upstream EXCEPT ![c] = IF @ = "none" THEN @ ELSE "closed"]
    /\ client' = [client EXCEPT ![c] = "closed"]
    /\ active' = active - 1
    /\ sem' = Release(sem)
    /\ pc' = [pc EXCEPT ![c] = "done"]
    /\ cancel' = [cancel EXCEPT ![c] = FALSE]
    /\ UNCHANGED <<phase, relays, accepted>>

\* open_connection fails with an OSError, or the cancellation is raised there.
ConnectFails(c) == pc[c] = "connecting" /\ Leave(c)

\* gather returns, or raises the cancellation once both relays have ended.
RelaysDone(c) == pc[c] = "relaying" /\ relays[c] = {} /\ Leave(c)

\* A task cancelled before its first step never runs its body, and one
\* cancelled in acquire() leaves the queue: asyncio closes the transport.
CancelledOutside(c) ==
    /\ pc[c] \in {"accepted", "waiting"} /\ cancel[c]
    /\ sem' = IF pc[c] = "waiting" THEN AbandonAcquire(sem, c) ELSE sem
    /\ pc' = [pc EXCEPT ![c] = "done"]
    /\ cancel' = [cancel EXCEPT ![c] = FALSE]
    /\ client' = [client EXCEPT ![c] = "closed"]
    /\ UNCHANGED <<phase, relays, upstream, accepted, active>>

\* stop(), or the first interrupt of main: the listener closes and the main
\* task waits for the open connections.
Stop ==
    /\ phase = "serving"
    /\ phase' = "closing"
    /\ UNCHANGED <<pc, cancel, relays, client, upstream, sem, accepted, active>>

\* Mutant of CancelAll: only the handlers that hold a slot are cancelled.
CancelInside ==
    /\ phase = "closing"
    /\ phase' = "cancelled"
    /\ cancel' = [c \in Conns |-> c \in Inside]
    /\ UNCHANGED <<pc, relays, client, upstream, sem, accepted, active>>

\* asyncio.run ends the main task, when the connections are gone or at a second
\* interrupt, and cancels every task that is left.
CancelAll ==
    /\ phase = "closing"
    /\ phase' = "cancelled"
    /\ LET left == {c \in Conns : pc[c] \notin {"idle", "done"}}
       IN  /\ cancel' = [c \in Conns |-> c \in left]
           /\ sem' = CancelPending(sem, left)
    /\ UNCHANGED <<pc, relays, client, upstream, accepted, active>>

\* The process exits.
Terminated ==
    /\ phase = "cancelled"
    /\ \A c \in Conns : pc[c] \in {"idle", "done"}
    /\ UNCHANGED vars

HandlerStep(c) ==
    \/ EnterNow(c) \/ Wait(c) \/ EnterGranted(c)
    \/ RelaysDone(c) \/ CancelledOutside(c)

Next ==
    \/ Stop \/ CancelAll \/ Terminated
    \/ \E c \in Conns :
          \/ Accept(c) \/ HandlerStep(c)
          \/ Connected(c) \/ ConnectFails(c)
          \/ \E d \in Directions : RelayEnds(c, d)

Spec == Init /\ [][Next]_vars

(***************************************************************************)
(* Fairness.  The event loop runs every task that is ready, and a          *)
(* cancelled one is ready.  That a connection attempt ends is the kernel's *)
(* doing (its SYN timer), and a cancelled relay ends by itself.  That the  *)
(* relays of a connection nobody cancels end is up to its peers: the proxy *)
(* has no idle timeout.                                                    *)
(***************************************************************************)
LoopFairness == \A c \in Conns :
    /\ WF_vars(HandlerStep(c))
    /\ WF_vars(Connected(c) \/ ConnectFails(c))
    /\ \A d \in Directions : WF_vars(cancel[c] /\ RelayEnds(c, d))

LoopSpec == Spec /\ LoopFairness
-----------------------------------------------------------------------------
\* The types of the variables.
TypeOK ==
    /\ phase \in {"serving", "closing", "cancelled"}
    /\ pc \in [Conns -> PcStates]
    /\ cancel \in [Conns -> BOOLEAN]
    /\ relays \in [Conns -> SUBSET Directions]
    /\ client \in [Conns -> TrStates]
    /\ upstream \in [Conns -> TrStates]
    /\ sem \in [value : Nat, waiters : Seq(Conns), fut : [Conns -> FutureStates]]
    /\ accepted \in Nat
    /\ active \in Int

\* No exit path of _handle_connection loses or invents a slot: the free ones,
\* those handed to a waiter that has not run yet and those held add up to
\* max_connections at every step, cancellations included.
SlotConservation ==
    sem.value + Cardinality(Granted) + Cardinality(Inside) = MaxConn

\* The active_connections gauge never drifts: it is the number of handlers that
\* are inside the `async with`, and so never exceeds max_connections.
ActiveIsExact == active = Cardinality(Inside) /\ active <= MaxConn

\* A slot is never free for good while somebody queues for it: whenever one is
\* free, a waiter that was granted another slot has yet to run, and will pass it on.
NoLostWakeup ==
    (sem.value > 0 /\ \E c \in Conns : sem.fut[c] = "pending")
        => \E c \in Conns : sem.fut[c] = "granted"

\* A handler that ends leaves neither of its two sockets open, whichever way it ended.
NoSocketLeak ==
    \A c \in Conns : pc[c] = "done" => client[c] = "closed" /\ upstream[c] # "open"

\* A client that queues for a slot gets its turn, or is cancelled, provided that
\* no connection relays for ever: the code has no timeout to see to that.
WaitersServed ==
    (\A c \in Conns : pc[c] = "relaying" ~> pc[c] # "relaying")
        => \A c \in Conns : pc[c] = "waiting" ~> pc[c] # "waiting"

\* Once the tasks are cancelled, every handler ends, whatever its peers do.
ShutdownCompletes ==
    phase = "cancelled" ~> \A c \in Conns : pc[c] \in {"idle", "done"}

\* The semaphore, the handlers and shutdown together admit clients as Admission
\* says: those with a slot, granted or used, are served; those pending stand in
\* line, in the order of the queue.
Waiting == {c \in Conns : sem.fut[c] = "pending"}
Ahead   == {p \in Waiting \X Waiting : \E i, j \in DOMAIN sem.waiters :
               i < j /\ sem.waiters[i] = p[1] /\ sem.waiters[j] = p[2]}
Served  == Granted \cup Inside
A       == INSTANCE Admission WITH waiting <- Waiting, ahead <- Ahead, served <- Served
Admits  == A!Spec
=============================================================================
