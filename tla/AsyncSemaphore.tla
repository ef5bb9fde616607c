--------------------------- MODULE AsyncSemaphore ---------------------------
(***************************************************************************)
(* asyncio.Semaphore of CPython's standard library, as far as the proxy    *)
(* relies on it: PEPProxy builds one at pep_proxy.py:156 and holds it with *)
(* `async with` at pep_proxy.py:163.  The library is not part of the       *)
(* repository; the module is marked external.                              *)
(*                                                                         *)
(* A semaphore is a record: `value`, the free slots; `waiters`, the deque  *)
(* of tasks whose acquire() is suspended; `fut`, the state of the future   *)
(* each of them awaits.  A slot is handed over when the future is granted, *)
(* before the task that awaits it runs: a granted task stays in `waiters`  *)
(* until it does, and while it is there acquire() of a newcomer queues,    *)
(* even if other slots are free.                                           *)
(***************************************************************************)
EXTENDS Integers, Sequences, SequencesExt

FutureStates == {"none", "pending", "granted", "cancelled"}

Semaphore(value, waiters, fut) ==
    [value |-> value, waiters |-> waiters, fut |-> fut]

NewSemaphore(tasks, slots) == Semaphore(slots, <<>>, [t \in tasks |-> "none"])

\* Semaphore.locked(): would acquire() have to wait?
Locked(s) == \/ s.value = 0
             \/ \E i \in DOMAIN s.waiters : s.fut[s.waiters[i]] # "cancelled"

\* The first waiter whose future is not done.
FirstPending(s, t) ==
    \E i \in DOMAIN s.waiters :
        /\ s.waiters[i] = t
        /\ s.fut[t] = "pending"
        /\ \A j \in 1 .. i-1 : s.fut[s.waiters[j]] # "pending"

\* Semaphore._wake_up_next(): give one slot to the first pending waiter.
WakeNext(s) ==
    IF \E t \in DOMAIN s.fut : FirstPending(s, t)
    THEN LET first == CHOOSE t \in DOMAIN s.fut : FirstPending(s, t)
         IN  Semaphore(s.value - 1, s.waiters, [s.fut EXCEPT ![first] = "granted"])
    ELSE s

\* acquire() that finds a free slot, and one that has to wait.
TakeSlot(s)   == Semaphore(s.value - 1, s.waiters, s.fut)
Enqueue(s, t) == Semaphore(s.value, Append(s.waiters, t), [s.fut EXCEPT ![t] = "pending"])

\* Mutant of Release: nobody is woken.
ReleaseWakesNobody(s) == Semaphore(s.value + 1, s.waiters, s.fut)

Release(s) == WakeNext(Semaphore(s.value + 1, s.waiters, s.fut))

Dequeue(s, t) ==
    LET i == CHOOSE i \in DOMAIN s.waiters : s.waiters[i] = t
    IN  Semaphore(s.value, RemoveAt(s.waiters, i), [s.fut EXCEPT ![t] = "none"])

\* Mutant of ResumeAcquire: the second free slot is not passed on.
ResumeKeepsQuiet(s, t) == Dequeue(s, t)

\* acquire() resumes with its future granted: it holds the slot, and passes on
\* one that was free while newcomers had to queue behind it.
ResumeAcquire(s, t) ==
    LET d == Dequeue(s, t) IN IF d.value > 0 THEN WakeNext(d) ELSE d

\* Task.cancel() of tasks: a pending future is cancelled, a granted one stays.
CancelPending(s, tasks) ==
    Semaphore(s.value, s.waiters,
              [t \in DOMAIN s.fut |-> IF t \in tasks /\ s.fut[t] = "pending"
                                      THEN "cancelled" ELSE s.fut[t]])

\* acquire() resumes with CancelledError: a slot already granted is put back.
AbandonAcquire(s, t) ==
    LET d == Dequeue(s, t) IN IF s.fut[t] = "granted" THEN Release(d) ELSE d
=============================================================================
