--------------------------- MODULE PepProxyProofs ---------------------------
(***************************************************************************)
(* Safety of the proxy's connection limit, proved for any finite set of    *)
(* clients and any max_connections.  The first part is about the semaphore *)
(* alone: what each of its operations does to the slots it accounts for    *)
(* (`Owned`) and to its queue (`Frame`).  The second part lifts that to    *)
(* the handlers.                                                           *)
(***************************************************************************)
EXTENDS PepProxy, SubsequenceProofs

SemType == [value : Nat, waiters : Seq(Conns), fut : [Conns -> FutureStates]]

GrantedIn(s) == {c \in Conns : s.fut[c] = "granted"}

\* The slots a semaphore accounts for: free, or handed to a waiter.
Owned(s) == s.value + Cardinality(GrantedIn(s))

InQueue(s, c) == \E i \in DOMAIN s.waiters : s.waiters[i] = c

\* From s to r nobody but those of T drops out of the queue, and nobody
\* acquires a future.
Frame(s, r, T) == \A d \in Conns \ T :
    /\ InQueue(s, d) => InQueue(r, d)
    /\ r.fut[d] # "none" => s.fut[d] # "none"

\* The granted waiters are finitely many.
LEMMA GrantedFinite ==
    ASSUME NEW s
    PROVE  IsFiniteSet(GrantedIn(s)) /\ Cardinality(GrantedIn(s)) \in Nat
  BY ConnsAssumption, FS_Subset, FS_CardinalityType DEF GrantedIn

\* Granting one more waiter counts one more, whatever its state before.
LEMMA GrantOne ==
    ASSUME NEW s \in SemType, NEW r, NEW t \in Conns, s.fut[t] # "granted",
           r.fut = [s.fut EXCEPT ![t] = "granted"]
    PROVE  Cardinality(GrantedIn(r)) = Cardinality(GrantedIn(s)) + 1
  <1>1. GrantedIn(r) = GrantedIn(s) \cup {t}
    BY DEF GrantedIn, SemType
  <1>2. t \notin GrantedIn(s)
    BY DEF GrantedIn
  <1> QED
    BY <1>1, <1>2, GrantedFinite, FS_AddElement

\* _wake_up_next with a free slot moves it from the pool to a waiter, or does nothing.
LEMMA WakeNextLemma ==
    ASSUME NEW s \in SemType, s.value > 0
    PROVE  /\ WakeNext(s) \in SemType
           /\ Owned(WakeNext(s)) = Owned(s)
           /\ Frame(s, WakeNext(s), {})
  <1>1. CASE \E t \in DOMAIN s.fut : FirstPending(s, t)
    <2> DEFINE t == CHOOSE t \in DOMAIN s.fut : FirstPending(s, t)
    <2>1. t \in Conns /\ FirstPending(s, t)
      BY <1>1 DEF SemType
    <2>2. s.fut[t] = "pending"
      BY <2>1 DEF FirstPending
    <2>3. WakeNext(s) = Semaphore(s.value - 1, s.waiters, [s.fut EXCEPT ![t] = "granted"])
      BY <1>1 DEF WakeNext
    <2> HIDE DEF t
    <2>4. WakeNext(s) \in SemType
      BY <2>1, <2>3 DEF Semaphore, SemType, FutureStates
    <2>5. /\ WakeNext(s).fut = [s.fut EXCEPT ![t] = "granted"]
          /\ WakeNext(s).value = s.value - 1
          /\ WakeNext(s).waiters = s.waiters
      BY <2>3 DEF Semaphore
    <2>6. Owned(WakeNext(s)) = Owned(s)
      BY <2>1, <2>2, <2>5, GrantOne, GrantedFinite DEF Owned, SemType
    <2>7. Frame(s, WakeNext(s), {})
      BY <2>2, <2>5 DEF Frame, InQueue, SemType
    <2> QED
      BY <2>4, <2>6, <2>7
  <1>2. CASE ~ \E t \in DOMAIN s.fut : FirstPending(s, t)
    BY <1>2 DEF WakeNext, Frame
  <1> QED
    BY <1>1, <1>2

\* release() adds exactly one slot to those accounted for.
LEMMA ReleaseLemma ==
    ASSUME NEW s \in SemType
    PROVE  /\ Release(s) \in SemType
           /\ Owned(Release(s)) = Owned(s) + 1
           /\ Frame(s, Release(s), {})
  <1> DEFINE r == Semaphore(s.value + 1, s.waiters, s.fut)
  <1>1. r \in SemType /\ r.value = s.value + 1 /\ r.fut = s.fut /\ r.waiters = s.waiters
    BY DEF Semaphore, SemType
  <1>2. Release(s) = WakeNext(r)
    BY DEF Release
  <1> HIDE DEF r
  <1>3. Owned(r) = Owned(s) + 1
    <2>1. GrantedIn(r) = GrantedIn(s)
      BY <1>1 DEF GrantedIn
    <2> QED
      BY <1>1, <2>1, GrantedFinite DEF Owned, SemType
  <1>4. Frame(r, Release(s), {}) /\ Release(s) \in SemType /\ Owned(Release(s)) = Owned(r)
    BY <1>1, <1>2, WakeNextLemma DEF SemType
  <1> QED
    BY <1>1, <1>3, <1>4 DEF Frame, InQueue

\* RemoveAt(w, i) is w without its i-th element.
LEMMA RemoveAtLemma ==
    ASSUME NEW S, NEW w \in Seq(S), NEW i \in 1 .. Len(w)
    PROVE  /\ RemoveAt(w, i) \in Seq(S)
           /\ Len(RemoveAt(w, i)) = Len(w) - 1
           /\ \A j \in 1 .. i-1 : RemoveAt(w, i)[j] = w[j]
           /\ \A j \in i .. Len(w)-1 : RemoveAt(w, i)[j] = w[j+1]
  <1> DEFINE front == SubSeq(w, 1, i-1)
             back  == SubSeq(w, i+1, Len(w))
  <1>1. front \in Seq(S) /\ Len(front) = i-1 /\ \A j \in 1 .. i-1 : front[j] = w[j]
    BY SubSeqProperties
  <1>2. /\ back \in Seq(S) /\ Len(back) = Len(w) - i
        /\ \A j \in 1 .. Len(w) - i : back[j] = w[i + j]
    <2>1. CASE i < Len(w)
      BY <2>1, SubSeqProperties
    <2>2. CASE i = Len(w)
      BY <2>2, SubSeqProperties
    <2> QED
      BY <2>1, <2>2
  <1> HIDE DEF front, back
  <1>3. RemoveAt(w, i) = front \o back
    BY DEF RemoveAt, front, back
  <1>4. /\ front \o back \in Seq(S)
        /\ Len(front \o back) = Len(w) - 1
        /\ \A j \in 1 .. Len(w)-1 :
              (front \o back)[j] = IF j <= i-1 THEN front[j] ELSE back[j - (i-1)]
    BY <1>1, <1>2, ConcatProperties
  <1>5. ASSUME NEW j \in i .. Len(w)-1
        PROVE  (front \o back)[j] = w[j+1]
    <2> DEFINE k == j - (i-1)
    <2>1. /\ j \in 1 .. Len(w)-1 /\ ~(j <= i-1)
          /\ k \in 1 .. Len(w)-i /\ i + k = j + 1
      BY <1>5
    <2>2. (front \o back)[j] = back[k]
      BY <1>4, <2>1
    <2>3. back[k] = w[i + k]
      BY <1>2, <2>1
    <2> QED
      BY <2>1, <2>2, <2>3
  <1>6. ASSUME NEW j \in 1 .. i-1
        PROVE  (front \o back)[j] = w[j]
    BY <1>1, <1>4, <1>6
  <1> QED
    BY <1>3, <1>4, <1>5, <1>6

\* Leaving the queue gives up the waiter's own slot, if it had one, and no other's place.
LEMMA DequeueLemma ==
    ASSUME NEW s \in SemType, NEW t \in Conns, InQueue(s, t)
    PROVE  /\ Dequeue(s, t) \in SemType
           /\ Dequeue(s, t).value = s.value
           /\ Dequeue(s, t).fut = [s.fut EXCEPT ![t] = "none"]
           /\ Owned(Dequeue(s, t)) =
                 Owned(s) - (IF s.fut[t] = "granted" THEN 1 ELSE 0)
           /\ Frame(s, Dequeue(s, t), {t})
  <1> DEFINE i == CHOOSE i \in DOMAIN s.waiters : s.waiters[i] = t
             w == RemoveAt(s.waiters, i)
             d == Dequeue(s, t)
  <1>1. i \in 1 .. Len(s.waiters) /\ s.waiters[i] = t
    BY DEF InQueue, SemType
  <1>2. d = Semaphore(s.value, w, [s.fut EXCEPT ![t] = "none"])
    BY DEF Dequeue
  <1> HIDE DEF i
  <1>3. /\ w \in Seq(Conns)
        /\ Len(w) = Len(s.waiters) - 1
        /\ \A j \in 1 .. i-1 : w[j] = s.waiters[j]
        /\ \A j \in i .. Len(s.waiters)-1 : w[j] = s.waiters[j+1]
    BY <1>1, RemoveAtLemma DEF SemType
  <1> HIDE DEF w
  <1>4. /\ d \in SemType /\ d.value = s.value /\ d.waiters = w
        /\ d.fut = [s.fut EXCEPT ![t] = "none"]
    BY <1>2, <1>3 DEF Semaphore, SemType, FutureStates
  <1> HIDE DEF d
  <1>5. Owned(d) = Owned(s) - (IF s.fut[t] = "granted" THEN 1 ELSE 0)
    <2>1. GrantedIn(d) = GrantedIn(s) \ {t}
      BY <1>4 DEF GrantedIn, SemType
    <2>2. t \in GrantedIn(s) <=> s.fut[t] = "granted"
      BY DEF GrantedIn
    <2>3. Cardinality(GrantedIn(d)) =
            IF t \in GrantedIn(s) THEN Cardinality(GrantedIn(s)) - 1
                                  ELSE Cardinality(GrantedIn(s))
      BY <2>1, GrantedFinite, FS_RemoveElement
    <2>4. s.value \in Nat /\ Cardinality(GrantedIn(s)) \in Nat
      BY GrantedFinite DEF SemType
    <2> QED
      BY <1>4, <2>2, <2>3, <2>4 DEF Owned
  <1>6. ASSUME NEW c \in Conns \ {t}, InQueue(s, c)
        PROVE  InQueue(d, c)
    <2>1. PICK k \in 1 .. Len(s.waiters) : s.waiters[k] = c
      BY <1>6 DEF InQueue, SemType
    <2>2. k # i
      BY <1>1, <1>6, <2>1
    <2>3. CASE k < i
      BY <1>1, <1>3, <1>4, <2>1, <2>3, SMTT(20) DEF InQueue, SemType
    <2>4. CASE k > i
      <3>1. k-1 \in i .. Len(s.waiters)-1 /\ k-1 \in 1 .. Len(w)
        BY <1>1, <1>3, <2>1, <2>4 DEF SemType
      <3> QED
        BY <1>3, <1>4, <2>1, <3>1 DEF InQueue, SemType
    <2> QED
      BY <1>1, <2>1, <2>2, <2>3, <2>4 DEF SemType
  <1>7. Frame(s, d, {t})
    BY <1>4, <1>6 DEF Frame, SemType
  <1> QED
    BY <1>4, <1>5, <1>7 DEF d

\* acquire() that resumes with a slot takes that one slot out of the semaphore's account.
LEMMA ResumeLemma ==
    ASSUME NEW s \in SemType, NEW t \in Conns, InQueue(s, t), s.fut[t] = "granted"
    PROVE  /\ ResumeAcquire(s, t) \in SemType
           /\ Owned(ResumeAcquire(s, t)) = Owned(s) - 1
           /\ ResumeAcquire(s, t).fut[t] = "none"
           /\ Frame(s, ResumeAcquire(s, t), {t})
  <1> DEFINE d == Dequeue(s, t)
  <1>1. /\ d \in SemType /\ d.fut = [s.fut EXCEPT ![t] = "none"]
        /\ Owned(d) = Owned(s) - 1 /\ Frame(s, d, {t})
    BY DequeueLemma
  <1>2. ResumeAcquire(s, t) = IF d.value > 0 THEN WakeNext(d) ELSE d
    BY DEF ResumeAcquire
  <1>3. d.fut[t] = "none"
    BY <1>1 DEF SemType
  <1> HIDE DEF d
  <1>4. CASE d.value > 0
    BY <1>1, <1>2, <1>3, <1>4, WakeNextLemma DEF Frame
  <1>5. CASE ~(d.value > 0)
    BY <1>1, <1>2, <1>3, <1>5
  <1> QED
    BY <1>4, <1>5

\* acquire() that resumes cancelled leaves every slot in the semaphore's account.
LEMMA AbandonLemma ==
    ASSUME NEW s \in SemType, NEW t \in Conns, InQueue(s, t)
    PROVE  /\ AbandonAcquire(s, t) \in SemType
           /\ Owned(AbandonAcquire(s, t)) = Owned(s)
           /\ AbandonAcquire(s, t).fut[t] = "none"
           /\ Frame(s, AbandonAcquire(s, t), {t})
  <1> DEFINE d == Dequeue(s, t)
  <1>1. /\ d \in SemType /\ d.fut = [s.fut EXCEPT ![t] = "none"]
        /\ Owned(d) = Owned(s) - (IF s.fut[t] = "granted" THEN 1 ELSE 0)
        /\ Frame(s, d, {t})
    BY DequeueLemma
  <1>2. AbandonAcquire(s, t) = IF s.fut[t] = "granted" THEN Release(d) ELSE d
    BY DEF AbandonAcquire
  <1>3. d.fut[t] = "none"
    BY <1>1 DEF SemType
  <1>4. Owned(s) \in Int
    BY GrantedFinite DEF Owned, SemType
  <1> HIDE DEF d
  <1>5. CASE s.fut[t] = "granted"
    <2>1. Owned(Release(d)) = Owned(d) + 1 /\ Release(d) \in SemType /\ Frame(d, Release(d), {})
      BY <1>1, ReleaseLemma
    <2>2. Owned(d) = Owned(s) - 1
      BY <1>1, <1>5
    <2> QED
      BY <1>1, <1>2, <1>3, <1>4, <1>5, <2>1, <2>2 DEF Frame
  <1>6. CASE s.fut[t] # "granted"
    <2>1. AbandonAcquire(s, t) = d
      BY <1>2, <1>6
    <2>2. Owned(d) = Owned(s)
      BY <1>1, <1>4, <1>6
    <2> QED
      BY <1>1, <1>3, <2>1, <2>2
  <1> QED
    BY <1>5, <1>6

\* A newcomer in the queue changes no account.
LEMMA EnqueueLemma ==
    ASSUME NEW s \in SemType, NEW t \in Conns, s.fut[t] = "none"
    PROVE  /\ Enqueue(s, t) \in SemType
           /\ Owned(Enqueue(s, t)) = Owned(s)
           /\ InQueue(Enqueue(s, t), t)
           /\ Frame(s, Enqueue(s, t), {t})
  <1> DEFINE r == Enqueue(s, t)
  <1>1. /\ r \in SemType /\ r.value = s.value
        /\ r.waiters = Append(s.waiters, t)
        /\ r.fut = [s.fut EXCEPT ![t] = "pending"]
    BY DEF Enqueue, Semaphore, SemType, FutureStates
  <1> HIDE DEF r
  <1>2. GrantedIn(r) = GrantedIn(s)
    BY <1>1 DEF GrantedIn, SemType
  <1>3. Owned(r) = Owned(s)
    BY <1>1, <1>2 DEF Owned
  <1>4. InQueue(r, t)
    <2>1. Len(s.waiters) + 1 \in DOMAIN r.waiters /\ r.waiters[Len(s.waiters) + 1] = t
      BY <1>1, AppendProperties DEF SemType
    <2> QED
      BY <2>1 DEF InQueue
  <1>5. \A d \in Conns : InQueue(s, d) => InQueue(r, d)
    BY <1>1, AppendProperties, SMTT(20) DEF InQueue, SemType
  <1>6. Frame(s, r, {t})
    BY <1>1, <1>5 DEF Frame, SemType
  <1> QED
    BY <1>1, <1>3, <1>4, <1>6 DEF r

\* acquire() with a free slot takes it out of the semaphore's account.
LEMMA TakeLemma ==
    ASSUME NEW s \in SemType, s.value > 0
    PROVE  /\ TakeSlot(s) \in SemType
           /\ Owned(TakeSlot(s)) = Owned(s) - 1
           /\ TakeSlot(s).fut = s.fut
           /\ Frame(s, TakeSlot(s), {})
  <1> DEFINE r == TakeSlot(s)
  <1>1. /\ r \in SemType /\ r.value = s.value - 1
        /\ r.waiters = s.waiters /\ r.fut = s.fut
    BY DEF TakeSlot, Semaphore, SemType
  <1> HIDE DEF r
  <1>2. GrantedIn(r) = GrantedIn(s)
    BY <1>1 DEF GrantedIn
  <1>3. Owned(r) = Owned(s) - 1
    BY <1>1, <1>2, GrantedFinite DEF Owned, SemType
  <1> QED
    BY <1>1, <1>3 DEF r, Frame, InQueue

\* Cancelling the pending waiters changes no account and nobody's place.
LEMMA CancelLemma ==
    ASSUME NEW s \in SemType, NEW T
    PROVE  /\ CancelPending(s, T) \in SemType
           /\ Owned(CancelPending(s, T)) = Owned(s)
           /\ Frame(s, CancelPending(s, T), {})
  <1> DEFINE r == CancelPending(s, T)
  <1>1. /\ r.value = s.value /\ r.waiters = s.waiters
        /\ r.fut = [t \in Conns |-> IF t \in T /\ s.fut[t] = "pending"
                                    THEN "cancelled" ELSE s.fut[t]]
    BY DEF CancelPending, Semaphore, SemType
  <1>2. r \in SemType
    BY DEF CancelPending, Semaphore, SemType, FutureStates
  <1> HIDE DEF r
  <1>3. GrantedIn(r) = GrantedIn(s)
    BY <1>1 DEF GrantedIn
  <1>4. Owned(r) = Owned(s)
    BY <1>1, <1>3 DEF Owned
  <1>5. Frame(s, r, {})
    BY <1>1 DEF Frame, InQueue
  <1> QED
    BY <1>2, <1>4, <1>5 DEF r
-----------------------------------------------------------------------------
(***************************************************************************)
(* The inductive invariant.  SlotConservation alone is not inductive: that *)
(* a handler which takes up its slot was in the queue, and that one which  *)
(* is not waiting has no future, are what keeps a slot from being counted  *)
(* twice or dropped when a handler goes from the queue to the inside.      *)
(***************************************************************************)
IInv ==
    /\ TypeOK
    /\ Owned(sem) + Cardinality(Inside) = MaxConn
    /\ active = Cardinality(Inside)
    /\ \A c \in Conns : pc[c] = "waiting" => InQueue(sem, c)
    /\ \A c \in Conns : sem.fut[c] # "none" => pc[c] = "waiting"

\* The handlers inside are finitely many.
LEMMA InsideFinite == IsFiniteSet(Inside) /\ Cardinality(Inside) \in Nat
  BY ConnsAssumption, FS_Subset, FS_CardinalityType DEF Inside

\* The type invariant types the semaphore.
LEMMA SemTyped == TypeOK => sem \in SemType
  BY DEF TypeOK, SemType

\* The invariant implies what the runs check.
LEMMA IInvImplies == IInv => TypeOK /\ SlotConservation /\ ActiveIsExact
  <1> SUFFICES ASSUME IInv PROVE SlotConservation /\ ActiveIsExact
    BY DEF IInv
  <1>1. Granted = GrantedIn(sem)
    BY DEF Granted, GrantedIn
  <1>2. sem.value \in Nat /\ MaxConn \in Nat
    BY SemTyped, MaxConnAssumption DEF IInv, SemType
  <1> QED
    BY <1>1, <1>2, GrantedFinite, InsideFinite
    DEF IInv, Owned, SlotConservation, ActiveIsExact

\* The proxy starts with every slot free and no handler inside.
LEMMA InitIInv == Init => IInv
  <1> SUFFICES ASSUME Init PROVE IInv
    OBVIOUS
  <1>1. /\ sem.value = MaxConn /\ sem.waiters = <<>>
        /\ sem.fut = [c \in Conns |-> "none"]
    BY DEF Init, NewSemaphore, Semaphore
  <1>2. sem \in SemType
    BY MaxConnAssumption DEF Init, NewSemaphore, Semaphore, SemType, FutureStates
  <1>3. TypeOK
    BY <1>2 DEF Init, TypeOK, SemType, PcStates, TrStates, Directions
  <1>4. GrantedIn(sem) = {} /\ Inside = {}
    BY <1>1 DEF GrantedIn, Inside, Init
  <1>5. Cardinality({}) = 0
    BY FS_EmptySet
  <1>6. Owned(sem) + Cardinality(Inside) = MaxConn
    BY <1>1, <1>4, <1>5, MaxConnAssumption DEF Owned
  <1> QED
    BY <1>1, <1>3, <1>4, <1>5, <1>6 DEF IInv, Init

\* A handler that has just acquired its slot, with s the semaphore after that,
\* takes it inside.
LEMMA EnterBodyLemma ==
    ASSUME IInv, NEW c \in Conns, NEW s \in SemType,
           pc[c] \in {"accepted", "waiting"},
           Owned(s) = Owned(sem) - 1, s.fut[c] = "none", Frame(sem, s, {c}),
           EnterBody(c, s)
    PROVE  IInv'
  <1>0. c \notin Inside /\ TypeOK
    BY DEF Inside, IInv
  <1>1. /\ pc' = [pc EXCEPT ![c] = "connecting"] /\ sem' = s
        /\ accepted' = accepted + 1 /\ active' = active + 1
        /\ UNCHANGED <<phase, cancel, relays, client, upstream>>
    BY DEF EnterBody
  <1>2. Inside' = Inside \cup {c}
    BY <1>0, <1>1 DEF Inside, TypeOK
  <1>3. Cardinality(Inside') = Cardinality(Inside) + 1
    BY <1>0, <1>2, InsideFinite, FS_AddElement
  <1>4. Owned(sem) \in Int /\ Cardinality(Inside) \in Int /\ MaxConn \in Int
    BY <1>0, SemTyped, GrantedFinite, InsideFinite, MaxConnAssumption DEF Owned, SemType
  <1>5. /\ Owned(sem') + Cardinality(Inside') = MaxConn
        /\ active' = Cardinality(Inside')
    BY <1>1, <1>3, <1>4 DEF IInv
  <1>6. TypeOK'
    BY <1>0, <1>1 DEF TypeOK, SemType, PcStates
  <1>7. \A d \in Conns : pc'[d] = "waiting" => InQueue(sem', d)
    BY <1>0, <1>1 DEF IInv, Frame, TypeOK
  <1>8. \A d \in Conns : sem'.fut[d] # "none" => pc'[d] = "waiting"
    BY <1>0, <1>1 DEF IInv, Frame, TypeOK
  <1> QED
    BY <1>5, <1>6, <1>7, <1>8 DEF IInv

\* The end of a handler that was inside gives its one slot back.
LEMMA LeaveLemma ==
    ASSUME IInv, NEW c \in Conns, c \in Inside, Leave(c)
    PROVE  IInv'
  <1>1. TypeOK /\ sem \in SemType
    BY SemTyped DEF IInv
  <1>2. sem' \in SemType /\ Owned(sem') = Owned(sem) + 1 /\ Frame(sem, sem', {})
    BY <1>1, ReleaseLemma DEF Leave
  <1>3. Inside' = Inside \ {c}
    BY <1>1 DEF Leave, Inside, TypeOK
  <1>4. Cardinality(Inside') = Cardinality(Inside) - 1
    BY <1>3, InsideFinite, FS_RemoveElement
  <1>5. Owned(sem) \in Int /\ Cardinality(Inside) \in Int /\ MaxConn \in Int
    BY <1>1, GrantedFinite, InsideFinite, MaxConnAssumption DEF Owned, SemType
  <1>6. /\ Owned(sem') + Cardinality(Inside') = MaxConn
        /\ active' = Cardinality(Inside')
    BY <1>2, <1>4, <1>5 DEF IInv, Leave
  <1>7. TypeOK'
    BY <1>1, <1>2 DEF TypeOK, SemType, Leave, PcStates, TrStates
  <1>8. pc[c] # "waiting"
    BY DEF Inside
  <1>9. \A d \in Conns : pc'[d] = "waiting" => InQueue(sem', d)
    BY <1>1, <1>2, <1>8 DEF IInv, Frame, Leave, TypeOK
  <1>10. \A d \in Conns : sem'.fut[d] # "none" => pc'[d] = "waiting"
    BY <1>1, <1>2, <1>8 DEF IInv, Frame, Leave, TypeOK
  <1> QED
    BY <1>6, <1>7, <1>9, <1>10 DEF IInv

\* Steps that leave the semaphore and the handlers inside alone.
LEMMA QuietLemma ==
    ASSUME IInv, TypeOK', sem' = sem, active' = active, Inside' = Inside,
           \A c \in Conns : pc'[c] = "waiting" <=> pc[c] = "waiting"
    PROVE  IInv'
  <1>1. Owned(sem') = Owned(sem) /\ \A c \in Conns : InQueue(sem', c) <=> InQueue(sem, c)
    BY DEF Owned, GrantedIn, InQueue
  <1> QED
    BY <1>1 DEF IInv

\* Every step preserves the invariant.
LEMMA StepIInv == IInv /\ [Next]_vars => IInv'
  <1> SUFFICES ASSUME IInv, [Next]_vars PROVE IInv'
    OBVIOUS
  <1>0. TypeOK /\ sem \in SemType
    BY SemTyped DEF IInv
  <1>1. CASE UNCHANGED vars
    <2>1. TypeOK' /\ Inside' = Inside
      BY <1>0, <1>1 DEF vars, TypeOK, Inside
    <2> QED
      BY <1>1, <2>1, QuietLemma DEF vars
  <1>2. CASE Stop
    <2>1. TypeOK' /\ Inside' = Inside
      BY <1>0, <1>2 DEF Stop, TypeOK, Inside
    <2> QED
      BY <1>2, <2>1, QuietLemma DEF Stop
  <1>3. CASE CancelAll
    <2> DEFINE left == {c \in Conns : pc[c] \notin {"idle", "done"}}
    <2>1. sem' = CancelPending(sem, left) /\ cancel' = [c \in Conns |-> c \in left]
      BY <1>3 DEF CancelAll
    <2>2. /\ phase' = "cancelled"
          /\ UNCHANGED <<pc, relays, client, upstream, accepted, active>>
      BY <1>3 DEF CancelAll
    <2> HIDE DEF left
    <2>3. sem' \in SemType /\ Owned(sem') = Owned(sem) /\ Frame(sem, sem', {})
      BY <1>0, <2>1, CancelLemma
    <2>4. cancel' \in [Conns -> BOOLEAN]
      BY <2>1
    <2>5. TypeOK'
      BY <1>0, <2>2, <2>3, <2>4 DEF TypeOK, SemType
    <2>6. Inside' = Inside
      BY <2>2 DEF Inside
    <2> QED
      BY <2>2, <2>3, <2>5, <2>6 DEF IInv, Frame
  <1>4. ASSUME NEW c \in Conns, Accept(c) PROVE IInv'
    <2>1. TypeOK'
      BY <1>0, <1>4 DEF Accept, TypeOK, PcStates, TrStates
    <2>2. Inside' = Inside
      BY <1>0, <1>4 DEF Accept, TypeOK, Inside
    <2> QED
      BY <1>0, <1>4, <2>1, <2>2, QuietLemma DEF Accept, TypeOK
  <1>5. ASSUME NEW c \in Conns, EnterNow(c) PROVE IInv'
    <2>1. sem.value > 0
      BY <1>0, <1>5 DEF EnterNow, Locked, SemType
    <2>2. /\ TakeSlot(sem) \in SemType /\ Owned(TakeSlot(sem)) = Owned(sem) - 1
          /\ TakeSlot(sem).fut = sem.fut /\ Frame(sem, TakeSlot(sem), {})
      BY <1>0, <2>1, TakeLemma
    <2>3. pc[c] = "accepted"
      BY <1>5 DEF EnterNow
    <2>4. TakeSlot(sem).fut[c] = "none"
      BY <2>2, <2>3 DEF IInv
    <2>5. Frame(sem, TakeSlot(sem), {c})
      BY <2>2 DEF Frame
    <2> QED
      BY <1>5, <2>2, <2>3, <2>4, <2>5, EnterBodyLemma DEF EnterNow
  <1>6. ASSUME NEW c \in Conns, Wait(c) PROVE IInv'
    <2>1. pc[c] = "accepted" /\ sem.fut[c] = "none"
      BY <1>6 DEF Wait, IInv
    <2>2. /\ sem' \in SemType /\ Owned(sem') = Owned(sem)
          /\ InQueue(sem', c) /\ Frame(sem, sem', {c})
      BY <1>0, <1>6, <2>1, EnqueueLemma DEF Wait
    <2>3. TypeOK'
      BY <1>0, <1>6, <2>2 DEF Wait, TypeOK, SemType, PcStates
    <2>4. Inside' = Inside
      BY <1>0, <1>6, <2>1 DEF Wait, TypeOK, Inside
    <2>5. \A d \in Conns : pc'[d] = "waiting" => InQueue(sem', d)
      BY <1>0, <1>6, <2>2 DEF IInv, Frame, Wait, TypeOK
    <2>6. \A d \in Conns : sem'.fut[d] # "none" => pc'[d] = "waiting"
      BY <1>0, <1>6, <2>2 DEF IInv, Frame, Wait, TypeOK
    <2> QED
      BY <1>6, <2>2, <2>3, <2>4, <2>5, <2>6 DEF IInv, Wait
  <1>7. ASSUME NEW c \in Conns, EnterGranted(c) PROVE IInv'
    <2>1. pc[c] = "waiting" /\ sem.fut[c] = "granted" /\ InQueue(sem, c)
      BY <1>7 DEF EnterGranted, IInv
    <2>2. /\ ResumeAcquire(sem, c) \in SemType
          /\ Owned(ResumeAcquire(sem, c)) = Owned(sem) - 1
          /\ ResumeAcquire(sem, c).fut[c] = "none"
          /\ Frame(sem, ResumeAcquire(sem, c), {c})
      BY <1>0, <2>1, ResumeLemma
    <2> QED
      BY <1>7, <2>1, <2>2, EnterBodyLemma DEF EnterGranted
  <1>8. ASSUME NEW c \in Conns, Connected(c) PROVE IInv'
    <2>1. TypeOK'
      BY <1>0, <1>8 DEF Connected, TypeOK, PcStates, TrStates
    <2>2. Inside' = Inside
      BY <1>0, <1>8 DEF Connected, TypeOK, Inside
    <2> QED
      BY <1>0, <1>8, <2>1, <2>2, QuietLemma DEF Connected, TypeOK
  <1>9. ASSUME NEW c \in Conns, NEW d \in Directions, RelayEnds(c, d) PROVE IInv'
    <2>1. relays' = [relays EXCEPT ![c] = @ \ {d}] /\ relays' \in [Conns -> SUBSET Directions]
      BY <1>0, <1>9 DEF RelayEnds, TypeOK
    <2>2. client' \in [Conns -> TrStates] /\ upstream' \in [Conns -> TrStates]
      BY <1>0, <1>9 DEF RelayEnds, TypeOK, TrStates
    <2>3. UNCHANGED <<phase, pc, cancel, sem, accepted, active>>
      BY <1>9 DEF RelayEnds
    <2>4. TypeOK' /\ Inside' = Inside
      BY <1>0, <2>1, <2>2, <2>3 DEF TypeOK, Inside
    <2> QED
      BY <2>3, <2>4, QuietLemma
  <1>10. ASSUME NEW c \in Conns, ConnectFails(c) \/ RelaysDone(c) PROVE IInv'
    BY <1>10, LeaveLemma DEF ConnectFails, RelaysDone, Inside
  <1>11. ASSUME NEW c \in Conns, CancelledOutside(c) PROVE IInv'
    <2>1. /\ pc' = [pc EXCEPT ![c] = "done"] /\ cancel' = [cancel EXCEPT ![c] = FALSE]
          /\ client' = [client EXCEPT ![c] = "closed"] /\ pc[c] \in {"accepted", "waiting"}
          /\ UNCHANGED <<phase, relays, upstream, accepted, active>>
      BY <1>11 DEF CancelledOutside
    <2>2. Inside' = Inside
      BY <1>0, <2>1 DEF TypeOK, Inside
    <2>3. /\ sem' \in SemType /\ Owned(sem') = Owned(sem)
          /\ sem'.fut[c] = "none" /\ Frame(sem, sem', {c})
      <3>1. CASE pc[c] = "waiting"
        BY <1>0, <1>11, <3>1, AbandonLemma DEF CancelledOutside, IInv
      <3>2. CASE pc[c] # "waiting"
        BY <1>0, <1>11, <3>2 DEF CancelledOutside, IInv, Frame
      <3> QED
        BY <3>1, <3>2
    <2>4. TypeOK'
      BY <1>0, <2>1, <2>3 DEF TypeOK, SemType, PcStates, TrStates
    <2>5. \A d \in Conns : pc'[d] = "waiting" => InQueue(sem', d)
      BY <1>0, <2>1, <2>3 DEF IInv, Frame, TypeOK
    <2>6. \A d \in Conns : sem'.fut[d] # "none" => pc'[d] = "waiting"
      BY <1>0, <2>1, <2>3 DEF IInv, Frame, TypeOK
    <2> QED
      BY <2>1, <2>2, <2>3, <2>4, <2>5, <2>6 DEF IInv
  <1>12. CASE Terminated
    BY <1>1, <1>12 DEF Terminated
  <1> QED
    BY <1>1, <1>2, <1>3, <1>4, <1>5, <1>6, <1>7, <1>8, <1>9, <1>10, <1>11, <1>12
    DEF Next, HandlerStep

\* The inductive invariant holds in every reachable state.
THEOREM Invariance == Spec => []IInv
  BY InitIInv, StepIInv, PTL DEF Spec

\* The variables keep their types; the slot counter in particular never goes negative.
THEOREM TypeCorrect == Spec => []TypeOK
  BY Invariance, IInvImplies, PTL

\* No exit path of _handle_connection loses or invents a slot, for any number
\* of clients and any max_connections.
THEOREM SlotsConserved == Spec => []SlotConservation
  BY Invariance, IInvImplies, PTL

\* active_connections is the number of handlers inside, at most max_connections,
\* for any number of clients and any max_connections.
THEOREM GaugeExact == Spec => []ActiveIsExact
  BY Invariance, IInvImplies, PTL
-----------------------------------------------------------------------------
(***************************************************************************)
(* No lost wakeup.  asyncio's semaphore wakes one waiter per release, and  *)
(* lets newcomers queue although slots are free while a granted waiter has *)
(* not run.  That none of them sleeps on a free slot rests on the queue    *)
(* being exact (`QueueOK`): every pending task is in it, once, and every   *)
(* task in it has a future.                                                *)
(***************************************************************************)
HasPending(s) == \E c \in Conns : s.fut[c] = "pending"
HasGranted(s) == \E c \in Conns : s.fut[c] = "granted"

Alert(s) == (s.value > 0 /\ HasPending(s)) => HasGranted(s)

QueueOK(s) ==
    /\ \A i, j \in DOMAIN s.waiters : s.waiters[i] = s.waiters[j] => i = j
    /\ \A i \in DOMAIN s.waiters : s.fut[s.waiters[i]] # "none"
    /\ \A c \in Conns : s.fut[c] = "pending" => InQueue(s, c)

\* If anybody in the queue is pending, somebody is the first.
LEMMA FirstPendingExists ==
    ASSUME NEW s \in SemType, QueueOK(s), HasPending(s)
    PROVE  \E t \in Conns : FirstPending(s, t)
  <1> DEFINE P == {i \in DOMAIN s.waiters : s.fut[s.waiters[i]] = "pending"}
  <1>1. P \in SUBSET Nat /\ DOMAIN s.waiters = 1 .. Len(s.waiters)
    BY DEF SemType
  <1>2. P # {}
    BY DEF QueueOK, HasPending, InQueue
  <1>3. PICK k \in P : \A j \in P : k <= j
    BY <1>1, <1>2, LeastNatural
  <1>4. \A j \in 1 .. k-1 : s.fut[s.waiters[j]] # "pending"
    BY <1>1, <1>3
  <1>5. s.waiters[k] \in Conns
    BY <1>1, <1>3 DEF SemType
  <1> QED
    BY <1>3, <1>4, <1>5 DEF FirstPending

\* _wake_up_next leaves no pending waiter without a granted one.
LEMMA WakeNextAlert ==
    ASSUME NEW s \in SemType, s.value > 0, QueueOK(s)
    PROVE  QueueOK(WakeNext(s)) /\ Alert(WakeNext(s))
  <1>1. CASE HasPending(s)
    <2> DEFINE t == CHOOSE t \in DOMAIN s.fut : FirstPending(s, t)
    <2>1. \E u \in DOMAIN s.fut : FirstPending(s, u)
      BY <1>1, FirstPendingExists DEF SemType
    <2>2. t \in Conns /\ FirstPending(s, t)
      BY <2>1 DEF SemType
    <2>3. WakeNext(s) = Semaphore(s.value - 1, s.waiters, [s.fut EXCEPT ![t] = "granted"])
      BY <2>1 DEF WakeNext
    <2> HIDE DEF t
    <2>4. /\ WakeNext(s).fut = [s.fut EXCEPT ![t] = "granted"]
          /\ WakeNext(s).waiters = s.waiters
      BY <2>3 DEF Semaphore
    <2>5. HasGranted(WakeNext(s))
      BY <2>2, <2>4 DEF HasGranted, SemType
    <2>6. QueueOK(WakeNext(s))
      BY <2>2, <2>4 DEF QueueOK, InQueue, SemType
    <2> QED
      BY <2>5, <2>6 DEF Alert
  <1>2. CASE ~HasPending(s)
    <2>1. ~ \E t \in DOMAIN s.fut : FirstPending(s, t)
      BY <1>2 DEF FirstPending, HasPending, SemType
    <2> QED
      BY <1>2, <2>1 DEF WakeNext, Alert
  <1> QED
    BY <1>1, <1>2

\* release() leaves no pending waiter without a granted one.
LEMMA ReleaseAlert ==
    ASSUME NEW s \in SemType, QueueOK(s)
    PROVE  QueueOK(Release(s)) /\ Alert(Release(s))
  <1> DEFINE r == Semaphore(s.value + 1, s.waiters, s.fut)
  <1>1. r \in SemType /\ r.value = s.value + 1 /\ r.fut = s.fut /\ r.waiters = s.waiters
    BY DEF Semaphore, SemType
  <1>2. Release(s) = WakeNext(r)
    BY DEF Release
  <1> HIDE DEF r
  <1>3. QueueOK(r) /\ r.value > 0
    BY <1>1 DEF QueueOK, InQueue, SemType
  <1> QED
    BY <1>1, <1>2, <1>3, WakeNextAlert

\* Leaving the queue keeps it exact.
LEMMA DequeueQueueOK ==
    ASSUME NEW s \in SemType, NEW t \in Conns, InQueue(s, t), QueueOK(s)
    PROVE  QueueOK(Dequeue(s, t))
  <1> DEFINE i == CHOOSE i \in DOMAIN s.waiters : s.waiters[i] = t
             w == RemoveAt(s.waiters, i)
             d == Dequeue(s, t)
  <1>1. i \in 1 .. Len(s.waiters) /\ s.waiters[i] = t
    BY DEF InQueue, SemType
  <1>2. d = Semaphore(s.value, w, [s.fut EXCEPT ![t] = "none"])
    BY DEF Dequeue
  <1>3. Frame(s, d, {t})
    BY DequeueLemma
  <1> HIDE DEF i
  <1>4. /\ w \in Seq(Conns) /\ Len(w) = Len(s.waiters) - 1
        /\ \A j \in 1 .. i-1 : w[j] = s.waiters[j]
        /\ \A j \in i .. Len(s.waiters)-1 : w[j] = s.waiters[j+1]
    BY <1>1, RemoveAtLemma DEF SemType
  <1> HIDE DEF w
  <1>5. d.waiters = w /\ d.fut = [s.fut EXCEPT ![t] = "none"]
    BY <1>2 DEF Semaphore
  <1> HIDE DEF d
  <1> DEFINE old(j) == IF j < i THEN j ELSE j+1
  <1>6. \A j \in DOMAIN w : /\ old(j) \in DOMAIN s.waiters /\ old(j) # i
                            /\ w[j] = s.waiters[old(j)]
    BY <1>1, <1>4 DEF SemType
  <1>7. \A j, k \in DOMAIN w : old(j) = old(k) => j = k
    BY <1>1, <1>4 DEF SemType
  <1> HIDE DEF old
  <1>8. \A j, k \in DOMAIN w : w[j] = w[k] => j = k
    BY <1>6, <1>7 DEF QueueOK
  <1>9. \A j \in DOMAIN w : w[j] # t /\ s.fut[w[j]] # "none" /\ w[j] \in Conns
    BY <1>1, <1>4, <1>6 DEF QueueOK, SemType
  <1>10. \A c \in Conns : d.fut[c] = "pending" => InQueue(d, c)
    BY <1>3, <1>5 DEF QueueOK, Frame, SemType
  <1> QED
    BY <1>5, <1>8, <1>9, <1>10 DEF QueueOK, SemType, d

\* acquire() that resumes with a slot passes a free one on.
LEMMA ResumeAlert ==
    ASSUME NEW s \in SemType, NEW t \in Conns, InQueue(s, t), QueueOK(s)
    PROVE  QueueOK(ResumeAcquire(s, t)) /\ Alert(ResumeAcquire(s, t))
  <1> DEFINE d == Dequeue(s, t)
  <1>1. d \in SemType /\ QueueOK(d)
    BY DequeueLemma, DequeueQueueOK
  <1>2. ResumeAcquire(s, t) = IF d.value > 0 THEN WakeNext(d) ELSE d
    BY DEF ResumeAcquire
  <1> HIDE DEF d
  <1>3. CASE d.value > 0
    BY <1>1, <1>2, <1>3, WakeNextAlert
  <1>4. CASE ~(d.value > 0)
    BY <1>1, <1>2, <1>4 DEF Alert
  <1> QED
    BY <1>3, <1>4

\* A cancelled acquire() passes the slot it was granted on, and takes none away.
LEMMA AbandonAlert ==
    ASSUME NEW s \in SemType, NEW t \in Conns, InQueue(s, t), QueueOK(s), Alert(s)
    PROVE  QueueOK(AbandonAcquire(s, t)) /\ Alert(AbandonAcquire(s, t))
  <1> DEFINE d == Dequeue(s, t)
  <1>1. /\ d \in SemType /\ d.value = s.value
        /\ d.fut = [s.fut EXCEPT ![t] = "none"]
    BY DequeueLemma
  <1>2. QueueOK(d)
    BY DequeueQueueOK
  <1>3. AbandonAcquire(s, t) = IF s.fut[t] = "granted" THEN Release(d) ELSE d
    BY DEF AbandonAcquire
  <1> HIDE DEF d
  <1>4. CASE s.fut[t] = "granted"
    BY <1>1, <1>2, <1>3, <1>4, ReleaseAlert
  <1>5. CASE s.fut[t] # "granted"
    <2>1. Alert(d)
      BY <1>1, <1>5 DEF Alert, HasPending, HasGranted, SemType
    <2> QED
      BY <1>2, <1>3, <1>5, <2>1
  <1> QED
    BY <1>4, <1>5

\* A newcomer queues only behind a waiter, or when no slot is free.
LEMMA EnqueueAlert ==
    ASSUME NEW s \in SemType, NEW t \in Conns, s.fut[t] = "none", Locked(s),
           QueueOK(s), Alert(s)
    PROVE  QueueOK(Enqueue(s, t)) /\ Alert(Enqueue(s, t))
  <1> DEFINE r == Enqueue(s, t)
  <1>1. /\ r.value = s.value /\ r.waiters = Append(s.waiters, t)
        /\ r.fut = [s.fut EXCEPT ![t] = "pending"]
    BY DEF Enqueue, Semaphore
  <1>2. InQueue(r, t) /\ Frame(s, r, {t})
    BY EnqueueLemma
  <1> HIDE DEF r
  <1>3. /\ Len(r.waiters) = Len(s.waiters) + 1
        /\ r.waiters[Len(s.waiters) + 1] = t
        /\ \A i \in 1 .. Len(s.waiters) : r.waiters[i] = s.waiters[i]
        /\ DOMAIN r.waiters = 1 .. Len(s.waiters) + 1
    BY <1>1, AppendProperties DEF SemType
  <1>4. \A i \in 1 .. Len(s.waiters) : s.waiters[i] # t /\ s.waiters[i] \in Conns
    BY DEF QueueOK, SemType
  <1>5. QueueOK(r)
    <2>1. \A i, j \in DOMAIN r.waiters : r.waiters[i] = r.waiters[j] => i = j
      <3>1. ASSUME NEW i \in DOMAIN r.waiters, NEW j \in DOMAIN r.waiters,
                   r.waiters[i] = r.waiters[j]
            PROVE  i = j
        <4>1. CASE i <= Len(s.waiters) /\ j <= Len(s.waiters)
          BY <1>3, <3>1, <4>1 DEF QueueOK, SemType
        <4>2. CASE i = Len(s.waiters) + 1 \/ j = Len(s.waiters) + 1
          BY <1>3, <1>4, <3>1, <4>2 DEF SemType
        <4> QED
          BY <1>3, <4>1, <4>2 DEF SemType
      <3> QED
        BY <3>1
    <2>2. \A i \in DOMAIN r.waiters : r.fut[r.waiters[i]] # "none"
      BY <1>1, <1>3, <1>4 DEF QueueOK, SemType
    <2>3. \A c \in Conns : r.fut[c] = "pending" => InQueue(r, c)
      BY <1>1, <1>2 DEF QueueOK, Frame, SemType
    <2> QED
      BY <2>1, <2>2, <2>3 DEF QueueOK
  <1>6. Alert(r)
    <2> SUFFICES ASSUME s.value > 0
                 PROVE  HasGranted(r)
      BY <1>1 DEF Alert
    <2>1. PICK i \in DOMAIN s.waiters : s.fut[s.waiters[i]] # "cancelled"
      BY DEF Locked
    <2>2. s.waiters[i] \in Conns /\ s.fut[s.waiters[i]] \in {"pending", "granted"}
      BY <2>1 DEF QueueOK, SemType, FutureStates
    <2>3. HasGranted(s)
      BY <2>2 DEF Alert, HasPending, HasGranted
    <2> QED
      BY <1>1, <2>3 DEF HasGranted, SemType
  <1> QED
    BY <1>5, <1>6 DEF r

\* acquire() takes a free slot only if nobody waits.
LEMMA TakeAlert ==
    ASSUME NEW s \in SemType, ~Locked(s), QueueOK(s)
    PROVE  QueueOK(TakeSlot(s)) /\ Alert(TakeSlot(s))
  <1> DEFINE r == TakeSlot(s)
  <1>1. r.waiters = s.waiters /\ r.fut = s.fut
    BY DEF TakeSlot, Semaphore
  <1> HIDE DEF r
  <1>2. ~HasPending(s)
    BY DEF Locked, QueueOK, HasPending, InQueue
  <1> QED
    BY <1>1, <1>2 DEF r, QueueOK, InQueue, Alert, HasPending

\* Cancelling waiters leaves fewer of them pending.
LEMMA CancelAlert ==
    ASSUME NEW s \in SemType, NEW T, QueueOK(s), Alert(s)
    PROVE  QueueOK(CancelPending(s, T)) /\ Alert(CancelPending(s, T))
  <1> DEFINE r == CancelPending(s, T)
  <1>1. /\ r.value = s.value /\ r.waiters = s.waiters
        /\ r.fut = [t \in Conns |-> IF t \in T /\ s.fut[t] = "pending"
                                    THEN "cancelled" ELSE s.fut[t]]
    BY DEF CancelPending, Semaphore, SemType
  <1> HIDE DEF r
  <1>2. \A i \in DOMAIN s.waiters : s.waiters[i] \in Conns
    BY DEF SemType
  <1> QED
    BY <1>1, <1>2 DEF r, QueueOK, InQueue, Alert, HasPending, HasGranted

\* The invariant behind NoLostWakeup.
WakeInv == IInv /\ QueueOK(sem) /\ Alert(sem)

\* Entering the body never leaves a pending waiter without a granted one.
LEMMA EnterBodyAlert ==
    ASSUME NEW c \in Conns, NEW s \in SemType, QueueOK(s), Alert(s), EnterBody(c, s)
    PROVE  QueueOK(sem') /\ Alert(sem')
  BY DEF EnterBody

\* Every step preserves it.
LEMMA StepWakeInv == WakeInv /\ [Next]_vars => WakeInv'
  <1> SUFFICES ASSUME WakeInv, [Next]_vars PROVE QueueOK(sem') /\ Alert(sem')
    BY StepIInv DEF WakeInv
  <1>0. sem \in SemType
    BY SemTyped DEF WakeInv, IInv
  <1>1. CASE sem' = sem
    BY <1>1 DEF WakeInv
  <1>2. CASE CancelAll
    BY <1>0, <1>2, CancelAlert DEF CancelAll, WakeInv
  <1>3. ASSUME NEW c \in Conns, EnterNow(c) PROVE QueueOK(sem') /\ Alert(sem')
    <2>1. sem.value > 0
      BY <1>0, <1>3 DEF EnterNow, Locked, SemType
    <2>2. TakeSlot(sem) \in SemType /\ QueueOK(TakeSlot(sem)) /\ Alert(TakeSlot(sem))
      BY <1>0, <1>3, <2>1, TakeLemma, TakeAlert DEF EnterNow, WakeInv
    <2> QED
      BY <1>3, <2>2, EnterBodyAlert DEF EnterNow
  <1>4. ASSUME NEW c \in Conns, Wait(c) PROVE QueueOK(sem') /\ Alert(sem')
    BY <1>0, <1>4, EnqueueAlert DEF Wait, WakeInv, IInv
  <1>5. ASSUME NEW c \in Conns, EnterGranted(c) PROVE QueueOK(sem') /\ Alert(sem')
    <2>1. InQueue(sem, c) /\ sem.fut[c] = "granted"
      BY <1>5 DEF EnterGranted, WakeInv, IInv
    <2>2. /\ ResumeAcquire(sem, c) \in SemType
          /\ QueueOK(ResumeAcquire(sem, c)) /\ Alert(ResumeAcquire(sem, c))
      BY <1>0, <2>1, ResumeLemma, ResumeAlert DEF WakeInv
    <2> QED
      BY <1>5, <2>2, EnterBodyAlert DEF EnterGranted
  <1>6. ASSUME NEW c \in Conns, Leave(c) PROVE QueueOK(sem') /\ Alert(sem')
    BY <1>0, <1>6, ReleaseAlert DEF Leave, WakeInv
  <1>7. ASSUME NEW c \in Conns, CancelledOutside(c) PROVE QueueOK(sem') /\ Alert(sem')
    <2>1. CASE pc[c] = "waiting"
      BY <1>0, <1>7, <2>1, AbandonAlert DEF CancelledOutside, WakeInv, IInv
    <2>2. CASE pc[c] # "waiting"
      BY <1>1, <1>7, <2>2 DEF CancelledOutside
    <2> QED
      BY <2>1, <2>2
  <1> QED
    BY <1>1, <1>2, <1>3, <1>4, <1>5, <1>6, <1>7
    DEF Next, HandlerStep, vars, Stop, Terminated, Accept, Connected, RelayEnds,
        ConnectFails, RelaysDone

\* Nobody sleeps on a free slot, for any number of clients and any max_connections.
THEOREM NoWakeupIsLost == Spec => []NoLostWakeup
  <1>1. Init => WakeInv
    <2> SUFFICES ASSUME Init PROVE WakeInv
      OBVIOUS
    <2>1. sem.waiters = <<>> /\ sem.fut = [c \in Conns |-> "none"]
      BY DEF Init, NewSemaphore, Semaphore
    <2>2. QueueOK(sem) /\ Alert(sem)
      BY <2>1 DEF QueueOK, Alert, HasPending
    <2> QED
      BY <2>2, InitIInv DEF WakeInv
  <1>2. WakeInv => NoLostWakeup
    BY DEF WakeInv, Alert, HasPending, HasGranted, NoLostWakeup
  <1> QED
    BY <1>1, <1>2, StepWakeInv, PTL DEF Spec
-----------------------------------------------------------------------------
(* The sockets *)

\* The upstream socket is there from the moment the relays run, and a handler
\* that is done has closed both.
SocketsOf(c) ==
    /\ pc[c] \in {"idle", "accepted", "waiting", "connecting"} => upstream[c] = "none"
    /\ pc[c] = "done" => client[c] = "closed" /\ upstream[c] # "open"

SocketInv == TypeOK /\ \A c \in Conns : SocketsOf(c)

\* A step of one handler touches no socket of another.
LEMMA StepSocketInv ==
    ASSUME SocketInv, TypeOK', [Next]_vars
    PROVE  SocketInv'
  <1> USE DEF SocketInv, TypeOK
  <1>1. pc \in [Conns -> PcStates] /\ client \in [Conns -> TrStates] /\ upstream \in [Conns -> TrStates]
    OBVIOUS
  <1>2. ASSUME NEW c \in Conns PROVE SocketsOf(c)
    OBVIOUS
  <1> HIDE DEF SocketInv, TypeOK
  <1>3. CASE UNCHANGED <<pc, client, upstream>>
    BY <1>2, <1>3 DEF SocketInv, SocketsOf
  <1>4. ASSUME NEW c \in Conns, NEW d \in Conns,
               \/ Accept(c) \/ EnterNow(c) \/ Wait(c) \/ EnterGranted(c)
               \/ RelaysDone(c) \/ CancelledOutside(c) \/ Connected(c) \/ ConnectFails(c)
               \/ \E dir \in Directions : RelayEnds(c, dir)
        PROVE  SocketsOf(d)'
    <2>1. CASE Accept(c)
      BY <1>1, <1>2, <2>1 DEF Accept, SocketsOf
    <2>2. CASE EnterNow(c) \/ EnterGranted(c)
      BY <1>1, <1>2, <2>2 DEF EnterNow, EnterGranted, EnterBody, SocketsOf
    <2>3. CASE Wait(c)
      BY <1>1, <1>2, <2>3 DEF Wait, SocketsOf
    <2>4. CASE RelaysDone(c) \/ ConnectFails(c)
      BY <1>1, <1>2, <2>4 DEF RelaysDone, ConnectFails, Leave, SocketsOf
    <2>5. CASE CancelledOutside(c)
      BY <1>1, <1>2, <2>5 DEF CancelledOutside, SocketsOf
    <2>6. CASE Connected(c)
      BY <1>1, <1>2, <2>6 DEF Connected, SocketsOf
    <2>7. ASSUME NEW dir \in Directions, RelayEnds(c, dir) PROVE SocketsOf(d)'
      BY <1>1, <1>2, <2>7 DEF RelayEnds, SocketsOf
    <2> QED
      BY <1>4, <2>1, <2>2, <2>3, <2>4, <2>5, <2>6, <2>7
  <1>5. Stop \/ CancelAll \/ Terminated \/ UNCHANGED vars => UNCHANGED <<pc, client, upstream>>
    BY DEF Stop, CancelAll, Terminated, vars
  <1> QED
    BY <1>3, <1>4, <1>5 DEF Next, HandlerStep, SocketInv

\* Whichever way a handler ends, it leaves neither socket open: an error of
\* open_connection, its relays, or a cancellation at any of its awaits.
THEOREM NoSocketLeaks == Spec => []NoSocketLeak
  <1>1. IInv => TypeOK
    BY IInvImplies
  <1>2. Init /\ TypeOK => SocketInv
    BY DEF Init, SocketInv, SocketsOf
  <1>3. SocketInv /\ TypeOK' /\ [Next]_vars => SocketInv'
    BY StepSocketInv
  <1>4. SocketInv => NoSocketLeak
    BY DEF SocketInv, SocketsOf, NoSocketLeak
  <1> QED
    BY <1>1, <1>2, <1>3, <1>4, Invariance, PTL DEF Spec
-----------------------------------------------------------------------------
(***************************************************************************)
(* The proxy implements Admission.  Between two states of the semaphore,   *)
(* `Turn` says who is served: those of T come out of the line, nobody      *)
(* overtakes, and the order of those left behind stays.  release(), and    *)
(* acquire() that resumes, take at most one turn; nothing else does.       *)
(***************************************************************************)
PendingIn(s) == {c \in Conns : s.fut[c] = "pending"}

Standing(s, a, b) == \E i, j \in DOMAIN s.waiters :
                        i < j /\ s.waiters[i] = a /\ s.waiters[j] = b

BeforeIn(s) == {p \in PendingIn(s) \X PendingIn(s) : Standing(s, p[1], p[2])}

Turn(s, r, T) ==
    /\ T \subseteq PendingIn(s)
    /\ \A p \in BeforeIn(s) : p[2] \in T => p[1] \in T
    /\ PendingIn(r) = PendingIn(s) \ T
    /\ BeforeIn(r) = BeforeIn(s) \cap (PendingIn(r) \X PendingIn(r))

\* The mapping, in terms of the semaphore.
LEMMA Mapped == Waiting = PendingIn(sem) /\ Ahead = BeforeIn(sem) /\ Granted = GrantedIn(sem)
  BY DEF Waiting, Ahead, PendingIn, BeforeIn, Standing, Granted, GrantedIn

\* _wake_up_next serves the first in line, or nobody.
LEMMA WakeNextTurn ==
    ASSUME NEW s \in SemType, QueueOK(s)
    PROVE  \E T : Turn(s, WakeNext(s), T) /\ GrantedIn(WakeNext(s)) = GrantedIn(s) \cup T
  <1>1. CASE \E t \in DOMAIN s.fut : FirstPending(s, t)
    <2> DEFINE t == CHOOSE t \in DOMAIN s.fut : FirstPending(s, t)
               r == WakeNext(s)
    <2>1. t \in Conns /\ FirstPending(s, t)
      BY <1>1 DEF SemType
    <2>2. r = Semaphore(s.value - 1, s.waiters, [s.fut EXCEPT ![t] = "granted"])
      BY <1>1 DEF WakeNext
    <2> HIDE DEF t
    <2>3. r.waiters = s.waiters /\ r.fut = [s.fut EXCEPT ![t] = "granted"]
      BY <2>2 DEF Semaphore
    <2> HIDE DEF r
    <2>4. PICK k \in DOMAIN s.waiters :
             /\ s.waiters[k] = t /\ s.fut[t] = "pending"
             /\ \A j \in 1 .. k-1 : s.fut[s.waiters[j]] # "pending"
      BY <2>1 DEF FirstPending
    <2>5. PendingIn(r) = PendingIn(s) \ {t} /\ GrantedIn(r) = GrantedIn(s) \cup {t}
      BY <2>1, <2>3 DEF PendingIn, GrantedIn, SemType
    <2>6. t \in PendingIn(s)
      BY <2>1, <2>4 DEF PendingIn
    <2>7. ASSUME NEW p \in BeforeIn(s), p[2] = t
          PROVE  FALSE
      <3>1. PICK i, j \in DOMAIN s.waiters :
               i < j /\ s.waiters[i] = p[1] /\ s.waiters[j] = t
        BY <2>7 DEF BeforeIn, Standing
      <3>2. j = k
        BY <2>4, <3>1 DEF QueueOK
      <3>3. i \in 1 .. k-1
        BY <3>1, <3>2 DEF SemType
      <3>4. s.fut[p[1]] = "pending"
        BY DEF BeforeIn, PendingIn
      <3> QED
        BY <2>4, <3>1, <3>3, <3>4
    <2>8. BeforeIn(r) = BeforeIn(s) \cap (PendingIn(r) \X PendingIn(r))
      BY <2>3, <2>5 DEF BeforeIn, Standing
    <2> QED
      BY <2>5, <2>6, <2>7, <2>8 DEF Turn, r
  <1>2. CASE ~ \E t \in DOMAIN s.fut : FirstPending(s, t)
    <2>1. WakeNext(s) = s
      BY <1>2 DEF WakeNext
    <2>2. Turn(s, s, {})
      BY DEF Turn, BeforeIn
    <2> QED
      BY <2>1, <2>2
  <1> QED
    BY <1>1, <1>2

\* release() likewise.
LEMMA ReleaseTurn ==
    ASSUME NEW s \in SemType, QueueOK(s)
    PROVE  \E T : Turn(s, Release(s), T) /\ GrantedIn(Release(s)) = GrantedIn(s) \cup T
  <1> DEFINE r == Semaphore(s.value + 1, s.waiters, s.fut)
  <1>1. r \in SemType /\ r.fut = s.fut /\ r.waiters = s.waiters
    BY DEF Semaphore, SemType
  <1>2. Release(s) = WakeNext(r)
    BY DEF Release
  <1> HIDE DEF r
  <1>3. QueueOK(r)
    BY <1>1 DEF QueueOK, InQueue
  <1>4. PICK T : Turn(r, WakeNext(r), T) /\ GrantedIn(WakeNext(r)) = GrantedIn(r) \cup T
    BY <1>1, <1>3, WakeNextTurn
  <1>5. /\ PendingIn(r) = PendingIn(s) /\ GrantedIn(r) = GrantedIn(s)
        /\ BeforeIn(r) = BeforeIn(s)
    BY <1>1 DEF PendingIn, GrantedIn, BeforeIn, Standing
  <1> QED
    BY <1>2, <1>4, <1>5 DEF Turn

\* One who is not pending leaves the queue without a change to the line.
LEMMA DequeueTurn ==
    ASSUME NEW s \in SemType, NEW t \in Conns, InQueue(s, t), QueueOK(s),
           s.fut[t] # "pending"
    PROVE  /\ PendingIn(Dequeue(s, t)) = PendingIn(s)
           /\ BeforeIn(Dequeue(s, t)) = BeforeIn(s)
           /\ GrantedIn(Dequeue(s, t)) = GrantedIn(s) \ {t}
  <1> DEFINE k == CHOOSE i \in DOMAIN s.waiters : s.waiters[i] = t
             w == RemoveAt(s.waiters, k)
             d == Dequeue(s, t)
  <1>1. k \in 1 .. Len(s.waiters) /\ s.waiters[k] = t
    BY DEF InQueue, SemType
  <1>2. d = Semaphore(s.value, w, [s.fut EXCEPT ![t] = "none"])
    BY DEF Dequeue
  <1> HIDE DEF k
  <1>3. /\ w \in Seq(Conns) /\ Len(w) = Len(s.waiters) - 1
        /\ \A j \in 1 .. k-1 : w[j] = s.waiters[j]
        /\ \A j \in k .. Len(s.waiters)-1 : w[j] = s.waiters[j+1]
    BY <1>1, RemoveAtLemma DEF SemType
  <1> HIDE DEF w
  <1>4. d.waiters = w /\ d.fut = [s.fut EXCEPT ![t] = "none"]
    BY <1>2 DEF Semaphore
  <1> HIDE DEF d
  <1>5. PendingIn(d) = PendingIn(s) /\ GrantedIn(d) = GrantedIn(s) \ {t}
    BY <1>4 DEF PendingIn, GrantedIn, SemType
  <1>6. t \notin PendingIn(s)
    BY DEF PendingIn
  <1> DEFINE old(j) == IF j < k THEN j ELSE j+1
             new(j) == IF j < k THEN j ELSE j-1
  <1>7. ASSUME NEW j \in DOMAIN w
        PROVE  old(j) \in DOMAIN s.waiters /\ w[j] = s.waiters[old(j)]
    <2>1. CASE j < k
      BY <1>1, <1>3, <2>1 DEF SemType
    <2>2. CASE ~(j < k)
      <3>1. j \in k .. Len(s.waiters)-1 /\ j+1 \in DOMAIN s.waiters
        BY <1>1, <1>3, <2>2 DEF SemType
      <3> QED
        BY <1>3, <2>2, <3>1
    <2> QED
      BY <2>1, <2>2
  <1>8. \A j \in DOMAIN s.waiters \ {k} : new(j) \in DOMAIN w /\ w[new(j)] = s.waiters[j]
    <2> SUFFICES ASSUME NEW j \in DOMAIN s.waiters \ {k}
                 PROVE  new(j) \in DOMAIN w /\ w[new(j)] = s.waiters[j]
      OBVIOUS
    <2>1. CASE j < k
      BY <1>1, <1>3, <2>1 DEF SemType
    <2>2. CASE j > k
      <3>1. j-1 \in k .. Len(s.waiters)-1 /\ j-1 \in DOMAIN w
        BY <1>1, <1>3, <2>2 DEF SemType
      <3>2. w[j-1] = s.waiters[(j-1)+1] /\ (j-1)+1 = j
        BY <1>3, <3>1
      <3> QED
        BY <2>2, <3>1, <3>2, <1>1
    <2> QED
      BY <1>1, <2>1, <2>2 DEF SemType
  <1>9. \A i, j \in DOMAIN w : i < j => old(i) < old(j)
    BY <1>1, <1>3
  <1>10. \A i, j \in DOMAIN s.waiters \ {k} : i < j => new(i) < new(j)
    BY <1>1 DEF SemType
  <1> HIDE DEF old, new
  <1>11. ASSUME NEW a \in PendingIn(s), NEW b \in PendingIn(s)
         PROVE  Standing(d, a, b) <=> Standing(s, a, b)
    <2>1. ASSUME Standing(d, a, b) PROVE Standing(s, a, b)
      BY <1>4, <1>7, <1>9, <2>1 DEF Standing
    <2>2. ASSUME Standing(s, a, b) PROVE Standing(d, a, b)
      <3>1. PICK i, j \in DOMAIN s.waiters :
               i < j /\ s.waiters[i] = a /\ s.waiters[j] = b
        BY <2>2 DEF Standing
      <3>2. i # k /\ j # k
        BY <1>1, <1>6, <3>1
      <3> QED
        BY <1>4, <1>8, <1>10, <3>1, <3>2 DEF Standing
    <2> QED
      BY <2>1, <2>2
  <1>12. BeforeIn(d) = BeforeIn(s)
    BY <1>5, <1>11 DEF BeforeIn
  <1> QED
    BY <1>5, <1>12 DEF d

\* acquire() that resumes gives up its place and may pass a free slot on.
LEMMA ResumeTurn ==
    ASSUME NEW s \in SemType, NEW t \in Conns, InQueue(s, t), QueueOK(s),
           s.fut[t] = "granted"
    PROVE  \E T : /\ Turn(s, ResumeAcquire(s, t), T)
                  /\ GrantedIn(ResumeAcquire(s, t)) = (GrantedIn(s) \ {t}) \cup T
  <1> DEFINE d == Dequeue(s, t)
  <1>1. d \in SemType /\ QueueOK(d)
    BY DequeueLemma, DequeueQueueOK
  <1>2. /\ PendingIn(d) = PendingIn(s) /\ BeforeIn(d) = BeforeIn(s)
        /\ GrantedIn(d) = GrantedIn(s) \ {t}
    BY DequeueTurn
  <1>3. ResumeAcquire(s, t) \in {d, WakeNext(d)}
    BY DEF ResumeAcquire
  <1> HIDE DEF d
  <1>4. Turn(s, d, {})
    BY <1>2 DEF Turn, BeforeIn
  <1>5. PICK T : Turn(d, WakeNext(d), T) /\ GrantedIn(WakeNext(d)) = GrantedIn(d) \cup T
    BY <1>1, WakeNextTurn
  <1>6. Turn(s, WakeNext(d), T)
    BY <1>2, <1>5 DEF Turn
  <1> QED
    BY <1>2, <1>3, <1>4, <1>5, <1>6

\* A cancelled acquire() that was not pending any more: its slot may go to the
\* first in line.
LEMMA AbandonTurn ==
    ASSUME NEW s \in SemType, NEW t \in Conns, InQueue(s, t), QueueOK(s),
           s.fut[t] # "pending"
    PROVE  \E T : /\ Turn(s, AbandonAcquire(s, t), T)
                  /\ GrantedIn(AbandonAcquire(s, t)) = (GrantedIn(s) \ {t}) \cup T
  <1> DEFINE d == Dequeue(s, t)
  <1>1. d \in SemType /\ QueueOK(d)
    BY DequeueLemma, DequeueQueueOK
  <1>2. /\ PendingIn(d) = PendingIn(s) /\ BeforeIn(d) = BeforeIn(s)
        /\ GrantedIn(d) = GrantedIn(s) \ {t}
    BY DequeueTurn
  <1>3. AbandonAcquire(s, t) \in {d, Release(d)}
    BY DEF AbandonAcquire
  <1> HIDE DEF d
  <1>4. Turn(s, d, {})
    BY <1>2 DEF Turn, BeforeIn
  <1>5. PICK T : Turn(d, Release(d), T) /\ GrantedIn(Release(d)) = GrantedIn(d) \cup T
    BY <1>1, ReleaseTurn
  <1>6. Turn(s, Release(d), T)
    BY <1>2, <1>5 DEF Turn
  <1> QED
    BY <1>2, <1>3, <1>4, <1>5, <1>6

\* A newcomer stands behind everybody in line.
LEMMA EnqueueTurn ==
    ASSUME NEW s \in SemType, NEW t \in Conns, s.fut[t] = "none", QueueOK(s)
    PROVE  /\ PendingIn(Enqueue(s, t)) = PendingIn(s) \cup {t}
           /\ BeforeIn(Enqueue(s, t)) = BeforeIn(s) \cup (PendingIn(s) \X {t})
           /\ GrantedIn(Enqueue(s, t)) = GrantedIn(s)
  <1> DEFINE r == Enqueue(s, t)
             n == Len(s.waiters)
  <1>1. /\ r.waiters = Append(s.waiters, t)
        /\ r.fut = [s.fut EXCEPT ![t] = "pending"]
    BY DEF Enqueue, Semaphore
  <1> HIDE DEF r
  <1>2. /\ n \in Nat /\ DOMAIN s.waiters = 1 .. n /\ DOMAIN r.waiters = 1 .. n+1
        /\ r.waiters[n+1] = t
        /\ \A i \in 1 .. n : r.waiters[i] = s.waiters[i]
    BY <1>1, AppendProperties DEF SemType
  <1>3. \A i \in 1 .. n : s.waiters[i] # t
    BY <1>2 DEF QueueOK, SemType
  <1> HIDE DEF n
  <1>4. PendingIn(r) = PendingIn(s) \cup {t} /\ GrantedIn(r) = GrantedIn(s) /\ t \notin PendingIn(s)
    BY <1>1 DEF PendingIn, GrantedIn, SemType
  <1>5. ASSUME NEW a \in PendingIn(s), NEW b \in PendingIn(s)
        PROVE  Standing(r, a, b) <=> Standing(s, a, b)
    <2>1. ASSUME Standing(r, a, b) PROVE Standing(s, a, b)
      <3>1. PICK i, j \in 1 .. n+1 : i < j /\ r.waiters[i] = a /\ r.waiters[j] = b
        BY <1>2, <2>1 DEF Standing
      <3>2. j # n+1
        BY <1>2, <1>4, <3>1
      <3>3. i \in 1 .. n /\ j \in 1 .. n
        BY <1>2, <3>1, <3>2
      <3> QED
        BY <1>2, <3>1, <3>3 DEF Standing
    <2>2. ASSUME Standing(s, a, b) PROVE Standing(r, a, b)
      BY <1>2, <2>2 DEF Standing
    <2> QED
      BY <2>1, <2>2
  <1>6. ASSUME NEW a \in PendingIn(s)
        PROVE  Standing(r, a, t)
    <2>1. PICK i \in 1 .. n : s.waiters[i] = a
      BY <1>2 DEF QueueOK, InQueue, PendingIn
    <2>2. i \in 1 .. n+1 /\ n+1 \in 1 .. n+1 /\ i < n+1
      BY <1>2
    <2> QED
      BY <1>2, <2>1, <2>2 DEF Standing
  <1>7. ASSUME NEW b, Standing(r, t, b)
        PROVE  FALSE
    <2>1. PICK i, j \in 1 .. n+1 : i < j /\ r.waiters[i] = t
      BY <1>2, <1>7 DEF Standing
    <2>2. i \in 1 .. n
      BY <1>2, <2>1
    <2> QED
      BY <1>2, <1>3, <2>1, <2>2
  <1>8. BeforeIn(r) = BeforeIn(s) \cup (PendingIn(s) \X {t})
    BY <1>4, <1>5, <1>6, <1>7 DEF BeforeIn
  <1> QED
    BY <1>4, <1>8 DEF r

\* A handler that is cancelled is not in line: shutdown dissolves the line when
\* it cancels, and a cancelled handler does not get in line any more.
LineInv == WakeInv /\ \A c \in Waiting : ~cancel[c]

\* Those served are as many as the slots that are not free.
LEMMA ServedCount ==
    IInv => /\ IsFiniteSet(Served)
            /\ Cardinality(Served) + sem.value = MaxConn
            /\ sem.value \in Nat /\ Cardinality(Served) \in Nat
  <1> SUFFICES ASSUME IInv
               PROVE  /\ IsFiniteSet(Served)
                      /\ Cardinality(Served) + sem.value = MaxConn
                      /\ sem.value \in Nat /\ Cardinality(Served) \in Nat
    OBVIOUS
  <1>1. Served = GrantedIn(sem) \cup Inside /\ GrantedIn(sem) \cap Inside = {}
    BY DEF Served, Granted, GrantedIn, Inside, IInv
  <1>2. /\ IsFiniteSet(Served)
        /\ Cardinality(Served) = Cardinality(GrantedIn(sem)) + Cardinality(Inside)
                                 - Cardinality(GrantedIn(sem) \cap Inside)
    BY <1>1, GrantedFinite, InsideFinite, FS_Union
  <1>3. Cardinality(GrantedIn(sem) \cap Inside) = 0
    BY <1>1, FS_EmptySet
  <1>4. sem.value \in Nat /\ Owned(sem) + Cardinality(Inside) = MaxConn
    BY SemTyped DEF IInv, SemType
  <1> QED
    BY <1>2, <1>3, <1>4, GrantedFinite, InsideFinite DEF Owned

\* The line and those served follow the semaphore and the handlers inside.
LEMMA MappedNext ==
    /\ Waiting' = PendingIn(sem') /\ Ahead' = BeforeIn(sem')
    /\ Served' = GrantedIn(sem') \cup Inside'
  <1>1. Waiting' = PendingIn(sem') /\ Ahead' = BeforeIn(sem') /\ Granted' = GrantedIn(sem')
    BY DEF Waiting, Ahead, PendingIn, BeforeIn, Standing, Granted, GrantedIn
  <1> QED
    BY <1>1 DEF Served

\* The same count in the next state.
LEMMA ServedCountNext ==
    IInv' => /\ IsFiniteSet(Served')
             /\ Cardinality(Served') + sem.value' = MaxConn
             /\ sem.value' \in Nat /\ Cardinality(Served') \in Nat
  <1>1. (IInv => /\ IsFiniteSet(Served)
                 /\ Cardinality(Served) + sem.value = MaxConn
                 /\ sem.value \in Nat /\ Cardinality(Served) \in Nat)'
    BY ServedCount, PTL
  <1> QED
    BY <1>1

\* Admission counts as this module does.
LEMMA SameCardinality == \A S : A!Cardinality(S) = Cardinality(S)
  BY DEF A!Cardinality, Cardinality

\* A step that takes a turn, and lets some of those served go, is a step of Admission.
LEMMA TurnIsTaken ==
    ASSUME IInv', NEW leaving \in SUBSET Served, NEW T, Turn(sem, sem', T),
           Served' = (Served \ leaving) \cup T
    PROVE  A!Next
  <1>1. /\ Waiting' = Waiting \ T /\ T \in SUBSET Waiting
        /\ Ahead' = Ahead \cap (Waiting' \X Waiting')
        /\ \A p \in Ahead : p[2] \in T => p[1] \in T
    BY Mapped, MappedNext DEF Turn
  <1>2. Cardinality(Served') <= MaxConn
    BY ServedCountNext
  <1>3. A!TakeTurns(leaving, T)
    BY <1>1, <1>2, SameCardinality DEF A!TakeTurns
  <1> QED
    BY <1>1, <1>3 DEF A!Next

\* What a step may do to the line and to those served: leave both alone, or one
\* of the four steps of Admission; and whom it may cancel.
Takes(leaving) == \E T : /\ Turn(sem, sem', T)
                         /\ Served' = (Served \ leaving) \cup T

LineStep ==
    \/ UNCHANGED <<Waiting, Ahead, Served>> /\ \A c \in Conns : cancel'[c] => cancel[c]
    \/ /\ \E leaving \in SUBSET Served : Takes(leaving)
       /\ \A c \in Conns : cancel'[c] => cancel[c]
    \/ \E c \in Conns : A!ServeAtOnce(c) /\ UNCHANGED cancel
    \/ \E c \in Conns : A!GetInLine(c) /\ ~cancel'[c] /\ UNCHANGED cancel
    \/ A!Dissolve

\* The steps of a handler and of shutdown, as seen by the clients.
LEMMA StepOfLine ==
    ASSUME LineInv, [Next]_vars
    PROVE  LineStep
  <1>0. /\ TypeOK /\ sem \in SemType /\ IInv /\ QueueOK(sem) /\ Alert(sem)
        /\ pc \in [Conns -> PcStates] /\ cancel \in [Conns -> BOOLEAN]
    BY SemTyped DEF LineInv, WakeInv, IInv, TypeOK
  <1>s. Served = GrantedIn(sem) \cup Inside
    BY Mapped DEF Served
  <1>1. CASE sem' = sem /\ Inside' = Inside /\ cancel' = cancel
    <2>1. UNCHANGED <<Waiting, Ahead, Served>>
      BY <1>1, <1>s, Mapped, MappedNext
    <2> QED
      BY <1>1, <2>1 DEF LineStep
  <1>2. CASE CancelAll
    <2> DEFINE left == {c \in Conns : pc[c] \notin {"idle", "done"}}
    <2>1. sem' = CancelPending(sem, left) /\ pc' = pc
      BY <1>2 DEF CancelAll
    <2>2. \A c \in Conns : sem.fut[c] = "pending" => c \in left
      BY <1>0 DEF IInv
    <2> HIDE DEF left
    <2>3. sem'.fut = [t \in Conns |-> IF t \in left /\ sem.fut[t] = "pending"
                                      THEN "cancelled" ELSE sem.fut[t]]
      BY <1>0, <2>1 DEF CancelPending, Semaphore, SemType
    <2>4. PendingIn(sem') = {} /\ GrantedIn(sem') = GrantedIn(sem)
      BY <2>2, <2>3 DEF PendingIn, GrantedIn
    <2>5. BeforeIn(sem') = {}
      BY <2>4 DEF BeforeIn
    <2>6. Inside' = Inside
      BY <2>1 DEF Inside
    <2>7. A!Dissolve
      BY <1>s, <2>4, <2>5, <2>6, Mapped, MappedNext DEF A!Dissolve
    <2> QED
      BY <2>7 DEF LineStep
  <1>3. ASSUME NEW c \in Conns, EnterNow(c) PROVE LineStep
    <2>1. sem.value > 0 /\ ~Locked(sem) /\ pc[c] = "accepted"
      BY <1>0, <1>3 DEF EnterNow, Locked, SemType
    <2>2. sem'.fut = sem.fut /\ sem'.waiters = sem.waiters /\ cancel' = cancel
          /\ pc' = [pc EXCEPT ![c] = "connecting"]
      BY <1>3 DEF EnterNow, EnterBody, TakeSlot, Semaphore
    <2>3. PendingIn(sem) = {}
      BY <1>0, <2>1 DEF Locked, QueueOK, InQueue, PendingIn
    <2>4. /\ PendingIn(sem') = PendingIn(sem) /\ BeforeIn(sem') = BeforeIn(sem)
          /\ GrantedIn(sem') = GrantedIn(sem)
      BY <2>2 DEF PendingIn, BeforeIn, Standing, GrantedIn
    <2>5. Inside' = Inside \cup {c}
      BY <1>0, <2>2 DEF Inside
    <2>6. c \notin Served
      BY <1>0, <1>s, <2>1 DEF GrantedIn, Inside, IInv
    <2>7. Cardinality(Served) < MaxConn
      BY <1>0, <2>1, ServedCount, MaxConnAssumption
    <2>8. A!ServeAtOnce(c)
      BY <1>s, <2>3, <2>4, <2>5, <2>6, <2>7, Mapped, MappedNext, SameCardinality
      DEF A!ServeAtOnce
    <2> QED
      BY <2>2, <2>8 DEF LineStep
  <1>4. ASSUME NEW c \in Conns, Wait(c) PROVE LineStep
    <2>1. pc[c] = "accepted" /\ sem.fut[c] = "none" /\ ~cancel[c]
      BY <1>0, <1>4 DEF Wait, IInv
    <2>2. /\ sem' = Enqueue(sem, c) /\ pc' = [pc EXCEPT ![c] = "waiting"]
          /\ cancel' = cancel
      BY <1>4 DEF Wait
    <2>3. /\ PendingIn(sem') = PendingIn(sem) \cup {c}
          /\ BeforeIn(sem') = BeforeIn(sem) \cup (PendingIn(sem) \X {c})
          /\ GrantedIn(sem') = GrantedIn(sem)
      BY <1>0, <2>1, <2>2, EnqueueTurn
    <2>4. Inside' = Inside
      BY <1>0, <2>1, <2>2 DEF Inside
    <2>5. c \notin Served \cup Waiting
      BY <1>s, <2>1, Mapped DEF GrantedIn, PendingIn, Inside
    <2>6. A!GetInLine(c)
      BY <1>s, <2>3, <2>4, <2>5, Mapped, MappedNext DEF A!GetInLine
    <2> QED
      BY <2>1, <2>2, <2>6 DEF LineStep
  <1>5. ASSUME NEW c \in Conns, EnterGranted(c) PROVE LineStep
    <2>1. pc[c] = "waiting" /\ sem.fut[c] = "granted" /\ InQueue(sem, c)
      BY <1>0, <1>5 DEF EnterGranted, IInv
    <2>2. /\ sem' = ResumeAcquire(sem, c) /\ cancel' = cancel
          /\ pc' = [pc EXCEPT ![c] = "connecting"]
      BY <1>5 DEF EnterGranted, EnterBody
    <2>3. PICK T : /\ Turn(sem, sem', T)
                   /\ GrantedIn(sem') = (GrantedIn(sem) \ {c}) \cup T
      BY <1>0, <2>1, <2>2, ResumeTurn
    <2>4. Inside' = Inside \cup {c} /\ c \in GrantedIn(sem)
      BY <1>0, <2>1, <2>2 DEF Inside, GrantedIn
    <2>5. Served' = (Served \ {}) \cup T
      BY <1>s, <2>3, <2>4, MappedNext
    <2> QED
      BY <2>2, <2>3, <2>5 DEF Takes, LineStep
  <1>6. ASSUME NEW c \in Conns, c \in Inside, Leave(c) PROVE LineStep
    <2>1. /\ sem' = Release(sem) /\ cancel' = [cancel EXCEPT ![c] = FALSE]
          /\ pc' = [pc EXCEPT ![c] = "done"]
      BY <1>6 DEF Leave
    <2>2. PICK T : Turn(sem, sem', T) /\ GrantedIn(sem') = GrantedIn(sem) \cup T
      BY <1>0, <2>1, ReleaseTurn
    <2>3. Inside' = Inside \ {c}
      BY <1>0, <2>1 DEF Inside
    <2>4. c \notin GrantedIn(sem) /\ c \in Served
      BY <1>0, <1>6, <1>s DEF Inside, GrantedIn, IInv
    <2>5. Served' = (Served \ {c}) \cup T
      BY <1>s, <2>2, <2>3, <2>4, MappedNext
    <2>6. \A d \in Conns : cancel'[d] => cancel[d]
      BY <1>0, <2>1
    <2> QED
      BY <2>2, <2>4, <2>5, <2>6 DEF Takes, LineStep
  <1>7. ASSUME NEW c \in Conns, CancelledOutside(c) PROVE LineStep
    <2>1. /\ cancel' = [cancel EXCEPT ![c] = FALSE] /\ pc' = [pc EXCEPT ![c] = "done"]
          /\ pc[c] \in {"accepted", "waiting"} /\ cancel[c]
      BY <1>7 DEF CancelledOutside
    <2>2. \A d \in Conns : cancel'[d] => cancel[d]
      BY <1>0, <2>1
    <2>3. Inside' = Inside
      BY <1>0, <2>1 DEF Inside
    <2>4. CASE pc[c] # "waiting"
      <3>1. sem' = sem
        BY <1>7, <2>4 DEF CancelledOutside
      <3> QED
        BY <1>s, <2>2, <2>3, <3>1, Mapped, MappedNext DEF LineStep
    <2>5. CASE pc[c] = "waiting"
      <3>1. sem' = AbandonAcquire(sem, c) /\ InQueue(sem, c)
        BY <1>0, <1>7, <2>5 DEF CancelledOutside, IInv
      <3>2. sem.fut[c] # "pending"
        BY <2>1 DEF LineInv, Waiting
      <3>3. PICK T : /\ Turn(sem, sem', T)
                     /\ GrantedIn(sem') = (GrantedIn(sem) \ {c}) \cup T
        BY <1>0, <3>1, <3>2, AbandonTurn
      <3>4. c \notin Inside
        BY <2>5 DEF Inside
      <3>5. Served' = (Served \ (Served \cap {c})) \cup T
        BY <1>s, <2>3, <3>3, <3>4, MappedNext
      <3> QED
        BY <2>2, <3>3, <3>5 DEF Takes, LineStep
    <2> QED
      BY <2>4, <2>5
  <1>8. ASSUME NEW c \in Conns, Accept(c) \/ Connected(c) PROVE LineStep
    <2>1. sem' = sem /\ cancel' = cancel
      BY <1>8 DEF Accept, Connected
    <2>2. Inside' = Inside
      BY <1>0, <1>8 DEF Accept, Connected, Inside
    <2> QED
      BY <1>1, <2>1, <2>2
  <1>9. ASSUME NEW c \in Conns, NEW d \in Directions, RelayEnds(c, d) PROVE LineStep
    BY <1>1, <1>9 DEF RelayEnds, Inside
  <1>10. CASE Stop \/ Terminated \/ UNCHANGED vars
    BY <1>1, <1>10 DEF Stop, Terminated, vars, Inside
  <1>11. ASSUME NEW c \in Conns, ConnectFails(c) \/ RelaysDone(c) PROVE LineStep
    BY <1>6, <1>11 DEF ConnectFails, RelaysDone, Inside
  <1> QED
    BY <1>2, <1>3, <1>4, <1>5, <1>7, <1>8, <1>9, <1>10, <1>11 DEF Next, HandlerStep

\* Every step preserves it.
LEMMA StepLineInv == LineInv /\ [Next]_vars => LineInv'
  <1> SUFFICES ASSUME LineInv, [Next]_vars PROVE \A c \in Waiting' : ~cancel'[c]
    BY StepWakeInv DEF LineInv
  <1>0. Waiting \subseteq Conns /\ Waiting' \subseteq Conns
    BY DEF Waiting
  <1>1. ASSUME NEW leaving, Takes(leaving) PROVE Waiting' \subseteq Waiting
    BY <1>1, Mapped, MappedNext DEF Takes, Turn
  <1> QED
    BY <1>0, <1>1, StepOfLine DEF LineStep, LineInv, A!ServeAtOnce, A!GetInLine, A!Dissolve

\* PepProxy implements Admission, for any number of clients and any
\* max_connections: no more than max_connections are served, none of those
\* that queue is overtaken, and none is passed over while a slot is free for
\* a newcomer; cancelled tasks and shutdown change none of it.
THEOREM ImplementsAdmission == Spec => Admits
  <1>1. Init => LineInv
    <2> SUFFICES ASSUME Init PROVE LineInv
      OBVIOUS
    <2>1. sem.waiters = <<>> /\ sem.fut = [c \in Conns |-> "none"]
      BY DEF Init, NewSemaphore, Semaphore
    <2>2. QueueOK(sem) /\ Alert(sem) /\ Waiting = {}
      BY <2>1 DEF QueueOK, Alert, HasPending, Waiting
    <2> QED
      BY <2>2, InitIInv DEF LineInv, WakeInv
  <1>2. Init => A!Init
    <2> SUFFICES ASSUME Init PROVE A!Init
      OBVIOUS
    <2>1. sem.fut = [c \in Conns |-> "none"] /\ pc = [c \in Conns |-> "idle"]
      BY DEF Init, NewSemaphore, Semaphore
    <2> QED
      BY <2>1 DEF A!Init, Waiting, Ahead, Served, Granted, Inside
  <1>3. LineInv /\ LineInv' /\ [Next]_vars => [A!Next]_(A!vars)
    <2> SUFFICES ASSUME LineInv, LineInv', [Next]_vars PROVE [A!Next]_(A!vars)
      OBVIOUS
    <2>1. IInv'
      BY DEF LineInv, WakeInv
    <2>2. ASSUME NEW leaving \in SUBSET Served, Takes(leaving) PROVE A!Next
      BY <2>1, <2>2, TurnIsTaken DEF Takes
    <2> QED
      BY <2>2, StepOfLine DEF LineStep, A!Next, A!vars
  <1> QED
    BY <1>1, <1>2, <1>3, StepLineInv, PTL DEF Spec, Admits, A!Spec
=============================================================================
