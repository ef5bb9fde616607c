--------------------------- MODULE PepRelayProofs ---------------------------
(***************************************************************************)
(* Proofs about PepRelay, for any number of chunks and any marks: types,   *)
(* bounded buffers, honest counters, uploads handed over, and that         *)
(* PepRelay implements ByteRelay.                                          *)
(***************************************************************************)
EXTENDS PepRelay, SequenceTheorems, TLAPS

\* What the transport to the other end was given of the chunks of e.
Took(e) == Len(got[Other(e)]) + Len(wbuf[Other(e)]) + lost[Other(e)]

\* What is read was received, and what is received was sent.
Flow(e) ==
    /\ rcvd[e] <= sent[e] /\ taken[e] <= rcvd[e]
    /\ rcvd[e] - taken[e] <= ReadLimit + 1

\* As long as the other transport is not lost it was given all that was read.
Passed(e) ==
    /\ Took(e) <= taken[e]
    /\ tr[Other(e)] \in {"open", "closing"} => Took(e) = taken[e] /\ lost[Other(e)] = 0
    /\ rx[Other(e)] = "exc" => tr[Other(e)] = "gone"

\* The counter trails by one chunk while that chunk is in drain().
Account(e) ==
    /\ counted[e] \in Took(e) - 1 .. Took(e)
    /\ relay[e] = "reading" => counted[e] = Took(e)
    /\ relay[e] = "draining" => counted[e] = Took(e) - 1
    /\ relay[e] = "yielding" /\ tr[Other(e)] # "gone" => counted[e] = Took(e) - 1

\* A relay reads on only when the other buffer is below its mark.
Calm(e) ==
    /\ Len(wbuf[Other(e)]) <= HighWater + 1
    /\ ~paused[Other(e)] => Len(wbuf[Other(e)]) <= HighWater
    /\ relay[e] = "reading" /\ tr[Other(e)] \in {"open", "closing"} => ~paused[Other(e)]

\* The socket was given the first chunks, and the buffer holds the next.
InOrder(e) ==
    /\ \A i \in 1 .. Len(got[Other(e)]) : got[Other(e)][i] = i
    /\ \A i \in 1 .. Len(wbuf[Other(e)]) : wbuf[Other(e)][i] = Len(got[Other(e)]) + i

RelayInv == TypeOK /\ \A e \in Ends : Flow(e) /\ Passed(e) /\ Account(e) /\ Calm(e) /\ InOrder(e)

LEMMA Ends2 ==
    ASSUME NEW e \in Ends
    PROVE  Other(e) \in Ends /\ Other(Other(e)) = e /\ Other(e) # e
           /\ \A x \in Ends : x = e \/ x = Other(e)
  BY DEF Ends, Other

LEMMA InitRelayInv == Init => RelayInv
<1> SUFFICES ASSUME Init PROVE RelayInv
  OBVIOUS
<1>1. TypeOK
  BY LimitsAssumption DEF Init, TypeOK, TrStates, RelayStates, HandlerStates
<1>2. ASSUME NEW e \in Ends PROVE Flow(e) /\ Passed(e) /\ Account(e) /\ Calm(e) /\ InOrder(e)
  BY Ends2, LimitsAssumption DEF Init, Flow, Passed, Account, Calm, InOrder, Took
<1> QED
  BY <1>1, <1>2 DEF RelayInv

\* Neither a peer nor the arrival of data moves a chunk through the proxy.
LEMMA ReceiveInv ==
    ASSUME NEW e \in Ends, RelayInv, PeerStep(e) \/ ReceiveChunk(e) \/ ReceiveFin(e)
    PROVE  RelayInv'
<1> USE LimitsAssumption DEF RelayInv
<1>1. UNCHANGED <<lost, taken, tr, wbuf, paused, got, relay, counted, handler>>
  BY DEF PeerStep, PeerSends, PeerHalfCloses, PeerResets, ReceiveChunk, ReceiveFin
<1>2. fin' \in [Ends -> BOOLEAN]
  BY DEF TypeOK, PeerStep, PeerSends, PeerHalfCloses, PeerResets, ReceiveChunk, ReceiveFin
<1>3. reset' \in [Ends -> BOOLEAN]
  BY DEF TypeOK, PeerStep, PeerSends, PeerHalfCloses, PeerResets, ReceiveChunk, ReceiveFin
<1>4. /\ sent' \in [Ends -> 0 .. MaxChunks] /\ rcvd' \in [Ends -> 0 .. MaxChunks]
      /\ rx' \in [Ends -> {"ok", "eof", "exc"}]
      /\ \A x \in Ends : Flow(x)' /\ (rx'[x] = "exc" => rx[x] = "exc")
  <2>1. CASE PeerSends(e)
    <3>1. sent[e] + 1 \in 0 .. MaxChunks
      BY <2>1 DEF PeerSends, TypeOK
    <3>2. sent' \in [Ends -> 0 .. MaxChunks] /\ \A x \in Ends : sent[x] <= sent'[x]
      BY <2>1, <3>1, SMTT(20) DEF PeerSends, TypeOK
    <3> QED
      BY <2>1, <3>2 DEF PeerSends, TypeOK, Flow
  <2>2. CASE PeerHalfCloses(e) \/ PeerResets(e)
    <3>1. UNCHANGED <<sent, rcvd, rx>>
      BY <2>2 DEF PeerHalfCloses, PeerResets
    <3> QED
      BY <1>1, <3>1 DEF TypeOK, Flow
  <2>3. CASE ReceiveChunk(e)
    <3>1. /\ rcvd' \in [Ends -> 0 .. MaxChunks]
          /\ \A x \in Ends : rcvd'[x] = IF x = e THEN rcvd[x] + 1 ELSE rcvd[x]
      BY <2>3 DEF ReceiveChunk, TypeOK
    <3>2. rcvd[e] < sent[e] /\ rcvd[e] - taken[e] <= ReadLimit
      BY <2>3 DEF ReceiveChunk, Reads
    <3>3. UNCHANGED <<sent, rx>>
      BY <2>3 DEF ReceiveChunk
    <3> QED
      <4>1. ASSUME NEW x \in Ends PROVE Flow(x)'
        <5>1. /\ rcvd[x] \in Int /\ taken[x] \in Int /\ sent[x] \in Int /\ ReadLimit \in Int
              /\ rcvd[x] <= sent[x] /\ taken[x] <= rcvd[x] /\ rcvd[x] - taken[x] <= ReadLimit + 1
          BY DEF TypeOK, Flow
        <5> QED
          BY <1>1, <3>1, <3>2, <3>3, <5>1 DEF Flow
      <4> QED
        BY <3>1, <3>3, <4>1 DEF TypeOK
  <2>4. CASE ReceiveFin(e)
    <3>1. UNCHANGED <<sent, rcvd>> /\ rx' = [rx EXCEPT ![e] = "eof"]
      BY <2>4 DEF ReceiveFin
    <3> QED
      BY <1>1, <3>1 DEF TypeOK, Flow
  <2> QED
    BY <2>1, <2>2, <2>3, <2>4 DEF PeerStep
<1>5. TypeOK'
  BY <1>1, <1>2, <1>3, <1>4 DEF TypeOK
<1>6. \A x \in Ends : Passed(x)' /\ Account(x)' /\ Calm(x)' /\ InOrder(x)'
  BY <1>1, <1>4, Ends2 DEF Passed, Account, Calm, InOrder, Took
<1> QED
  BY <1>4, <1>5, <1>6

\* A direction keeps its invariant in a step that touches nothing of it.
LEMMA Untouched ==
    ASSUME NEW x \in Ends, RelayInv,
           rcvd'[x] = rcvd[x], sent'[x] = sent[x], taken'[x] = taken[x],
           counted'[x] = counted[x], relay'[x] = relay[x],
           tr'[Other(x)] = tr[Other(x)], rx'[Other(x)] = rx[Other(x)],
           wbuf'[Other(x)] = wbuf[Other(x)], paused'[Other(x)] = paused[Other(x)],
           got'[Other(x)] = got[Other(x)], lost'[Other(x)] = lost[Other(x)]
    PROVE  Flow(x)' /\ Passed(x)' /\ Account(x)' /\ Calm(x)' /\ InOrder(x)'
<1> DEFINE o == Other(x)
<1>1. Flow(x)'
  BY DEF RelayInv, Flow
<1>2. Took(x)' = Took(x)
  BY DEF Took
<1>3. Passed(x)' /\ Account(x)'
  BY <1>2 DEF RelayInv, Passed, Account
<1>4. Calm(x)'
  BY DEF RelayInv, Calm
<1>5. InOrder(x)'
  BY DEF RelayInv, InOrder
<1> QED
  BY <1>1, <1>3, <1>4, <1>5

\* The chunks that a broken connection takes along were taken by it.
LEMMA NoticeResetInv ==
    ASSUME NEW e \in Ends, RelayInv, NoticeReset(e)
    PROVE  RelayInv'
<1> DEFINE r == Other(e)
<1> USE LimitsAssumption
<1>0. r \in Ends /\ Other(r) = e /\ r # e /\ \A x \in Ends : x = e \/ x = r
  BY Ends2
<1>1. UNCHANGED <<sent, fin, reset, rcvd, taken, rx, paused, got, relay, counted, handler>>
  BY DEF NoticeReset
<1>2. /\ wbuf[e] \in Seq(1 .. MaxChunks) /\ got[e] \in Seq(1 .. MaxChunks)
      /\ taken[r] \in 0 .. MaxChunks /\ lost[e] \in Nat
  BY <1>0 DEF RelayInv, TypeOK
<1>3. tr[e] \in {"open", "closing"} /\ lost[e] = 0 /\ Took(r) = taken[r]
  BY <1>0 DEF RelayInv, Passed, NoticeReset, Reads
<1>4. Len(wbuf[e]) \in 0 .. MaxChunks
  <2>1. Len(wbuf[e]) \in Nat /\ Len(got[e]) \in Nat
    BY <1>2
  <2>2. Len(got[e]) + Len(wbuf[e]) + lost[e] = taken[r]
    BY <1>0, <1>3 DEF Took
  <2>3. lost[e] \in Nat /\ taken[r] \in 0 .. MaxChunks
    BY <1>2
  <2> DEFINE b == Len(wbuf[e])
             g == Len(got[e])
             t == taken[r]
             l == lost[e]
  <2>4. b \in Nat /\ g \in Nat /\ l \in Nat /\ t \in 0 .. MaxChunks /\ g + b + l = t
    BY <2>1, <2>2, <2>3
  <2> HIDE DEF b, g, t, l
  <2>5. b \in 0 .. MaxChunks
    BY <2>4
  <2> QED
    BY <2>5 DEF b
<1>5. /\ tr' \in [Ends -> TrStates] /\ wbuf' \in [Ends -> Seq(1 .. MaxChunks)]
      /\ lost' \in [Ends -> 0 .. MaxChunks]
      /\ tr'[e] = "lostExc" /\ wbuf'[e] = <<>> /\ lost'[e] = Len(wbuf[e])
      /\ tr'[r] = tr[r] /\ wbuf'[r] = wbuf[r] /\ lost'[r] = lost[r]
  BY <1>0, <1>4, SMTT(20) DEF NoticeReset, RelayInv, TypeOK, TrStates
<1>6. TypeOK'
  BY <1>1, <1>5 DEF RelayInv, TypeOK
<1>7. Took(r)' = Took(r)
  BY <1>0, <1>1, <1>2, <1>3, <1>5 DEF Took
<1>8. Flow(r)' /\ Passed(r)' /\ Account(r)'
  BY <1>0, <1>1, <1>3, <1>5, <1>7 DEF RelayInv, Flow, Passed, Account
<1>9. Calm(r)' /\ InOrder(r)'
  BY <1>0, <1>1, <1>3, <1>5 DEF RelayInv, Calm, InOrder
<1>10. Flow(e)' /\ Passed(e)' /\ Account(e)' /\ Calm(e)' /\ InOrder(e)'
  BY <1>0, <1>1, <1>5, Untouched
<1> QED
  BY <1>0, <1>6, <1>8, <1>9, <1>10 DEF RelayInv

\* A chunk moves from the buffer to the socket.
LEMMA FlushInv ==
    ASSUME NEW e \in Ends, RelayInv, Flush(e)
    PROVE  RelayInv'
<1> DEFINE r == Other(e)
<1> USE LimitsAssumption
<1>0. r \in Ends /\ Other(r) = e /\ r # e /\ \A x \in Ends : x = e \/ x = r
  BY Ends2
<1>1. UNCHANGED <<lost, sent, fin, reset, rcvd, taken, relay, counted, handler>>
  BY DEF Flush
<1>2. wbuf[e] \in Seq(1 .. MaxChunks) /\ got[e] \in Seq(1 .. MaxChunks) /\ wbuf[e] # <<>>
      /\ lost[e] \in Nat
  BY <1>0 DEF RelayInv, TypeOK, Flush
<1>3. /\ Tail(wbuf[e]) \in Seq(1 .. MaxChunks)
      /\ Append(got[e], Head(wbuf[e])) \in Seq(1 .. MaxChunks)
      /\ Len(wbuf[e]) \in Nat \ {0} /\ Len(Tail(wbuf[e])) = Len(wbuf[e]) - 1
      /\ Len(Append(got[e], Head(wbuf[e]))) = Len(got[e]) + 1
  <2>1. /\ Head(wbuf[e]) \in 1 .. MaxChunks /\ Tail(wbuf[e]) \in Seq(1 .. MaxChunks)
        /\ Len(Tail(wbuf[e])) = Len(wbuf[e]) - 1
    BY <1>2, HeadTailProperties
  <2>2. Len(wbuf[e]) \in Nat \ {0}
    BY <1>2, EmptySeq
  <2>3. /\ Append(got[e], Head(wbuf[e])) \in Seq(1 .. MaxChunks)
        /\ Len(Append(got[e], Head(wbuf[e]))) = Len(got[e]) + 1
    BY <1>2, <2>1, AppendProperties
  <2> QED
    BY <2>1, <2>2, <2>3
<1>4. /\ wbuf' \in [Ends -> Seq(1 .. MaxChunks)] /\ got' \in [Ends -> Seq(1 .. MaxChunks)]
      /\ wbuf'[e] = Tail(wbuf[e]) /\ got'[e] = Append(got[e], Head(wbuf[e]))
      /\ wbuf'[r] = wbuf[r] /\ got'[r] = got[r]
  BY <1>0, <1>3 DEF Flush, RelayInv, TypeOK
<1>5. /\ paused' = [paused EXCEPT ![e] = paused[e] /\ Len(wbuf[e]) - 1 > LowWater]
  BY DEF Flush
<1>6. paused' \in [Ends -> BOOLEAN] /\ paused'[r] = paused[r]
      /\ (paused'[e] <=> paused[e] /\ Len(wbuf[e]) - 1 > LowWater)
  <2>1. paused \in [Ends -> BOOLEAN]
    BY DEF RelayInv, TypeOK
  <2>2. (paused[e] /\ Len(wbuf[e]) - 1 > LowWater) \in BOOLEAN
    OBVIOUS
  <2> QED
    BY <1>0, <1>5, <2>1, <2>2, Zenon
<1>7. /\ tr' \in [Ends -> TrStates] /\ rx' \in [Ends -> {"ok", "eof", "exc"}]
      /\ tr'[r] = tr[r] /\ rx'[r] = rx[r]
      /\ \/ tr'[e] = tr[e] /\ rx'[e] = rx[e]
         \/ tr'[e] = "gone" /\ rx'[e] = "eof"
  <2>1. tr \in [Ends -> TrStates] /\ rx \in [Ends -> {"ok", "eof", "exc"}] /\ "gone" \in TrStates
    BY DEF RelayInv, TypeOK, TrStates
  <2>2. \/ tr' = [tr EXCEPT ![e] = "gone"] /\ rx' = [rx EXCEPT ![e] = "eof"]
        \/ UNCHANGED <<tr, rx>>
    BY DEF Flush
  <2> QED
    BY <1>0, <2>1, <2>2
<1>8. TypeOK'
  BY <1>1, <1>4, <1>6, <1>7 DEF RelayInv, TypeOK
<1>9. Took(r)' = Took(r)
  <2>1. Len(got[e]) \in Nat
    BY <1>2
  <2>2. Len(got'[e]) = Len(got[e]) + 1 /\ Len(wbuf'[e]) = Len(wbuf[e]) - 1
    BY <1>3, <1>4
  <2>3. Len(wbuf[e]) \in Nat /\ lost[e] \in Nat /\ lost'[e] = lost[e]
    BY <1>1, <1>2
  <2> DEFINE b == Len(wbuf[e])
             g == Len(got[e])
             l == lost[e]
  <2>4. Took(r) = g + b + l /\ Took(r)' = (g + 1) + (b - 1) + l
    BY <1>0, <2>2, <2>3 DEF Took
  <2>5. b \in Nat /\ g \in Nat /\ l \in Nat
    BY <2>1, <2>3
  <2> HIDE DEF b, g, l
  <2> QED
    BY <2>4, <2>5
<1>10. Flow(r)' /\ Passed(r)' /\ Account(r)'
  BY <1>0, <1>1, <1>7, <1>9 DEF RelayInv, Flow, Passed, Account
<1>11. Calm(r)'
  <2>1. Len(wbuf[e]) <= HighWater + 1 /\ (~paused[e] => Len(wbuf[e]) <= HighWater)
    BY <1>0 DEF RelayInv, Calm
  <2>2. Len(wbuf'[e]) = Len(wbuf[e]) - 1 /\ Len(wbuf'[e]) <= HighWater
    BY <1>3, <1>4, <2>1
  <2>3. relay'[r] = "reading" /\ tr'[e] \in {"open", "closing"} => ~paused'[e]
    BY <1>0, <1>1, <1>6, <1>7 DEF RelayInv, Calm
  <2> QED
    BY <1>0, <2>2, <2>3 DEF Calm
<1>12. InOrder(r)'
  <2>1. /\ \A i \in 1 .. Len(got[e]) : got[e][i] = i
        /\ \A i \in 1 .. Len(wbuf[e]) : wbuf[e][i] = Len(got[e]) + i
    BY <1>0 DEF RelayInv, InOrder
  <2>2. Head(wbuf[e]) = Len(got[e]) + 1
    BY <1>2, <1>3, <2>1
  <2>3. \A i \in 1 .. Len(got'[e]) : got'[e][i] = i
    <3> DEFINE s == got[e]
               c == Head(wbuf[e])
    <3>1. s \in Seq(1 .. MaxChunks) /\ c \in 1 .. MaxChunks /\ Len(s) \in Nat
      BY <1>2, HeadTailProperties
    <3>2. \A i \in 1 .. Len(s) : Append(s, c)[i] = s[i]
      BY <3>1, AppendProperties
    <3>3. Append(s, c)[Len(s) + 1] = c /\ Len(Append(s, c)) = Len(s) + 1
      BY <3>1, AppendProperties
    <3>4. \A i \in 1 .. Len(Append(s, c)) : i \in 1 .. Len(s) \/ i = Len(s) + 1
      <4> DEFINE n == Len(s)
                 m == Len(Append(s, c))
      <4>1. n \in Nat /\ m = n + 1
        BY <3>1, <3>3
      <4> HIDE DEF n, m
      <4>2. \A i \in 1 .. m : i \in 1 .. n \/ i = n + 1
        BY <4>1
      <4> QED
        BY <4>2 DEF n, m
    <3>5. \A i \in 1 .. Len(s) : s[i] = i
      BY <2>1
    <3>6. c = Len(s) + 1
      BY <2>2
    <3> HIDE DEF s, c
    <3>7. \A i \in 1 .. Len(Append(s, c)) : Append(s, c)[i] = i
      BY <3>2, <3>3, <3>4, <3>5, <3>6
    <3> QED
      BY <1>4, <3>7 DEF s, c
  <2>4. \A i \in 1 .. Len(wbuf'[e]) : wbuf'[e][i] = Len(got'[e]) + i
    BY <1>2, <1>3, <1>4, <2>1
  <2> QED
    BY <1>0, <2>3, <2>4 DEF InOrder
<1>13. Flow(e)' /\ Passed(e)' /\ Account(e)' /\ Calm(e)' /\ InOrder(e)'
  BY <1>0, <1>1, <1>4, <1>6, <1>7, Untouched
<1> QED
  BY <1>0, <1>8, <1>10, <1>11, <1>12, <1>13 DEF RelayInv

\* connection_lost moves no chunk.
LEMMA ConnectionLostInv ==
    ASSUME NEW e \in Ends, RelayInv, ConnectionLost(e)
    PROVE  RelayInv'
<1> DEFINE r == Other(e)
<1>0. r \in Ends /\ Other(r) = e /\ r # e /\ \A x \in Ends : x = e \/ x = r
  BY Ends2
<1>1. UNCHANGED <<lost, sent, fin, reset, rcvd, taken, wbuf, paused, got, relay, counted, handler>>
  BY DEF ConnectionLost
<1>2. /\ tr' \in [Ends -> TrStates] /\ rx' \in [Ends -> {"ok", "eof", "exc"}]
      /\ tr'[e] = "gone" /\ tr'[r] = tr[r] /\ rx'[r] = rx[r]
  BY <1>0 DEF ConnectionLost, RelayInv, TypeOK, TrStates
<1>3. TypeOK'
  BY <1>1, <1>2 DEF RelayInv, TypeOK
<1>4. Flow(r)' /\ Passed(r)' /\ Account(r)' /\ Calm(r)' /\ InOrder(r)'
  BY <1>0, <1>1, <1>2 DEF RelayInv, Flow, Passed, Account, Calm, InOrder, Took
<1>5. Flow(e)' /\ Passed(e)' /\ Account(e)' /\ Calm(e)' /\ InOrder(e)'
  BY <1>0, <1>1, <1>2, Untouched
<1> QED
  BY <1>0, <1>3, <1>4, <1>5 DEF RelayInv

\* A relay that ends closes the other transport; a chunk it had just read is
\* dropped, which happens only when that transport is gone.
LEMMA EndRelayInv ==
    ASSUME NEW e \in Ends, RelayInv, EndRelay(e),
           UNCHANGED <<lost, sent, fin, reset, rcvd, rx, handler>>,
           taken' \in [Ends -> 0 .. MaxChunks], taken'[Other(e)] = taken[Other(e)],
           taken[e] <= taken'[e], taken'[e] <= rcvd[e],
           taken'[e] = taken[e] \/ tr[Other(e)] = "gone"
    PROVE  RelayInv'
<1> DEFINE o == Other(e)
<1> USE LimitsAssumption
<1>0. o \in Ends /\ Other(o) = e /\ o # e /\ \A x \in Ends : x = e \/ x = o
  BY Ends2
<1>1. UNCHANGED <<wbuf, paused, got, counted>>
  BY DEF EndRelay
<1>2. relay' \in [Ends -> RelayStates] /\ relay'[e] = "done" /\ relay'[o] = relay[o]
  BY <1>0 DEF EndRelay, RelayInv, TypeOK, RelayStates
<1>3. /\ tr' \in [Ends -> TrStates] /\ tr'[e] = tr[e]
      /\ tr'[o] \in {"open", "closing"} => tr[o] \in {"open", "closing"}
      /\ tr[o] = "gone" => tr'[o] = "gone"
  BY <1>0 DEF EndRelay, Closed, RelayInv, TypeOK, TrStates
<1>4. TypeOK'
  BY <1>1, <1>2, <1>3 DEF RelayInv, TypeOK
<1>5. Took(e)' = Took(e)
  BY <1>1 DEF Took
<1>6. Flow(e)'
  <2>1. /\ rcvd[e] \in Int /\ taken[e] \in Int /\ taken'[e] \in Int /\ ReadLimit \in Int
        /\ rcvd[e] <= sent[e] /\ rcvd[e] - taken[e] <= ReadLimit + 1
    BY DEF RelayInv, TypeOK, Flow
  <2> QED
    BY <2>1 DEF Flow
<1>7. Passed(e)'
  <2>1. Took(e) <= taken[e] /\ (tr[o] \in {"open", "closing"} => Took(e) = taken[e] /\ lost[o] = 0)
        /\ (rx[o] = "exc" => tr[o] = "gone")
    BY DEF RelayInv, Passed
  <2>2. Took(e) \in Int /\ taken[e] \in Int /\ taken'[e] \in Int
    BY <1>0, SMTT(20) DEF RelayInv, TypeOK, Took
  <2>3. Took(e) <= taken'[e]
    <3> DEFINE w == Took(e)
    <3> HIDE DEF w
    <3>1. w <= taken[e] /\ w \in Int
      BY <2>1, <2>2 DEF w
    <3>2. w <= taken'[e]
      BY <2>2, <3>1
    <3> QED
      BY <3>2 DEF w
  <2>4. tr'[o] \in {"open", "closing"} => Took(e)' = taken'[e] /\ lost'[o] = 0
    BY <1>3, <1>5, <2>1
  <2> QED
    BY <1>3, <1>5, <2>1, <2>3, <2>4 DEF Passed
<1>8. Account(e)' /\ Calm(e)' /\ InOrder(e)'
  BY <1>0, <1>1, <1>2, <1>5 DEF RelayInv, Account, Calm, InOrder
<1>9. Flow(o)' /\ Passed(o)' /\ Account(o)' /\ Calm(o)' /\ InOrder(o)'
  BY <1>0, <1>1, <1>2, <1>3, Untouched
<1> QED
  BY <1>0, <1>4, <1>6, <1>7, <1>8, <1>9 DEF RelayInv

\* A relay that never ran ends without a word to the other transport.
LEMMA EndUnbegunInv ==
    ASSUME NEW e \in Ends, RelayInv, EndUnbegun(e),
           UNCHANGED <<lost, sent, fin, reset, rcvd, taken, rx, handler>>
    PROVE  RelayInv'
<1> DEFINE o == Other(e)
<1>0. o \in Ends /\ Other(o) = e /\ o # e /\ \A x \in Ends : x = e \/ x = o
  BY Ends2
<1>1. UNCHANGED <<tr, wbuf, paused, got, counted>>
  BY DEF EndUnbegun
<1>2. relay' \in [Ends -> RelayStates] /\ relay'[e] = "done" /\ relay'[o] = relay[o]
  BY <1>0 DEF EndUnbegun, RelayInv, TypeOK, RelayStates
<1>3. TypeOK'
  BY <1>1, <1>2 DEF RelayInv, TypeOK
<1>4. Took(e)' = Took(e)
  BY <1>1 DEF Took
<1>5. Flow(e)' /\ Passed(e)' /\ Account(e)' /\ Calm(e)' /\ InOrder(e)'
  BY <1>0, <1>1, <1>2, <1>4 DEF RelayInv, Flow, Passed, Account, Calm, InOrder
<1>6. Flow(o)' /\ Passed(o)' /\ Account(o)' /\ Calm(o)' /\ InOrder(o)'
  BY <1>0, <1>1, <1>2, Untouched
<1> QED
  BY <1>0, <1>3, <1>5, <1>6 DEF RelayInv

\* A relay that returns from drain() to its read counts the chunk it owed.
LEMMA CountInv ==
    ASSUME NEW e \in Ends, RelayInv, Count(e),
           UNCHANGED <<lost, sent, fin, reset, rcvd, taken, rx, tr, wbuf, paused, got, handler>>,
           counted[e] = Took(e) - 1,
           tr[Other(e)] \in {"open", "closing"} => ~paused[Other(e)]
    PROVE  RelayInv'
<1> DEFINE o == Other(e)
<1> USE LimitsAssumption
<1>0. o \in Ends /\ Other(o) = e /\ o # e /\ \A x \in Ends : x = e \/ x = o
  BY Ends2
<1>1. relay' \in [Ends -> RelayStates] /\ relay'[e] = "reading" /\ relay'[o] = relay[o]
  BY <1>0 DEF Count, RelayInv, TypeOK, RelayStates
<1>2. counted' = [counted EXCEPT ![e] = counted[e] + 1] /\ counted \in [Ends -> 0 .. MaxChunks]
  BY DEF Count, RelayInv, TypeOK
<1>3. counted[e] + 1 = Took(e) /\ counted[e] + 1 \in 0 .. MaxChunks
  <2> DEFINE w == Took(e)
  <2>1. w \in Int /\ taken[e] \in 0 .. MaxChunks
    BY <1>0, SMTT(20) DEF RelayInv, TypeOK, Took
  <2>3. w <= taken[e]
    BY DEF RelayInv, Passed
  <2>4. counted[e] = w - 1 /\ counted[e] \in 0 .. MaxChunks
    BY <1>2
  <2> HIDE DEF w
  <2>2. counted[e] + 1 = w /\ counted[e] + 1 \in 0 .. MaxChunks
    BY <2>1, <2>3, <2>4
  <2> QED
    BY <2>2 DEF w
<1>4. /\ counted' \in [Ends -> 0 .. MaxChunks] /\ counted'[e] = Took(e)
      /\ counted'[o] = counted[o]
  BY <1>0, <1>2, <1>3
<1>5. TypeOK'
  BY <1>1, <1>4 DEF RelayInv, TypeOK
<1>6. Took(e)' = Took(e) /\ Took(e) \in Int
  BY <1>0, SMTT(20) DEF Took, RelayInv, TypeOK
<1>7. Flow(e)' /\ Passed(e)' /\ Calm(e)' /\ InOrder(e)'
  BY <1>0, <1>1, <1>6 DEF RelayInv, Flow, Passed, Calm, InOrder
<1>8. Account(e)'
  <2> DEFINE w == Took(e)
  <2>1. w \in Int /\ Took(e)' = w /\ counted'[e] = w
    BY <1>4, <1>6
  <2> HIDE DEF w
  <2>2. counted'[e] \in w - 1 .. w
    BY <2>1
  <2> QED
    BY <1>1, <2>1, <2>2 DEF Account
<1>9. Flow(o)' /\ Passed(o)' /\ Account(o)' /\ Calm(o)' /\ InOrder(o)'
  BY <1>0, <1>1, <1>4, Untouched
<1> QED
  BY <1>0, <1>5, <1>7, <1>8, <1>9 DEF RelayInv

LEMMA RelayStopsInv ==
    ASSUME NEW e \in Ends, RelayInv, RelayStops(e)
    PROVE  RelayInv'
<1>1. EndRelay(e) /\ UNCHANGED <<lost, sent, fin, reset, rcvd, taken, rx, handler>>
  BY DEF RelayStops
<1>2. /\ taken \in [Ends -> 0 .. MaxChunks] /\ taken[e] \in Int /\ rcvd[e] \in Int
      /\ taken[e] <= rcvd[e]
  BY DEF RelayInv, TypeOK, Flow
<1> QED
  BY <1>1, <1>2, EndRelayInv

\* An interrupt ends a relay wherever it is; the chunk it had in drain() was
\* taken and stays uncounted.
LEMMA RelayCancelledInv ==
    ASSUME NEW e \in Ends, RelayInv, RelayCancelled(e)
    PROVE  RelayInv'
<1>1. UNCHANGED <<lost, sent, fin, reset, rcvd, taken, rx, handler>>
  BY DEF RelayCancelled
<1>2. /\ taken \in [Ends -> 0 .. MaxChunks] /\ taken[e] \in Int /\ rcvd[e] \in Int
      /\ taken[e] <= rcvd[e]
  BY DEF RelayInv, TypeOK, Flow
<1>3. CASE EndRelay(e)
  BY <1>1, <1>2, <1>3, EndRelayInv
<1>4. CASE EndUnbegun(e)
  BY <1>1, <1>4, EndUnbegunInv
<1> QED
  BY <1>3, <1>4 DEF RelayCancelled

LEMMA RelayDrainedInv ==
    ASSUME NEW e \in Ends, RelayInv, RelayDrained(e)
    PROVE  RelayInv'
<1> DEFINE o == Other(e)
<1>1. relay[e] = "draining" /\ UNCHANGED <<lost, sent, fin, reset, rcvd, taken, rx, handler>>
  BY DEF RelayDrained
<1>2. /\ taken \in [Ends -> 0 .. MaxChunks] /\ taken[e] \in Int /\ rcvd[e] \in Int
      /\ taken[e] <= rcvd[e] /\ counted[e] = Took(e) - 1
  BY <1>1 DEF RelayInv, TypeOK, Flow, Account
<1>3. CASE EndRelay(e)
  BY <1>1, <1>2, <1>3, EndRelayInv
<1>4. CASE ~EndRelay(e)
  <2>1. Count(e) /\ UNCHANGED <<tr, wbuf, paused, got>> /\ (~paused[o] \/ tr[o] = "gone")
    BY <1>4 DEF RelayDrained
  <2> QED
    BY <1>1, <1>2, <2>1, CountInv
<1> QED
  BY <1>3, <1>4

LEMMA RelayYieldsInv ==
    ASSUME NEW e \in Ends, RelayInv, RelayYields(e)
    PROVE  RelayInv'
<1> DEFINE o == Other(e)
<1>0. o \in Ends /\ Other(o) = e /\ o # e /\ \A x \in Ends : x = e \/ x = o
  BY Ends2
<1>1. /\ relay[e] \in {"yielding", "yieldingLost"}
      /\ relay[e] = "yieldingLost" => tr[o] = "gone"
      /\ UNCHANGED <<lost, sent, fin, reset, rcvd, taken, rx, handler>>
  BY DEF RelayYields
<1>2. /\ taken \in [Ends -> 0 .. MaxChunks] /\ taken[e] \in Int /\ rcvd[e] \in Int
      /\ taken[e] <= rcvd[e] /\ (tr[o] # "gone" => counted[e] = Took(e) - 1)
  BY <1>1 DEF RelayInv, TypeOK, Flow, Account
<1>3. CASE EndRelay(e)
  BY <1>1, <1>2, <1>3, EndRelayInv
<1>4. CASE Count(e) /\ UNCHANGED <<tr, wbuf, paused, got>> /\ tr[o] # "gone" /\ ~paused[o]
  BY <1>1, <1>2, <1>4, CountInv
<1>5. CASE /\ relay' = [relay EXCEPT ![e] = "draining"] /\ tr[o] # "gone"
           /\ UNCHANGED <<tr, wbuf, paused, got, counted>>
  <2>1. relay' \in [Ends -> RelayStates] /\ relay'[e] = "draining" /\ relay'[o] = relay[o]
    BY <1>0, <1>5 DEF RelayInv, TypeOK, RelayStates
  <2>2. TypeOK'
    BY <1>1, <1>5, <2>1 DEF RelayInv, TypeOK
  <2>3. Took(e)' = Took(e)
    BY <1>1, <1>5 DEF Took
  <2>4. Flow(e)' /\ Passed(e)' /\ Account(e)' /\ Calm(e)' /\ InOrder(e)'
    BY <1>0, <1>1, <1>2, <1>5, <2>1, <2>3 DEF RelayInv, Flow, Passed, Account, Calm, InOrder
  <2>5. Flow(o)' /\ Passed(o)' /\ Account(o)' /\ Calm(o)' /\ InOrder(o)'
    BY <1>0, <1>1, <1>5, <2>1, Untouched
  <2> QED
    BY <1>0, <2>2, <2>4, <2>5 DEF RelayInv
<1> QED
  BY <1>3, <1>4, <1>5 DEF RelayYields

\* What write() makes of the chunk just read: the transport takes it and has it
\* handed over or buffered behind the others, or the connection is lost.
LEMMA WriteEffect ==
    ASSUME NEW e \in Ends, RelayInv, relay[e] = "reading", taken[e] < rcvd[e],
           Write(Other(e), taken[e] + 1), taken' = [taken EXCEPT ![e] = @ + 1],
           UNCHANGED <<lost, sent, fin, reset, rcvd, rx, handler>>
    PROVE  /\ taken' \in [Ends -> 0 .. MaxChunks] /\ taken'[Other(e)] = taken[Other(e)]
           /\ tr' \in [Ends -> TrStates] /\ tr'[e] = tr[e]
           /\ wbuf' \in [Ends -> Seq(1 .. MaxChunks)] /\ wbuf'[e] = wbuf[e]
           /\ got' \in [Ends -> Seq(1 .. MaxChunks)] /\ got'[e] = got[e]
           /\ paused' \in [Ends -> BOOLEAN] /\ paused'[e] = paused[e]
           /\ tr'[Other(e)] \in {"open", "closing"} => Took(e)' = Took(e) + 1
           /\ tr'[Other(e)] \notin {"open", "closing"} => Took(e)' = Took(e)
           /\ Flow(e)' /\ Passed(e)' /\ InOrder(e)'
           /\ Len(wbuf'[Other(e)]) <= HighWater + 1
           /\ ~paused'[Other(e)] => Len(wbuf'[Other(e)]) <= HighWater
<1> DEFINE o == Other(e)
           c == taken[e] + 1
           g == got[o]
           b == wbuf[o]
           ng == Len(g)
           nb == Len(b)
<1> USE LimitsAssumption
<1>0. o \in Ends /\ Other(o) = e /\ o # e /\ \A x \in Ends : x = e \/ x = o
  BY Ends2
<1>1. taken \in [Ends -> 0 .. MaxChunks] /\ rcvd \in [Ends -> 0 .. MaxChunks]
      /\ sent \in [Ends -> 0 .. MaxChunks] /\ lost[o] \in Nat
  BY <1>0, SMTT(20) DEF RelayInv, TypeOK
<1>2. c \in 1 .. MaxChunks
  BY <1>0, <1>1
<1>3. /\ taken' \in [Ends -> 0 .. MaxChunks] /\ taken'[o] = taken[o] /\ taken'[e] = c
  BY <1>0, <1>1, <1>2
<1>4. Flow(e)'
  <2>1. rcvd[e] \in Int /\ taken[e] \in Int /\ sent[e] \in Int /\ ReadLimit \in Int
    BY <1>1
  <2>2. rcvd[e] <= sent[e] /\ rcvd[e] - taken[e] <= ReadLimit + 1
    BY DEF RelayInv, Flow
  <2> QED
    BY <1>3, <2>1, <2>2 DEF Flow
<1>5. /\ g \in Seq(1 .. MaxChunks) /\ b \in Seq(1 .. MaxChunks)
      /\ ng \in Nat /\ nb \in Nat /\ nb <= HighWater + 1
      /\ ~paused[o] => nb <= HighWater
  BY <1>0, SMTT(20) DEF RelayInv, TypeOK, Calm
<1>6. /\ \A i \in 1 .. ng : g[i] = i
      /\ \A i \in 1 .. nb : b[i] = ng + i
  BY DEF RelayInv, InOrder
<1>7. tr[o] \in {"open", "closing"} =>
        /\ ng + nb = taken[e] /\ lost[o] = 0 /\ c = ng + nb + 1 /\ Took(e) = ng + nb
        /\ ~paused[o]
  <2> SUFFICES ASSUME tr[o] \in {"open", "closing"}
               PROVE  /\ ng + nb = taken[e] /\ lost[o] = 0 /\ c = ng + nb + 1
                      /\ Took(e) = ng + nb /\ ~paused[o]
    OBVIOUS
  <2>1. lost[o] = 0 /\ Took(e) = taken[e] /\ ~paused[o]
    BY DEF RelayInv, Passed, Calm
  <2>2. Took(e) = ng + nb + 0
    BY <2>1 DEF Took
  <2> HIDE DEF ng, nb
  <2> QED
    BY <1>5, <2>1, <2>2
<1>8. Took(e) <= taken[e] /\ Took(e) \in Int /\ (rx[o] = "exc" => tr[o] = "gone")
  BY <1>0, <1>1, SMTT(20) DEF RelayInv, TypeOK, Passed, Took
<1>9. tr \in [Ends -> TrStates] /\ wbuf \in [Ends -> Seq(1 .. MaxChunks)]
      /\ got \in [Ends -> Seq(1 .. MaxChunks)]
  BY DEF RelayInv, TypeOK
<1>10. paused \in [Ends -> BOOLEAN]
  BY DEF RelayInv, TypeOK
<1>11. CASE tr[o] \in {"lostClean", "lostExc", "gone"} /\ UNCHANGED <<tr, wbuf, paused, got>>
  <2>1. Took(e)' = Took(e)
    BY <1>11 DEF Took
  <2>2. Passed(e)'
    <3>1. Took(e)' <= taken'[e]
      <4> DEFINE w == Took(e)
      <4>1. w \in Int /\ w <= taken[e] /\ taken[e] \in Int /\ taken'[e] = taken[e] + 1
        BY <1>1, <1>3, <1>8
      <4> HIDE DEF w
      <4>2. w <= taken'[e]
        BY <4>1
      <4> QED
        BY <2>1, <4>2 DEF w
    <3> QED
      BY <1>8, <1>11, <3>1 DEF Passed
  <2>3. InOrder(e)'
    BY <1>6, <1>11 DEF InOrder
  <2> QED
    BY <1>3, <1>4, <1>5, <1>9, <1>10, <1>11, <2>1, <2>2, <2>3
<1>12. CASE /\ tr[o] = "open" /\ b = <<>> /\ UNCHANGED <<tr, wbuf, paused>>
            /\ got' = [got EXCEPT ![o] = Append(@, c)]
  <2>1. /\ Append(g, c) \in Seq(1 .. MaxChunks) /\ Len(Append(g, c)) = ng + 1
        /\ \A i \in 1 .. ng : Append(g, c)[i] = g[i]
        /\ Append(g, c)[ng + 1] = c
    BY <1>2, <1>5, AppendProperties
  <2>2. got' \in [Ends -> Seq(1 .. MaxChunks)] /\ got'[o] = Append(g, c) /\ got'[e] = got[e]
    BY <1>0, <1>9, <1>12, <2>1
  <2>3. nb = 0
    BY <1>12
  <2>4. Took(e)' = Took(e) + 1
    <3>1. Took(e)' = (ng + 1) + nb + lost[o]
      BY <1>12, <2>1, <2>2 DEF Took
    <3> HIDE DEF ng, nb
    <3> QED
      BY <1>5, <1>7, <1>12, <2>3, <3>1
  <2>5. Passed(e)'
    <3>1. Took(e)' = taken'[e]
      <4> HIDE DEF ng, nb
      <4> QED
        BY <1>1, <1>3, <1>7, <1>12, <2>4
    <3>2. taken'[e] \in Int
      BY <1>3
    <3> QED
      BY <1>7, <1>8, <1>12, <3>1, <3>2 DEF Passed
  <2>6. InOrder(e)'
    <3>1. c = ng + 1
      <4> HIDE DEF ng, nb, c
      <4> QED
        BY <1>5, <1>7, <1>12, <2>3
    <3>2. \A i \in 1 .. ng + 1 : Append(g, c)[i] = i
      <4> DEFINE s == Append(g, c)
      <4>1. ng \in Nat /\ (\A i \in 1 .. ng : s[i] = i) /\ s[ng + 1] = ng + 1
        BY <1>5, <1>6, <2>1, <3>1
      <4> HIDE DEF ng, s
      <4>2. \A i \in 1 .. ng + 1 : i \in 1 .. ng \/ i = ng + 1
        BY <4>1
      <4>3. \A i \in 1 .. ng + 1 : s[i] = i
        BY <4>1, <4>2
      <4> QED
        BY <4>3 DEF s
    <3> QED
      BY <1>12, <2>1, <2>2, <2>3, <3>2 DEF InOrder
  <2> QED
    BY <1>3, <1>4, <1>5, <1>9, <1>10, <1>12, <2>2, <2>4, <2>5, <2>6
<1>13. CASE /\ tr[o] = "open" /\ b = <<>> /\ UNCHANGED <<wbuf, paused, got>>
            /\ tr' = [tr EXCEPT ![o] = "lostExc"]
  <2>1. tr' \in [Ends -> TrStates] /\ tr'[e] = tr[e] /\ tr'[o] = "lostExc"
    BY <1>0, <1>9, <1>13 DEF TrStates
  <2>2. Took(e)' = Took(e)
    BY <1>13 DEF Took
  <2>3. Passed(e)'
    <3>1. Took(e)' <= taken'[e]
      <4> DEFINE w == Took(e)
      <4>1. w \in Int /\ w <= taken[e] /\ taken[e] \in Int /\ taken'[e] = taken[e] + 1
        BY <1>1, <1>3, <1>8
      <4> HIDE DEF w
      <4>2. w <= taken'[e]
        BY <4>1
      <4> QED
        BY <2>2, <4>2 DEF w
    <3> QED
      BY <1>8, <1>13, <2>1, <3>1 DEF Passed
  <2>4. InOrder(e)'
    BY <1>6, <1>13 DEF InOrder
  <2> QED
    BY <1>3, <1>4, <1>5, <1>9, <1>10, <1>13, <2>1, <2>2, <2>3, <2>4
<1>14. CASE /\ tr[o] \in {"open", "closing"} /\ UNCHANGED <<tr, got>>
            /\ wbuf' = [wbuf EXCEPT ![o] = Append(@, c)]
            /\ paused' = [paused EXCEPT ![o] = @ \/ Len(wbuf[o]) + 1 > HighWater]
  <2>1. /\ Append(b, c) \in Seq(1 .. MaxChunks) /\ Len(Append(b, c)) = nb + 1
        /\ \A i \in 1 .. nb : Append(b, c)[i] = b[i]
        /\ Append(b, c)[nb + 1] = c
    BY <1>2, <1>5, AppendProperties
  <2>2. wbuf' \in [Ends -> Seq(1 .. MaxChunks)] /\ wbuf'[o] = Append(b, c) /\ wbuf'[e] = wbuf[e]
    BY <1>0, <1>9, <1>14, <2>1
  <2>3. /\ paused' \in [Ends -> BOOLEAN] /\ paused'[e] = paused[e]
        /\ paused'[o] <=> (paused[o] \/ nb + 1 > HighWater)
    <3>1. paused' = [paused EXCEPT ![o] = paused[o] \/ nb + 1 > HighWater]
      BY <1>14
    <3> HIDE DEF nb
    <3> QED
      BY <1>0, <1>10, <3>1, Zenon
  <2>4. Took(e)' = Took(e) + 1
    <3>1. Took(e)' = ng + (nb + 1) + lost[o]
      BY <1>14, <2>1, <2>2 DEF Took
    <3> HIDE DEF ng, nb
    <3> QED
      BY <1>5, <1>7, <1>14, <3>1
  <2>5. Passed(e)'
    <3>1. Took(e)' = taken'[e]
      <4> HIDE DEF ng, nb
      <4> QED
        BY <1>1, <1>3, <1>7, <1>14, <2>4
    <3>2. taken'[e] \in Int
      BY <1>3
    <3>3. lost'[o] = 0 /\ rx'[o] # "exc"
      BY <1>7, <1>8, <1>14
    <3>4. Took(e)' <= taken'[e]
      BY <3>1, <3>2
    <3> QED
      BY <3>1, <3>3, <3>4 DEF Passed
  <2>6. InOrder(e)'
    <3>1. c = ng + nb + 1
      BY <1>7, <1>14
    <3>2. \A i \in 1 .. nb + 1 : Append(b, c)[i] = ng + i
      <4> DEFINE s == Append(b, c)
      <4>1. /\ ng \in Nat /\ nb \in Nat
            /\ \A i \in 1 .. nb : s[i] = ng + i
            /\ s[nb + 1] = ng + nb + 1
        BY <1>5, <1>6, <2>1, <3>1
      <4> HIDE DEF ng, nb, s
      <4>2. (\A i \in 1 .. nb + 1 : i \in 1 .. nb \/ i = nb + 1) /\ ng + nb + 1 = ng + (nb + 1)
        BY <4>1
      <4>3. \A i \in 1 .. nb + 1 : s[i] = ng + i
        BY <4>1, <4>2
      <4> QED
        BY <4>3 DEF s
    <3> QED
      BY <1>6, <1>14, <2>1, <2>2, <3>2 DEF InOrder
  <2>7. /\ Len(wbuf'[o]) <= HighWater + 1
        /\ ~paused'[o] => Len(wbuf'[o]) <= HighWater
    <3>1. ~paused[o] /\ Len(wbuf'[o]) = nb + 1
      BY <1>7, <1>14, <2>1, <2>2
    <3> HIDE DEF nb
    <3> QED
      BY <1>5, <2>3, <3>1
  <2> QED
    BY <1>3, <1>4, <1>9, <1>14, <2>2, <2>3, <2>4, <2>5, <2>6, <2>7
<1> QED
  BY <1>11, <1>12, <1>13, <1>14 DEF Write

\* A relay that copied a chunk owes the counter that chunk until drain() ends,
\* and reads on at once only if the buffer stayed below its mark.
LEMMA RelayCopiesInv ==
    ASSUME NEW e \in Ends, RelayInv, RelayCopies(e)
    PROVE  RelayInv'
<1> DEFINE o == Other(e)
<1> USE LimitsAssumption
<1>0. o \in Ends /\ Other(o) = e /\ o # e /\ \A x \in Ends : x = e \/ x = o
  BY Ends2
<1>1. /\ relay[e] = "reading" /\ rx[e] # "exc" /\ taken[e] < rcvd[e]
      /\ taken' = [taken EXCEPT ![e] = @ + 1]
      /\ UNCHANGED <<lost, sent, fin, reset, rcvd, rx, handler>>
  BY DEF RelayCopies
<1>2. CASE rx[o] = "exc" /\ EndRelay(e)
  <2>1. /\ taken \in [Ends -> 0 .. MaxChunks] /\ rcvd \in [Ends -> 0 .. MaxChunks]
        /\ tr[o] = "gone"
    BY <1>0, <1>2 DEF RelayInv, TypeOK, Passed
  <2>2. /\ taken' \in [Ends -> 0 .. MaxChunks] /\ taken'[o] = taken[o]
        /\ taken[e] <= taken'[e] /\ taken'[e] <= rcvd[e]
    BY <1>0, <1>1, <2>1
  <2> QED
    BY <1>1, <1>2, <2>1, <2>2, EndRelayInv
<1>3. CASE /\ Write(o, taken[e] + 1)
           /\ \/ /\ tr'[o] \in {"lostClean", "lostExc"}
                 /\ relay' = [relay EXCEPT ![e] = "yieldingLost"] /\ UNCHANGED counted
              \/ /\ tr'[o] \in {"closing", "gone"}
                 /\ relay' = [relay EXCEPT ![e] = "yielding"] /\ UNCHANGED counted
              \/ /\ tr'[o] = "open" /\ paused'[o]
                 /\ relay' = [relay EXCEPT ![e] = "draining"] /\ UNCHANGED counted
              \/ /\ tr'[o] = "open" /\ ~paused'[o]
                 /\ Count(e)
  <2>1. /\ taken' \in [Ends -> 0 .. MaxChunks] /\ taken'[o] = taken[o]
        /\ tr' \in [Ends -> TrStates] /\ tr'[e] = tr[e]
        /\ wbuf' \in [Ends -> Seq(1 .. MaxChunks)] /\ wbuf'[e] = wbuf[e]
        /\ got' \in [Ends -> Seq(1 .. MaxChunks)] /\ got'[e] = got[e]
        /\ tr'[o] \in {"open", "closing"} => Took(e)' = Took(e) + 1
        /\ tr'[o] \notin {"open", "closing"} => Took(e)' = Took(e)
        /\ Flow(e)' /\ Passed(e)' /\ InOrder(e)'
    BY <1>1, <1>3, WriteEffect
  <2>2. paused' \in [Ends -> BOOLEAN] /\ paused'[e] = paused[e]
    BY <1>1, <1>3, WriteEffect
  <2>3. /\ Len(wbuf'[o]) <= HighWater + 1
        /\ ~paused'[o] => Len(wbuf'[o]) <= HighWater
    BY <1>1, <1>3, WriteEffect
  <2>4. /\ counted \in [Ends -> 0 .. MaxChunks] /\ relay \in [Ends -> RelayStates]
        /\ counted[e] = Took(e) /\ Took(e) \in Int
    <3>1. counted \in [Ends -> 0 .. MaxChunks] /\ relay \in [Ends -> RelayStates]
      BY DEF RelayInv, TypeOK
    <3>2. counted[e] = Took(e)
      BY <1>1 DEF RelayInv, Account
    <3>3. counted[e] \in Int
      BY <3>1
    <3> QED
      BY <3>1, <3>2, <3>3
  <2>5. relay' \in [Ends -> RelayStates] /\ relay'[o] = relay[o]
        /\ (relay'[e] = "reading" => tr'[o] = "open" /\ ~paused'[o])
        /\ (relay'[e] = "draining" => tr'[o] = "open")
        /\ (relay'[e] = "yielding" => tr'[o] \in {"closing", "gone"})
        /\ (relay'[e] = "yieldingLost" => tr'[o] \in {"lostClean", "lostExc"})
        /\ relay'[e] \in {"reading", "draining", "yielding", "yieldingLost"}
    BY <1>0, <1>3, <2>4 DEF Count, RelayStates
  <2>6. \/ relay'[e] # "reading" /\ counted' = counted
        \/ relay'[e] = "reading" /\ counted' = [counted EXCEPT ![e] = @ + 1]
    BY <1>3, <2>4 DEF Count
  <2> DEFINE w == Took(e)
             v == Took(e)'
  <2>7. /\ w \in Int /\ counted[e] = w
        /\ tr'[o] \in {"open", "closing"} => v = w + 1
        /\ tr'[o] \notin {"open", "closing"} => v = w
    BY <2>1, <2>4
  <2>8. v \in Int /\ v <= taken'[e] /\ taken'[e] \in 0 .. MaxChunks
    <3>1. v <= taken'[e]
      BY <2>1 DEF Passed
    <3>2. taken'[e] \in 0 .. MaxChunks
      BY <2>1
    <3> HIDE DEF v, w
    <3> QED
      BY <2>7, <3>1, <3>2
  <2>9. /\ counted' \in [Ends -> 0 .. MaxChunks] /\ counted'[o] = counted[o]
        /\ counted'[e] = IF relay'[e] = "reading" THEN w + 1 ELSE w
    <3> HIDE DEF v, w
    <3>1. CASE relay'[e] # "reading"
      BY <2>4, <2>6, <2>7, <3>1
    <3>2. CASE relay'[e] = "reading"
      <4>1. counted[e] + 1 \in 0 .. MaxChunks
        BY <2>4, <2>5, <2>7, <2>8, <3>2
      <4> QED
        BY <1>0, <2>4, <2>6, <2>7, <3>2, <4>1
    <3> QED
      BY <3>1, <3>2
  <2>10. Account(e)'
    <3>1. /\ counted'[e] \in v - 1 .. v
          /\ relay'[e] = "reading" => counted'[e] = v
          /\ relay'[e] = "draining" => counted'[e] = v - 1
          /\ relay'[e] = "yielding" /\ tr'[o] # "gone" => counted'[e] = v - 1
      <4> HIDE DEF v, w
      <4> QED
        BY <2>5, <2>7, <2>8, <2>9
    <3> QED
      BY <3>1 DEF Account
  <2>11. Calm(e)'
    BY <2>3, <2>5 DEF Calm
  <2>12. TypeOK'
    BY <1>1, <2>1, <2>2, <2>5, <2>9 DEF RelayInv, TypeOK
  <2>13. Flow(o)' /\ Passed(o)' /\ Account(o)' /\ Calm(o)' /\ InOrder(o)'
    BY <1>0, <1>1, <2>1, <2>2, <2>5, <2>9, Untouched
  <2> QED
    BY <1>0, <2>1, <2>10, <2>11, <2>12, <2>13 DEF RelayInv
<1> QED
  BY <1>2, <1>3 DEF RelayCopies

\* Closing what is left of the two transports moves no chunk either.
LEMMA HandlerEndsInv ==
    ASSUME RelayInv, HandlerEnds
    PROVE  RelayInv'
<1>1. UNCHANGED <<lost, sent, fin, reset, rcvd, taken, rx, wbuf, paused, got, relay, counted>>
      /\ handler' \in HandlerStates /\ \A e \in Ends : relay[e] = "done"
  BY DEF HandlerEnds, HandlerStates
<1>2. /\ tr' \in [Ends -> TrStates]
      /\ \A x \in Ends : /\ tr'[x] \in {"open", "closing"} => tr[x] \in {"open", "closing"}
                         /\ tr[x] = "gone" => tr'[x] = "gone"
  BY DEF HandlerEnds, Closed, RelayInv, TypeOK, TrStates
<1>3. TypeOK'
  BY <1>1, <1>2 DEF RelayInv, TypeOK
<1>4. ASSUME NEW x \in Ends
      PROVE  Flow(x)' /\ Passed(x)' /\ Account(x)' /\ Calm(x)' /\ InOrder(x)'
  <2>1. Took(x)' = Took(x) /\ Other(x) \in Ends
    BY <1>1, Ends2 DEF Took
  <2> QED
    BY <1>1, <1>2, <2>1 DEF RelayInv, Flow, Passed, Account, Calm, InOrder
<1> QED
  BY <1>3, <1>4 DEF RelayInv

\* The chunks in the buffers when the loop closes were taken by the transports.
LEMMA LoopClosesInv ==
    ASSUME RelayInv, LoopCloses
    PROVE  RelayInv'
<1> USE LimitsAssumption
<1>1. /\ UNCHANGED <<sent, fin, reset, rcvd, taken, rx, paused, got, relay, counted, handler>>
      /\ tr' = [e \in Ends |-> "gone"] /\ wbuf' = [e \in Ends |-> <<>>]
      /\ lost' = [e \in Ends |-> lost[e] + Len(wbuf[e])]
  BY DEF LoopCloses
<1>2. ASSUME NEW e \in Ends
      PROVE  /\ lost[e] + Len(wbuf[e]) \in 0 .. MaxChunks
             /\ Len(got[e]) + 0 + (lost[e] + Len(wbuf[e])) = Len(got[e]) + Len(wbuf[e]) + lost[e]
  <2> DEFINE b == Len(wbuf[e])
             g == Len(got[e])
             l == lost[e]
             t == taken[Other(e)]
  <2>1. Other(e) \in Ends /\ Other(Other(e)) = e
    BY Ends2
  <2>2. wbuf[e] \in Seq(1 .. MaxChunks) /\ got[e] \in Seq(1 .. MaxChunks)
        /\ l \in Nat /\ t \in 0 .. MaxChunks
    BY <2>1 DEF RelayInv, TypeOK
  <2>3. b \in Nat /\ g \in Nat
    BY <2>2
  <2>4. g + b + l <= t
    BY <2>1 DEF RelayInv, Passed, Took
  <2> HIDE DEF b, g, l, t
  <2>5. l + b \in 0 .. MaxChunks /\ g + 0 + (l + b) = g + b + l
    BY <2>2, <2>3, <2>4
  <2> QED
    BY <2>5 DEF b, g, l
<1>3. TypeOK'
  <2>1. lost' \in [Ends -> 0 .. MaxChunks]
    BY <1>1, <1>2
  <2>2. tr' \in [Ends -> TrStates] /\ wbuf' \in [Ends -> Seq(1 .. MaxChunks)]
    BY <1>1 DEF TrStates
  <2> QED
    BY <1>1, <2>1, <2>2 DEF RelayInv, TypeOK
<1>4. ASSUME NEW x \in Ends
      PROVE  Flow(x)' /\ Passed(x)' /\ Account(x)' /\ Calm(x)' /\ InOrder(x)'
  <2> DEFINE o == Other(x)
  <2>1. o \in Ends
    BY Ends2
  <2>2. tr'[o] = "gone" /\ wbuf'[o] = <<>> /\ lost'[o] = lost[o] + Len(wbuf[o])
    BY <1>1, <2>1
  <2>3. Took(x)' = Took(x)
    <3>1. Took(x)' = Len(got[o]) + 0 + (lost[o] + Len(wbuf[o]))
      BY <1>1, <2>2 DEF Took
    <3> QED
      BY <1>2, <2>1, <3>1 DEF Took
  <2>4. Flow(x)' /\ Passed(x)' /\ Account(x)'
    BY <1>1, <2>2, <2>3 DEF RelayInv, Flow, Passed, Account
  <2>5. Len(wbuf'[o]) = 0
    BY <2>2
  <2>6. Calm(x)'
    BY <1>1, <2>2, <2>5 DEF Calm
  <2>7. InOrder(x)'
    BY <1>1, <2>5 DEF RelayInv, InOrder
  <2> QED
    BY <2>4, <2>6, <2>7
<1> QED
  BY <1>3, <1>4 DEF RelayInv

LEMMA StepRelayInv == RelayInv /\ [Next]_vars => RelayInv'
<1> SUFFICES ASSUME RelayInv, [Next]_vars PROVE RelayInv'
  OBVIOUS
<1>1. CASE UNCHANGED vars
  BY <1>1 DEF vars, RelayInv, TypeOK, Flow, Passed, Account, Calm, InOrder, Took
<1>2. CASE HandlerEnds \/ LoopCloses
  BY <1>2, HandlerEndsInv, LoopClosesInv
<1>3. CASE Interrupted
  BY <1>3 DEF Interrupted, RelayInv, TypeOK, HandlerStates, Flow, Passed, Account, Calm, InOrder, Took
<1>4. ASSUME NEW e \in Ends, PeerStep(e) \/ LoopStep(e) \/ Flush(e) PROVE RelayInv'
  BY <1>4, ReceiveInv, NoticeResetInv, FlushInv, ConnectionLostInv, RelayStopsInv,
     RelayCopiesInv, RelayYieldsInv, RelayDrainedInv, RelayCancelledInv DEF LoopStep
<1> QED
  BY <1>1, <1>2, <1>3, <1>4 DEF Next, Finished

\* RelayInv holds of every state of the two relays.
THEOREM RelayInvariance == Spec => []RelayInv
  BY InitRelayInv, StepRelayInv, PTL DEF Spec

\* The variables of a relayed connection keep their types.
THEOREM RelayTypes == Spec => []TypeOK
<1>1. RelayInv => TypeOK
  BY DEF RelayInv
<1> QED
  BY <1>1, RelayInvariance, PTL

\* A peer that does not read costs the proxy a bounded amount of memory,
\* whatever the marks of the write buffer and the limit of the reader.
THEOREM BuffersBounded == Spec => []BufferBound
<1>1. RelayInv => BufferBound
  <2> SUFFICES ASSUME RelayInv, NEW e \in Ends
               PROVE  Len(wbuf[e]) <= HighWater + 1 /\ rcvd[e] - taken[e] <= ReadLimit + 1
    BY DEF BufferBound
  <2>1. Flow(e) /\ Calm(Other(e))
    BY Ends2 DEF RelayInv
  <2> QED
    BY <2>1, Ends2 DEF Flow, Calm
<1> QED
  BY <1>1, RelayInvariance, PTL

\* The byte counters claim what the transports took, and trail by at most the
\* chunk in drain(), however connections break.
THEOREM CountersHonest == Spec => []CountersTrackDelivery
<1>1. RelayInv => CountersTrackDelivery
  <2> SUFFICES ASSUME RelayInv, NEW e \in Ends
               PROVE  counted[e] \in Took(e) - 1 .. Took(e)
    BY DEF CountersTrackDelivery, Took
  <2> QED
    BY DEF RelayInv, Account
<1> QED
  BY <1>1, RelayInvariance, PTL

\* What a transport hands over next, from its buffer or at once, is the chunk
\* that follows what its socket took.
LEMMA StepDelivers ==
    ASSUME RelayInv, [Next]_vars
    PROVE  [B!Next]_<<sent, got>>
<1> USE LimitsAssumption
<1>0. Ends = B!Ends /\ \A x \in Ends : Other(x) = B!Other(x)
  BY DEF Ends, B!Ends, Other, B!Other
<1>1. ASSUME NEW e \in Ends, PeerSends(e) PROVE B!Send(e)
  BY <1>1 DEF PeerSends, B!Send
<1>2. ASSUME NEW e \in Ends, Flush(e) PROVE B!Deliver(e)
  <2> DEFINE r == Other(e)
             ng == Len(got[e])
             nb == Len(wbuf[e])
  <2>1. r \in Ends /\ Other(r) = e
    BY Ends2
  <2>2. /\ wbuf[e] \in Seq(1 .. MaxChunks) /\ wbuf[e] # <<>> /\ ng \in Nat /\ nb \in Nat
        /\ lost[e] \in Nat /\ taken[r] \in Nat /\ rcvd[r] \in Nat /\ sent[r] \in Nat
    <3>1. wbuf[e] # <<>>
      BY <1>2 DEF Flush
    <3>2. wbuf[e] \in Seq(1 .. MaxChunks) /\ got[e] \in Seq(1 .. MaxChunks)
      BY DEF RelayInv, TypeOK
    <3>3. lost[e] \in Nat /\ taken[r] \in Nat /\ rcvd[r] \in Nat /\ sent[r] \in Nat
      BY <2>1 DEF RelayInv, TypeOK
    <3> QED
      BY <3>1, <3>2, <3>3
  <2>3. nb > 0 /\ Head(wbuf[e]) = wbuf[e][1]
    BY <2>2, EmptySeq
  <2>4. Head(wbuf[e]) = ng + 1
    <3>1. \A i \in 1 .. nb : wbuf[e][i] = ng + i
      BY <2>1 DEF RelayInv, InOrder
    <3>2. 1 \in 1 .. nb
      BY <2>2, <2>3
    <3> QED
      BY <2>3, <3>1, <3>2
  <2>5. ng + nb + lost[e] <= taken[r] /\ taken[r] <= rcvd[r] /\ rcvd[r] <= sent[r]
    BY <2>1 DEF RelayInv, Flow, Passed, Took
  <2>6. ng < sent[r]
    <3> HIDE DEF ng, nb
    <3> QED
      BY <2>2, <2>3, <2>5
  <2>7. got' = [got EXCEPT ![e] = Append(got[e], ng + 1)] /\ sent' = sent
    BY <1>2, <2>4 DEF Flush
  <2> QED
    BY <1>0, <2>6, <2>7 DEF B!Deliver
<1>3. ASSUME NEW e \in Ends, RelayCopies(e) PROVE UNCHANGED <<sent, got>> \/ B!Deliver(Other(e))
  <2> DEFINE o == Other(e)
             ng == Len(got[o])
  <2>1. o \in Ends /\ Other(o) = e
    BY Ends2
  <2>2. taken[e] < rcvd[e] /\ sent' = sent
    BY <1>3 DEF RelayCopies
  <2>3. CASE got' = got
    BY <2>2, <2>3
  <2>4. CASE /\ tr[o] = "open" /\ wbuf[o] = <<>>
             /\ got' = [got EXCEPT ![o] = Append(@, taken[e] + 1)]
    <3>1. /\ ng \in Nat /\ taken[e] \in Nat /\ rcvd[e] \in Nat /\ sent[e] \in Nat
      BY <2>1 DEF RelayInv, TypeOK
    <3>2. Took(e) = taken[e] /\ lost[o] = 0 /\ rcvd[e] <= sent[e]
      BY <2>4 DEF RelayInv, Passed, Flow
    <3>3. Took(e) = ng + 0 + 0
      BY <2>4, <3>2 DEF Took
    <3>4. ng = taken[e] /\ ng < sent[e]
      <4> HIDE DEF ng
      <4> QED
        BY <2>2, <3>1, <3>2, <3>3
    <3> QED
      BY <1>0, <2>1, <2>2, <2>4, <3>4 DEF B!Deliver
  <2> QED
    BY <1>3, <2>3, <2>4 DEF RelayCopies, Write, EndRelay
<1>4. ASSUME NEW e \in Ends,
             \/ PeerHalfCloses(e) \/ PeerResets(e) \/ ReceiveChunk(e) \/ ReceiveFin(e)
             \/ NoticeReset(e) \/ ConnectionLost(e)
             \/ RelayStops(e) \/ RelayYields(e) \/ RelayDrained(e) \/ RelayCancelled(e)
      PROVE  UNCHANGED <<sent, got>>
  BY <1>4 DEF PeerHalfCloses, PeerResets, ReceiveChunk, ReceiveFin, NoticeReset,
     ConnectionLost, RelayStops, RelayYields, RelayDrained, RelayCancelled, EndRelay,
     EndUnbegun
<1>5. HandlerEnds \/ Interrupted \/ LoopCloses \/ Finished \/ UNCHANGED vars => UNCHANGED <<sent, got>>
  BY DEF HandlerEnds, Interrupted, LoopCloses, Finished, vars
<1>6. ASSUME NEW e \in Ends PROVE Other(e) \in Ends
  BY Ends2
<1> QED
  BY <1>0, <1>1, <1>2, <1>3, <1>4, <1>5, <1>6 DEF Next, PeerStep, LoopStep, B!Next

\* The two relays with their transports implement ByteRelay: in each direction
\* the chunks are handed over in order, once each, none skipped, up to wherever
\* it ends, by an interrupt too.
THEOREM RelaysImplementByteRelay == Spec => RelaysInOrder
<1>1. Init => B!Init
  BY DEF Init, B!Init, Ends, B!Ends
<1> QED
  BY <1>1, StepDelivers, RelayInvariance, PTL DEF Spec, RelaysInOrder, B!Spec
-----------------------------------------------------------------------------
(* The side that ends its stream first *)

\* As long as nothing breaks, nobody interrupts, and the peer of the other end
\* has more to send, the direction of e is the first to end: it ends because its
\* stream did, all that was sent has been read, and what the other transport is
\* left with when it goes has been handed over.
Upload(e) ==
    NoResets /\ Uninterrupted /\ ~fin[Other(e)] =>
        /\ tr[e] # "open" => relay[Other(e)] = "done"
        /\ rx[Other(e)] # "ok" => tr[Other(e)] = "gone"
        /\ relay[Other(e)] = "done" => relay[e] = "done"
        /\ tr[Other(e)] # "open" => relay[e] = "done"
        /\ relay[e] = "done" => fin[e] /\ taken[e] = rcvd[e] /\ rcvd[e] = sent[e]
        /\ rx[e] # "ok" => fin[e] /\ rcvd[e] = sent[e]
        /\ "lostExc" \notin {tr[e], tr[Other(e)]} /\ "exc" \notin {rx[e], rx[Other(e)]}
        /\ tr[Other(e)] \notin {"open", "closing"} =>
              wbuf[Other(e)] = <<>> /\ Took(e) = taken[e] /\ lost[Other(e)] = 0

UploadInv == \A e \in Ends : Upload(e)

\* What a socket takes leaves the buffer.
LEMMA FlushTook ==
    ASSUME NEW e \in Ends, RelayInv, Flush(Other(e))
    PROVE  Took(e)' = Took(e)
<1> DEFINE o == Other(e)
<1>1. o \in Ends
  BY Ends2
<1>2. wbuf[o] \in Seq(1 .. MaxChunks) /\ got[o] \in Seq(1 .. MaxChunks) /\ wbuf[o] # <<>>
      /\ lost[o] \in Nat /\ lost' = lost
  BY <1>1, LimitsAssumption DEF RelayInv, TypeOK, Flush
<1>3. wbuf'[o] = Tail(wbuf[o]) /\ got'[o] = Append(got[o], Head(wbuf[o]))
  BY <1>1 DEF Flush, RelayInv, TypeOK
<1>4. Len(Tail(wbuf[o])) = Len(wbuf[o]) - 1 /\ Head(wbuf[o]) \in 1 .. MaxChunks
  BY <1>2, HeadTailProperties
<1>5. Len(Append(got[o], Head(wbuf[o]))) = Len(got[o]) + 1
  BY <1>2, <1>4, AppendProperties
<1> DEFINE b == Len(wbuf[o])
           g == Len(got[o])
           l == lost[o]
<1>6. Took(e) = g + b + l /\ Took(e)' = (g + 1) + (b - 1) + l
  BY <1>2, <1>3, <1>4, <1>5 DEF Took
<1>7. b \in Nat /\ g \in Nat /\ l \in Nat
  BY <1>2
<1> HIDE DEF b, g, l
<1> QED
  BY <1>6, <1>7

\* A step of either end keeps it.
LEMMA StepUpload ==
    ASSUME RelayInv, RelayInv', UploadInv, [Next]_vars
    PROVE  UploadInv'
<1> SUFFICES ASSUME NEW e \in Ends, NoResets', Uninterrupted', ~fin'[Other(e)]
             PROVE  Upload(e)'
  BY DEF UploadInv, Upload
<1> DEFINE o == Other(e)
<1>0. o \in Ends /\ Other(o) = e /\ o # e /\ \A x \in Ends : x = e \/ x = o
  BY Ends2
<1>1. fin \in [Ends -> BOOLEAN] /\ reset \in [Ends -> BOOLEAN]
  BY DEF RelayInv, TypeOK
<1>2. \A x \in Ends : (fin[x] => fin'[x]) /\ (reset[x] => reset'[x])
  BY <1>1 DEF Next, PeerStep, LoopStep, PeerSends, PeerHalfCloses, PeerResets, ReceiveChunk, ReceiveFin,
     NoticeReset, Flush, ConnectionLost, RelayStops, RelayCopies, RelayYields, RelayDrained,
     RelayCancelled, HandlerEnds, Interrupted, LoopCloses, Finished, vars
<1>2a. handler # "cancelled" /\ handler # "stopped"
  <2>1. ASSUME NEW a \in Ends, PeerStep(a) \/ LoopStep(a) \/ Flush(a) PROVE handler' = handler
    BY <2>1 DEF PeerStep, LoopStep, PeerSends, PeerHalfCloses, PeerResets, ReceiveChunk, ReceiveFin,
       NoticeReset, Flush, ConnectionLost, RelayStops, RelayCopies, RelayYields, RelayDrained,
       RelayCancelled
  <2> QED
    BY <2>1 DEF Next, HandlerEnds, Interrupted, LoopCloses, Finished, vars, Uninterrupted
<1>2b. ~Interrupted /\ ~LoopCloses /\ ~\E a \in Ends : RelayCancelled(a)
  BY <1>2a DEF Interrupted, LoopCloses, RelayCancelled, Uninterrupted
<1>2c. Uninterrupted
  BY <1>2a DEF RelayInv, TypeOK, HandlerStates, Uninterrupted
<1>3. NoResets /\ Uninterrupted /\ ~fin[o]
  BY <1>0, <1>2, <1>2c DEF NoResets
<1>4. /\ tr[e] # "open" => relay[o] = "done"
      /\ rx[o] # "ok" => tr[o] = "gone"
      /\ relay[o] = "done" => relay[e] = "done"
      /\ tr[o] # "open" => relay[e] = "done"
      /\ tr[e] # "lostExc" /\ tr[o] # "lostExc" /\ rx[e] # "exc" /\ rx[o] # "exc"
  BY <1>3 DEF UploadInv, Upload
<1>5. /\ relay[e] = "done" => fin[e] /\ taken[e] = rcvd[e] /\ rcvd[e] = sent[e]
      /\ rx[e] # "ok" => fin[e] /\ rcvd[e] = sent[e]
  BY <1>3 DEF UploadInv, Upload
<1>6. tr[o] \notin {"open", "closing"} => wbuf[o] = <<>> /\ Took(e) = taken[e] /\ lost[o] = 0
  BY <1>3 DEF UploadInv, Upload
<1>7. /\ tr \in [Ends -> TrStates] /\ rx \in [Ends -> {"ok", "eof", "exc"}]
      /\ relay \in [Ends -> RelayStates]
  BY DEF RelayInv, TypeOK
<1> DEFINE Control == /\ tr[e] # "open" => relay[o] = "done"
                      /\ rx[o] # "ok" => tr[o] = "gone"
                      /\ relay[o] = "done" => relay[e] = "done"
                      /\ tr[o] # "open" => relay[e] = "done"
                      /\ tr[e] # "lostExc" /\ tr[o] # "lostExc" /\ rx[e] # "exc" /\ rx[o] # "exc"
           Ended == /\ relay[e] = "done" => fin[e] /\ taken[e] = rcvd[e] /\ rcvd[e] = sent[e]
                    /\ rx[e] # "ok" => fin[e] /\ rcvd[e] = sent[e]
           Left == tr[o] \notin {"open", "closing"} =>
                      wbuf[o] = <<>> /\ Took(e) = taken[e] /\ lost[o] = 0
<1>8. SUFFICES Control' /\ Ended' /\ Left'
  BY DEF Upload
<1> HIDE DEF Upload, UploadInv, RelayInv, NoResets, Uninterrupted
<1>9. Control /\ Ended /\ Left
  BY <1>4, <1>5, <1>6
<1>10. \A x \in Ends : ~reset[x]
  BY <1>3 DEF NoResets
<1>11. ASSUME NEW a \in Ends, PeerStep(a) PROVE Control' /\ Ended' /\ Left'
  <2>1. UNCHANGED <<lost, rcvd, taken, rx, tr, wbuf, got, relay>>
    BY <1>11 DEF PeerStep, PeerSends, PeerHalfCloses, PeerResets
  <2>2. fin[e] => sent'[e] = sent[e] /\ fin'[e]
    <3>1. sent \in [Ends -> 0 .. MaxChunks]
      BY DEF RelayInv, TypeOK
    <3> QED
      BY <1>2, <1>11, <3>1 DEF PeerStep, PeerSends, PeerHalfCloses, PeerResets
  <2>3. Took(e)' = Took(e)
    BY <2>1 DEF Took
  <2> QED
    BY <1>9, <2>1, <2>2, <2>3
<1>12. ASSUME NEW a \in Ends, ReceiveChunk(a) PROVE Control' /\ Ended' /\ Left'
  <2>1. UNCHANGED <<lost, sent, fin, taken, rx, tr, wbuf, got, relay>>
        /\ rcvd' = [rcvd EXCEPT ![a] = @ + 1] /\ rcvd[a] < sent[a] /\ rx[a] = "ok"
    BY <1>12 DEF ReceiveChunk, Reads
  <2>2. rcvd \in [Ends -> 0 .. MaxChunks] /\ sent \in [Ends -> 0 .. MaxChunks]
    BY DEF RelayInv, TypeOK
  <2>3. rcvd[e] = sent[e] => rcvd'[e] = rcvd[e]
    BY <2>1, <2>2
  <2>4. Took(e)' = Took(e)
    BY <2>1 DEF Took
  <2> QED
    BY <1>9, <2>1, <2>3, <2>4
<1>13. ASSUME NEW a \in Ends, ReceiveFin(a) PROVE Control' /\ Ended' /\ Left'
  <2>1. UNCHANGED <<lost, sent, fin, rcvd, taken, tr, wbuf, got, relay>>
        /\ rx' = [rx EXCEPT ![a] = "eof"] /\ rcvd[a] = sent[a] /\ fin[a]
    BY <1>13 DEF ReceiveFin
  <2>2. a = e
    BY <1>0, <1>3, <2>1
  <2>3. Took(e)' = Took(e)
    BY <2>1 DEF Took
  <2> QED
    BY <1>0, <1>7, <1>9, <2>1, <2>2, <2>3
<1>14. ASSUME NEW a \in Ends, ConnectionLost(a) PROVE Control' /\ Ended' /\ Left'
  <2>1. UNCHANGED <<lost, sent, fin, rcvd, taken, wbuf, got, relay>>
        /\ tr' = [tr EXCEPT ![a] = "gone"] /\ tr[a] \in {"lostClean", "lostExc"}
        /\ rx' = [rx EXCEPT ![a] = IF tr[a] = "lostExc" THEN "exc" ELSE "eof"]
    BY <1>14 DEF ConnectionLost
  <2>2. Took(e)' = Took(e)
    BY <2>1 DEF Took
  <2> QED
    BY <1>0, <1>7, <1>9, <2>1, <2>2
<1>15. ASSUME NEW a \in Ends, Flush(a) PROVE Control' /\ Ended' /\ Left'
  <2>1. /\ UNCHANGED <<lost, sent, fin, rcvd, taken, relay>> /\ wbuf[a] # <<>>
        /\ wbuf' = [wbuf EXCEPT ![a] = Tail(@)]
        /\ \/ UNCHANGED <<tr, rx>>
           \/ /\ tr[a] = "closing" /\ Len(wbuf[a]) = 1
              /\ tr' = [tr EXCEPT ![a] = "gone"] /\ rx' = [rx EXCEPT ![a] = "eof"]
    BY <1>15 DEF Flush
  <2>2. Control' /\ Ended'
    BY <1>0, <1>7, <1>9, <2>1
  <2>3. CASE a = e
    <3>1. wbuf'[o] = wbuf[o] /\ got'[o] = got[o] /\ tr'[o] = tr[o]
      BY <1>0, <1>15, <2>1, <2>3, SMTT(20) DEF Flush, RelayInv, TypeOK
    <3>2. Took(e)' = Took(e)
      BY <2>1, <3>1 DEF Took
    <3> QED
      BY <1>9, <2>1, <2>2, <3>1, <3>2
  <2>4. CASE a = o
    <3>1. tr[o] \in {"open", "closing"}
      BY <1>9, <2>1, <2>4
    <3>2. wbuf[o] \in Seq(1 .. MaxChunks) /\ wbuf' \in [Ends -> Seq(1 .. MaxChunks)]
      BY <1>0 DEF RelayInv, TypeOK
    <3>3. tr'[o] \notin {"open", "closing"} => Len(wbuf[o]) = 1 /\ wbuf'[o] = Tail(wbuf[o])
      BY <1>0, <2>1, <2>4, <3>1, <3>2 DEF RelayInv, TypeOK
    <3>4. tr'[o] \notin {"open", "closing"} => wbuf'[o] = <<>>
      <4>1. Len(wbuf[o]) = 1 => Len(Tail(wbuf[o])) = 0 /\ Tail(wbuf[o]) \in Seq(1 .. MaxChunks)
        BY <2>1, <2>4, <3>2, HeadTailProperties
      <4> QED
        BY <3>3, <4>1, EmptySeq
    <3>5. Took(e)' = taken[e] /\ lost[o] = 0
      BY <1>0, <1>15, <2>4, <3>1, FlushTook DEF RelayInv, Passed
    <3> QED
      BY <2>1, <2>2, <3>4, <3>5
  <2> QED
    BY <1>0, <2>3, <2>4
<1>16. ASSUME NEW a \in Ends, relay[a] # "done", EndRelay(a),
              UNCHANGED <<lost, sent, fin, rcvd, rx>>, taken' = taken,
              rx[a] = "eof" /\ taken[a] = rcvd[a]
       PROVE  Control' /\ Ended' /\ Left'
  <2>1. UNCHANGED <<wbuf, got>> /\ relay' = [relay EXCEPT ![a] = "done"]
        /\ tr' = [tr EXCEPT ![Other(a)] = Closed(@, wbuf[Other(a)])]
    BY <1>16 DEF EndRelay
  <2>2. Control' /\ Ended'
    BY <1>0, <1>7, <1>9, <1>16, <2>1 DEF Closed
  <2>3. Took(e)' = Took(e)
    BY <1>16, <2>1 DEF Took
  <2>4. CASE a = o
    BY <1>0, <1>7, <1>9, <1>16, <2>1, <2>2, <2>3, <2>4
  <2>5. CASE a = e
    <3>1. tr[o] = "open"
      BY <1>9, <1>16, <2>5
    <3>2. Took(e) = taken[e] /\ lost[o] = 0
      BY <3>1 DEF RelayInv, Passed
    <3>3. tr'[o] \notin {"open", "closing"} => wbuf[o] = <<>>
      BY <1>0, <1>7, <2>1, <2>5, <3>1 DEF Closed
    <3> QED
      BY <1>16, <2>1, <2>2, <2>3, <3>2, <3>3
  <2> QED
    BY <1>0, <2>4, <2>5
<1>17. ASSUME NEW a \in Ends, RelayStops(a) PROVE Control' /\ Ended' /\ Left'
  BY <1>0, <1>9, <1>16, <1>17 DEF RelayStops
<1>18. ASSUME NEW a \in Ends, RelayCopies(a) PROVE Control' /\ Ended' /\ Left'
  <2>1. /\ relay[a] = "reading" /\ UNCHANGED <<lost, sent, fin, rcvd, rx>>
        /\ rx[Other(a)] # "exc" /\ Write(Other(a), taken[a] + 1)
        /\ taken' = [taken EXCEPT ![a] = @ + 1]
    BY <1>0, <1>4, <1>18 DEF RelayCopies
  <2>2. \E s \in RelayStates \ {"done"} : relay' = [relay EXCEPT ![a] = s]
    BY <1>0, <1>4, <1>18 DEF RelayCopies, Count, RelayStates
  <2>3. tr[Other(a)] = "open"
    BY <1>0, <1>4, <2>1
  <2>4. UNCHANGED tr
    BY <1>0, <1>10, <2>1, <2>3 DEF Write
  <2>5. taken \in [Ends -> 0 .. MaxChunks] /\ rcvd \in [Ends -> 0 .. MaxChunks]
        /\ wbuf \in [Ends -> Seq(1 .. MaxChunks)] /\ got \in [Ends -> Seq(1 .. MaxChunks)]
    BY DEF RelayInv, TypeOK
  <2>6. Control'
    BY <1>0, <1>7, <1>9, <2>1, <2>2, <2>4
  <2>7. CASE a = e
    BY <1>0, <1>7, <1>9, <2>1, <2>2, <2>3, <2>4, <2>6, <2>7
  <2>8. CASE a = o
    <3>1. taken'[e] = taken[e] /\ relay'[e] = relay[e]
      BY <1>0, <1>7, <2>1, <2>2, <2>5, <2>8
    <3>2. wbuf'[o] = wbuf[o] /\ got'[o] = got[o]
      BY <1>0, <2>1, <2>5, <2>8 DEF Write
    <3>3. Took(e)' = Took(e)
      BY <2>1, <3>2 DEF Took
    <3> QED
      BY <1>9, <2>1, <2>4, <2>6, <3>1, <3>2, <3>3
  <2> QED
    BY <1>0, <2>7, <2>8
<1>19. ASSUME NEW a \in Ends, RelayYields(a) \/ RelayDrained(a) PROVE Control' /\ Ended' /\ Left'
  <2>1. relay[a] # "done" /\ UNCHANGED <<lost, sent, fin, rcvd, taken, rx>>
    BY <1>19 DEF RelayYields, RelayDrained
  <2>2. tr[Other(a)] # "gone" /\ rx[Other(a)] # "exc"
    BY <1>0, <1>4, <2>1
  <2>3. UNCHANGED <<tr, wbuf, got>>
    BY <1>19, <2>2 DEF RelayYields, RelayDrained
  <2>4. \E s \in RelayStates \ {"done"} : relay' = [relay EXCEPT ![a] = s]
    BY <1>19, <2>2 DEF RelayYields, RelayDrained, Count, RelayStates
  <2>5. Took(e)' = Took(e)
    BY <2>1, <2>3 DEF Took
  <2> QED
    BY <1>0, <1>7, <1>9, <2>1, <2>3, <2>4, <2>5
<1>20. CASE HandlerEnds
  <2>1. /\ relay[e] = "done" /\ relay[o] = "done"
        /\ UNCHANGED <<lost, sent, fin, rcvd, taken, rx, wbuf, got, relay>>
        /\ tr' = [x \in Ends |-> Closed(tr[x], wbuf[x])]
    BY <1>0, <1>20 DEF HandlerEnds
  <2>2. Took(e)' = Took(e)
    BY <2>1 DEF Took
  <2>3. Control' /\ Ended'
    BY <1>0, <1>9, <2>1 DEF Closed
  <2>4. tr[o] = "open" => Took(e) = taken[e] /\ lost[o] = 0
    BY DEF RelayInv, Passed
  <2>5. tr'[o] = Closed(tr[o], wbuf[o])
    BY <1>0, <2>1
  <2>6. tr[o] \in {"open", "closing"} /\ tr'[o] \notin {"open", "closing"}
           => tr[o] = "open" /\ wbuf[o] = <<>>
    BY <2>5 DEF Closed
  <2> QED
    BY <1>9, <2>1, <2>2, <2>3, <2>4, <2>6
<1>21. ~\E a \in Ends : NoticeReset(a)
  BY <1>10 DEF NoticeReset
<1>22. CASE UNCHANGED vars
  BY <1>9, <1>22 DEF vars, Took
<1> QED
  BY <1>11, <1>12, <1>13, <1>14, <1>15, <1>17, <1>18, <1>19, <1>20, <1>21, <1>22, <1>2b
  DEF Next, LoopStep, Finished

LEMMA InitUpload == Init => UploadInv
  BY Ends2 DEF Init, UploadInv, Upload

\* What a transport was given has been handed over when it goes.
LEMMA UploadHandsOver == RelayInv /\ UploadInv => UploadIsHandedOver
<1> SUFFICES ASSUME RelayInv, UploadInv, NEW e \in Ends, NoResets, Uninterrupted, ~fin[Other(e)],
                    tr[Other(e)] = "gone"
             PROVE  Len(got[Other(e)]) = sent[e]
  BY DEF UploadIsHandedOver
<1>1. Other(e) \in Ends
  BY Ends2
<1>2. /\ relay[e] = "done" /\ taken[e] = sent[e]
      /\ wbuf[Other(e)] = <<>> /\ Took(e) = taken[e] /\ lost[Other(e)] = 0
  BY DEF UploadInv, Upload
<1>3. got[Other(e)] \in Seq(1 .. MaxChunks)
  BY <1>1 DEF RelayInv, TypeOK
<1>4. Took(e) = Len(got[Other(e)]) + 0 + 0 /\ Len(got[Other(e)]) \in Nat
  BY <1>2, <1>3 DEF Took
<1> QED
  BY <1>2, <1>4

\* Unless the proxy is interrupted, whatever the side that ends its stream first
\* has sent is handed over to the other's socket before that socket is closed.
THEOREM UploadHandedOver == Spec => []UploadIsHandedOver
<1>1. RelayInv /\ RelayInv' /\ UploadInv /\ [Next]_vars => UploadInv'
  BY StepUpload
<1> QED
  BY <1>1, InitUpload, UploadHandsOver, RelayInvariance, PTL DEF Spec
=============================================================================
