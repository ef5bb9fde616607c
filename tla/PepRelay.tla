------------------------------ MODULE PepRelay ------------------------------
(***************************************************************************)
(* The bytes of one proxied connection: the two _relay tasks of            *)
(* tcp_pep/pep_proxy.py, the two asyncio transports between them, and the  *)
(* peers at either end.                                                    *)
(*                                                                         *)
(* An end is the side of the client ("ce") or of the upstream host         *)
(* ("pop"); the relay of an end reads from it and writes to the other.     *)
(* Data moves in chunks, what one read(65536) returns.  The chunks of an   *)
(* end are numbered in the order its peer sends them, so what is on the    *)
(* wire is rcvd+1 .. sent and what is in the reader taken+1 .. rcvd.       *)
(*                                                                         *)
(* A relay that finds data goes on without a suspension, back to its read; *)
(* here that loop is cut at the read, which only adds interleavings.       *)
(*                                                                         *)
(* The proxy may be interrupted at any time: asyncio.run then cancels the  *)
(* handler and both relays, waits for them, and closes the loop with       *)
(* whatever its transports still hold.                                     *)
(*                                                                         *)
(* The model ends at the socket: a chunk that the kernel took is handed    *)
(* over.  Whether the peer ever reads it is for TCP to say, and a socket   *)
(* closed with unread input is reset, which discards what is in flight.    *)
(***************************************************************************)
EXTENDS Integers, Sequences

CONSTANTS
    MaxChunks,   \* bound: chunks the client sends
    MaxReply,    \* bound: chunks the upstream host sends, at most as many
    HighWater,   \* chunks the write buffer holds before drain() waits
    LowWater,    \* chunks left in it when drain() goes on
    ReadLimit    \* chunks in the reader beyond which the transport stops reading

ASSUME LimitsAssumption ==
    /\ MaxChunks \in Nat /\ MaxReply \in 0 .. MaxChunks /\ ReadLimit \in Nat
    /\ HighWater \in Nat /\ LowWater \in 0 .. HighWater

Ends == {"ce", "pop"}
Other(e) == IF e = "ce" THEN "pop" ELSE "ce"

VARIABLES
    sent, fin, reset,   \* the peers: chunks sent, half-closed, connection broken
    rcvd, taken,        \* chunks fed to the reader, and read by the relay
    rx,                 \* the reader: ok, eof, exc
    tr,                 \* the transport, see TrStates
    wbuf, paused,       \* its write buffer, and whether drain() waits
    got,                \* chunks the socket took, handed over to the kernel, in order
    lost,               \* chunks the buffer held when the connection broke, or the loop closed
    relay,              \* the relay that reads from this end
    counted,            \* its bytes counter in PepStats, in chunks
    handler             \* _handle_connection, see HandlerStates

vars == <<sent, fin, reset, rcvd, taken, rx, tr, wbuf, paused, got, lost, relay, counted, handler>>

\* open; closing: close() was called and the write buffer is being flushed;
\* lostClean and lostExc: connection_lost is scheduled, without or with an
\* error; gone: it was called.
TrStates    == {"open", "closing", "lostClean", "lostExc", "gone"}
RelayStates == {"reading", "draining", "yielding", "yieldingLost", "done"}
\* relaying: in gather; cancelled: the proxy was interrupted and the relays are
\* to end; done: returned; stopped: ended, and the loop about to close.
HandlerStates == {"relaying", "cancelled", "done", "stopped"}

Init ==
    /\ sent = [e \in Ends |-> 0] /\ rcvd = sent /\ taken = sent /\ counted = sent /\ lost = sent
    /\ fin = [e \in Ends |-> FALSE] /\ reset = fin /\ paused = fin
    /\ rx = [e \in Ends |-> "ok"]
    /\ tr = [e \in Ends |-> "open"]
    /\ wbuf = [e \in Ends |-> <<>>] /\ got = wbuf
    /\ relay = [e \in Ends |-> "reading"]
    /\ handler = "relaying"
-----------------------------------------------------------------------------
(* The peers.  What they do to a transport that no longer looks, which     *)
(* reads only while open, is left out: nothing of it is received.          *)

PeerSends(e) ==
    /\ tr[e] = "open" /\ ~fin[e] /\ ~reset[e] /\ sent[e] < (IF e = "ce" THEN MaxChunks ELSE MaxReply)
    /\ sent' = [sent EXCEPT ![e] = @ + 1]
    /\ UNCHANGED <<lost, fin, reset, rcvd, taken, rx, tr, wbuf, paused, got, relay, counted, handler>>

\* The peer has nothing more to send; it still reads.
PeerHalfCloses(e) ==
    /\ tr[e] = "open" /\ ~fin[e] /\ ~reset[e]
    /\ fin' = [fin EXCEPT ![e] = TRUE]
    /\ UNCHANGED <<lost, sent, reset, rcvd, taken, rx, tr, wbuf, paused, got, relay, counted, handler>>

\* The peer resets the connection, or the keepalive probes give it up.
PeerResets(e) ==
    /\ tr[e] \in {"open", "closing"} /\ ~reset[e]
    /\ reset' = [reset EXCEPT ![e] = TRUE]
    /\ UNCHANGED <<lost, sent, fin, rcvd, taken, rx, tr, wbuf, paused, got, relay, counted, handler>>
-----------------------------------------------------------------------------
(* The transports of asyncio *)

Reads(e) == tr[e] = "open" /\ rx[e] = "ok" /\ rcvd[e] - taken[e] <= ReadLimit

ReceiveChunk(e) ==
    /\ Reads(e) /\ rcvd[e] < sent[e]
    /\ rcvd' = [rcvd EXCEPT ![e] = @ + 1]
    /\ UNCHANGED <<lost, sent, fin, reset, taken, rx, tr, wbuf, paused, got, relay, counted, handler>>

\* The end of the peer's stream leaves the transport open for writing.
ReceiveFin(e) ==
    /\ Reads(e) /\ rcvd[e] = sent[e] /\ fin[e] /\ ~reset[e]
    /\ rx' = [rx EXCEPT ![e] = "eof"]
    /\ UNCHANGED <<lost, sent, fin, reset, rcvd, taken, tr, wbuf, paused, got, relay, counted, handler>>

\* A read or a write of the socket finds the connection broken.
NoticeReset(e) ==
    /\ reset[e]
    /\ Reads(e) \/ (tr[e] \in {"open", "closing"} /\ wbuf[e] # <<>>)
    /\ tr' = [tr EXCEPT ![e] = "lostExc"]
    /\ wbuf' = [wbuf EXCEPT ![e] = <<>>]
    /\ lost' = [lost EXCEPT ![e] = Len(wbuf[e])]
    /\ UNCHANGED <<sent, fin, reset, rcvd, taken, rx, paused, got, relay, counted, handler>>

\* The socket has room, so it takes the next chunk.  The last one of a
\* transport that is closing ends it.
Flush(e) ==
    /\ wbuf[e] # <<>> /\ ~reset[e]
    /\ got' = [got EXCEPT ![e] = Append(@, Head(wbuf[e]))]
    /\ wbuf' = [wbuf EXCEPT ![e] = Tail(@)]
    /\ paused' = [paused EXCEPT ![e] = @ /\ Len(wbuf[e]) - 1 > LowWater]
    /\ IF tr[e] = "closing" /\ Len(wbuf[e]) = 1
       THEN tr' = [tr EXCEPT ![e] = "gone"] /\ rx' = [rx EXCEPT ![e] = "eof"]
       ELSE UNCHANGED <<tr, rx>>
    /\ UNCHANGED <<lost, sent, fin, reset, rcvd, taken, relay, counted, handler>>

ConnectionLost(e) ==
    /\ tr[e] \in {"lostClean", "lostExc"}
    /\ tr' = [tr EXCEPT ![e] = "gone"]
    /\ rx' = [rx EXCEPT ![e] = IF tr[e] = "lostExc" THEN "exc" ELSE "eof"]
    /\ UNCHANGED <<lost, sent, fin, reset, rcvd, taken, wbuf, paused, got, relay, counted, handler>>

\* What transport.close() makes of a transport in state t with buffer b.
Closed(t, b) == IF t # "open" THEN t ELSE IF b = <<>> THEN "lostClean" ELSE "closing"

\* The outcomes of transport.write(chunk) to end o: dropped without a word once
\* the connection is lost, sent at once, failed, or buffered.
Write(o, chunk) ==
    \/ /\ tr[o] \in {"lostClean", "lostExc", "gone"}
       /\ UNCHANGED <<tr, wbuf, paused, got>>
    \/ /\ tr[o] = "open" /\ wbuf[o] = <<>> /\ ~reset[o]
       /\ got' = [got EXCEPT ![o] = Append(@, chunk)]
       /\ UNCHANGED <<tr, wbuf, paused>>
    \/ /\ tr[o] = "open" /\ wbuf[o] = <<>> /\ reset[o]
       /\ tr' = [tr EXCEPT ![o] = "lostExc"]
       /\ UNCHANGED <<wbuf, paused, got>>
    \/ /\ tr[o] \in {"open", "closing"}
       /\ wbuf[o] # <<>> \/ ~reset[o]
       /\ wbuf' = [wbuf EXCEPT ![o] = Append(@, chunk)]
       /\ paused' = [paused EXCEPT ![o] = @ \/ Len(wbuf[o]) + 1 > HighWater]
       /\ UNCHANGED <<tr, got>>
-----------------------------------------------------------------------------
(* The relays *)

\* The relay ends and leaves its writer open.
EndUnbegun(e) ==
    /\ relay' = [relay EXCEPT ![e] = "done"]
    /\ UNCHANGED <<tr, wbuf, paused, got, counted>>

\* Mutants of EndRelay: the writer is left open, or aborted.
EndRelayWithoutClose(e) == EndUnbegun(e)

EndRelayAborting(e) ==
    LET o == Other(e) IN
    /\ relay' = [relay EXCEPT ![e] = "done"]
    /\ tr' = [tr EXCEPT ![o] = IF @ = "gone" THEN @ ELSE "lostClean"]
    /\ wbuf' = [wbuf EXCEPT ![o] = <<>>]
    /\ UNCHANGED <<paused, got, counted>>

\* The finally block of the relay of e.
EndRelay(e) ==
    LET o == Other(e) IN
    /\ relay' = [relay EXCEPT ![e] = "done"]
    /\ tr' = [tr EXCEPT ![o] = Closed(@, wbuf[o])]
    /\ UNCHANGED <<wbuf, paused, got, counted>>

\* Mutant of Count: both counters grow.
CountBoth(e) ==
    /\ relay' = [relay EXCEPT ![e] = "reading"]
    /\ counted' = [o \in Ends |-> counted[o] + 1]

\* drain() returned: the chunk is counted, and the next one read.
Count(e) ==
    /\ relay' = [relay EXCEPT ![e] = "reading"]
    /\ counted' = [counted EXCEPT ![e] = @ + 1]

\* read() returns b"" at the end of the stream, or raises (CancelledError: see
\* RelayCancelled).
RelayStops(e) ==
    /\ handler = "relaying" /\ relay[e] = "reading"
    /\ rx[e] = "exc" \/ (rx[e] = "eof" /\ taken[e] = rcvd[e])
    /\ EndRelay(e)
    /\ UNCHANGED <<lost, sent, fin, reset, rcvd, taken, rx, handler>>

\* Mutants of RelayCopies: no drain() after the write; a chunk that finds the
\* other buffer full is dropped.
RelayCopiesWithoutDrain(e) ==
    LET o == Other(e) IN
    /\ handler = "relaying"
    /\ relay[e] = "reading" /\ rx[e] # "exc" /\ taken[e] < rcvd[e]
    /\ taken' = [taken EXCEPT ![e] = @ + 1]
    /\ Write(o, taken[e] + 1)
    /\ Count(e)
    /\ UNCHANGED <<lost, sent, fin, reset, rcvd, rx, handler>>

RelayCopiesOrDrops(e) ==
    LET o == Other(e) IN
    /\ handler = "relaying"
    /\ relay[e] = "reading" /\ rx[e] # "exc" /\ taken[e] < rcvd[e]
    /\ taken' = [taken EXCEPT ![e] = @ + 1]
    /\ \/ wbuf[o] # <<>> /\ UNCHANGED <<tr, wbuf, paused, got>>
       \/ wbuf[o] = <<>> /\ Write(o, taken[e] + 1)
    /\ Count(e)
    /\ UNCHANGED <<lost, sent, fin, reset, rcvd, rx, handler>>

\* A chunk is read and written, and drain() called: it raises what the other
\* end's reader was left with, yields if the other transport is closing,
\* waits if its buffer is over the high-water mark, or returns.
RelayCopies(e) ==
    LET o == Other(e) IN
    /\ handler = "relaying"
    /\ relay[e] = "reading" /\ rx[e] # "exc" /\ taken[e] < rcvd[e]
    /\ taken' = [taken EXCEPT ![e] = @ + 1]
    /\ \/ /\ rx[o] = "exc"
          /\ EndRelay(e)
       \/ /\ rx[o] # "exc"
          /\ Write(o, taken[e] + 1)
          /\ \/ /\ tr'[o] \in {"lostClean", "lostExc"}
                /\ relay' = [relay EXCEPT ![e] = "yieldingLost"] /\ UNCHANGED counted
             \/ /\ tr'[o] \in {"closing", "gone"}
                /\ relay' = [relay EXCEPT ![e] = "yielding"] /\ UNCHANGED counted
             \/ /\ tr'[o] = "open" /\ paused'[o]
                /\ relay' = [relay EXCEPT ![e] = "draining"] /\ UNCHANGED counted
             \/ /\ tr'[o] = "open" /\ ~paused'[o]
                /\ Count(e)
    /\ UNCHANGED <<lost, sent, fin, reset, rcvd, rx, handler>>

\* Mutant of RelayYields: the chunk counts although the connection is lost.
RelayYieldsAndCounts(e) ==
    LET o == Other(e) IN
    /\ handler = "relaying" /\ relay[e] \in {"yielding", "yieldingLost"}
    /\ relay[e] = "yieldingLost" => tr[o] = "gone"
    /\ Count(e)
    /\ UNCHANGED <<lost, sent, fin, reset, rcvd, taken, rx, tr, wbuf, paused, got, handler>>

\* drain() goes on after its sleep(0).  If connection_lost was scheduled when
\* it began, it has been called by now.
RelayYields(e) ==
    LET o == Other(e) IN
    /\ handler = "relaying" /\ relay[e] \in {"yielding", "yieldingLost"}
    /\ relay[e] = "yieldingLost" => tr[o] = "gone"
    /\ \/ /\ tr[o] = "gone"
          /\ EndRelay(e)
       \/ /\ tr[o] # "gone" /\ paused[o]
          /\ relay' = [relay EXCEPT ![e] = "draining"]
          /\ UNCHANGED <<tr, wbuf, paused, got, counted>>
       \/ /\ tr[o] # "gone" /\ ~paused[o]
          /\ Count(e)
          /\ UNCHANGED <<tr, wbuf, paused, got>>
    /\ UNCHANGED <<lost, sent, fin, reset, rcvd, taken, rx, handler>>

\* drain() is woken by the buffer falling to the low-water mark, or by the
\* loss of the connection, which it raises if there was an error.
RelayDrained(e) ==
    LET o == Other(e) IN
    /\ handler = "relaying" /\ relay[e] = "draining"
    /\ \/ /\ ~paused[o] \/ (tr[o] = "gone" /\ rx[o] # "exc")
          /\ Count(e)
          /\ UNCHANGED <<tr, wbuf, paused, got>>
       \/ /\ paused[o] /\ rx[o] = "exc"
          /\ EndRelay(e)
    /\ UNCHANGED <<lost, sent, fin, reset, rcvd, taken, rx, handler>>

\* The interrupt reaches the relay in its read(), or in drain():
\* CancelledError is swallowed, and the writer closed with the chunks of
\* the reader unread.  A task that never ran has no finally block to run.
RelayCancelled(e) ==
    /\ handler = "cancelled" /\ relay[e] # "done"
    /\ EndRelay(e) \/ (relay[e] = "reading" /\ taken[e] = 0 /\ EndUnbegun(e))
    /\ UNCHANGED <<lost, sent, fin, reset, rcvd, taken, rx, handler>>

\* gather returns, or raises CancelledError once its tasks have ended: either
\* way the finally block closes both transports.
HandlerEnds ==
    /\ handler \in {"relaying", "cancelled"} /\ \A e \in Ends : relay[e] = "done"
    /\ handler' = IF handler = "relaying" THEN "done" ELSE "stopped"
    /\ tr' = [e \in Ends |-> Closed(tr[e], wbuf[e])]
    /\ UNCHANGED <<lost, sent, fin, reset, rcvd, taken, rx, wbuf, paused, got, relay, counted>>

-----------------------------------------------------------------------------
(* The interrupt *)

\* asyncio.run cancels every task that has not ended.
Interrupted ==
    /\ handler \in {"relaying", "done"}
    /\ handler' = IF handler = "relaying" THEN "cancelled" ELSE "stopped"
    /\ UNCHANGED <<lost, sent, fin, reset, rcvd, taken, rx, tr, wbuf, paused, got, relay, counted>>

\* The tasks have ended and the loop closes: nothing flushes a buffer any more.
LoopCloses ==
    /\ handler = "stopped" /\ \E e \in Ends : tr[e] # "gone"
    /\ tr' = [e \in Ends |-> "gone"]
    /\ lost' = [e \in Ends |-> lost[e] + Len(wbuf[e])]
    /\ wbuf' = [e \in Ends |-> <<>>]
    /\ UNCHANGED <<sent, fin, reset, rcvd, taken, rx, paused, got, relay, counted, handler>>

\* Nothing is left of the connection.
Finished ==
    /\ handler \in {"done", "stopped"} /\ \A e \in Ends : tr[e] = "gone"
    /\ UNCHANGED vars

PeerStep(e)  == PeerSends(e) \/ PeerHalfCloses(e) \/ PeerResets(e)
LoopStep(e)  == \/ ReceiveChunk(e) \/ ReceiveFin(e) \/ NoticeReset(e) \/ ConnectionLost(e)
                \/ RelayStops(e) \/ RelayCopies(e) \/ RelayYields(e) \/ RelayDrained(e)
                \/ RelayCancelled(e)

Next == \/ HandlerEnds \/ Interrupted \/ LoopCloses \/ Finished
        \/ \E e \in Ends : PeerStep(e) \/ LoopStep(e) \/ Flush(e)

Spec == Init /\ [][Next]_vars

\* The event loop serves every socket and task that is ready, and closes once
\* every task has ended.  The peers read what they are sent: without that a
\* transport never finishes closing.
FairSpec == /\ Spec
            /\ WF_vars(HandlerEnds) /\ WF_vars(LoopCloses)
            /\ \A e \in Ends :
                  /\ WF_vars(ReceiveChunk(e) \/ ReceiveFin(e) \/ NoticeReset(e))
                  /\ WF_vars(ConnectionLost(e))
                  /\ WF_vars(\/ RelayStops(e) \/ RelayCopies(e) \/ RelayYields(e) \/ RelayDrained(e)
                             \/ RelayCancelled(e))
                  /\ WF_vars(Flush(e))
-----------------------------------------------------------------------------
\* The types of the variables.
TypeOK ==
    /\ sent \in [Ends -> 0 .. MaxChunks]
    /\ rcvd \in [Ends -> 0 .. MaxChunks] /\ taken \in [Ends -> 0 .. MaxChunks]
    /\ counted \in [Ends -> 0 .. MaxChunks] /\ lost \in [Ends -> 0 .. MaxChunks]
    /\ fin \in [Ends -> BOOLEAN] /\ reset \in [Ends -> BOOLEAN] /\ paused \in [Ends -> BOOLEAN]
    /\ rx \in [Ends -> {"ok", "eof", "exc"}]
    /\ tr \in [Ends -> TrStates]
    /\ wbuf \in [Ends -> Seq(1 .. MaxChunks)] /\ got \in [Ends -> Seq(1 .. MaxChunks)]
    /\ relay \in [Ends -> RelayStates]
    /\ handler \in HandlerStates

NoResets      == \A e \in Ends : ~reset[e]
Uninterrupted == handler \in {"relaying", "done"}

\* A peer that does not read costs the proxy a bounded amount of memory: the
\* drain() after each write and the reader's limit keep both buffers within
\* one chunk of their marks.
BufferBound ==
    \A e \in Ends : Len(wbuf[e]) <= HighWater + 1 /\ rcvd[e] - taken[e] <= ReadLimit + 1

\* The byte counters claim what the transport took, handed over, buffered or
\* lost with the connection, and never a chunk it dropped because the connection
\* was gone; they trail by at most the one chunk in drain(), also when the relay
\* is cancelled there.
CountersTrackDelivery ==
    \A e \in Ends :
        LET o == Other(e)  took == Len(got[o]) + Len(wbuf[o]) + lost[o]
        IN  counted[e] \in took - 1 .. took

\* The proxy itself drops nothing of the stream that ends first: unless it is
\* interrupted, every chunk has been handed over to the other socket before that
\* socket is closed, although each relay closes what the other one uses.  It is
\* not a promise that the other side reads it: what that side has sent in the
\* meantime is unread, so the kernel resets the connection on close.
UploadIsHandedOver ==
    \A e \in Ends :
        (NoResets /\ Uninterrupted /\ ~fin[Other(e)] /\ tr[Other(e)] = "gone")
            => Len(got[Other(e)]) = sent[e]

\* "Relay bytes between two asyncio streams until EOF" (pep_proxy.py:99): a
\* relay stops only when the stream it reads from has ended.
RelaysUntilEof ==
    NoResets /\ Uninterrupted => \A e \in Ends : relay[e] = "done" => fin[e]

\* When one side ends its stream or breaks the connection, or the proxy is
\* interrupted, the whole connection goes: both relays, the handler, both
\* sockets, provided that the peers read.
EndTearsDown ==
    \A e \in Ends :
        (fin[e] \/ reset[e] \/ ~Uninterrupted)
            ~> (handler \in {"done", "stopped"} /\ \A o \in Ends : tr[o] = "gone")

\* In each direction the chunks are handed over in order, once each, as
\* ByteRelay says.
B == INSTANCE ByteRelay
RelaysInOrder == B!Spec
=============================================================================
