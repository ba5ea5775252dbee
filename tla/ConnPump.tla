----------------------------- MODULE ConnPump -----------------------------
(* ConnPump.Run (internal/weaknet/conn.go): the reader reads no more than   *)
(* the relay has room for and waits for acknowledgements when it is full,   *)
(* the writer delivers in order, acknowledges, and passes on the half-close *)
(* that followed the last byte.                                             *)
EXTENDS PumpCore, Sequences, SequencesExt

-----------------------------------------------------------------------------
(* The byte-stream relay of internal/weaknet/byte.go: accepted bytes are    *)
(* fragmented, coalesced and scheduled, an outage delays them, and what is  *)
(* buffered or not acknowledged counts against the backpressure budget.     *)
(* The relay is a record and a payload a sequence of numbered bytes; every  *)
(* operation holds the relay's mutex.                                       *)
min(a, b) == IF a < b THEN a ELSE b

\* ByteProfile.Validate: the threshold of a coalescing relay stays within the
\* burst of its bucket and within its backpressure budget.
coalesceFits(p) == p.backpressure > 0 => p.coalesce <= p.backpressure

ValidateByte(p) ==
  /\ p.delay >= 0 /\ p.coalesce >= 0 /\ p.backpressure >= 0
  /\ \A i \in DOMAIN p.jitter : p.delay + p.jitter[i] >= 0
  /\ validRate(p.rate)
  /\ enabled(p.rate) => p.coalesce <= p.rate.burstBytes
  /\ coalesceFits(p)
  /\ \A i \in DOMAIN p.pattern : p.pattern[i] > 0
  /\ \A o \in DOMAIN p.outages : o > 0 /\ p.outages[o] > 0

NewByteRelay(p) ==
  [rate |-> newTokenBucket(p.rate), ordinal |-> 0, buffer |-> <<>>,
   bufferReadyAt |-> 0, sizes |-> <<>>, writeClosed |-> FALSE,
   input |-> 0, output |-> 0, canceled |-> 0, backpressured |-> 0]

Outstanding(r) == FoldLeft(LAMBDA a, n : a + n, 0, r.sizes)
buffered(r) == Outstanding(r) + Len(r.buffer)

\* fragment: the payload cut by the pattern, which repeats.
RECURSIVE fragmentFrom(_, _, _)
fragmentFrom(payload, pattern, i) ==
  LET size == min(pattern[(i % Len(pattern)) + 1], Len(payload)) IN
  IF payload = <<>> THEN <<>>
  ELSE <<SubSeq(payload, 1, size)>>
         \o fragmentFrom(SubSeq(payload, size + 1, Len(payload)), pattern, i + 1)

fragment(payload, pattern) ==
  IF pattern = <<>> THEN <<payload>> ELSE fragmentFrom(payload, pattern, 0)

readyTime(p, ordinal, at) ==
  at + p.delay
     + (IF p.jitter = <<>> THEN 0
        ELSE p.jitter[((ordinal - 1) % Len(p.jitter)) + 1])
     + (IF ordinal \in DOMAIN p.outages THEN p.outages[ordinal] ELSE 0)

\* emitLocked. x = [r, out, ok]: a bucket that refuses leaves the relay alone.
rest(buffer, size) == SubSeq(buffer, size + 1, Len(buffer))
emit(x, size) ==
  LET r == x.r
      s == schedule(r.rate, r.bufferReadyAt, size)
      left == rest(r.buffer, size)
  IN  IF ~s.ok THEN [x EXCEPT !.ok = FALSE]
      ELSE [x EXCEPT
             !.r = [r EXCEPT !.rate = s.rate, !.buffer = left,
                             !.bufferReadyAt = IF left = <<>> THEN 0 ELSE @,
                             !.sizes = Append(@, size)],
             !.out = Append(@, [ready |-> s.ready, halfClose |-> FALSE,
                                payload |-> SubSeq(r.buffer, 1, size)])]

RECURSIVE coalesced(_, _)
coalesced(p, x) ==
  IF x.ok /\ Len(x.r.buffer) >= p.coalesce
  THEN coalesced(p, emit(x, p.coalesce)) ELSE x

\* One fragment; after a failure the others are only kept in the buffer
\* (appendPendingFragmentsLocked).
Fragmented(p, x, part, ready) ==
  LET y == [x EXCEPT !.r.buffer = @ \o part,
                     !.r.bufferReadyAt = IF x.ok /\ ready > @ THEN ready ELSE @]
  IN  IF ~x.ok THEN y
      ELSE IF p.coalesce = 0 THEN emit(y, Len(y.r.buffer))
      ELSE coalesced(p, y)

overBudget(p, r, size) == p.backpressure > 0 /\ buffered(r) + size > p.backpressure

Write(p, relay, at, payload) ==
  LET r == [relay EXCEPT !.ordinal = @ + 1, !.input = @ + Len(payload)]
      ready == readyTime(p, r.ordinal, at)
      x == FoldLeft(LAMBDA y, part : Fragmented(p, y, part, ready),
                    [r |-> r, out |-> <<>>, ok |-> TRUE],
                    fragment(payload, p.pattern))
  IN  IF overBudget(p, relay, Len(payload))
      THEN [r |-> [relay EXCEPT !.backpressured = @ + 1], out |-> <<>>,
            err |-> "backpressure"]
      ELSE [r |-> x.r, out |-> IF x.ok THEN x.out ELSE <<>>,
            err |-> IF x.ok THEN "none" ELSE "profile"]

\* CloseWrite: the half-close follows the buffered bytes, on their delivery.
CloseWrite(p, relay, at) ==
  LET r == [relay EXCEPT !.writeClosed = TRUE]
      s == schedule(r.rate, at, 0)
      x == emit([r |-> [r EXCEPT !.bufferReadyAt = IF at > @ THEN at ELSE @],
                 out |-> <<>>, ok |-> TRUE], Len(r.buffer))
  IN  IF r.buffer = <<>>
      THEN [r |-> [r EXCEPT !.sizes = Append(@, 0)], err |-> "none",
            out |-> <<[ready |-> s.ready, halfClose |-> TRUE, payload |-> <<>>]>>]
      ELSE [r |-> x.r, err |-> IF x.ok THEN "none" ELSE "profile",
            out |-> IF x.ok THEN <<[Head(x.out) EXCEPT !.halfClose = TRUE]>>
                    ELSE <<>>]

\* acknowledgeWrite: deliveries are acknowledged in the order they were made.
acknowledgeable(r, bytes, complete) ==
  /\ r.sizes # <<>> /\ bytes <= Head(r.sizes)
  /\ complete => bytes = Head(r.sizes)

unwritten(r, bytes) == Head(r.sizes) - bytes

acknowledgeWrite(r, bytes) ==
  [r EXCEPT !.sizes = Tail(@), !.output = @ + bytes,
            !.canceled = @ + unwritten(r, bytes)]

\* readCapacity: how much Run may read before acknowledgements are needed.
used(r) == buffered(r)
readCapacity(p, r, max) ==
  IF p.backpressure = 0 THEN max
  ELSE IF used(r) >= p.backpressure THEN 0
  ELSE min(p.backpressure - used(r), max)

discardPending(r) ==
  [r EXCEPT !.canceled = @ + buffered(r), !.buffer = <<>>,
            !.bufferReadyAt = 0, !.sizes = <<>>]

verifyDrained(r) == r.buffer = <<>> /\ r.sizes = <<>>

\* CheckByteConservation, with what is still inside the relay.
CheckByteConservation(r) == r.input = r.output + r.canceled + buffered(r)

-----------------------------------------------------------------------------
CONSTANTS Profiles, DefaultQueue

VARIABLES p, relay, reader, writer, queue,
          ack,       \* the one-slot channel `acknowledged`
          sink,      \* what the destination has: its bytes, and the half-close
          emitted    \* every delivery the relay made (history)

pumpVars == <<p, relay, reader, writer, queue, ack, sink, emitted>>
connVars == <<coreVars, pumpVars>>

\* NewConnPump: the read buffer fits the budget and a lone bucket's burst.
ReadBuffer ==
  LET fit == IF p.backpressure > 0 THEN min(p.readBuffer, p.backpressure)
             ELSE p.readBuffer
  IN  IF enabled(p.rate) /\ p.coalesce = 0 /\ p.pattern = <<>>
      THEN min(fit, p.rate.burstBytes) ELSE fit

QueueUnits == IF p.backpressure > 0 THEN min(p.backpressure, DefaultQueue)
              ELSE DefaultQueue

Init ==
  /\ CoreInit /\ p \in Profiles /\ ValidateByte(p)
  /\ relay = NewByteRelay(p)
  /\ reader = [pc |-> "new", out |-> <<>>, room |-> 0, eof |-> FALSE,
               full |-> FALSE, err |-> "none", result |-> "none"]
  /\ writer = [pc |-> "idle", item |-> <<>>, err |-> "none"]
  /\ queue = [items |-> <<>>, closed |-> FALSE]
  /\ ack = FALSE /\ sink = [bytes |-> <<>>, fin |-> FALSE, open |-> TRUE]
  /\ emitted = <<>>

returns(result, c) ==
  /\ reader' = [reader EXCEPT !.pc = "over", !.result = result]
  /\ relay' = IF result = "nil" THEN relay ELSE discardPending(relay)
  /\ core' = c

RunStarts ==
  /\ reader.pc = "new"
  /\ \/ core.explicit /\ returns("closed", core)
     \/ /\ ~core.explicit /\ reader' = [reader EXCEPT !.pc = "bind"]
        /\ UNCHANGED <<core, relay>>
  /\ UNCHANGED <<closer, now, p, writer, queue, ack, sink, emitted>>

RunBinds ==
  /\ reader.pc = "bind"
  /\ \/ core.parent /\ returns("canceled", closeConnections(bindCancel))
     \/ /\ ~core.parent /\ core' = bindCancel
        /\ reader' = [reader EXCEPT !.pc = "loop"] /\ UNCHANGED relay
  /\ UNCHANGED <<closer, now, p, writer, queue, ack, sink, emitted>>

\* The head of readLoop: without room, wait for an acknowledgement.
Loops ==
  /\ reader.pc = "loop"
  /\ LET room == readCapacity(p, relay, ReadBuffer) IN
     IF room = 0
     THEN /\ reader' = [reader EXCEPT !.pc = "blocked", !.full = TRUE]
          /\ relay' = IF reader.full THEN relay
                      ELSE [relay EXCEPT !.backpressured = @ + 1]
     ELSE /\ reader' = [reader EXCEPT !.pc = "read", !.room = room, !.full = FALSE]
          /\ UNCHANGED relay
  /\ UNCHANGED <<coreVars, p, writer, queue, ack, sink, emitted>>

\* A token that was left behind only makes the reader look again.
Blocked ==
  /\ reader.pc = "blocked"
  /\ \/ ack /\ ack' = FALSE /\ reader' = [reader EXCEPT !.pc = "loop"]
     \/ runDone /\ reader' = [reader EXCEPT !.pc = "ending", !.err = "canceled"]
        /\ UNCHANGED ack
  /\ UNCHANGED <<coreVars, p, relay, writer, queue, sink, emitted>>

\* The source hands out the script, as many bytes at a time as it likes.
taken == relay.input
chunk(k) == [i \in 1..k |-> taken + i]

afterWrite(x) ==
  CASE x.err = "backpressure" -> "refused"
    [] x.err = "profile" -> "ending"
    [] OTHER -> IF x.out = <<>> THEN "loop" ELSE "send"

Reads(k) ==
  /\ reader.pc = "read" /\ core.conns = "open" /\ now <= LastArrival
  /\ k <= reader.room /\ taken + k <= p.script
  /\ LET x == Write(p, relay, now, chunk(k)) IN
     /\ relay' = x.r /\ emitted' = emitted \o x.out
     /\ reader' = [reader EXCEPT !.out = x.out, !.pc = afterWrite(x),
                                 !.err = IF x.err = "profile" THEN x.err ELSE @]
  /\ UNCHANGED <<coreVars, p, writer, queue, ack, sink>>

ReadsEOF ==
  /\ reader.pc = "read" /\ core.conns = "open" /\ now <= LastArrival /\ taken = p.script
  /\ LET x == CloseWrite(p, relay, now) IN
     /\ relay' = x.r /\ emitted' = emitted \o x.out
     /\ reader' = [reader EXCEPT !.eof = TRUE, !.out = x.out,
                     !.pc = IF x.err = "none" THEN "send" ELSE "ending",
                     !.err = x.err]
  /\ UNCHANGED <<coreVars, p, writer, queue, ack, sink>>

ReadFails ==
  /\ reader.pc = "read" /\ core.conns = "closed"
  /\ reader' = [reader EXCEPT !.pc = "ending", !.err = "read"]
  /\ UNCHANGED <<coreVars, p, relay, writer, queue, ack, sink, emitted>>

\* Mutant: a delivery overtakes the queue.
QueuedFirst(items, d) == <<d>> \o items

queued(items, d) == Append(items, d)
Sends ==
  /\ reader.pc = "send"
  /\ \/ /\ Len(queue.items) < QueueUnits
        /\ queue' = [queue EXCEPT !.items = queued(@, Head(reader.out))]
        /\ reader' = [reader EXCEPT !.out = Tail(@),
                        !.pc = IF Len(reader.out) > 1 THEN "send"
                               ELSE IF reader.eof THEN "ending" ELSE "loop"]
     \/ /\ runDone /\ reader' = [reader EXCEPT !.pc = "ending", !.err = "canceled"]
        /\ UNCHANGED queue
  /\ UNCHANGED <<coreVars, p, relay, writer, ack, sink, emitted>>

RunEnding ==
  /\ reader.pc = "ending" /\ reader' = [reader EXCEPT !.pc = "wait"]
  /\ core' = IF reader.err # "none" /\ ~reader.eof THEN cancelRun(core) ELSE core
  /\ queue' = [queue EXCEPT !.closed = TRUE]
  /\ UNCHANGED <<closer, now, p, relay, writer, ack, sink, emitted>>

outcome ==
  IF writer.err \notin {"none", "canceled"} THEN writer.err
  ELSE IF reader.err # "none" THEN reader.err ELSE "nil"

RunReturns ==
  /\ reader.pc = "wait" /\ writer.pc = "over"
  /\ returns(classify(outcome), closeConnections(core))
  /\ UNCHANGED <<closer, now, p, writer, queue, ack, sink, emitted>>

RunAgain ==
  /\ p.again /\ reader.pc \notin {"new", "over"}
  /\ p' = [p EXCEPT !.again = FALSE, !.reran = TRUE] /\ relay' = discardPending(relay)
  /\ UNCHANGED <<coreVars, reader, writer, queue, ack, sink, emitted>>

\* writeBytes.
WriterTakes ==
  /\ writer.pc = "idle" /\ queue.items # <<>>
  /\ LET d == Head(queue.items) IN
     writer' = [pc |-> IF now < d.ready THEN "armed"
                       ELSE IF runDone THEN "failed" ELSE "write",
                item |-> d, err |-> IF now >= d.ready /\ runDone THEN "canceled"
                                    ELSE "none"]
  /\ queue' = [queue EXCEPT !.items = Tail(@)]
  /\ UNCHANGED <<coreVars, p, relay, reader, ack, sink, emitted>>

WriterWakes ==
  /\ writer.pc = "armed"
  /\ \/ now >= writer.item.ready /\ writer' = [writer EXCEPT !.pc = "write"]
     \/ runDone /\ writer' = [writer EXCEPT !.pc = "failed", !.err = "canceled"]
  /\ UNCHANGED <<coreVars, p, relay, reader, queue, ack, sink, emitted>>

\* writeFull, then what follows it: a half-close is passed on after its bytes
\* are acknowledged, or, when it has none, before.
writable == core.conns = "open" /\ sink.open
Writes ==
  /\ writer.pc = "write" /\ (writable \/ writer.item.payload = <<>>)
  /\ sink' = [sink EXCEPT !.bytes = @ \o writer.item.payload]
  /\ writer' = [writer EXCEPT !.pc = IF writer.item.halfClose
                                        /\ writer.item.payload = <<>>
                                     THEN "fin" ELSE "ack"]
  /\ UNCHANGED <<coreVars, p, relay, reader, queue, ack, emitted>>

WriteFails(k) ==
  /\ writer.pc = "write" /\ (~writable \/ p.fails) /\ k < Len(writer.item.payload)
  /\ k > 0 => writable
  /\ sink' = [sink EXCEPT !.bytes = @ \o SubSeq(writer.item.payload, 1, k)]
  /\ relay' = IF acknowledgeable(relay, k, FALSE) THEN acknowledgeWrite(relay, k)
              ELSE relay
  /\ writer' = [writer EXCEPT !.pc = "failed", !.err = "write"]
  /\ UNCHANGED <<coreVars, p, reader, queue, ack, emitted>>

Acknowledges ==
  /\ writer.pc = "ack"
  /\ LET bytes == Len(writer.item.payload) IN
     IF acknowledgeable(relay, bytes, TRUE)
     THEN /\ relay' = acknowledgeWrite(relay, bytes)
          /\ ack' = (ack \/ bytes > 0)
          /\ writer' = [writer EXCEPT !.pc = IF writer.item.halfClose /\ bytes > 0
                                             THEN "fin" ELSE "idle"]
     ELSE /\ writer' = [writer EXCEPT !.pc = "failed", !.err = "acknowledge"]
          /\ UNCHANGED <<relay, ack>>
  /\ UNCHANGED <<coreVars, p, reader, queue, sink, emitted>>

\* CloseWrite of the destination, or its Close when it has no half-close.
Finishes ==
  /\ writer.pc = "fin"
  /\ IF writable
     THEN /\ sink' = [sink EXCEPT !.fin = TRUE, !.open = p.halfCloser]
          /\ writer' = [writer EXCEPT !.pc = IF writer.item.payload = <<>>
                                             THEN "ack" ELSE "idle"]
     ELSE writer' = [writer EXCEPT !.pc = "failed", !.err = "fin"] /\ UNCHANGED sink
  /\ UNCHANGED <<coreVars, p, relay, reader, queue, ack, emitted>>

WriterOver ==
  /\ \/ /\ writer.pc = "failed" /\ core' = closeConnections(cancelRun(core))
     \/ /\ writer.pc = "idle" /\ queue.items = <<>> /\ queue.closed
        /\ UNCHANGED core
  /\ writer' = [writer EXCEPT !.pc = "over"]
  /\ UNCHANGED <<closer, now, p, relay, reader, queue, ack, sink, emitted>>

Stops == /\ reader.pc # "over" /\ UNCHANGED pumpVars
         /\ \/ p.stops = "close" /\ CloseStores
            \/ p.stops = "cancel" /\ ParentCanceled
\* After the last arrival the clock matters only to a writer that waits.
CoreStep == /\ CoreNext /\ UNCHANGED pumpVars
            /\ now' # now => now < LastArrival \/ writer.pc = "armed"

Source == ReadsEOF \/ \E k \in 1..p.script : Reads(k)
Reader == RunStarts \/ RunBinds \/ Loops \/ Blocked \/ ReadFails \/ Sends
          \/ RunEnding \/ RunReturns
Destination == Writes \/ \E k \in 0..p.script : WriteFails(k)
\* A Write has no deadline: it ends when the destination takes the bytes or fails, or
\* when the connections are closed.
destinationHolds == writer.pc = "write" /\ writable /\ writer.item.payload # <<>>
Writer == \/ WriterTakes \/ WriterWakes \/ Acknowledges \/ Finishes \/ WriterOver
          \/ ~destinationHolds /\ Destination

Next == Reader \/ Source \/ Writer \/ Destination \/ RunAgain \/ Stops \/ CoreStep
\* The goroutines and the clock run; the source and the destination may go quiet.
Fairness == WF_connVars(Reader) /\ WF_connVars(Writer) /\ WF_connVars(CoreStep)
Spec == Init /\ [][Next]_connVars /\ Fairness
-----------------------------------------------------------------------------
TypeOK ==
  /\ reader.pc \in {"new", "bind", "loop", "blocked", "read", "send", "ending",
                    "wait", "over"}
  /\ writer.pc \in {"idle", "armed", "write", "ack", "fin", "failed", "over"}
  /\ ack \in BOOLEAN /\ now \in 0..MaxTime
  /\ relay.backpressured \in Nat

\* CheckByteConservation accounts for every accepted byte at every moment,
\* through partial writes, a schedule that fails in the middle of a write and
\* a second Run, and the relay is drained once Run has returned.
Conserved ==
  /\ CheckByteConservation(relay)
  /\ reader.pc = "over" => verifyDrained(relay)

\* Whatever the fragments, thresholds and jitter, the destination has a
\* prefix of what the source sent: no byte is lost, repeated or overtaken.
\* Only a second Run, which discards what the first one holds, breaks this.
StreamOrdered ==
  ~p.reran => \A i \in DOMAIN sink.bytes : sink.bytes[i] = i

\* Run returns nil only when the destination has every byte of the source
\* and its half-close (unless a second Run discarded some).
NilIsWhole ==
  reader.result = "nil" /\ ~p.reran => sink.fin /\ Len(sink.bytes) = p.script

\* What the relay holds stays within the backpressure budget, and a read
\* bounded by readCapacity is never refused by Write (its retry loop idles).
BudgetKept ==
  p.backpressure > 0 => /\ reader.pc # "refused"
                        /\ buffered(relay) <= p.backpressure

\* The deliveries with bytes are scheduled in order, and no more of them in
\* any stretch of time than the burst and the rate allow.
RateBound ==
  enabled(p.rate) =>
    \A i, j \in DOMAIN emitted : i <= j /\ emitted[j].payload # <<>> =>
      /\ emitted[i].ready <= emitted[j].ready
      /\ FoldLeft(LAMBDA a, d : a + Len(d.payload), 0, SubSeq(emitted, i, j)) * Second
           <= p.rate.burstBytes * Second
              + p.rate.bytesPerSecond * (emitted[j].ready - emitted[i].ready)

\* A reader blocked by backpressure is released unless the destination holds a Write: the
\* relay never keeps back so many bytes below its threshold that none can be
\* acknowledged, and no acknowledgement is missed.
ReaderOwed == reader.pc = "blocked" /\ ~destinationHolds
BlockedIsReleased == ReaderOwed ~> ~ReaderOwed

RunOwed ==
  /\ closer = "over" \/ runDone \/ reader.eof \/ reader.err # "none" \/ writer.err # "none"
  /\ reader.pc # "over" /\ ~destinationHolds

\* Once the source has ended, the pump is closed, its context has ended or
\* one of its halves has failed, Run returns. A destination that holds a Write delays
\* it, but only until the connections are closed.
RunEnds == RunOwed ~> ~RunOwed
=============================================================================
