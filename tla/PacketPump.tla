---------------------------- MODULE PacketPump ----------------------------
(* PacketPump.Run (internal/weaknet/packetconn.go): the reader passes every *)
(* datagram to the relay and queues what the relay delivers, the writer     *)
(* waits for the time of each delivery, writes it and acknowledges it. Run  *)
(* may be called again, may be canceled, and Close may come at any moment.  *)
EXTENDS PumpCore, FiniteSets, Sequences, SequencesExt

-----------------------------------------------------------------------------
(* The scripted datagram relay (internal/weaknet/udp.go, profile.go): the  *)
(* profile decides by the ordinal of a datagram whether it is lost, held   *)
(* back, duplicated or delayed, the counters account for every unit and    *)
(* byte, and the modelled queue is released by Acknowledge. The relay is a *)
(* record; its mutex makes every operation here one step of its caller.    *)
(* The draw of seededRandomLoss depends on the seed and the ordinal only,  *)
(* so a profile carries the set of ordinals it loses.                      *)
Zero == [inputUnits |-> 0, inputBytes |-> 0, outputUnits |-> 0,
         outputBytes |-> 0, canceledUnits |-> 0, canceledBytes |-> 0,
         droppedUnits |-> 0, droppedBytes |-> 0, lossUnits |-> 0,
         overflowUnits |-> 0, reorderedUnits |-> 0, duplicateUnits |-> 0,
         duplicateBytes |-> 0, rebinds |-> 0]

add(a, more) ==
  [k \in DOMAIN a |-> IF k \in DOMAIN more THEN a[k] + more[k] ELSE a[k]]

count(r, more) == [r EXCEPT !.actual = add(@, more)]

\* UDPProfile.Validate
ValidateUDP(p) ==
  /\ p.delay >= 0 /\ p.mtu >= 0 /\ p.queueUnits >= 0 /\ p.queueBytes >= 0
  /\ (p.queueUnits = 0) = (p.queueBytes = 0)
  /\ \A i \in DOMAIN p.jitter : p.delay + p.jitter[i] >= 0
  /\ validRate(p.rate)
  /\ enabled(p.rate) /\ p.mtu > 0 => p.mtu <= p.rate.burstBytes
  /\ 0 \notin p.lost \cup p.reorder \cup p.duplicate \cup DOMAIN p.rebinds

NewUDPRelay(p) ==
  [ordinal |-> 0, rate |-> newTokenBucket(p.rate), pending |-> <<>>,
   reorders |-> 0, sizes |-> <<>>, actual |-> Zero]

Bytes(sizes) == FoldLeft(LAMBDA a, n : a + n, 0, sizes)

queueFull(p, r, size) ==
  /\ p.queueUnits > 0
  /\ \/ Len(r.sizes) + 1 > p.queueUnits
     \/ Bytes(r.sizes) + size > p.queueBytes

admit(r, size) == [r EXCEPT !.sizes = Append(@, size)]

unadmit(r, size) ==
  [r EXCEPT !.sizes = RemoveFirst(@, size)]

\* The outages, the scripted and drawn losses and the MTU ceiling.
lost(p, ordinal, size) ==
  ordinal \in p.lost \/ (p.mtu > 0 /\ size > p.mtu)

dropped(r, size) == count(r, [droppedUnits |-> 1, droppedBytes |-> size])

canceled(r, size, units) ==
  count(r, [canceledUnits |-> units, canceledBytes |-> units * size])

readyTime(p, ordinal, at) ==
  at + p.delay + (IF p.jitter = <<>> THEN 0
                  ELSE p.jitter[((ordinal - 1) % Len(p.jitter)) + 1])

delivery(r, d, ready) ==
  [ordinal |-> r.ordinal, ready |-> ready, size |-> d.size, target |-> d.target]

\* The units a failed schedule cancels: those admitted and those to come.
abandoned(x, left) == Len(x.out) + left

\* One copy of a datagram, of which `left` are still to be made, this one
\* included. x = [r, out, ok].
Copied(p, x, d, left) ==
  LET r == x.r
      s == schedule(r.rate, readyTime(p, r.ordinal, d.at), d.size)
  IN  IF ~x.ok THEN x
      ELSE IF queueFull(p, r, d.size)
      THEN [x EXCEPT !.r = count(dropped(r, d.size), [overflowUnits |-> 1])]
      ELSE IF s.ok
      THEN [x EXCEPT !.r = admit([r EXCEPT !.rate = s.rate], d.size),
                     !.out = Append(@, delivery(r, d, s.ready))]
      ELSE [r |-> canceled(FoldLeft(LAMBDA q, y : unadmit(q, y.size), r, x.out),
                           d.size, abandoned(x, left)),
            out |-> <<>>, ok |-> FALSE]

Copies(p, r, d) ==
  LET size == d.size
      x == [r |-> r, out |-> <<>>, ok |-> TRUE] IN
  IF r.ordinal \in p.duplicate
  THEN LET twice == count(r, [duplicateUnits |-> 1, duplicateBytes |-> size])
       IN  Copied(p, Copied(p, [x EXCEPT !.r = twice], d, 2), d, 1)
  ELSE Copied(p, x, d, 1)

\* The held datagrams leave after everything delivered now, in their order.
Later(pending, lastReady) ==
  FoldLeft(LAMBDA x, d :
             LET ready == IF d.ready <= x.last THEN x.last + 1 ELSE d.ready
             IN  [last |-> ready, out |-> Append(x.out, [d EXCEPT !.ready = ready])],
           [last |-> lastReady, out |-> <<>>], pending).out

\* Mutant: a reordered datagram is released before the one it waits for.
ReleasedFirst(x, at) == x.r.pending \o x.out

released(x, at) ==
  x.out \o Later(x.r.pending,
                 FoldLeft(LAMBDA a, d : IF d.ready > a THEN d.ready ELSE a,
                          at, x.out))

Released(p, x, at) ==
  IF ~x.ok THEN x
  ELSE IF x.r.ordinal \in p.reorder
  THEN [x EXCEPT !.r.pending = @ \o x.out, !.r.reorders = @ + 1, !.out = <<>>]
  ELSE IF x.r.pending = <<>> THEN x
  ELSE [x EXCEPT !.out = released(x, at),
                 !.r = count([x.r EXCEPT !.pending = <<>>, !.reorders = 0],
                             [reorderedUnits |-> x.r.reorders])]

\* Process: the next ordinal, in relay order; ctxErr is the context's state.
Process(p, relay, d, ctxErr) ==
  LET r == count([relay EXCEPT !.ordinal = @ + 1],
                 [inputUnits |-> 1, inputBytes |-> d.size])
      rebind == r.ordinal \in DOMAIN p.rebinds
      moved == IF rebind THEN count(r, [rebinds |-> 1]) ELSE r
  IN  IF ctxErr THEN [r |-> relay, out |-> <<>>, ok |-> FALSE]
      ELSE IF rebind /\ ~p.rebinds[r.ordinal]
      THEN [r |-> canceled(r, d.size, 1), out |-> <<>>, ok |-> FALSE]
      ELSE IF lost(p, r.ordinal, d.size)
      THEN [r |-> count(dropped(moved, d.size), [lossUnits |-> 1]),
            out |-> <<>>, ok |-> TRUE]
      ELSE Released(p, Copies(p, moved, d), d.at)

\* Acknowledge: refused unless a unit of this size is outstanding.
acknowledgeable(r, size) == size \in Range(r.sizes)

Acknowledge(r, size) ==
  count(unadmit(r, size), [outputUnits |-> 1, outputBytes |-> size])

discardPending(r) ==
  count([r EXCEPT !.pending = <<>>, !.reorders = 0, !.sizes = <<>>],
        [canceledUnits |-> Len(r.sizes), canceledBytes |-> Bytes(r.sizes)])

verifyDrained(r) == r.pending = <<>> /\ r.reorders = 0 /\ r.sizes = <<>>

\* CheckUDPConservation, with what is still outstanding.
CheckUDPConservation(r) ==
  LET a == r.actual IN
  /\ a.inputUnits + a.duplicateUnits
       = a.outputUnits + a.droppedUnits + a.canceledUnits + Len(r.sizes)
  /\ a.inputBytes + a.duplicateBytes
       = a.outputBytes + a.droppedBytes + a.canceledBytes + Bytes(r.sizes)

-----------------------------------------------------------------------------
CONSTANTS Profiles,      \* the profiles, with what happens to the pump
          DefaultQueue   \* defaultPumpQueueUnits

VARIABLES p,         \* the profile
          relay, reader, writer, queue,
          wrote      \* the datagrams written, in order (history)

pumpVars == <<p, relay, reader, writer, queue, wrote>>
packetVars == <<coreVars, pumpVars>>

\* Datagram n of the script; the resolver maps its source to its target.
Resolve(n) == IF n % 2 = 0 THEN "b" ELSE "a"
Datagram(n) == [at |-> now, size |-> p.script[n], target |-> Resolve(n)]

Init ==
  /\ CoreInit /\ p \in Profiles /\ ValidateUDP(p)
  /\ relay = NewUDPRelay(p)
  /\ reader = [pc |-> "new", out |-> <<>>, err |-> "none", result |-> "none"]
  /\ writer = [pc |-> "idle", item |-> <<>>, err |-> "none"]
  /\ queue = [items |-> <<>>, closed |-> FALSE]
  /\ wrote = <<>>

QueueUnits == IF p.queueUnits > 0 THEN p.queueUnits ELSE DefaultQueue

\* Run returns; its deferred calls discard what is pending and close.
returns(result, c) ==
  /\ reader' = [reader EXCEPT !.pc = "over", !.result = result]
  /\ relay' = discardPending(relay) /\ core' = c

RunStarts ==
  /\ reader.pc = "new"
  /\ \/ core.explicit /\ returns("closed", core)
     \/ /\ ~core.explicit /\ reader' = [reader EXCEPT !.pc = "bind"]
        /\ UNCHANGED <<core, relay>>
  /\ UNCHANGED <<closer, now, p, writer, queue, wrote>>

RunBinds ==
  /\ reader.pc = "bind"
  /\ \/ core.parent /\ returns("canceled", closeConnections(bindCancel))
     \/ /\ ~core.parent /\ core' = bindCancel
        /\ reader' = [reader EXCEPT !.pc = "read"] /\ UNCHANGED relay
  /\ UNCHANGED <<closer, now, p, writer, queue, wrote>>

\* A second Run returns ErrPumpAlreadyRun, and discards as it returns.
RunAgain ==
  /\ p.again /\ reader.pc \notin {"new", "over"}
  /\ p' = [p EXCEPT !.again = FALSE] /\ relay' = discardPending(relay)
  /\ UNCHANGED <<coreVars, reader, writer, queue, wrote>>

\* readLoop: a read that fails, or a datagram the relay refuses, ends it.
ReadFails ==
  /\ reader.pc = "read" /\ core.conns = "closed"
  /\ reader' = [reader EXCEPT !.pc = "ending", !.err = "read"]
  /\ UNCHANGED <<coreVars, p, relay, writer, queue, wrote>>

Reads ==
  /\ reader.pc = "read" /\ core.conns = "open" /\ now <= LastArrival /\ relay.ordinal < Len(p.script)
  /\ LET x == Process(p, relay, Datagram(relay.ordinal + 1), runDone) IN
     /\ relay' = x.r
     /\ reader' = [reader EXCEPT !.out = x.out,
                     !.err = IF x.ok THEN "none" ELSE "process",
                     !.pc = IF ~x.ok THEN "ending"
                            ELSE IF x.out = <<>> THEN "read" ELSE "send"]
  /\ UNCHANGED <<coreVars, p, writer, queue, wrote>>

Sends ==
  /\ reader.pc = "send"
  /\ \/ /\ Len(queue.items) < QueueUnits
        /\ queue' = [queue EXCEPT !.items = Append(@, Head(reader.out))]
        /\ reader' = [reader EXCEPT !.out = Tail(@),
                        !.pc = IF Len(reader.out) = 1 THEN "read" ELSE "send"]
     \/ /\ runDone /\ reader' = [reader EXCEPT !.pc = "ending", !.err = "canceled"]
        /\ UNCHANGED queue
  /\ UNCHANGED <<coreVars, p, relay, writer, wrote>>

RunEnding ==
  /\ reader.pc = "ending" /\ reader' = [reader EXCEPT !.pc = "wait"]
  /\ core' = cancelRun(core) /\ queue' = [queue EXCEPT !.closed = TRUE]
  /\ UNCHANGED <<closer, now, p, relay, writer, wrote>>

RunReturns ==
  /\ reader.pc = "wait" /\ writer.pc = "over"
  /\ returns(classify(IF writer.err \notin {"none", "canceled"} THEN writer.err
                      ELSE reader.err), closeConnections(core))
  /\ UNCHANGED <<closer, now, p, writer, queue, wrote>>

\* writePackets. WaitUntil answers at once when the time has come, and
\* otherwise whichever of the timer and the context is first.
WriterTakes ==
  /\ writer.pc = "idle" /\ queue.items # <<>>
  /\ LET d == Head(queue.items) IN
     writer' = [pc |-> IF now < d.ready THEN "armed"
                       ELSE IF runDone THEN "failed" ELSE "write",
                item |-> d, err |-> IF now >= d.ready /\ runDone THEN "canceled"
                                    ELSE "none"]
  /\ queue' = [queue EXCEPT !.items = Tail(@)]
  /\ UNCHANGED <<coreVars, p, relay, reader, wrote>>

WriterWakes ==
  /\ writer.pc = "armed"
  /\ \/ now >= writer.item.ready /\ writer' = [writer EXCEPT !.pc = "write"]
     \/ runDone /\ writer' = [writer EXCEPT !.pc = "failed", !.err = "canceled"]
  /\ UNCHANGED <<coreVars, p, relay, reader, queue, wrote>>

deliveryTarget == writer.item.target

Writes ==
  /\ writer.pc = "write"
  /\ \/ /\ core.conns = "open" /\ writer' = [writer EXCEPT !.pc = "ack"]
        /\ wrote' = Append(wrote, [writer.item EXCEPT !.target = deliveryTarget])
     \/ /\ core.conns = "closed" \/ p.fails
        /\ writer' = [writer EXCEPT !.pc = "failed", !.err = "write"]
        /\ UNCHANGED wrote
  /\ UNCHANGED <<coreVars, p, relay, reader, queue>>

Acknowledges ==
  /\ writer.pc = "ack"
  /\ IF acknowledgeable(relay, writer.item.size)
     THEN /\ relay' = Acknowledge(relay, writer.item.size)
          /\ writer' = [writer EXCEPT !.pc = "idle"]
     ELSE /\ writer' = [writer EXCEPT !.pc = "failed", !.err = "acknowledge"]
          /\ UNCHANGED relay
  /\ UNCHANGED <<coreVars, p, reader, queue, wrote>>

\* The writer's goroutine cancels the run when writePackets fails.
WriterOver ==
  /\ \/ /\ writer.pc = "failed" /\ core' = closeConnections(cancelRun(core))
     \/ /\ writer.pc = "idle" /\ queue.items = <<>> /\ queue.closed
        /\ UNCHANGED core
  /\ writer' = [writer EXCEPT !.pc = "over"]
  /\ UNCHANGED <<closer, now, p, relay, reader, queue, wrote>>

\* A profile says how its pump is stopped, if it is.
Stops == /\ reader.pc # "over" /\ UNCHANGED pumpVars
         /\ \/ p.stops = "close" /\ CloseStores
            \/ p.stops = "cancel" /\ ParentCanceled
\* After the last arrival the clock matters only to a writer that waits.
CoreStep == /\ CoreNext /\ UNCHANGED pumpVars
            /\ now' # now => now < LastArrival \/ writer.pc = "armed"

Reader == RunStarts \/ RunBinds \/ ReadFails \/ Sends \/ RunEnding \/ RunReturns
Writer == WriterTakes \/ WriterWakes \/ Writes \/ Acknowledges \/ WriterOver

Next == Reader \/ Reads \/ Writer \/ RunAgain \/ Stops \/ CoreStep

\* The goroutines and the clock run; nothing makes a datagram arrive.
Fairness == WF_packetVars(Reader) /\ WF_packetVars(Writer) /\ WF_packetVars(CoreStep)
Spec == Init /\ [][Next]_packetVars /\ Fairness
-----------------------------------------------------------------------------
TypeOK ==
  /\ core \in [explicit : BOOLEAN, bound : BOOLEAN, canceled : BOOLEAN,
               parent : BOOLEAN, conns : {"open", "closed"}]
  /\ reader.pc \in {"new", "bind", "read", "send", "ending", "wait", "over"}
  /\ writer.pc \in {"idle", "armed", "write", "ack", "failed", "over"}
  /\ \A k \in DOMAIN relay.actual : relay.actual[k] \in Nat

\* CheckUDPConservation accounts for every datagram and every byte at every
\* moment, through overflow, failed schedules, failed writes and a second
\* Run, and the relay is drained (verifyDrained) once Run has returned.
Conserved ==
  /\ CheckUDPConservation(relay)
  /\ reader.pc = "over" => verifyDrained(relay)

\* The modelled queue stays within QueueUnits and QueueBytes, and a delivery
\* the relay admitted finds room in the channel sized by QueueUnits: the
\* reader never waits for the writer (only a second Run can upset the count).
QueueBounded ==
  p.queueUnits > 0 =>
    /\ Len(relay.sizes) <= p.queueUnits /\ Bytes(relay.sizes) <= p.queueBytes
    /\ reader.pc = "send" /\ relay.actual.canceledUnits = 0
         => Len(queue.items) < QueueUnits

\* A datagram held back by the reorder script is written after one that came
\* later; a later datagram that overflowed the queue is the only excuse.
ReorderedLater ==
  \A i \in DOMAIN wrote :
    wrote[i].ordinal \in p.reorder /\ relay.actual.overflowUnits = 0
      => \E j \in 1..(i - 1) : wrote[j].ordinal > wrote[i].ordinal

\* Every datagram goes to the target of its own source, whatever was read
\* while it was held or waited for its time (PacketTargetResolver).
TargetKept ==
  \A i \in DOMAIN wrote : wrote[i].target = Resolve(wrote[i].ordinal)

RunOwed ==
  (closer = "over" \/ runDone \/ reader.err # "none" \/ writer.err # "none") /\ reader.pc # "over"

\* Once the pump is closed, its context has ended or one of its halves has
\* failed, Run returns.
RunEnds == RunOwed ~> ~RunOwed
=============================================================================
