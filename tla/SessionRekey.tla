--------------------------- MODULE SessionRekey ---------------------------
(***************************************************************************)
(* Key updates of a session with open streams: the Rekey call, the control *)
(* loop that answers SESSION_KEY_UPDATE, and on every stream the writer,   *)
(* the reader that holds read ownership, the ACK goroutine and the         *)
(* goroutine that waits for the peer's ACK.  Either endpoint may call      *)
(* Rekey, write, close its write side, reset a stream or read at any time. *)
(*                                                                         *)
(* A step is what one goroutine does while it holds a stream or session    *)
(* mutex.  The steps of awaitReceiveRekey that release a mutex between a   *)
(* check and the capture of a wake-up channel are separate.                *)
(*                                                                         *)
(* The world is a record of the two engineSessions and of what is in       *)
(* flight, so that a handler that ends in a stream reset, a root cleanup   *)
(* or a session failure is the composition of the functions it calls.      *)
(* Streams are already open and acknowledged.  A record is its type, its   *)
(* header (epoch, sequence) and, for key updates and their ACKs, the       *)
(* transition and the next epoch.  AEAD is abstract: a record can be       *)
(* opened exactly when the receiver holds the root of its epoch.           *)
(***************************************************************************)
EXTENDS Integers, Sequences, FiniteSets

CONSTANT Streams      \* the open logical streams

Endpoint == {"client", "server"}

Peer(e) == IF e = "client" THEN "server" ELSE "client"

\* A transition and its next epoch; transition zero stands for nil.
NoRekey == [id |-> 0, epoch |-> 0]

\* encryptedStream
InitStream ==
  [ sendEpoch |-> 0, sendSeq |-> 0, recvEpoch |-> 0, recvSeq |-> 0,
    priorACK  |-> FALSE, priorSeq |-> 0,     \* recvPriorACK, recvPriorSeq
    update    |-> NoRekey, acked |-> FALSE,  \* recvUpdateID/Epoch, recvUpdateAcked
    pending   |-> NoRekey,                   \* sendRekey
    last      |-> NoRekey,                   \* lastSendRekeyTransition/Epoch
    writer    |-> NoRekey,                   \* the runSendRekey goroutine, and
    armed     |-> FALSE,                     \* whether it holds sendMu to write
    ackTask   |-> NoRekey,                   \* the sendStreamKeyUpdateACK goroutine
    waiters   |-> {},                        \* awaitSendRekeyACK goroutines
    owner     |-> 0, ackOwner |-> 0,         \* readOwner; the waiter behind owner 3
    localFIN  |-> FALSE, remoteFIN |-> FALSE,
    closing   |-> FALSE,                     \* CloseWrite before carrier.CloseWrite
    terminal  |-> FALSE,                     \* terminalErr # nil
    listed    |-> TRUE,                      \* in session.streams
    sendNeed  |-> 1, recvNeed |-> 1 ]        \* root needs: epoch + 1, or 0

\* handleSessionUpdate in progress (pc "none" when the control loop is free).
NoUpdate == [pc |-> "none", id |-> 0, epoch |-> 0, snapshot |-> {}, todo |-> {}, cur |-> {}]

\* engineSession.  controlSendEpoch and sendEpoch are always assigned together.
InitSession ==
  [ sendEpoch |-> 0, ctlSendSeq |-> 0,
    recvSessionEpoch |-> 0, ctlRecvEpoch |-> 0, ctlRecvSeq |-> 0,
    sendRoots |-> {0}, recvRoots |-> {0},
    nextTransition |-> 1, recvTransition |-> 0,
    pendingRekey |-> NoRekey, ackSeen |-> FALSE, lastACK |-> NoRekey,
    call |-> "idle", callStreams |-> {},     \* the Rekey call
    upd |-> NoUpdate,
    failed |-> "no",                         \* why the session failed
    streams |-> [x \in Streams |-> InitStream] ]

InitNet ==
  [ wire    |-> [e \in Endpoint |-> [x \in Streams |-> <<>>]],  \* records sent by e
    ctl     |-> [e \in Endpoint |-> <<>>],                      \* control records sent by e
    resetBy |-> [x \in Streams |-> {}],                         \* endpoints that reset the carrier stream
    shut    |-> [x \in Streams |-> {}] ]                        \* endpoints that closed their write side

St(w, e, x) == w.ep[e].streams[x]

\* The world with another session at e and another network, or with only the
\* session or one of its streams changed.
PutStream(s, x, t) == [s EXCEPT !.streams[x] = t]
With(w, e, s, n) == [ep |-> [w.ep EXCEPT ![e] = s], net |-> n]
SetSession(w, e, s) == With(w, e, s, w.net)
SetStream(w, e, x, t) == SetSession(w, e, PutStream(w.ep[e], x, t))

\* LogicalStreamState: both directions finished.
CleanClosed(s) == s.localFIN /\ s.remoteFIN

canRekeySend(s) == ~s.terminal /\ ~s.localFIN

sendMuFree(s) == ~s.armed

fail(w, e, why) ==
  IF w.ep[e].failed = "no" THEN SetSession(w, e, [w.ep[e] EXCEPT !.failed = why]) ELSE w

\* The epochs the endpoint needs for sending and for receiving: its own and
\* those of the listed streams.
sendNeeds(s) ==
  {s.sendEpoch} \cup
  {s.streams[x].sendNeed - 1 : x \in {y \in Streams : s.streams[y].listed /\ s.streams[y].sendNeed # 0}}

recvNeeds(s) ==
  {s.ctlRecvEpoch} \cup
  {s.streams[x].recvNeed - 1 : x \in {y \in Streams : s.streams[y].listed /\ s.streams[y].recvNeed # 0}}

\* Roots below the least epoch needed go; an epoch is not below the least one
\* exactly when some needed epoch is at or below it.
atLeast(roots, needs) == {n \in roots : \E m \in needs : m <= n}

cleanupEpochRoots(w, e) ==
  LET s == w.ep[e]
  IN  SetSession(w, e, [s EXCEPT !.sendRoots = atLeast(@, sendNeeds(s)),
                                 !.recvRoots = atLeast(@, recvNeeds(s))])

\* Seal a control record with the current control epoch and queue it.  The body
\* is a stream, or a transition and its epoch.
commitControl(w, e, type, body) ==
  LET s == w.ep[e]
      m == [hdr |-> <<s.sendEpoch, s.ctlSendSeq>>, type |-> type, body |-> body]
  IN  With(w, e, [s EXCEPT !.ctlSendSeq = @ + 1], [w.net EXCEPT !.ctl[e] = Append(@, m)])

\* The part of localReset and peerReset that ends the stream at this endpoint.
\* What the peer sent and was not read yet is never read.
Ended(t) == [t EXCEPT !.terminal = TRUE, !.pending = NoRekey, !.sendNeed = 0, !.recvNeed = 0, !.listed = FALSE]

EndStream(w, e, x) ==
  With(w, e, PutStream(w.ep[e], x, Ended(St(w, e, x))),
       [w.net EXCEPT !.resetBy[x] = @ \cup {e}, !.wire[Peer(e)][x] = <<>>])

localReset(w, e, x) ==
  IF St(w, e, x).terminal THEN w
  ELSE cleanupEpochRoots(
         commitControl(EndStream(w, e, x), e, "STREAM_RESET", x), e)

peerReset(w, e, x) ==
  IF St(w, e, x).terminal \/ ~St(w, e, x).listed THEN w
  ELSE cleanupEpochRoots(EndStream(w, e, x), e)

releaseIfClean(w, e, x) ==
  IF CleanClosed(St(w, e, x)) THEN SetStream(w, e, x, [St(w, e, x) EXCEPT !.listed = FALSE]) ELSE w

(***************************************************************************)
(* The carrier (external).  A write or read fails for the endpoint that    *)
(* reset the stream; for the other one it fails from the moment the reset  *)
(* arrives, which may be now or later.  A write after CloseWrite fails.    *)
(***************************************************************************)
CarrierWriteOK(w, e, x) == e \notin w.net.resetBy[x] \cup w.net.shut[x]

CarrierWriteFails(w, e, x) == w.net.resetBy[x] # {} \/ e \in w.net.shut[x]

HasSendRoot(w, e, x) == St(w, e, x).sendEpoch \in w.ep[e].sendRoots

\* appendRecordLocked and the carrier write; a record for an endpoint that
\* already reset the stream is dropped.
WriteRecord(w, e, x, type, rekey) ==
  LET s == St(w, e, x)
      full == [hdr |-> <<s.sendEpoch, s.sendSeq>>, type |-> type, rekey |-> rekey]
  IN  With(w, e, PutStream(w.ep[e], x, [s EXCEPT !.sendSeq = @ + 1]),
           [w.net EXCEPT !.wire[e][x] = IF Peer(e) \in w.net.resetBy[x] THEN @ ELSE Append(@, full)])

CanWrite(w, e, x)    == HasSendRoot(w, e, x) /\ CarrierWriteOK(w, e, x)
CanFailWrite(w, e, x) == ~HasSendRoot(w, e, x) \/ CarrierWriteFails(w, e, x)

(***************************************************************************)
(* Wake-ups of the control loop, which waits for stream upd.cur.  It first *)
(* takes the readOwnerChanged channel (pc "watch") and then the            *)
(* recvUpdateChanged channel (pc "blocked"); on the ACK path it only takes *)
(* recvUpdateChanged (pc "blockedACK").  Closing a channel it holds sends  *)
(* it back to the status check; closing one it does not hold yet is lost.  *)
(***************************************************************************)
SetPC(w, e, pc) == SetSession(w, e, [w.ep[e] EXCEPT !.upd = [@ EXCEPT !.pc = pc]])

Wake(w, e, x, pcs) ==
  IF w.ep[e].upd.cur = {x} /\ w.ep[e].upd.pc \in pcs
  THEN SetPC(w, e, "status")
  ELSE w

\* Mutant: the owner of the read changes without readOwnerChanged being closed.
setReadOwnerSilently(w, e, x, o) == SetStream(w, e, x, [St(w, e, x) EXCEPT !.owner = o])

setReadOwner(w, e, x, o) ==
  Wake(SetStream(w, e, x, [St(w, e, x) EXCEPT !.owner = o]), e, x, {"watch", "blocked"})

recvUpdateChanged(w, e, x) == Wake(w, e, x, {"blocked", "blockedACK"})

-----------------------------------------------------------------------------
CONSTANTS
  MaxRekeys,    \* bounds on what the application does, per endpoint:
  MaxData,      \* Rekey calls, DATA records,
  MaxFINs,      \* CloseWrite calls
  MaxResets,    \* and Reset calls
  Deadlines     \* whether RekeyPrepareTimeout and RekeyCompletionTimeout expire

VARIABLES
  world,        \* the two sessions (ep) and the network (net)
  left          \* application calls left, per endpoint and kind

vars == <<world, left>>

Init ==
  /\ world = [ep |-> [e \in Endpoint |-> InitSession], net |-> InitNet]
  /\ left = [rekey |-> MaxRekeys, data |-> MaxData, fin |-> MaxFINs, reset |-> MaxResets]

Running(e) == world.ep[e].failed = "no"

S(e, x) == St(world, e, x)

\* The application uses one of its calls of a kind.
Spend(kind, e) ==
  /\ left[kind][e] > 0
  /\ left' = [left EXCEPT ![kind][e] = @ - 1]

-----------------------------------------------------------------------------
(* Application calls on a stream.                                           *)

\* lockSendReady: no key update of this direction is pending and sendMu is free.
SendReady(e, x) == S(e, x).pending = NoRekey /\ sendMuFree(S(e, x))

Write(e, x) ==
  /\ Running(e) /\ Spend("data", e)
  /\ SendReady(e, x) /\ ~S(e, x).terminal /\ ~S(e, x).localFIN
  /\ \/ CanWrite(world, e, x) /\ world' = WriteRecord(world, e, x, "DATA", NoRekey)
     \/ CanFailWrite(world, e, x) /\ world' = localReset(world, e, x)

\* CloseWrite up to and including the root cleanup; the carrier's write side
\* is closed by CloseWriteCarrier, after sendMu was released.
CloseWrite(e, x) ==
  /\ Running(e) /\ Spend("fin", e)
  /\ SendReady(e, x) /\ ~S(e, x).terminal /\ ~S(e, x).localFIN
  /\ LET fin == SetStream(world, e, x, [S(e, x) EXCEPT !.localFIN = TRUE])
         sent == WriteRecord(fin, e, x, "FIN", NoRekey)
     IN  \/ /\ CanWrite(world, e, x)
            /\ world' = cleanupEpochRoots(
                  SetStream(sent, e, x, [St(sent, e, x) EXCEPT !.sendNeed = 0, !.closing = TRUE]), e)
         \/ CanFailWrite(world, e, x) /\ world' = localReset(fin, e, x)

CloseWriteCarrier(e, x) ==
  /\ Running(e) /\ S(e, x).closing
  /\ world' = releaseIfClean(
                With(world, e, PutStream(world.ep[e], x, [S(e, x) EXCEPT !.closing = FALSE]),
                     [world.net EXCEPT !.shut[x] = @ \cup {e}]), e, x)
  /\ UNCHANGED left

Reset(e, x) ==
  /\ Running(e) /\ Spend("reset", e)
  /\ ~S(e, x).terminal
  /\ world' = localReset(world, e, x)

\* Read takes read ownership when it has to wait for a record.
Read(e, x) ==
  /\ Running(e) /\ UNCHANGED left
  /\ S(e, x).owner = 0 /\ ~S(e, x).remoteFIN /\ ~S(e, x).terminal
  /\ world' = setReadOwner(world, e, x, 1)

-----------------------------------------------------------------------------
(* The Rekey call and the goroutines it starts.                             *)

\* startSendRekey on one stream, with its two goroutines.
startSendRekey(s, r) ==
  [s EXCEPT !.pending = r, !.writer = r, !.waiters = @ \cup {r.id}]

Rekey(e) ==
  /\ Running(e) /\ Spend("rekey", e)
  /\ world.ep[e].call = "idle"
  /\ LET s == world.ep[e]
         r == [id |-> s.nextTransition, epoch |-> s.sendEpoch + 1]
         go == {x \in Streams : s.streams[x].listed /\ canRekeySend(s.streams[x])}
         next == SetSession(world, e,
                   [s EXCEPT !.sendRoots = @ \cup {r.epoch}, !.nextTransition = @ + 1,
                             !.pendingRekey = r, !.call = "arming", !.callStreams = go,
                             !.streams = [x \in Streams |->
                                IF x \in go /\ @[x].pending = NoRekey
                                THEN startSendRekey(@[x], r) ELSE @[x]]])
     IN  world' = IF \E x \in go : s.streams[x].pending # NoRekey
                  THEN fail(next, e, "stream") ELSE next

\* runSendRekey up to the point where it holds sendMu and has closed armed.
ArmSendRekey(e, x) ==
  /\ Running(e) /\ UNCHANGED left
  /\ S(e, x).writer # NoRekey /\ sendMuFree(S(e, x))
  /\ LET s == S(e, x)
         done == [s EXCEPT !.writer = NoRekey]
     IN  world' =
           IF ~canRekeySend(s)
           THEN SetStream(world, e, x, IF s.pending = s.writer THEN [done EXCEPT !.pending = NoRekey] ELSE done)
           ELSE IF s.pending # s.writer
           THEN fail(SetStream(world, e, x, done), e, "stream")
           ELSE SetStream(world, e, x, [s EXCEPT !.armed = TRUE])

\* The rest of runSendRekey: STREAM_KEY_UPDATE is written, or the session fails.
WriteKeyUpdate(e, x) ==
  /\ Running(e) /\ UNCHANGED left
  /\ S(e, x).armed
  /\ LET r == S(e, x).writer
         done == [S(e, x) EXCEPT !.armed = FALSE, !.writer = NoRekey]
     IN  \/ /\ canRekeySend(S(e, x)) /\ CanWrite(world, e, x)
            /\ world' = WriteRecord(SetStream(world, e, x, done), e, x, "KEY_UPDATE", r)
         \/ /\ ~canRekeySend(S(e, x)) \/ CanFailWrite(world, e, x)
            /\ world' = fail(SetStream(world, e, x, [done EXCEPT !.pending = IF @ = r THEN NoRekey ELSE @]),
                             e, "stream")

\* Every stream is armed: SESSION_KEY_UPDATE is committed.
CommitUpdate(e) ==
  /\ Running(e) /\ UNCHANGED left
  /\ world.ep[e].call = "arming"
  /\ \A x \in world.ep[e].callStreams : S(e, x).writer = NoRekey \/ S(e, x).armed
  /\ world' = commitControl(SetSession(world, e, [world.ep[e] EXCEPT !.call = "committed"]), e,
                "SESSION_KEY_UPDATE", world.ep[e].pendingRekey)

\* Mutant: Rekey returns on the session ACK alone.
FinishRekeyEarly(e) ==
  /\ Running(e) /\ UNCHANGED left
  /\ world.ep[e].call = "committed" /\ world.ep[e].ackSeen
  /\ world' = cleanupEpochRoots(
                SetSession(world, e, [world.ep[e] EXCEPT !.call = "idle", !.callStreams = {},
                                                         !.pendingRekey = NoRekey, !.ackSeen = FALSE]), e)

\* The session ACK and every stream ACK arrived (or the stream ended).
FinishRekey(e) ==
  /\ Running(e) /\ UNCHANGED left
  /\ LET s == world.ep[e]
     IN  /\ s.call = "committed" /\ s.ackSeen
         /\ \A x \in s.callStreams : s.streams[x].pending # s.pendingRekey
  /\ world' = cleanupEpochRoots(
                SetSession(world, e, [world.ep[e] EXCEPT !.call = "idle", !.callStreams = {},
                                                         !.pendingRekey = NoRekey, !.ackSeen = FALSE]), e)

\* RekeyPrepareTimeout while arming, RekeyCompletionTimeout afterwards.
RekeyDeadline(e) ==
  /\ Deadlines /\ Running(e) /\ UNCHANGED left
  /\ world.ep[e].call # "idle"
  /\ world' = fail(SetSession(world, e, [world.ep[e] EXCEPT !.pendingRekey = NoRekey]), e, "deadline")

\* awaitSendRekeyACK of transition t takes read ownership ...
AwaitSendRekeyACK(e, x, t) ==
  /\ Running(e) /\ UNCHANGED left
  /\ t \in S(e, x).waiters /\ S(e, x).pending.id = t /\ S(e, x).owner = 0
  /\ world' = setReadOwner(SetStream(world, e, x, [S(e, x) EXCEPT !.ackOwner = t]), e, x, 3)

\* ... or returns when the transition is complete and it does not own the read.
WaiterDone(e, x, t) ==
  /\ Running(e) /\ UNCHANGED left
  /\ t \in S(e, x).waiters /\ S(e, x).pending.id # t
  /\ ~(S(e, x).owner = 3 /\ S(e, x).ackOwner = t)
  /\ world' = SetStream(world, e, x, [S(e, x) EXCEPT !.waiters = @ \ {t}])
-----------------------------------------------------------------------------
(* Reading one record: readNextRecordLocked.                                *)

\* The record is the old-epoch ACK that may overtake the peer's own update.
IsPriorACK(s, r) == s.priorACK /\ r.hdr = <<s.recvEpoch - 1, s.priorSeq>>

\* receiveStreamKeyUpdateLocked and receiveStreamKeyUpdateACK accept r.
AcceptsKeyUpdate(s, r) ==
  /\ r.rekey.epoch = s.recvEpoch + 1
  /\ s.update = NoRekey

AcceptsACK(s, r) ==
  IF s.pending = NoRekey THEN s.last = r.rekey ELSE s.pending = r.rekey

Acceptable(e, x, r) ==
  LET s == S(e, x)
  IN  /\ r.hdr[1] \in world.ep[e].recvRoots
      /\ IF IsPriorACK(s, r) THEN r.type = "ACK" ELSE r.hdr = <<s.recvEpoch, s.recvSeq>>
      /\ r.type # "ACK" => ~s.terminal /\ ~s.remoteFIN
      /\ r.type = "KEY_UPDATE" => AcceptsKeyUpdate(s, r)
      /\ r.type = "ACK" => AcceptsACK(s, r)

\* The header moves the receive position of the stream.
ConsumeHeader(s, r) ==
  IF IsPriorACK(s, r)
  THEN [s EXCEPT !.priorACK = FALSE, !.recvNeed = s.recvEpoch + 1]
  ELSE [s EXCEPT !.priorACK = FALSE, !.recvSeq = @ + 1]

receiveStreamKeyUpdate(s, r) ==
  LET prior == s.pending = r.rekey
  IN  [s EXCEPT !.priorACK = prior, !.priorSeq = s.recvSeq,
                !.recvNeed = IF prior THEN s.recvEpoch + 1 ELSE r.rekey.epoch + 1,
                !.recvEpoch = r.rekey.epoch, !.recvSeq = 0,
                !.update = r.rekey, !.acked = FALSE, !.ackTask = r.rekey]

\* Mutant: the ACK restarts the sequence but the epoch of the stream is kept.
receiveACKKeepsEpoch(s, r) ==
  IF s.pending = NoRekey THEN s
  ELSE [s EXCEPT !.sendSeq = 0, !.pending = NoRekey, !.last = r.rekey]

receiveStreamKeyUpdateACK(s, r) ==
  IF s.pending = NoRekey THEN s
  ELSE [s EXCEPT !.sendEpoch = r.rekey.epoch, !.sendNeed = r.rekey.epoch + 1,
                 !.sendSeq = 0, !.pending = NoRekey, !.last = r.rekey]

\* The roots of an epoch are derived before records of it arrive.
AddRecvRoot(w, e, n) == SetSession(w, e, [w.ep[e] EXCEPT !.recvRoots = @ \cup {n}])

\* An acceptable record takes effect.
ApplyRecord(w, e, x, r) ==
  LET s == ConsumeHeader(St(w, e, x), r)
  IN  CASE r.type = "DATA" -> SetStream(w, e, x, s)
        [] r.type = "FIN" ->
             releaseIfClean(SetStream(w, e, x, [s EXCEPT !.remoteFIN = TRUE, !.recvNeed = 0]), e, x)
        [] r.type = "KEY_UPDATE" ->
             recvUpdateChanged(SetStream(AddRecvRoot(w, e, r.rekey.epoch), e, x, receiveStreamKeyUpdate(s, r)), e, x)
        [] r.type = "ACK" -> SetStream(w, e, x, receiveStreamKeyUpdateACK(s, r))

\* receiveRekeyStatus for the session update in progress.
Status(w, e, x) ==
  LET s == St(w, e, x)
      u == w.ep[e].upd
  IN  CASE s.update # NoRekey /\ s.update # [id |-> u.id, epoch |-> u.epoch] -> "error"
        [] s.update = [id |-> u.id, epoch |-> u.epoch] -> IF s.acked THEN "done" ELSE "pendingACK"
        [] s.update = NoRekey -> IF s.terminal \/ s.remoteFIN THEN "done" ELSE "wait"

\* What the owner of the read does after a record: Read returns on DATA and
\* FIN, awaitReceiveRekey on a status change, awaitSendRekeyACK on completion.
AfterRecord(w, e, x, r) ==
  LET s == St(w, e, x)
      free == setReadOwner(w, e, x, 0)
  IN  CASE s.owner = 1 -> IF r.type \in {"DATA", "FIN"} THEN free ELSE w
        [] s.owner = 2 -> IF Status(w, e, x) = "wait" THEN w
                          ELSE SetPC(free, e, "status")
        [] s.owner = 3 -> IF s.pending.id = s.ackOwner THEN w
                          ELSE SetStream(free, e, x, [St(free, e, x) EXCEPT !.waiters = @ \ {s.ackOwner}])

\* A read error resets the stream; the two rekey readers return it, and their
\* callers fail the session.
AfterReadError(w, e, x) ==
  LET s == St(w, e, x)
      w2 == setReadOwner(localReset(w, e, x), e, x, 0)
  IN  CASE s.owner = 1 -> w2
        [] s.owner = 2 -> fail(SetSession(w2, e, [w2.ep[e] EXCEPT !.upd = NoUpdate]), e, "stream")
        [] s.owner = 3 -> fail(SetStream(w2, e, x, [St(w2, e, x) EXCEPT !.waiters = @ \ {s.ackOwner}]),
                               e, "stream")

ReadRecord(e, x) ==
  /\ Running(e) /\ UNCHANGED left
  /\ S(e, x).owner # 0 /\ e \notin world.net.resetBy[x]
  /\ world.net.wire[Peer(e)][x] # <<>>
  /\ LET r == Head(world.net.wire[Peer(e)][x])
         w == With(world, e, world.ep[e], [world.net EXCEPT !.wire[Peer(e)][x] = Tail(@)])
     IN  /\ r.type = "ACK" => sendMuFree(S(e, x))
         /\ world' = IF Acceptable(e, x, r)
                     THEN AfterRecord(ApplyRecord(w, e, x, r), e, x, r)
                     ELSE AfterReadError(w, e, x)

\* The carrier stream was reset, or ended before the next record.
ReadError(e, x) ==
  /\ Running(e) /\ UNCHANGED left
  /\ S(e, x).owner # 0
  /\ \/ world.net.resetBy[x] # {}
     \/ Peer(e) \in world.net.shut[x] /\ world.net.wire[Peer(e)][x] = <<>>
  /\ world' = AfterReadError(world, e, x)

\* sendStreamKeyUpdateACK: it takes sendMu but does not wait for lockSendReady.
SendKeyUpdateACK(e, x) ==
  /\ Running(e) /\ UNCHANGED left
  /\ S(e, x).ackTask # NoRekey /\ sendMuFree(S(e, x))
  /\ LET r == S(e, x).ackTask
         done == SetStream(world, e, x, [S(e, x) EXCEPT !.ackTask = NoRekey])
     IN  \/ /\ CanWrite(world, e, x)
            /\ LET sent == WriteRecord(done, e, x, "ACK", r)
               IN  world' = IF S(e, x).update = r
                            THEN recvUpdateChanged(SetStream(sent, e, x, [St(sent, e, x) EXCEPT !.acked = TRUE]), e, x)
                            ELSE localReset(sent, e, x)
         \/ /\ CanFailWrite(world, e, x)
            /\ world' = localReset(done, e, x)
-----------------------------------------------------------------------------
(* The control loop.                                                        *)

\* readControl: the header is the next one of the current epoch, or the first
\* one of an epoch that a session update has committed.
SameControlEpoch(s, m) == m.hdr = <<s.ctlRecvEpoch, s.ctlRecvSeq>>
Cutover(s, m) == m.hdr = <<s.ctlRecvEpoch + 1, 0>> /\ m.hdr[1] <= s.recvSessionEpoch

readControl(w, e, m) ==
  LET w2 == With(w, e, [w.ep[e] EXCEPT !.ctlRecvEpoch = m.hdr[1], !.ctlRecvSeq = m.hdr[2] + 1],
                 [w.net EXCEPT !.ctl[Peer(e)] = Tail(@)])
  IN  IF m.hdr[1] # w.ep[e].ctlRecvEpoch THEN cleanupEpochRoots(w2, e) ELSE w2

\* handleSessionUpdate up to the snapshot of the streams.
startSessionUpdate(w, e, r) ==
  LET s == w.ep[e]
      listed == {x \in Streams : s.streams[x].listed}
  IN  IF r.id # s.recvTransition + 1 \/ r.epoch # s.recvSessionEpoch + 1
      THEN fail(w, e, "control")
      ELSE SetSession(w, e, [s EXCEPT !.recvRoots = @ \cup {r.epoch},
                                      !.upd = [pc |-> "next", id |-> r.id, epoch |-> r.epoch,
                                               snapshot |-> listed, todo |-> listed, cur |-> {}]])

handleSessionUpdateACK(w, e, r) ==
  LET s == w.ep[e]
  IN  IF s.pendingRekey = NoRekey
      THEN IF s.lastACK = r THEN w ELSE fail(w, e, "control")
      ELSE IF s.pendingRekey # r THEN fail(w, e, "control")
      ELSE SetSession(w, e, [s EXCEPT !.sendEpoch = r.epoch, !.ctlSendSeq = 0,
                                      !.ackSeen = TRUE, !.lastACK = r])

ControlLoop(e) ==
  /\ Running(e) /\ UNCHANGED left
  /\ world.ep[e].upd.pc = "none" /\ world.net.ctl[Peer(e)] # <<>>
  /\ LET m == Head(world.net.ctl[Peer(e)])
         s == world.ep[e]
         w == readControl(world, e, m)
     IN  world' =
           IF ~(SameControlEpoch(s, m) \/ Cutover(s, m)) \/ m.hdr[1] \notin s.recvRoots
           THEN fail(world, e, "control")
           ELSE CASE m.type = "STREAM_RESET" -> peerReset(w, e, m.body)
                  [] m.type = "SESSION_KEY_UPDATE" -> startSessionUpdate(w, e, m.body)
                  [] m.type = "SESSION_KEY_UPDATE_ACK" -> handleSessionUpdateACK(w, e, m.body)

\* A failed peer closes the carrier: acceptCarrierStreams returns its error,
\* whatever the control loop is waiting for.
CarrierClosed(e) ==
  /\ Running(e) /\ ~Running(Peer(e)) /\ UNCHANGED left
  /\ world' = fail(world, e, "peer")

UpdateAt(e, pc) == Running(e) /\ world.ep[e].upd.pc = pc /\ UNCHANGED left

Goto(e, pc) == SetPC(world, e, pc)

\* The loop of handleSessionUpdate over the snapshot, in any order.
NextStream(e) ==
  /\ UpdateAt(e, "next")
  /\ LET u == world.ep[e].upd
     IN  \E x \in u.todo :
           world' = SetSession(world, e, [world.ep[e] EXCEPT !.upd =
                                            [u EXCEPT !.pc = "status", !.cur = {x}, !.todo = u.todo \ {x}]])

\* awaitReceiveRekey, top of its loop; a finished stream is validated for commit.
CheckStatus(e) ==
  /\ UpdateAt(e, "status")
  /\ \E x \in world.ep[e].upd.cur :
       world' = CASE Status(world, e, x) = "error" -> fail(Goto(e, "none"), e, "stream")
                  [] Status(world, e, x) = "done" ->
                       SetSession(world, e, [world.ep[e] EXCEPT !.upd = [@ EXCEPT !.pc = "next", !.cur = {}]])
                  [] Status(world, e, x) = "pendingACK" -> Goto(e, "watchACK")
                  [] Status(world, e, x) = "wait" -> Goto(e, "grab")

\* It takes a free read and re-checks the status before it reads, or captures
\* readOwnerChanged, and then recvUpdateChanged.
GrabRead(e) ==
  /\ UpdateAt(e, "grab")
  /\ \E x \in world.ep[e].upd.cur :
       world' = IF S(e, x).owner # 0 THEN Goto(e, "watch")
                ELSE IF Status(world, e, x) = "wait"
                THEN setReadOwner(Goto(e, "reading"), e, x, 2)
                ELSE Goto(e, "status")

WatchUpdate(e) == UpdateAt(e, "watch") /\ world' = Goto(e, "blocked")

WatchACK(e) == UpdateAt(e, "watchACK") /\ world' = Goto(e, "blockedACK")

\* Mutant: the ACK is committed while streams of the snapshot are still to come.
CommitACKEarly(e) ==
  /\ UpdateAt(e, "next")
  /\ LET u == world.ep[e].upd
     IN  world' = commitControl(
           SetSession(world, e, [world.ep[e] EXCEPT !.recvSessionEpoch = u.epoch, !.recvTransition = u.id,
                                                    !.upd = NoUpdate]),
           e, "SESSION_KEY_UPDATE_ACK", [id |-> u.id, epoch |-> u.epoch])

\* Every stream is done: the ACK commits the epoch and publishes the updates.
CommitACK(e) ==
  /\ UpdateAt(e, "next")
  /\ world.ep[e].upd.todo = {}
  /\ LET u == world.ep[e].upd
         r == [id |-> u.id, epoch |-> u.epoch]
         publish(s) == IF s.update = r /\ s.acked
                       THEN [s EXCEPT !.update = NoRekey, !.acked = FALSE] ELSE s
     IN  world' = commitControl(
           SetSession(world, e, [world.ep[e] EXCEPT
             !.recvSessionEpoch = u.epoch, !.recvTransition = u.id, !.upd = NoUpdate,
             !.streams = [x \in Streams |-> IF x \in u.snapshot THEN publish(@[x]) ELSE @[x]]]),
           e, "SESSION_KEY_UPDATE_ACK", r)

\* RekeyCompletionTimeout of a received update (watchReceivedRekeyDeadline).
UpdateDeadline(e) ==
  /\ Deadlines /\ Running(e) /\ UNCHANGED left
  /\ world.ep[e].upd.pc # "none"
  /\ world' = fail(world, e, "deadline")

-----------------------------------------------------------------------------
StreamStep(e, x) ==
  \/ CloseWriteCarrier(e, x)
  \/ ArmSendRekey(e, x)
  \/ WriteKeyUpdate(e, x)
  \/ \E t \in S(e, x).waiters : AwaitSendRekeyACK(e, x, t) \/ WaiterDone(e, x, t)
  \/ ReadRecord(e, x)
  \/ ReadError(e, x)
  \/ SendKeyUpdateACK(e, x)

SessionStep(e) ==
  \/ CommitUpdate(e)
  \/ FinishRekey(e)
  \/ ControlLoop(e)
  \/ CarrierClosed(e)
  \/ NextStream(e)
  \/ CheckStatus(e)
  \/ GrabRead(e)
  \/ WatchUpdate(e)
  \/ WatchACK(e)
  \/ CommitACK(e)

Application(e, x) ==
  \/ Write(e, x)
  \/ CloseWrite(e, x)
  \/ Reset(e, x)
  \/ Read(e, x)

Next ==
  \E e \in Endpoint :
    \/ Rekey(e)
    \/ SessionStep(e)
    \/ RekeyDeadline(e)
    \/ UpdateDeadline(e)
    \/ \E x \in Streams : Application(e, x) \/ StreamStep(e, x)

Spec == Init /\ [][Next]_vars

\* Goroutines run; the application owes nothing and no deadline has to pass.
Fairness ==
  \A e \in Endpoint :
    /\ WF_vars(SessionStep(e))
    /\ \A x \in Streams : WF_vars(StreamStep(e, x))

-----------------------------------------------------------------------------
Rekeys == [id : Nat, epoch : Nat]

\* Epochs, roots, owners and goroutines are what the code's types allow.
TypeOK ==
  /\ \A e \in Endpoint :
       LET s == world.ep[e]
       IN  /\ {s.sendEpoch, s.recvSessionEpoch, s.ctlRecvEpoch} \subseteq Nat
           /\ s.nextTransition \in Nat \ {0}
           /\ s.sendRoots \subseteq Nat /\ s.recvRoots \subseteq Nat
           /\ s.call \in {"idle", "arming", "committed"}
           /\ s.failed \in {"no", "stream", "control", "deadline", "peer"}
           /\ s.pendingRekey \in Rekeys
           /\ \A x \in Streams : s.streams[x].owner \in 0..3 /\ s.streams[x].pending \in Rekeys

(* A session update commits only after every affected stream update: once   *)
(* the receiver has committed an epoch, every stream it still receives on   *)
(* has moved to it, and a sender that uses an epoch on its control stream   *)
(* knows that its peer committed it.                                        *)
CommitAfterStreams ==
  \A e \in Endpoint : (Running("client") /\ Running("server")) =>
    /\ world.ep[e].sendEpoch <= world.ep[Peer(e)].recvSessionEpoch
    /\ \A x \in Streams :
         LET s == S(e, x)
         IN  s.listed /\ ~s.terminal /\ ~s.remoteFIN =>
               s.recvEpoch >= world.ep[e].recvSessionEpoch

(* After Rekey returned, every direction that can still send uses the new   *)
(* epoch: no stream is left behind on the old keys.                         *)
NoStreamLeftBehind ==
  \A e \in Endpoint : Running(e) /\ world.ep[e].call = "idle" =>
    \A x \in Streams :
      LET s == S(e, x)
      IN  s.listed /\ ~s.terminal /\ ~s.localFIN => s.sendEpoch = world.ep[e].sendEpoch

(* Root cleanup never removes what is still needed: a stream keeps the root *)
(* of the epoch it receives in, of the old epoch while the old-epoch ACK of *)
(* a concurrent update may still arrive, and of the epoch it sends in.      *)
RootsKept ==
  \A e \in Endpoint, x \in Streams :
    LET s == S(e, x)
    IN  Running(e) /\ s.listed =>
          /\ ~s.remoteFIN => s.recvEpoch \in world.ep[e].recvRoots
          /\ ~s.remoteFIN /\ s.priorACK => s.recvEpoch - 1 \in world.ep[e].recvRoots
          /\ ~s.localFIN => s.sendEpoch \in world.ep[e].sendRoots

(* Obsolete roots are removed: at most the current and the next epoch are   *)
(* held for sending, and one more for receiving while the control stream    *)
(* has not cut over.                                                        *)
RootsBounded ==
  \A e \in Endpoint :
    /\ Cardinality(world.ep[e].sendRoots) <= 2
    /\ Cardinality(world.ep[e].recvRoots) <= 3

(* A failure of one stream ends that stream, not the session.               *)
FailuresStayStreamScoped == \A e \in Endpoint : world.ep[e].failed # "stream"

(* Two honest endpoints never send each other contradictory key updates or  *)
(* control headers, whatever the interleaving.                              *)
ControlNeverContradicts == \A e \in Endpoint : world.ep[e].failed # "control"

(* The key updates of two honest endpoints agree, whatever the interleaving *)
(* of calls, goroutines, resets, half-closes, deadlines and failures.       *)
RekeyAgrees == TypeOK /\ CommitAfterStreams /\ NoStreamLeftBehind /\ ControlNeverContradicts /\ RootsKept

(* While an endpoint waits for the ACK of its own update, that ACK is       *)
(* readable whichever of the peer's ACK and key update arrives first.       *)
PendingACKReadable ==
  \A e \in Endpoint, x \in Streams :
    LET s == S(e, x)
        in == world.net.wire[Peer(e)][x]
    IN  Running(e) /\ ~s.terminal /\ s.pending # NoRekey /\ in # <<>>
        /\ Head(in).type = "ACK" /\ Head(in).rekey = s.pending => Acceptable(e, x, Head(in))

Before(a, b) == a[1] < b[1] \/ (a[1] = b[1] /\ a[2] < b[2])

SendPosition(e, x) == <<S(e, x).sendEpoch, S(e, x).sendSeq>>
ControlPosition(e) == <<world.ep[e].sendEpoch, world.ep[e].ctlSendSeq>>

(* No epoch and sequence number is used twice for sealing: the position     *)
(* from which the next record is sealed only moves forward.                 *)
NoncesNeverReused ==
  [][ \A e \in Endpoint :
        /\ ControlPosition(e)' = ControlPosition(e) \/ Before(ControlPosition(e), ControlPosition(e)')
        /\ \A x \in Streams :
             SendPosition(e, x)' = SendPosition(e, x) \/ Before(SendPosition(e, x), SendPosition(e, x)')
    ]_vars

(* The receiver of a session update waits for a stream whose update it has  *)
(* already acknowledged: the wakeup came before it captured the channel.    *)
WakeupMissed(e) ==
  LET u == world.ep[e].upd
  IN  u.pc \in {"blocked", "blockedACK"} /\ \E x \in u.cur : Status(world, e, x) = "done"

(* The hand-over of the read between Read, awaitReceiveRekey and            *)
(* awaitSendRekeyACK stalls no key update of one endpoint: with no reset    *)
(* and no deadline it completes and leaves both sessions running, also when *)
(* no application reads, unless the receiver missed its wakeup.             *)
UpdatesComplete ==
  LET busy == \E e \in Endpoint : world.ep[e].call # "idle" \/ world.ep[e].upd.pc # "none"
      stalled == \E e \in Endpoint : WakeupMissed(e)
  IN  busy ~> (stalled \/ (~busy /\ \A e \in Endpoint : Running(e)))

(* A key update that meets neither a reset nor a half-close completes by    *)
(* itself: it does not have to wait for the completion deadline.            *)
RekeyCompletes ==
  \A e \in Endpoint : (world.ep[e].call # "idle") ~> (world.ep[e].call = "idle")
=============================================================================
