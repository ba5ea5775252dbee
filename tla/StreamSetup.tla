----------------------------- MODULE StreamSetup -----------------------------
(***************************************************************************)
(* Setting up logical streams: openStream and acceptCarrierStream of       *)
(* internal/session/stream.go between two sessions, with what runs beside  *)
(* them in engine.go and control.go: permits, the accept queue, GOAWAY,    *)
(* STREAM_RESET, the rekey barriers, and Close.  The client opens, the     *)
(* server accepts; the other direction is the same code with the roles     *)
(* exchanged.                                                              *)
(*                                                                         *)
(* A carrier stream keeps the order of its bytes until one side resets it; *)
(* the records of the control stream keep theirs.  Nothing orders the two. *)
(***************************************************************************)
EXTENDS Integers, Sequences, FiniteSets

CONSTANTS
  Opens,       \* OpenStream calls 1, 2, ..., in the order in which they get a permit
  Scenarios    \* bounds: what may happen in a behaviour (see Scenario)

VARIABLES
  cl,      \* the opening session
  sv,      \* the accepting session
  open,    \* per call: where openStream is and its stream
  resp,    \* per call: where acceptCarrierStream is with the call's stream, and that stream
  wire,    \* per call: the carrier stream
  ctl,     \* control records under way, up to the server and down to the client
  load     \* the scenario of this behaviour

setupVars == <<cl, sv, open, resp, wire, ctl, load>>

L == INSTANCE StreamLedger WITH MaxSlots <- Cardinality(Opens)

\* Which calls there are, the capacity of the permits and of acceptCh, and whether contexts end, a GOAWAY is sent, a side
\* rekeys and the server closes.
Scenario == [calls : SUBSET Opens, max : Nat, cancel : BOOLEAN, goAway : BOOLEAN, close : BOOLEAN,
             clientRekey : BOOLEAN, serverRekey : BOOLEAN]

None == -1

Init ==
  /\ cl = [nextID |-> 1, out |-> L!NewStreamLedger("client"), permits |-> 0, frozen |-> FALSE,
           goingAway |-> FALSE, goAway |-> None, live |-> TRUE, cause |-> "none",
           sendEpoch |-> 0, recvEpoch |-> 0, rekey |-> "idle", updating |-> FALSE, awaited |-> {}]
  /\ sv = [ledger |-> L!NewStreamLedger("client"), permits |-> 0, queue |-> <<>>, active |-> 0,
           localFrozen |-> FALSE, peerFrozen |-> FALSE, frontier |-> None, goAway |-> None, sent |-> 0,
           closing |-> "open", live |-> TRUE, cause |-> "none", sendEpoch |-> 0, recvEpoch |-> 0,
           rekey |-> "idle", watermark |-> None]
  /\ open = [k \in Opens |-> [at |-> "idle", id |-> 0, send |-> 0, recv |-> 0, reg |-> FALSE]]
  /\ resp = [k \in Opens |-> [at |-> "none", send |-> 0, reg |-> FALSE]]
  /\ wire = [k \in Opens |-> [up |-> <<>>, down |-> <<>>, creset |-> FALSE, sreset |-> FALSE]]
  /\ ctl = [up |-> <<>>, down |-> <<>>]
  /\ load \in Scenarios

\* A preface or record of a stream, with the epoch that protects it.
Sealed(type, epoch) == [type |-> type, epoch |-> epoch]

Record(type, id) == [type |-> type, id |-> id]
SendUp(record) == [ctl EXCEPT !.up = Append(@, record)]
SendDown(record) == [ctl EXCEPT !.down = Append(@, record)]

Registered(side) == {k \in Opens : side[k].reg}

-----------------------------------------------------------------------------
(* The end of a session: fail, with resetAllStreams.                        *)

clientFailed(cause) ==
  [cl EXCEPT !.live = FALSE, !.goingAway = TRUE, !.permits = @ - Cardinality(Registered(open)),
             !.cause = cause, !.updating = FALSE, !.awaited = {}, !.rekey = "idle", !.frozen = FALSE]

serverFailed(cause) ==
  [sv EXCEPT !.live = FALSE, !.closing = "closed", !.permits = @ - Cardinality(Registered(resp)),
             !.cause = cause, !.rekey = "idle", !.localFrozen = FALSE, !.peerFrozen = FALSE,
             !.watermark = None]

Unregistered(side) == [k \in Opens |-> [side[k] EXCEPT !.reg = FALSE]]

clientFail(cause) ==
  /\ cl' = clientFailed(cause) /\ open' = Unregistered(open)
  /\ wire' = [k \in Opens |-> [wire[k] EXCEPT !.creset = @ \/ open[k].reg]]

serverStreamsReset == [k \in Opens |-> [wire[k] EXCEPT !.sreset = @ \/ resp[k].reg]]

serverFail(cause) ==
  /\ sv' = serverFailed(cause) /\ resp' = Unregistered(resp) /\ wire' = serverStreamsReset

\* The carrier ends with the session that closed it: the other side's control
\* read fails.
ClientCarrierLost ==
  /\ cl.live /\ ~sv.live /\ clientFail("carrier") /\ UNCHANGED <<sv, resp, ctl, load>>

ServerCarrierLost ==
  /\ sv.live /\ ~cl.live /\ serverFail("carrier") /\ UNCHANGED <<cl, open, ctl, load>>

-----------------------------------------------------------------------------
(* openStream.                                                              *)

localOpeningAllowedAfterGoAway(k) == cl.goAway = None \/ open[k].id <= cl.goAway

Returned(k, at) == [open EXCEPT ![k].at = at]

permitFree == cl.permits < load.max

\* waitOpenGate, then a permit: the gate may close, or GOAWAY arrive, while the
\* caller waits for its permit, which Allocate finds.
Begin(k) ==
  /\ open[k].at = "idle" /\ k \in load.calls /\ \A j \in 1..k - 1 : open[j].at # "idle"
  /\ \/ (cl.goingAway \/ ~cl.live) /\ open' = Returned(k, "failed") /\ UNCHANGED cl
     \/ /\ cl.live /\ permitFree
        /\ cl' = [cl EXCEPT !.permits = @ + 1]
        /\ open' = [open EXCEPT ![k].at = "permit"]
  /\ UNCHANGED <<sv, resp, wire, ctl, load>>

\* waitOpenGate refuses an open, lets it through, or lets it wait for the rekey.
openGate == IF cl.goingAway \/ ~cl.live THEN "refused" ELSE IF cl.frozen THEN "wait" ELSE "pass"

\* The critical section of openMu: the next ID, its ledger entry, and the epochs
\* the stream starts with.
Allocate(k) ==
  /\ open[k].at = "permit" /\ openGate # "wait"
  /\ IF openGate = "refused"
     THEN open' = Returned(k, "failed") /\ cl' = [cl EXCEPT !.permits = @ - 1]
     ELSE /\ cl' = [cl EXCEPT !.nextID = @ + 2, !.out = L!ValidFSS2(@, cl.nextID).ledger]
          /\ open' = [open EXCEPT ![k].at = "allocated", ![k].id = cl.nextID,
                                  ![k].send = cl.sendEpoch, ![k].recv = cl.recvEpoch]
  /\ UNCHANGED <<sv, resp, wire, ctl, load>>

\* commitControl of STREAM_RESET.
resetCommitted(k) == IF cl.live THEN SendUp(Record("reset", open[k].id)) ELSE ctl

\* commitOutboundReset of a stream that is not registered yet; its permit goes
\* back with the return.
commitOutboundReset(k) ==
  /\ ctl' = resetCommitted(k)
  /\ cl' = [cl EXCEPT !.out = L!LocalResetCommitted(@, open[k].id).ledger, !.permits = @ - 1]
  /\ wire' = [wire EXCEPT ![k].creset = TRUE]
  /\ open' = Returned(k, "failed")

\* The carrier stream is opened and carries the preface.
WritePreface(k) ==
  /\ open[k].at = "allocated"
  /\ \/ /\ cl.live /\ localOpeningAllowedAfterGoAway(k)
        /\ wire' = [wire EXCEPT ![k].up = <<Sealed("fss2", open[k].send)>>]
        /\ open' = [open EXCEPT ![k].at = "prefaced"] /\ UNCHANGED <<cl, ctl>>
     \/ /\ ~cl.live \/ load.cancel \/ ~localOpeningAllowedAfterGoAway(k)
        /\ commitOutboundReset(k)
  /\ UNCHANGED <<sv, resp, load>>

\* Mutant: a stream that ends before its OPEN_ACK keeps its permit.
PermitKeptOnReset == cl.permits

permitAfterReset == cl.permits - 1

\* localReset of the opener's stream: STREAM_RESET and the ledger entry are
\* committed together.
localReset(k) ==
  IF ~open[k].reg
  THEN open' = Returned(k, "failed") /\ UNCHANGED <<cl, wire, ctl>>
  ELSE /\ open' = [Returned(k, "failed") EXCEPT ![k].reg = FALSE]
       /\ cl' = [cl EXCEPT !.out = L!LocalResetCommitted(@, open[k].id).ledger, !.permits = permitAfterReset]
       /\ wire' = [wire EXCEPT ![k].creset = TRUE]
       /\ ctl' = resetCommitted(k)

\* The stream is registered and OPEN is written.
WriteOpen(k) ==
  /\ open[k].at = "prefaced"
  /\ \/ /\ cl.live /\ localOpeningAllowedAfterGoAway(k)
        /\ wire' = [wire EXCEPT ![k].up = Append(@, Sealed("open", open[k].send))]
        /\ open' = [open EXCEPT ![k].at = "waiting", ![k].reg = TRUE] /\ UNCHANGED <<cl, ctl>>
     \/ /\ ~cl.live \/ wire[k].sreset \/ ~localOpeningAllowedAfterGoAway(k)
        /\ commitOutboundReset(k)
  /\ UNCHANGED <<sv, resp, load>>

\* Mutant: the response is accepted in whatever epoch it is sealed.
AnyEpoch(k) == TRUE

\* readStreamRecord: the response must be the first record of the epoch that
\* openStream captured.
inEpoch(k) == Head(wire[k].down).epoch = open[k].recv

\* receiveOpenResponse and what openStream makes of it.
OpenAcknowledged(k) ==
  LET r == L!ValidOpen(cl.out, open[k].id)
  IN  /\ open[k].at = "waiting" /\ cl.live /\ wire[k].down # <<>>
      /\ Head(wire[k].down).type = "ack" /\ inEpoch(k)
      /\ IF open[k].reg /\ r.err = "nil" /\ localOpeningAllowedAfterGoAway(k)
         THEN /\ open' = [open EXCEPT ![k].at = "open"]
              /\ cl' = [cl EXCEPT !.out = r.ledger]
              /\ wire' = [wire EXCEPT ![k].down = <<>>] /\ UNCHANGED ctl
         ELSE localReset(k)
      /\ UNCHANGED <<sv, resp, load>>

\* OPEN_REJECT: the ID is resolved and the carrier stream closed.
OpenRejected(k) ==
  LET r == L!ValidOpen(cl.out, open[k].id)
  IN  /\ open[k].at = "waiting" /\ cl.live /\ wire[k].down # <<>>
      /\ Head(wire[k].down).type = "reject" /\ inEpoch(k)
      /\ IF open[k].reg /\ r.err = "nil"
         THEN /\ open' = [Returned(k, "failed") EXCEPT ![k].reg = FALSE]
              /\ cl' = [cl EXCEPT !.out = r.ledger, !.permits = @ - 1]
              /\ wire' = [wire EXCEPT ![k].down = <<>>] /\ UNCHANGED ctl
         ELSE localReset(k)
      /\ UNCHANGED <<sv, resp, load>>

\* The read fails, the record is not the expected one, or the context ends.
OpenFails(k) ==
  /\ open[k].at = "waiting"
  /\ \/ ~cl.live \/ wire[k].sreset \/ ~open[k].reg \/ load.cancel
     \/ (wire[k].down # <<>> /\ ~inEpoch(k))
  /\ localReset(k) /\ UNCHANGED <<sv, resp, load>>

\* The opener's application resets a stream it holds.
ClientReset(k) ==
  /\ open[k].at = "open" /\ localReset(k) /\ UNCHANGED <<sv, resp, load>>

-----------------------------------------------------------------------------
(* acceptCarrierStream.                                                     *)

acceptsPeerStreamAfterGoAway(k) == sv.goAway = None \/ open[k].id <= sv.goAway

Gone == [at |-> "gone", send |-> 0, reg |-> FALSE]

\* Mutant: a preface is refused without a reset of its carrier stream.
RefusedSilently(k) == wire

refused(k) == [wire EXCEPT ![k].sreset = TRUE]

\* The preface has been read; a frozen barrier keeps the responder out.
EnterResponder(k) ==
  /\ resp[k].at = "none" /\ wire[k].up # <<>>
  /\ \/ /\ sv.live /\ ~sv.localFrozen /\ ~sv.peerFrozen /\ acceptsPeerStreamAfterGoAway(k)
        /\ resp' = [resp EXCEPT ![k].at = "entered"]
        /\ sv' = [sv EXCEPT !.active = @ + 1] /\ UNCHANGED wire
     \/ /\ \/ ~sv.live \/ wire[k].creset
           \/ (~sv.localFrozen /\ ~sv.peerFrozen /\ ~acceptsPeerStreamAfterGoAway(k))
        /\ resp' = [resp EXCEPT ![k] = Gone]
        /\ wire' = refused(k) /\ UNCHANGED sv
  /\ UNCHANGED <<cl, open, ctl, load>>

\* The epoch of the preface, then its ledger entry: a late preface of an
\* abandoned ID uses it up, and a duplicate fails the session.
CheckPreface(k) ==
  LET id    == open[k].id
      late  == L!State(sv.ledger, id) = "abandonedNoFSS2"
      entry == IF late THEN L!ValidFSS2ForAbandoned(sv.ledger, id) ELSE L!ValidFSS2(sv.ledger, id)
      stale == sv.recvEpoch # Head(wire[k].up).epoch
  IN  /\ resp[k].at = "entered"
      /\ CASE stale \/ (late /\ entry.err = "nil")
                -> /\ resp' = [resp EXCEPT ![k] = Gone] /\ wire' = [wire EXCEPT ![k].sreset = TRUE]
                   /\ sv' = [sv EXCEPT !.active = @ - 1, !.ledger = IF stale THEN @ ELSE entry.ledger]
           [] ~stale /\ entry.err # "nil"
                -> /\ resp' = [Unregistered(resp) EXCEPT ![k] = Gone]
                   /\ wire' = [serverStreamsReset EXCEPT ![k].sreset = TRUE]
                   /\ sv' = [serverFailed("duplicate") EXCEPT !.active = @ - 1]
           [] ~stale /\ ~late /\ entry.err = "nil"
                -> /\ resp' = [resp EXCEPT ![k].at = "seen"]
                   /\ wire' = [wire EXCEPT ![k].up = Tail(@)]
                   /\ sv' = [sv EXCEPT !.ledger = entry.ledger]
      /\ UNCHANGED <<cl, open, ctl, load>>

\* resetInboundBeforeDelivery: the ledger entry and STREAM_RESET are committed
\* together.
resetInboundBeforeDelivery(k) ==
  /\ sv' = [sv EXCEPT !.active = @ - 1, !.ledger = L!LocalResetCommitted(@, open[k].id).ledger]
  /\ ctl' = IF sv.live THEN SendDown(Record("reset", open[k].id)) ELSE ctl
  /\ wire' = [wire EXCEPT ![k].sreset = TRUE]
  /\ resp' = [resp EXCEPT ![k] = Gone]

\* OPEN is read, or the read fails; ReceiveOpen resolves the ID unless a reset did.
ReceiveOpen(k) ==
  LET r == L!ValidOpen(sv.ledger, open[k].id)
  IN  /\ resp[k].at = "seen"
      /\ \/ /\ sv.live /\ wire[k].up # <<>> /\ r.err = "nil"
            /\ resp' = [resp EXCEPT ![k].at = "opened"]
            /\ sv' = [sv EXCEPT !.ledger = r.ledger]
            /\ wire' = [wire EXCEPT ![k].up = <<>>] /\ UNCHANGED ctl
         \/ /\ ~sv.live \/ wire[k].creset \/ (wire[k].up # <<>> /\ r.err # "nil")
            /\ resetInboundBeforeDelivery(k)
      /\ UNCHANGED <<cl, open, load>>

\* rejectInbound: no permit is free.
RejectInbound(k) ==
  /\ resp[k].at = "opened" /\ sv.permits = load.max
  /\ wire' = [wire EXCEPT ![k].down = <<Sealed("reject", sv.sendEpoch)>>]
  /\ sv' = [sv EXCEPT !.active = @ - 1] /\ resp' = [resp EXCEPT ![k] = Gone]
  /\ UNCHANGED <<cl, open, ctl, load>>

\* The stream takes a permit, is registered and acknowledged; leaveResponder.
SendOpenACK(k) ==
  /\ resp[k].at = "opened" /\ sv.permits < load.max
  /\ \/ /\ sv.live
        /\ resp' = [resp EXCEPT ![k] = [at |-> "acked", send |-> sv.sendEpoch, reg |-> TRUE]]
        /\ sv' = [sv EXCEPT !.permits = @ + 1, !.active = @ - 1]
        /\ wire' = [wire EXCEPT ![k].down = <<Sealed("ack", sv.sendEpoch)>>] /\ UNCHANGED ctl
     \/ /\ ~sv.live \/ wire[k].creset
        /\ resp' = [resp EXCEPT ![k] = Gone] /\ wire' = [wire EXCEPT ![k].sreset = TRUE]
        /\ sv' = [sv EXCEPT !.active = @ - 1]
        /\ ctl' = IF sv.live THEN SendDown(Record("reset", open[k].id)) ELSE ctl
  /\ UNCHANGED <<cl, open, load>>

resetAnnounced(k) == IF sv.live THEN SendDown(Record("reset", open[k].id)) ELSE ctl

\* localReset of the responder's stream; the ledger of peer IDs is left alone.
responderReset(k) ==
  /\ resp' = [resp EXCEPT ![k] = Gone]
  /\ IF resp[k].reg
     THEN /\ sv' = [sv EXCEPT !.permits = @ - 1]
          /\ wire' = [wire EXCEPT ![k].sreset = TRUE]
          /\ ctl' = resetAnnounced(k)
     ELSE UNCHANGED <<sv, wire, ctl>>

\* After the ACK, GOAWAY is looked at again.
CheckGoAway(k) ==
  /\ resp[k].at = "acked"
  /\ IF acceptsPeerStreamAfterGoAway(k)
     THEN resp' = [resp EXCEPT ![k].at = "deliver"] /\ UNCHANGED <<sv, wire, ctl>>
     ELSE responderReset(k)
  /\ UNCHANGED <<cl, open, load>>

\* acceptCh <- incoming, or the session ends.
Deliver(k) ==
  /\ resp[k].at = "deliver"
  /\ \/ /\ Len(sv.queue) < load.max
        /\ sv' = [sv EXCEPT !.queue = Append(@, k)]
        /\ resp' = [resp EXCEPT ![k].at = "queued"]
     \/ ~sv.live /\ resp' = [resp EXCEPT ![k] = Gone] /\ UNCHANGED sv
  /\ UNCHANGED <<cl, open, wire, ctl, load>>

\* AcceptStream takes the next stream; a closing session resets it.
AcceptStream ==
  LET k == Head(sv.queue)
  IN  /\ sv.queue # <<>>
      /\ IF sv.closing = "open"
         THEN /\ resp' = [resp EXCEPT ![k].at = "app"]
              /\ sv' = [sv EXCEPT !.queue = Tail(@)] /\ UNCHANGED <<wire, ctl>>
         ELSE /\ resp' = [resp EXCEPT ![k] = Gone]
              /\ sv' = [sv EXCEPT !.queue = Tail(@), !.permits = IF resp[k].reg THEN @ - 1 ELSE @]
              /\ wire' = IF resp[k].reg THEN [wire EXCEPT ![k].sreset = TRUE] ELSE wire
              /\ ctl' = IF resp[k].reg /\ sv.live THEN SendDown(Record("reset", open[k].id)) ELSE ctl
      /\ UNCHANGED <<cl, open, load>>

\* The accepting application reads the reset of the carrier stream, or finds
\* its stream already ended.
ServerReads(k) ==
  /\ resp[k].at = "app" /\ (wire[k].creset \/ ~resp[k].reg)
  /\ responderReset(k) /\ UNCHANGED <<cl, open, load>>

-----------------------------------------------------------------------------
(* GOAWAY and Close of the server.                                          *)

peerResolvedFrontier == sv.ledger.frontier

\* sendGoAway reads the frontier first and publishes it, in openMu, afterwards.
ReadFrontier ==
  /\ sv.live /\ sv.frontier = None
  /\ sv.closing = "closing" \/ (load.goAway /\ sv.sent = 0 /\ sv.closing = "open")
  /\ sv' = [sv EXCEPT !.frontier = peerResolvedFrontier]
  /\ UNCHANGED <<cl, open, resp, wire, ctl, load>>

\* Close goes on with SESSION_CLOSE; any other GOAWAY leaves the session open.
SendGoAway ==
  /\ sv.live /\ sv.frontier # None
  /\ sv' = [sv EXCEPT !.goAway = sv.frontier, !.sent = @ + 1, !.frontier = None,
                      !.closing = IF @ = "closing" THEN "sent" ELSE @]
  /\ ctl' = [ctl EXCEPT !.down = @ \o <<Record("goaway", sv.frontier)>>
               \o (IF sv.closing = "closing" THEN <<Record("close", 0)>> ELSE <<>>)]
  /\ UNCHANGED <<cl, open, resp, wire, load>>

\* Close: beginClosing.
BeginClose ==
  /\ load.close /\ sv.live /\ sv.closing = "open" /\ sv.frontier = None
  /\ sv' = [sv EXCEPT !.closing = "closing"] /\ UNCHANGED <<cl, open, resp, wire, ctl, load>>

\* The peer closed, or two seconds passed: streams are reset and the carrier closed.
FinishClose ==
  /\ sv.closing = "sent" /\ serverFail("closed") /\ UNCHANGED <<cl, open, ctl, load>>

-----------------------------------------------------------------------------
(* The client's control loop.                                               *)

Received(dir) == [ctl EXCEPT ![dir] = Tail(@)]
Arrives(dir, type) == ctl[dir] # <<>> /\ Head(ctl[dir]).type = type

localOpenHighWatermark == IF cl.nextID <= 2 THEN 0 ELSE cl.nextID - 2

\* GOAWAY: its boundary is an ID this side handed out, and never changes.
HandleGoAway ==
  LET boundary == Head(ctl.down).id
  IN  /\ cl.live /\ ~cl.updating /\ Arrives("down", "goaway")
      /\ IF boundary > localOpenHighWatermark \/ (cl.goAway # None /\ cl.goAway # boundary)
         THEN clientFail("goaway")
         ELSE cl' = [cl EXCEPT !.goingAway = TRUE, !.goAway = boundary] /\ UNCHANGED <<open, wire>>
      /\ ctl' = Received("down") /\ UNCHANGED <<sv, resp, load>>

CallOf(id) == CHOOSE k \in Opens : open[k].id = id

\* STREAM_RESET of the peer: the registered stream ends, its permit goes back,
\* and the ledger entry is resolved.
ClientHandlesReset ==
  LET k == CallOf(Head(ctl.down).id)
  IN  /\ cl.live /\ ~cl.updating /\ Arrives("down", "reset")
      /\ cl' = [cl EXCEPT !.out = L!PeerReset(@, open[k].id).ledger,
                          !.permits = IF open[k].reg THEN @ - 1 ELSE @]
      /\ open' = [open EXCEPT ![k].reg = FALSE, ![k].at = IF @ = "open" THEN "failed" ELSE @]
      /\ wire' = [wire EXCEPT ![k].creset = @ \/ open[k].reg]
      /\ ctl' = Received("down") /\ UNCHANGED <<sv, resp, load>>

\* SESSION_CLOSE: handlePeerSessionClose.
HandleSessionClose ==
  /\ cl.live /\ ~cl.updating /\ Arrives("down", "close")
  /\ clientFail("closed") /\ ctl' = Received("down") /\ UNCHANGED <<sv, resp, load>>

-----------------------------------------------------------------------------
(* The server's control loop.                                               *)

ServerHandlesReset ==
  LET k == CallOf(Head(ctl.up).id)
  IN  /\ sv.live /\ sv.watermark = None /\ Arrives("up", "reset")
      /\ sv' = [sv EXCEPT !.ledger = L!PeerReset(@, open[k].id).ledger,
                          !.permits = IF resp[k].reg THEN @ - 1 ELSE @]
      /\ resp' = [resp EXCEPT ![k].reg = FALSE]
      /\ wire' = [wire EXCEPT ![k].sreset = @ \/ resp[k].reg]
      /\ ctl' = Received("up") /\ UNCHANGED <<cl, open, load>>

-----------------------------------------------------------------------------
(* The client rekeys its sending direction: no open may be half way, and    *)
(* the server must have resolved the same IDs.  SessionRekey models what    *)
(* this does to the streams that are open.                                  *)

\* freezeOpens.
ClientRekey ==
  /\ load.clientRekey /\ cl.live /\ cl.rekey = "idle" /\ cl.sendEpoch = 0 /\ ~cl.goingAway
  /\ cl' = [cl EXCEPT !.frozen = TRUE, !.rekey = "frontier"]
  /\ UNCHANGED <<sv, open, resp, wire, ctl, load>>

outboundResolved == cl.out.frontier = localOpenHighWatermark

\* waitOutboundFrontier, then SESSION_KEY_UPDATE with the watermark.
ClientUpdates ==
  /\ cl.rekey = "frontier" /\ outboundResolved
  /\ cl' = [cl EXCEPT !.rekey = "sent"]
  /\ ctl' = SendUp(Record("update", localOpenHighWatermark))
  /\ UNCHANGED <<sv, open, resp, wire, load>>

\* RekeyPrepareTimeout: opens go on, nothing was sent.
ClientGivesUp ==
  /\ cl.rekey = "frontier" /\ ~outboundResolved
  /\ cl' = [cl EXCEPT !.rekey = "done", !.frozen = FALSE]
  /\ UNCHANGED <<sv, open, resp, wire, ctl, load>>

\* handleSessionUpdate keeps the control loop busy until its responders have left.
ServerReceivesUpdate ==
  /\ sv.live /\ sv.watermark = None /\ Arrives("up", "update")
  /\ sv' = [sv EXCEPT !.peerFrozen = TRUE, !.watermark = Head(ctl.up).id]
  /\ ctl' = Received("up") /\ UNCHANGED <<cl, open, resp, wire, load>>

ServerCommits ==
  /\ sv.live /\ sv.watermark # None /\ sv.active = 0
  /\ IF sv.ledger.frontier # sv.watermark
     THEN serverFail("watermark") /\ UNCHANGED ctl
     ELSE /\ sv' = [sv EXCEPT !.recvEpoch = @ + 1, !.peerFrozen = FALSE, !.watermark = None]
          /\ ctl' = SendDown(Record("ack", 0)) /\ UNCHANGED <<resp, wire>>
  /\ UNCHANGED <<cl, open, load>>

ClientHandlesACK ==
  /\ cl.live /\ ~cl.updating /\ Arrives("down", "ack")
  /\ cl' = [cl EXCEPT !.sendEpoch = @ + 1, !.rekey = "done", !.frozen = FALSE]
  /\ ctl' = Received("down") /\ UNCHANGED <<sv, open, resp, wire, load>>

-----------------------------------------------------------------------------
(* The server rekeys its sending direction, in which OPEN_ACK travels.      *)

\* freezeOpens, and freezeResponders for its own rekey.
ServerRekey ==
  /\ load.serverRekey /\ sv.live /\ sv.rekey = "idle" /\ sv.sendEpoch = 0
  /\ sv.goAway = None /\ sv.closing = "open"
  /\ sv' = [sv EXCEPT !.localFrozen = TRUE, !.rekey = "responders"]
  /\ UNCHANGED <<cl, open, resp, wire, ctl, load>>

ServerUpdates ==
  /\ sv.rekey = "responders" /\ sv.active = 0
  /\ sv' = [sv EXCEPT !.rekey = "sent"] /\ ctl' = SendDown(Record("update", 0))
  /\ UNCHANGED <<cl, open, resp, wire, load>>

ServerGivesUp ==
  /\ sv.rekey = "responders" /\ sv.active # 0
  /\ sv' = [sv EXCEPT !.rekey = "done", !.localFrozen = FALSE]
  /\ UNCHANGED <<cl, open, resp, wire, ctl, load>>

\* handleSessionUpdate waits for every stream registered now, also for one whose
\* OPEN is not acknowledged.
ClientReceivesUpdate ==
  /\ cl.live /\ ~cl.updating /\ Arrives("down", "update")
  /\ cl' = [cl EXCEPT !.updating = TRUE, !.awaited = Registered(open)]
  /\ ctl' = Received("down") /\ UNCHANGED <<sv, open, resp, wire, load>>

ClientCommits ==
  /\ cl.updating /\ \A k \in cl.awaited : open[k].reg => open[k].at = "open"
  /\ cl' = [cl EXCEPT !.updating = FALSE, !.awaited = {}, !.recvEpoch = @ + 1]
  /\ open' = [k \in Opens |-> IF k \in cl.awaited /\ open[k].reg
                              THEN [open[k] EXCEPT !.recv = @ + 1] ELSE open[k]]
  /\ ctl' = SendUp(Record("ack", 0)) /\ UNCHANGED <<sv, resp, wire, load>>

\* awaitReceiveRekey reads the record that receiveOpenResponse waits for, and
\* takes it for a protocol failure of the session.
UpdateReadsResponse(k) ==
  /\ cl.updating /\ k \in cl.awaited /\ open[k].reg /\ open[k].at = "waiting" /\ wire[k].down # <<>>
  /\ clientFail("update") /\ UNCHANGED <<sv, resp, ctl, load>>

\* RekeyCompletionTimeout of the received update, and of Rekey itself.
UpdateDeadline ==
  /\ cl.updating /\ clientFail("deadline") /\ UNCHANGED <<sv, resp, ctl, load>>

ServerHandlesACK ==
  /\ sv.live /\ sv.watermark = None /\ Arrives("up", "ack")
  /\ sv' = [sv EXCEPT !.sendEpoch = @ + 1, !.rekey = "done", !.localFrozen = FALSE]
  /\ resp' = [k \in Opens |-> IF resp[k].reg THEN [resp[k] EXCEPT !.send = @ + 1] ELSE resp[k]]
  /\ ctl' = Received("up") /\ UNCHANGED <<cl, open, wire, load>>

-----------------------------------------------------------------------------
ClientSteps(k) ==
  \/ Begin(k) \/ Allocate(k) \/ WritePreface(k) \/ WriteOpen(k)
  \/ OpenAcknowledged(k) \/ OpenRejected(k) \/ OpenFails(k)

ServerSteps(k) ==
  \/ EnterResponder(k) \/ CheckPreface(k) \/ ReceiveOpen(k) \/ RejectInbound(k) \/ SendOpenACK(k)
  \/ CheckGoAway(k) \/ Deliver(k)

ControlSteps ==
  \/ HandleGoAway \/ ClientHandlesReset \/ HandleSessionClose \/ ServerHandlesReset
  \/ ServerReceivesUpdate \/ ServerCommits \/ ClientHandlesACK
  \/ ClientReceivesUpdate \/ ClientCommits \/ ServerHandlesACK

Next ==
  \/ \E k \in Opens : ClientSteps(k) \/ ServerSteps(k) \/ ClientReset(k) \/ ServerReads(k)
                      \/ UpdateReadsResponse(k)
  \/ ControlSteps \/ AcceptStream \/ ClientCarrierLost \/ ServerCarrierLost
  \/ ReadFrontier \/ SendGoAway \/ BeginClose \/ FinishClose
  \/ ClientRekey \/ ClientUpdates \/ ClientGivesUp
  \/ ServerRekey \/ ServerUpdates \/ ServerGivesUp \/ UpdateDeadline

\* Goroutines that can go on do; deadlines pass.
Fairness ==
  /\ \A k \in Opens : WF_setupVars(ClientSteps(k)) /\ WF_setupVars(ServerSteps(k))
  /\ WF_setupVars(ControlSteps) /\ WF_setupVars(ClientCarrierLost) /\ WF_setupVars(ServerCarrierLost)
  /\ WF_setupVars(UpdateDeadline) /\ WF_setupVars(ServerUpdates) /\ WF_setupVars(ServerGivesUp)

Spec == Init /\ [][Next]_setupVars /\ Fairness

-----------------------------------------------------------------------------
(* Properties.                                                              *)

TypeOK ==
  /\ cl.nextID \in 1..2 * Cardinality(Opens) + 1 /\ cl.out \in L!Ledgers /\ sv.ledger \in L!Ledgers
  /\ \A side \in {cl, sv} : /\ side.permits \in 0..load.max /\ side.goAway \in -1..cl.nextID
                            /\ side.sendEpoch \in 0..1 /\ side.recvEpoch \in 0..1
                            /\ side.rekey \in {"idle", "frontier", "responders", "sent", "done"}
  /\ sv.active \in 0..Cardinality(Opens) /\ Len(sv.queue) <= load.max
  /\ \A k \in Opens :
       /\ open[k].at \in {"idle", "permit", "allocated", "prefaced", "waiting", "open", "failed"}
       /\ resp[k].at \in {"none", "entered", "seen", "opened", "acked", "deliver", "queued", "app", "gone"}
       /\ Len(wire[k].up) <= 2 /\ Len(wire[k].down) <= 1
  /\ load \in Scenario

\* A permit is held by every open under way and by every registered stream, and
\* by nothing else, whichever way an open or a stream ended (releasePermit and
\* release in openStream and acceptCarrierStream).
PermitsExact ==
  /\ cl.permits = Cardinality({k \in Opens : open[k].at \in {"permit", "allocated", "prefaced"} \/ open[k].reg})
  /\ sv.permits = Cardinality(Registered(resp))

\* A stream both sides hold is read in the epoch it is written in, also if a
\* rekey of the acceptor committed between the capture of the epochs in
\* openStream and the registration of the stream.
EpochsAgree ==
  \A k \in Opens : open[k].at = "open" /\ open[k].reg /\ resp[k].reg /\ sv.rekey # "sent"
                   => open[k].recv = resp[k].send

\* When the rekey of the opener reaches the acceptor, both have resolved the
\* same IDs, and no ID is set up twice: handleSessionUpdate never finds another
\* watermark, and no preface a duplicate.
WatermarksAgree == sv.cause \notin {"watermark", "duplicate"}

\* A GOAWAY never fails the session that receives it, unless it is a repeated
\* one: its boundary is an ID the receiver handed out (validGoAwayBoundary).
GoAwayValid == cl.cause = "goaway" => sv.sent > 1

\* When nothing is under way on live sessions, both hold the same streams: no
\* GOAWAY, reset, rejection or cancellation leaves a stream open on one side.
NoHalfOpenStream ==
  (/\ cl.live /\ sv.live /\ ctl = [up |-> <<>>, down |-> <<>>]
   /\ \A k \in Opens : /\ open[k].at \in {"idle", "open", "failed"} /\ resp[k].at \in {"none", "app", "gone"}
                       /\ ~(resp[k].at = "app" /\ (wire[k].creset \/ ~resp[k].reg)) /\ (resp[k].at = "none" => wire[k].up = <<>>))
  => \A k \in Opens : open[k].reg = resp[k].reg

\* Every open whose OPEN is written returns, whatever the acceptor, a GOAWAY or
\* a rekey of either side does.
OpenOwed == \E k \in Opens : open[k].at = "waiting"
OpenEnds == OpenOwed ~> ~OpenOwed
=============================================================================
