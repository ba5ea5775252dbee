-------------------------- MODULE WebSocketPending --------------------------
(***************************************************************************)
(* PendingServer (internal/carrier/websocket/pending.go): one server-side  *)
(* WebSocket from its bounded initial message to the Yamux session.  The   *)
(* reader pump, the sender of the response, Activate and Close run         *)
(* concurrently over one state protected by stateMu.                       *)
(***************************************************************************)
EXTENDS Integers, Sequences

CONSTANT MessageBudget   \* messages the peer sends

VARIABLES
  srv,    \* the state, the published message, the transport, the session, the cause of failure
  pump,   \* readPump
  call,   \* ReceiveInitialMessage, SendInitialResponse, Activate and CloseWithErrorContext
  peer    \* the peer: whether it keeps to the protocol, its messages, the response it got

pendingVars == <<srv, pump, call, peer>>

\* An honest peer sends its request, and Yamux frames only once it has read
\* the response that admits it.
Init ==
  /\ srv = [state |-> "awaiting", initial |-> "none", open |-> TRUE, cause |-> "none",
            session |-> "none", started |-> FALSE, sent |-> FALSE, permit |-> TRUE]
  /\ pump = "first"
  /\ call = [receive |-> "idle", send |-> "idle", ok |-> TRUE, commit |-> "none", activate |-> "idle", close |-> "idle"]
  /\ peer \in [honest : BOOLEAN, budget : {MessageBudget}, wire : {<<>>}, response : {"none"}]

PeerSends(kind) ==
  /\ peer.budget > 0
  /\ peer.honest => IF peer.budget = MessageBudget THEN kind = "binary"
                    ELSE kind = "binary" /\ peer.response = "success"
  /\ peer' = [peer EXCEPT !.budget = @ - 1, !.wire = Append(@, kind)] /\ UNCHANGED <<srv, pump, call>>

\* fail: the first cause closes the transport and answers Receive.
fail(s, cause) ==
  IF s.state = "closed" THEN s
  ELSE [s EXCEPT !.state = "closed", !.cause = cause, !.open = FALSE,
                 !.initial = IF @ = "none" THEN "error" ELSE @]

-----------------------------------------------------------------------------
(* readPump.                                                                *)

Message == Head(peer.wire)
Consumed == peer' = [peer EXCEPT !.wire = Tail(@)]

\* The initial message: any defect is published and closes the connection.
PumpInitial ==
  /\ pump = "first" /\ srv.open /\ peer.wire # <<>> /\ Consumed
  /\ IF Message = "binary" THEN pump' = "have" /\ UNCHANGED srv
     ELSE pump' = "over" /\ srv' = fail(srv, "invalid")
  /\ UNCHANGED call

\* Between reading it and here a Close may have come first; then nothing is
\* published and Receive is left to its context.
PumpWaiting ==
  /\ pump = "have"
  /\ IF srv.state = "awaiting"
     THEN pump' = "loop" /\ srv' = [srv EXCEPT !.state = "waiting", !.initial = "raw"]
     ELSE pump' = "over" /\ srv' = fail(srv, "state")
  /\ UNCHANGED <<call, peer>>

\* Mutant: frames are refused until the session is published.
ActivatingRefused == {"awaiting", "waiting", "responding", "activating"}

beforeActivation == {"awaiting", "waiting", "responding"}

PumpNext ==
  /\ pump = "loop" /\ srv.open /\ peer.wire # <<>> /\ Consumed
  /\ CASE srv.state \in beforeActivation -> pump' = "over" /\ srv' = fail(srv, "unexpected")
       [] srv.state \in {"rejected", "closed"} -> pump' = "over" /\ UNCHANGED srv
       [] OTHER -> IF Message = "binary" THEN pump' = "copy" /\ UNCHANGED srv
                   ELSE pump' = "over" /\ srv' = fail(srv, "not_binary")
  /\ UNCHANGED call

\* The pipe takes the frame when Yamux reads it, or is closed.
PumpCopies ==
  /\ pump = "copy"
  /\ \/ srv.open /\ srv.session = "live" /\ pump' = "loop"
        /\ srv' = [srv EXCEPT !.early = @ \/ ~srv.sent]
     \/ ~srv.open /\ pump' = "over" /\ srv' = fail(srv, "pipe")
  /\ UNCHANGED <<call, peer>>

\* NextReader fails once the transport is closed.
PumpFails ==
  /\ pump \in {"first", "loop"} /\ ~srv.open /\ pump' = "over"
  /\ srv' = [fail(srv, "transport") EXCEPT !.initial = IF @ = "none" THEN "error" ELSE @]
  /\ UNCHANGED <<call, peer>>

PeerGone ==
  /\ srv.open /\ pump \in {"first", "loop"} /\ pump' = "over" /\ srv' = fail(srv, "peer") /\ UNCHANGED <<call, peer>>

-----------------------------------------------------------------------------
(* The topology layer's calls, made in this order, and Close at any time.   *)

Receive ==
  /\ call.receive = "idle" /\ call' = [call EXCEPT !.receive = "waiting"] /\ UNCHANGED <<srv, pump, peer>>

ReceiveReturns ==
  /\ call.receive = "waiting" /\ srv.initial # "none"
  /\ call' = [call EXCEPT !.receive = srv.initial] /\ UNCHANGED <<srv, pump, peer>>

ReceiveCanceled ==
  /\ call.receive = "waiting"
  /\ call' = [call EXCEPT !.receive = "error"] /\ srv' = fail(srv, "context") /\ UNCHANGED <<pump, peer>>

SendInitialResponse(ok) ==
  /\ call.receive = "raw" /\ call.send = "idle"
  /\ IF srv.state = "waiting" /\ ~srv.started
     THEN /\ call' = [call EXCEPT !.send = "write", !.ok = ok]
          /\ srv' = [srv EXCEPT !.started = TRUE, !.state = "responding"]
     ELSE call' = [call EXCEPT !.send = "failed"] /\ UNCHANGED srv
  /\ UNCHANGED <<pump, peer>>

\* writeMessage holds the writer's permit from here to the flush.
SendWrites ==
  /\ call.send = "write" /\ srv.permit
  /\ IF srv.open THEN call' = [call EXCEPT !.send = "commit"] /\ srv' = [srv EXCEPT !.permit = FALSE]
     ELSE call' = [call EXCEPT !.send = "failed"] /\ srv' = fail(srv, "write")
  /\ UNCHANGED <<pump, peer>>

\* commitResponse runs before the message is complete on the wire.
commitResponse ==
  /\ call.send = "commit"
  /\ IF srv.state = "responding"
     THEN /\ srv' = [srv EXCEPT !.sent = TRUE, !.state = IF call.ok THEN "activating" ELSE "rejected"]
          /\ call' = [call EXCEPT !.send = "flush", !.commit = "done"]
     ELSE call' = [call EXCEPT !.send = "flush", !.commit = "failed"] /\ UNCHANGED srv
  /\ UNCHANGED <<pump, peer>>

\* Closing the message sends it, even when the commit was refused.
SendFlushes ==
  /\ call.send = "flush" /\ srv.open
  /\ peer' = [peer EXCEPT !.response = IF call.ok THEN "success" ELSE "reject"]
  /\ call' = [call EXCEPT !.send = "ending"] /\ UNCHANGED <<srv, pump>>

SendReturns ==
  /\ call.send = "ending" \/ (call.send = "flush" /\ ~srv.open)
  /\ IF call.send = "ending" /\ call.commit = "done"
     THEN srv' = [srv EXCEPT !.permit = TRUE] /\ call' = [call EXCEPT !.send = "sent"]
     ELSE srv' = [fail(srv, "write") EXCEPT !.permit = TRUE] /\ call' = [call EXCEPT !.send = "failed"]
  /\ UNCHANGED <<pump, peer>>

Activate ==
  /\ call.send = "sent" /\ call.ok /\ call.activate = "idle"
  /\ IF srv.state = "activating" /\ srv.sent
     THEN call' = [call EXCEPT !.activate = "build"] ELSE call' = [call EXCEPT !.activate = "failed"]
  /\ UNCHANGED <<srv, pump, peer>>

\* newSessionWithByteConn starts a Yamux session over the pipe.
ActivateBuilds ==
  /\ call.activate = "build"
  /\ IF srv.open THEN srv' = [srv EXCEPT !.session = "live"] /\ call' = [call EXCEPT !.activate = "publish"]
     ELSE srv' = fail(srv, "build") /\ call' = [call EXCEPT !.activate = "failed"]
  /\ UNCHANGED <<pump, peer>>

closedMeanwhile == srv.state = "closed"

ActivatePublishes ==
  /\ call.activate = "publish"
  /\ IF closedMeanwhile
     THEN srv' = [srv EXCEPT !.session = "closed"] /\ call' = [call EXCEPT !.activate = "failed"]
     ELSE srv' = [srv EXCEPT !.state = "active", !.session = "live"] /\ call' = [call EXCEPT !.activate = "active"]
  /\ UNCHANGED <<pump, peer>>

\* CloseWithErrorContext: the state and the session are taken in one critical
\* section, the transport is closed after the control frame.
CloseBegins ==
  /\ call.close = "idle"
  /\ call' = [call EXCEPT !.close = IF srv.state = "active" THEN "session" ELSE "control"]
  /\ srv' = [srv EXCEPT !.state = "closed"] /\ UNCHANGED <<pump, peer>>

closeTransport == [srv EXCEPT !.open = FALSE, !.session = IF call.close = "session" THEN "closed" ELSE @]

CloseEnds ==
  /\ call.close \in {"session", "control"} /\ (call.close = "control" /\ srv.open => srv.permit)
  /\ srv' = closeTransport
  /\ call' = [call EXCEPT !.close = "closed"] /\ UNCHANGED <<pump, peer>>

\* A Yamux session whose byte connection is gone ends.
SessionFails ==
  /\ srv.session = "live" /\ ~srv.open /\ call.activate = "active"
  /\ srv' = [srv EXCEPT !.session = "closed"] /\ UNCHANGED <<pump, call, peer>>

Pump == PumpInitial \/ PumpWaiting \/ PumpNext \/ PumpCopies \/ PumpFails
Calls ==
  \/ ReceiveReturns \/ SendWrites \/ commitResponse \/ SendFlushes \/ SendReturns
  \/ Activate \/ ActivateBuilds \/ ActivatePublishes \/ CloseEnds

Next ==
  \/ \E kind \in {"binary", "text"} : PeerSends(kind)
  \/ \E ok \in BOOLEAN : SendInitialResponse(ok)
  \/ Pump \/ PeerGone \/ Calls \/ Receive \/ ReceiveCanceled \/ CloseBegins \/ SessionFails

\* The pump and the calls under way run on; Receive's context has a deadline.
Fairness ==
  /\ WF_pendingVars(Pump) /\ WF_pendingVars(Calls)
  /\ WF_pendingVars(ReceiveCanceled) /\ WF_pendingVars(SessionFails)

Spec == Init /\ [][Next]_pendingVars /\ Fairness

-----------------------------------------------------------------------------
TypeOK ==
  /\ srv.state \in {"awaiting", "waiting", "responding", "activating", "active", "rejected", "closed"}
  /\ srv.initial \in {"none", "raw", "error"} /\ srv.session \in {"none", "live", "closed"}
  /\ pump \in {"first", "have", "loop", "copy", "over"}

\* The transition to activating comes before the peer can read the response, so
\* a peer that waits for it is never closed for an unexpected message.
HonestPeerAccepted == peer.honest => srv.cause \notin {"unexpected", "not_binary", "invalid"}

\* No byte reaches Yamux unless the admitting response was committed.
NoEarlyBytes == pump = "copy" => srv.sent /\ call.ok

\* A closed exchange stays closed: no late response or activation revives it.
ClosedIsFinal == [][srv.state = "closed" => srv'.state = "closed"]_pendingVars

ReleaseOwed == srv.state = "closed" /\ (srv.open \/ srv.session = "live")

\* Whoever comes first, Close or Activate, the session and the transport end.
ClosedIsReleased == ReleaseOwed ~> ~ReleaseOwed
=============================================================================
