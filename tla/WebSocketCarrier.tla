--------------------------- MODULE WebSocketCarrier ---------------------------
(***************************************************************************)
(* The WebSocket carrier of a client                                       *)
(* (internal/candidatev2/dialers.go,                                       *)
(* internal/carrier/websocket/websocket.go): the dial of a candidate with  *)
(* the cancellation of its TCP connection, the admission handle, and the   *)
(* session over Yamux with its accept loop and its teardown.               *)
(***************************************************************************)
EXTENDS Integers, Sequences, FiniteSets

CONSTANTS
  Candidates,      \* canonical candidates: [scheme, agreed], agreed = the server picks the subprotocol
  StreamBudget,    \* streams the peer opens
  AcceptCapacity,  \* MaxInboundStreams, the capacity of acceptCh
  Acceptors,       \* callers of AcceptStream
  Closers          \* callers of Close or Abort

VARIABLES
  cand,      \* the candidate
  dial,      \* where the dial is or how it ended, its context and AfterFunc
  conn,      \* the connection: "none", "open" or "closed"
  handle,    \* webSocketAdmissionHandle: Establish and Close
  mux,       \* Yamux: whether it is up, and streams not yet accepted from it
  loop,      \* acceptLoop: where it is, the stream in hand, acceptCh, closed, and what was reset
  session,   \* the session's context, and closeOnce
  accept     \* per acceptor: idle, waiting, or what it got

wsVars == <<cand, dial, conn, handle, mux, loop, session, accept>>

Init ==
  /\ cand \in Candidates /\ conn = "none"
  /\ dial = [at |-> "start", over |-> FALSE, after |-> "none"]
  /\ handle = [establish |-> "no", close |-> "no"]
  /\ mux = [up |-> FALSE, pending |-> StreamBudget]
  /\ loop = [at |-> "none", hand |-> 0, queued |-> 0, closed |-> FALSE, reset |-> 0, delivered |-> 0]
  /\ session = [over |-> FALSE, close |-> "no", called |-> {}]
  /\ accept = [a \in Acceptors |-> "idle"]

Rest == UNCHANGED <<mux, loop, session, accept>>

-----------------------------------------------------------------------------
(* NewWebSocketCarrierDial's closure.                                       *)

\* A canonical plaintext candidate is direct and loopback; its TLS
\* configuration is dropped. NetDialContext arms the cancellation.
DialTCP ==
  /\ dial.at = "start" /\ dial' = [dial EXCEPT !.at = "upgrade", !.after = "armed"]
  /\ conn' = "open" /\ UNCHANGED <<cand, handle>> /\ Rest
DialFails ==
  /\ dial.at \in {"start", "upgrade"} /\ dial' = [dial EXCEPT !.at = "failed", !.after = IF @ = "armed" THEN "stopped" ELSE @]
  /\ conn' = (IF conn = "open" THEN "closed" ELSE conn) /\ UNCHANGED <<cand, handle>> /\ Rest

\* The context may end at any time, and its AfterFunc then closes the connection.
ContextEnds == ~dial.over /\ dial' = [dial EXCEPT !.over = TRUE] /\ UNCHANGED <<cand, conn, handle>> /\ Rest
AfterFunc ==
  /\ dial.over /\ dial.after = "armed" /\ dial' = [dial EXCEPT !.after = "ran"] /\ conn' = "closed"
  /\ UNCHANGED <<cand, handle>> /\ Rest

\* External: TLS and the upgrade succeed.
Upgraded ==
  /\ dial.at = "upgrade" /\ conn = "open" /\ dial' = [dial EXCEPT !.at = "upgraded"]
  /\ UNCHANGED <<cand, conn, handle>> /\ Rest

\* The cancellation is stopped, or it has run: the dial does not ask which, and goes
\* on with a connection that may be closed.
StopCancellation ==
  /\ dial.at = "upgraded" /\ dial' = [dial EXCEPT !.at = "validate", !.after = IF @ = "armed" THEN "stopped" ELSE @]
  /\ UNCHANGED <<cand, conn, handle>> /\ Rest

\* ValidateReady: the exact subprotocol, over TLS 1.3.
ValidateReady == cand.agreed /\ cand.scheme = "wss"

closedUnready(c) == "closed"

Validate ==
  /\ dial.at = "validate"
  /\ dial' = [dial EXCEPT !.at = IF ValidateReady THEN "ready" ELSE "refused"]
  /\ conn' = (IF ValidateReady THEN conn ELSE closedUnready(conn)) /\ UNCHANGED <<cand, handle>> /\ Rest

-----------------------------------------------------------------------------
(* webSocketAdmissionHandle: the exchange is in Admission.tla.              *)

\* Yamux over the connection, whose deadline can be cleared, and the accept loop.
newSession ==
  conn = "open" /\ mux' = [mux EXCEPT !.up = TRUE] /\ loop' = [loop EXCEPT !.at = "accept"]

\* Establish after a successful admission: NewAfterAdmission refuses a
\* connection that is closed, or makes the session.
Establish ==
  /\ dial.at = "ready" /\ handle.establish = "no"
  /\ \/ newSession /\ handle' = [handle EXCEPT !.establish = "made"] /\ UNCHANGED conn
     \/ /\ handle' = [handle EXCEPT !.establish = "failed"] /\ conn' = "closed" /\ UNCHANGED <<mux, loop>>
  /\ UNCHANGED <<cand, dial, session, accept>>
PublishSession ==
  /\ handle.establish = "made" /\ handle' = [handle EXCEPT !.establish = "done"]
  /\ UNCHANGED <<cand, dial, conn>> /\ Rest

\* Close: of the session when there is one, else of the connection.
HandleClose ==
  /\ dial.at = "ready" /\ handle.close = "no"
  /\ IF handle.establish = "done"
     THEN /\ handle' = [handle EXCEPT !.close = "session"] /\ UNCHANGED <<conn, mux>>
          /\ session' = IF session.close = "no" THEN [session EXCEPT !.over = TRUE, !.close = "control"] ELSE session
     ELSE /\ handle' = [handle EXCEPT !.close = "done"] /\ conn' = "closed"
          /\ mux' = [mux EXCEPT !.up = FALSE] /\ UNCHANGED session
  /\ UNCHANGED <<cand, dial, loop, accept>>
HandleCloseEnds ==
  /\ handle.close = "session" /\ session.close = "done" /\ handle' = [handle EXCEPT !.close = "done"]
  /\ UNCHANGED <<cand, dial, conn>> /\ Rest

-----------------------------------------------------------------------------
(* The session.                                                             *)

SessionRest == UNCHANGED <<cand, dial, handle>>

PeerLost ==
  /\ mux.up /\ mux' = [mux EXCEPT !.up = FALSE] /\ conn' = "closed" /\ UNCHANGED <<loop, session, accept>> /\ SessionRest

LoopAccepts ==
  /\ loop.at = "accept" /\ mux.up /\ mux.pending > 0 /\ mux' = [mux EXCEPT !.pending = @ - 1]
  /\ loop' = [loop EXCEPT !.at = "offer", !.hand = 1] /\ UNCHANGED <<conn, session, accept>> /\ SessionRest

\* Mutant: acceptLoop records the error and leaves acceptCh open.
ChannelLeftOpen(l) == [l EXCEPT !.at = "ended"]

ended(l) == [l EXCEPT !.at = "ended", !.closed = TRUE]

LoopFails ==
  /\ loop.at = "accept" /\ ~mux.up /\ loop' = ended(loop)
  /\ UNCHANGED <<conn, mux, session, accept>> /\ SessionRest
LoopOffers ==
  /\ loop.at = "offer" /\ loop.queued < AcceptCapacity
  /\ loop' = [loop EXCEPT !.at = "accept", !.hand = 0, !.queued = @ + 1]
  /\ UNCHANGED <<conn, mux, session, accept>> /\ SessionRest

handReset(l) == [l EXCEPT !.hand = 0, !.reset = @ + 1]

sessionOver == session.over

LoopResets ==
  /\ loop.at = "offer" /\ sessionOver
  /\ loop' = ended(handReset(loop))
  /\ UNCHANGED <<conn, mux, session, accept>> /\ SessionRest

AcceptStream(a) ==
  /\ handle.establish = "done" /\ accept[a] = "idle" /\ accept' = [accept EXCEPT ![a] = "waiting"]
  /\ UNCHANGED <<conn, mux, loop, session>> /\ SessionRest
AcceptGets(a) ==
  /\ accept[a] = "waiting"
  /\ \/ /\ loop.queued > 0 /\ loop' = [loop EXCEPT !.queued = @ - 1, !.delivered = @ + 1]
        /\ accept' = [accept EXCEPT ![a] = "idle"]
     \/ /\ loop.queued = 0 /\ loop.closed /\ accept' = [accept EXCEPT ![a] = "error"] /\ UNCHANGED loop
  /\ UNCHANGED <<conn, mux, session>> /\ SessionRest

\* CloseWithErrorContext and Abort share closeOnce: the context first, then
\* (not in Abort) the close message within its deadline, then Yamux.
CloseCalled(c) ==
  /\ handle.establish = "done" /\ c \notin session.called
  /\ \E first \in {"control", "mux"} :
       session' = IF session.close = "no" THEN [session EXCEPT !.over = TRUE, !.close = first, !.called = @ \cup {c}]
                  ELSE [session EXCEPT !.called = @ \cup {c}]
  /\ UNCHANGED <<conn, mux, loop, accept>> /\ SessionRest
CloseControl ==
  /\ session.close = "control" /\ session' = [session EXCEPT !.close = "mux"]
  /\ UNCHANGED <<conn, mux, loop, accept>> /\ SessionRest
CloseMux ==
  /\ session.close = "mux" /\ session' = [session EXCEPT !.close = "done"]
  /\ mux' = [mux EXCEPT !.up = FALSE] /\ conn' = "closed" /\ UNCHANGED <<loop, accept>> /\ SessionRest

Next ==
  \/ DialTCP \/ DialFails \/ ContextEnds \/ AfterFunc \/ Upgraded \/ StopCancellation \/ Validate
  \/ Establish \/ PublishSession \/ HandleClose \/ HandleCloseEnds
  \/ PeerLost \/ LoopAccepts \/ LoopFails \/ LoopOffers \/ LoopResets \/ CloseControl \/ CloseMux
  \/ \E a \in Acceptors : AcceptStream(a) \/ AcceptGets(a)
  \/ \E c \in Closers : CloseCalled(c)

Fairness ==
  /\ WF_wsVars(PublishSession) /\ WF_wsVars(HandleCloseEnds)
  /\ WF_wsVars(LoopAccepts \/ LoopFails \/ LoopOffers \/ LoopResets) /\ WF_wsVars(CloseControl \/ CloseMux)
  /\ \A a \in Acceptors : WF_wsVars(AcceptGets(a))

Spec == Init /\ [][Next]_wsVars /\ Fairness

-----------------------------------------------------------------------------
TypeOK ==
  /\ conn \in {"none", "open", "closed"} /\ loop.queued \in 0..AcceptCapacity /\ loop.hand \in 0..1
  /\ dial.at \in {"start", "upgrade", "upgraded", "validate", "failed", "refused", "ready"}

\* A dial that failed, and a handle or a session that was closed, leave no
\* open connection, also when the handle is closed while Establish publishes
\* its session.
ConnectionReleased ==
  dial.at \in {"failed", "refused"} \/ handle.close = "done" \/ session.close = "done" => conn # "open"

\* Every stream taken from Yamux is offered, delivered or reset: none is lost
\* when the session ends while the loop holds one.
NoStreamLost == loop.hand + loop.queued + loop.delivered + loop.reset = StreamBudget - mux.pending

AcceptsOwed == ~mux.up /\ \E a \in Acceptors : accept[a] = "waiting"

\* An acceptor does not wait for ever once Yamux is down: it gets the queued
\* streams, and then the loop's error.
AcceptorsReturn == AcceptsOwed ~> ~AcceptsOwed

LoopOwed == session.close # "no" /\ loop.at # "ended"

\* After Close the accept loop ends, even with a full queue nobody reads.
LoopEnds == LoopOwed ~> ~LoopOwed
=============================================================================
