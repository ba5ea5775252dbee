----------------------------- MODULE WebTransport -----------------------------
(***************************************************************************)
(* The owners of WebTransport connections                                  *)
(* (internal/carrier/webtransport/webtransport.go,                         *)
(* internal/candidatev2/dialers.go): the dialer a candidate's dial makes,  *)
(* closed locally by the end of the dial's context while Dial is running;  *)
(* the session that owns its dialer; and the server's Serve against Close. *)
(***************************************************************************)
EXTENDS Integers, FiniteSets

CONSTANTS Closers   \* callers of the owned session's Close, CloseWithError or Abort

VARIABLES
  ctx,      \* the dial's context: whether it ended, and its AfterFunc
  dial,     \* Dialer.Dial: where it is, or how it ended
  dialer,   \* closed, CloseLocal and Close
  conn,     \* the QUIC connection and its place in dialer.connections
  use,      \* the candidate's dial around it and the session it hands out
  server    \* Server: lifecycleMu, serveCalled, closed, inner, Serve and Close

wtVars == <<ctx, dial, dialer, conn, use, server>>
dialVars == <<ctx, dial, dialer, conn, use>>

Init ==
  /\ ctx = [over |-> FALSE, after |-> "armed"] /\ dial = "idle"
  /\ dialer = [closed |-> FALSE, local |-> "no", close |-> "no"]
  /\ conn = [state |-> "none", tracked |-> FALSE, snapshot |-> FALSE, drained |-> FALSE]
  /\ use = [at |-> "dialing", called |-> {}]
  /\ server = [serveCalled |-> FALSE, closed |-> FALSE, mutex |-> "none", inner |-> "none", serve |-> "idle", close |-> "idle"]

-----------------------------------------------------------------------------
(* Dialer.Dial and dialQUIC.                                                *)

EnterDial ==
  /\ use.at = "dialing" /\ dial = "idle"
  /\ dial' = (IF dialer.closed THEN "failed" ELSE "entered") /\ UNCHANGED <<ctx, dialer, conn, use>>

\* The URL, its path or the origin is invalid, or the dialer has been closed.
RefuseDial == dial = "entered" /\ dial' = "failed" /\ UNCHANGED <<ctx, dialer, conn, use>>

StartDial ==
  /\ dial = "entered" /\ ~dialer.closed /\ dial' = "quic" /\ UNCHANGED <<ctx, dialer, conn, use>>

QuicDialFails == dial = "quic" /\ dial' = "failed" /\ UNCHANGED <<ctx, dialer, conn, use>>
QuicDialed ==
  /\ dial = "quic" /\ dial' = "register" /\ conn' = [conn EXCEPT !.state = "live"] /\ UNCHANGED <<ctx, dialer, use>>

closedMeanwhile == dialer.closed

\* The connection is tracked and closed read under one lock.
RegisterConnection ==
  /\ dial = "register"
  /\ conn' = [conn EXCEPT !.tracked = TRUE]
  /\ dial' = (IF closedMeanwhile THEN "late" ELSE "connect") /\ UNCHANGED <<ctx, dialer, use>>
CloseLate ==
  /\ dial = "late" /\ dial' = "failed" /\ conn' = [conn EXCEPT !.state = "over"] /\ UNCHANGED <<ctx, dialer, use>>

\* External: CONNECT succeeds, or fails with dialCtx, the peer or its status.
\* A session that wrapSession refuses is left to the dialer's Close.
Connected ==
  /\ dial = "connect" /\ conn.state = "live" /\ dial' = "session" /\ UNCHANGED <<ctx, dialer, conn, use>>
ConnectFails == dial = "connect" /\ dial' = "failed" /\ UNCHANGED <<ctx, dialer, conn, use>>

DialOver == dial \in {"failed", "session"}

\* observeQUICConnection: done is sent, then the connection forgotten.
PeerCloses ==
  /\ conn.state = "live" /\ conn' = [conn EXCEPT !.state = "over"] /\ UNCHANGED <<ctx, dial, dialer, use>>
Observe ==
  /\ conn.state = "over" /\ conn.tracked /\ ~conn.drained
  /\ conn' = [conn EXCEPT !.drained = TRUE, !.tracked = FALSE] /\ UNCHANGED <<ctx, dial, dialer, use>>

-----------------------------------------------------------------------------
(* CloseLocal and Close, each once.                                         *)

beginLocal(d) == IF d.local = "no" THEN [d EXCEPT !.local = "closing", !.closed = TRUE] ELSE d

\* The connections tracked when closed was set are closed outside the lock.
CloseLocalEnds ==
  /\ dialer.local = "closing" /\ dialer' = [dialer EXCEPT !.local = "done"]
  /\ conn' = (IF conn.snapshot THEN [conn EXCEPT !.state = "over"] ELSE conn) /\ UNCHANGED <<ctx, dial, use>>
snapshotLocal == conn' = IF dialer.local = "no" THEN [conn EXCEPT !.snapshot = conn.tracked] ELSE conn

\* context.AfterFunc(ctx, CloseLocal).
ContextEnds == ~ctx.over /\ ctx' = [ctx EXCEPT !.over = TRUE] /\ UNCHANGED <<dial, dialer, conn, use>>
AfterFunc ==
  /\ ctx.over /\ ctx.after = "armed" /\ ctx' = [ctx EXCEPT !.after = "ran"]
  /\ dialer' = beginLocal(dialer) /\ snapshotLocal /\ UNCHANGED <<dial, use>>

\* Close: CloseLocal first (waiting for one that is running), then the dials.
CloseBegins ==
  /\ use.at \in {"failing", "closing"} /\ dialer.close = "no"
  /\ dialer' = [beginLocal(dialer) EXCEPT !.close = "local"] /\ snapshotLocal /\ UNCHANGED <<ctx, dial, use>>

CloseConnections ==
  /\ dialer.close = "local" /\ dialer.local = "done" /\ DialOver
  /\ dialer' = [dialer EXCEPT !.close = "drain"]
  /\ conn' = IF conn.tracked THEN [conn EXCEPT !.state = "over", !.snapshot = TRUE] ELSE [conn EXCEPT !.snapshot = FALSE]
  /\ UNCHANGED <<ctx, dial, use>>
Drained ==
  /\ dialer.close = "drain" /\ (~conn.snapshot \/ conn.drained)
  /\ dialer' = [dialer EXCEPT !.close = "done"] /\ UNCHANGED <<ctx, dial, conn, use>>
DrainTimeout ==
  /\ dialer.close = "drain" /\ conn.snapshot /\ ~conn.drained
  /\ dialer' = [dialer EXCEPT !.close = "done"] /\ UNCHANGED <<ctx, dial, conn, use>>

-----------------------------------------------------------------------------
(* NewWebTransportCarrierDial's closure and ownedCarrierSession.            *)

\* Mutant: the result of stopLocalClose is ignored.
StopIgnored == dial = "failed"

dialLost == dial = "failed" \/ ctx.after = "ran"

\* Dial has returned: the AfterFunc is stopped, or has run.
DialReturns ==
  /\ use.at = "dialing" /\ DialOver
  /\ use' = [use EXCEPT !.at = IF dialLost THEN "failing" ELSE "accepting"]
  /\ ctx' = [ctx EXCEPT !.after = IF @ = "armed" THEN "stopped" ELSE @] /\ UNCHANGED <<dial, dialer, conn>>

AdmissionAccepted ==
  /\ use.at = "accepting" /\ conn.state = "live" /\ use' = [use EXCEPT !.at = "ready"] /\ UNCHANGED <<ctx, dial, dialer, conn>>

withoutAdmission == "failing"

\* session.Close ends the WebTransport session; the dialer is closed with it.
AdmissionFails ==
  /\ use.at = "accepting" /\ use' = [use EXCEPT !.at = withoutAdmission] /\ UNCHANGED <<ctx, dial, dialer, conn>>

CloseOwned(c) ==
  /\ use.at \in {"ready", "closing", "closed"} /\ c \notin use.called
  /\ use' = [use EXCEPT !.called = @ \cup {c}, !.at = IF @ = "ready" THEN "closing" ELSE @]
  /\ UNCHANGED <<ctx, dial, dialer, conn>>

OwnerClosed ==
  /\ dialer.close = "done" /\ use.at \in {"failing", "closing"}
  /\ use' = [use EXCEPT !.at = IF @ = "failing" THEN "failed" ELSE "closed"] /\ UNCHANGED <<ctx, dial, dialer, conn>>

DialStep ==
  \/ EnterDial \/ RefuseDial \/ StartDial \/ QuicDialFails \/ QuicDialed \/ RegisterConnection \/ CloseLate
  \/ Connected \/ ConnectFails \/ PeerCloses \/ Observe \/ CloseLocalEnds \/ ContextEnds \/ AfterFunc
  \/ CloseBegins \/ CloseConnections \/ Drained \/ DrainTimeout \/ DialReturns \/ AdmissionAccepted
  \/ AdmissionFails \/ OwnerClosed \/ \E c \in Closers : CloseOwned(c)

-----------------------------------------------------------------------------
(* Server.Serve and Server.Close.                                           *)

Serve ==
  /\ server.serve = "idle" /\ server.mutex = "none"
  /\ server' = IF server.closed \/ server.serveCalled THEN [server EXCEPT !.serve = "refused"]
               ELSE [server EXCEPT !.serveCalled = TRUE, !.serve = "starting", !.inner = "starting", !.mutex = "serve"]

\* External: webtransport-go registers Serve in its count before it touches the
\* packet connection, or it returns without having done so.
InnerRegisters == server.inner = "starting" /\ server' = [server EXCEPT !.inner = "registered"]
InnerReturns == server.inner \in {"starting", "touched"} /\ server' = [server EXCEPT !.inner = "returned"]

\* Its first call of any method of the packet connection goes through the
\* wrapper of trackServeStart, which marks the start.
InnerTouches == server.inner = "registered" /\ server' = [server EXCEPT !.inner = "touched"]

readyStates == {"touched", "returned"}

ServeReady ==
  /\ server.serve = "starting" /\ server.inner \in readyStates
  /\ server' = [server EXCEPT !.serve = "serving", !.mutex = "none"]
ServeReturns == server.serve = "serving" /\ server.inner = "returned" /\ server' = [server EXCEPT !.serve = "returned"]

ServerCloseCalled == server.close = "idle" /\ server' = [server EXCEPT !.close = "called"]
ServerClose ==
  /\ server.close = "called" /\ server.mutex = "none"
  /\ server' = [server EXCEPT !.close = "waiting", !.closed = TRUE, !.mutex = "close"]
ServerCloseEnds ==
  /\ server.close = "waiting" /\ server.inner \in {"none", "returned"}
  /\ server' = [server EXCEPT !.close = "closed", !.mutex = "none"]

ServerStep ==
  \/ Serve \/ InnerRegisters \/ InnerTouches \/ InnerReturns \/ ServeReady \/ ServeReturns
  \/ ServerCloseCalled \/ ServerClose \/ ServerCloseEnds

Next == (DialStep /\ UNCHANGED server) \/ (ServerStep /\ UNCHANGED dialVars)

\* Running code goes on. A dial ends with its context, which CloseLocal cancels.
Running ==
  /\ \/ EnterDial \/ RegisterConnection \/ CloseLate \/ Observe \/ CloseLocalEnds \/ CloseBegins
     \/ CloseConnections \/ Drained \/ DrainTimeout \/ DialReturns \/ OwnerClosed
  /\ UNCHANGED server
Dialing ==
  /\ RefuseDial \/ StartDial \/ QuicDialFails \/ QuicDialed \/ Connected \/ ConnectFails
  /\ UNCHANGED server
Serving == (ServeReady \/ ServeReturns \/ ServerClose \/ ServerCloseEnds) /\ UNCHANGED dialVars
Inner == (InnerRegisters \/ InnerTouches) /\ UNCHANGED dialVars
InnerStops == server.closed /\ InnerReturns /\ UNCHANGED dialVars
Fairness ==
  WF_wtVars(Running) /\ WF_wtVars(Dialing) /\ WF_wtVars(Serving) /\ WF_wtVars(Inner) /\ WF_wtVars(InnerStops)

Spec == Init /\ [][Next]_wtVars /\ Fairness

-----------------------------------------------------------------------------
TypeOK ==
  /\ conn.state \in {"none", "live", "over"} /\ dialer.local \in {"no", "closing", "done"}
  /\ use.at \in {"dialing", "failing", "failed", "accepting", "ready", "closing", "closed"}
  /\ server.mutex \in {"none", "serve", "close"}

\* CloseLocal has made every connection of the dialer unusable when it returns;
\* one that arrives later is closed by the dial that made it (the comment on
\* CloseLocal).
LocallyUnusable == dialer.local = "done" /\ conn.state = "live" => dial \in {"register", "late"}

\* A dial that failed and an owned session that was closed leave no live
\* connection behind, even when the drain timed out.
NothingLeft == use.at \in {"failed", "closed"} => conn.state # "live"

\* The dial never hands out a session whose dialer it let the context close.
ReadyIsOpen == use.at = "ready" => ~dialer.closed

\* webtransport-go's count is never raised while Close waits for it: Close
\* waits until Serve has touched the packet connection.
NoAddDuringWait == server.close = "waiting" => server.inner # "starting"

OwnersOwed == use.at \in {"failing", "closing"} \/ server.close \in {"called", "waiting"}

\* A failed dial, the Close of an owned session and the Close of a server end.
OwnersEnd == OwnersOwed ~> ~OwnersOwed
=============================================================================
