--------------------------- MODULE StreamLifecycle ---------------------------
(***************************************************************************)
(* The lifetime of one carrier stream: internal/carrier/internal/lifecycle *)
(* and the Stream wrappers of the WebSocket, raw QUIC and WebTransport     *)
(* carriers around it.  Each call is the native call and then the          *)
(* lifecycle's bookkeeping, so two calls interleave between the two.       *)
(***************************************************************************)
EXTENDS Integers, FiniteSets

CONSTANTS Carriers   \* subset of {"websocket", "raw_quic", "webtransport"}

VARIABLES
  carrier,   \* the stream's carrier
  life,      \* lifecycle.Stream: sendClosed, recvClosed and the context's cause
  call,      \* per operation: where it is
  parent     \* whether the session's context has ended

lifeVars == <<carrier, life, call, parent>>

Operations == {"read", "write", "closeWrite", "stop", "reset", "close"}

\* What an operation does to the lifecycle after its native call.
Outcomes == {"nil", "eof", "error"}

Init ==
  /\ carrier \in Carriers /\ parent = FALSE
  /\ life = [sendClosed |-> FALSE, recvClosed |-> FALSE, cause |-> "none"]
  /\ call = [o \in Operations |-> [at |-> "idle", outcome |-> "nil"]]

\* The first cancellation of a context keeps its cause.
cancel(l, cause) == IF l.cause = "none" THEN [l EXCEPT !.cause = cause] ELSE l

\* Read with the mutex that marks the first half closed.
finished(l, other) == l[other]

At(o) == call[o].at
moved(o, at) == call' = [call EXCEPT ![o].at = at]

\* What the wrapped calls of a WebTransport or raw QUIC stream hand on: the error of a
\* failed read, write or half close; cancelling reading and writing has none, and Close is Reset.
nativeOutcomes ==
  [read |-> Outcomes, write |-> {"nil", "error"}, closeWrite |-> {"nil", "error"},
   stop |-> {"nil"}, reset |-> {"nil"}, close |-> {}]

\* A Yamux stream cannot stop the sender; whatever its Reset and Close return, they terminate.
yamuxOutcomes == [nativeOutcomes EXCEPT !.stop = {}, !.close = {"nil"}]

\* The native call returns.
NativeCall(o, outcome) ==
  /\ At(o) = "idle" /\ outcome \in (IF carrier = "websocket" THEN yamuxOutcomes ELSE nativeOutcomes)[o]
  /\ call' = [call EXCEPT ![o] = [at |-> IF o \in {"read", "write"} /\ outcome = "nil" THEN "idle" ELSE "native",
                                   outcome |-> IF o \in {"read", "write"} /\ outcome = "nil" THEN "nil" ELSE outcome]]
  /\ UNCHANGED <<carrier, life, parent>>

\* ReadResult, WriteResult and CloseWriteResult of an error.
FailedResult(o) ==
  /\ o \in {"read", "write", "closeWrite"} /\ At(o) = "native" /\ call[o].outcome = "error"
  /\ life' = cancel(life, "error") /\ moved(o, "done") /\ UNCHANGED <<carrier, parent>>

ReceiveEnds(o) ==
  /\ At(o) = "native" /\ (o = "stop" \/ (o = "read" /\ call[o].outcome = "eof"))
  /\ life' = [life EXCEPT !.recvClosed = TRUE]
  /\ moved(o, IF finished(life, "sendClosed") THEN "cancel" ELSE "done") /\ UNCHANGED <<carrier, parent>>

SendEnds ==
  /\ At("closeWrite") = "native" /\ call["closeWrite"].outcome = "nil"
  /\ life' = [life EXCEPT !.sendClosed = TRUE]
  /\ moved("closeWrite", IF finished(life, "recvClosed") THEN "cancel" ELSE "done") /\ UNCHANGED <<carrier, parent>>

Cancels(o) ==
  /\ At(o) = "cancel" /\ life' = cancel(life, "eof") /\ moved(o, "done") /\ UNCHANGED <<carrier, parent>>

\* Reset of the native carriers (their Close is Reset): StopSending through its
\* Once, the native cancellation of the writing side, then Terminate.
ResetStops ==
  /\ At("reset") = "native" /\ carrier # "websocket"
  /\ \/ /\ At("stop") = "idle"
        /\ call' = [call EXCEPT !["stop"] = [at |-> "native", outcome |-> "nil"], !["reset"].at = "stopping"]
     \/ At("stop") # "idle" /\ moved("reset", "stopping")
  /\ UNCHANGED <<carrier, life, parent>>

terminate(l, cause) == cancel(l, cause)

Terminate(o) ==
  /\ o \in {"reset", "close"}
  /\ IF carrier = "websocket" THEN At(o) = "native" ELSE At(o) = "stopping" /\ At("stop") = "done"
  /\ life' = terminate(life, IF carrier = "websocket" /\ o = "close" THEN "closed" ELSE "reset")
  /\ moved(o, "done") /\ UNCHANGED <<carrier, parent>>

\* The session's context, the parent of the stream's, ends.
SessionEnds ==
  /\ ~parent /\ parent' = TRUE /\ life' = cancel(life, "session") /\ UNCHANGED <<carrier, call>>

Next ==
  \/ \E o \in Operations :
       \/ \E outcome \in Outcomes : NativeCall(o, outcome)
       \/ FailedResult(o) \/ ReceiveEnds(o) \/ Cancels(o) \/ Terminate(o)
  \/ ResetStops \/ SendEnds \/ SessionEnds

Spec == Init /\ [][Next]_lifeVars

-----------------------------------------------------------------------------
TypeOK ==
  /\ life.cause \in {"none", "eof", "error", "reset", "closed", "session"}
  /\ \A o \in Operations : At(o) \in {"idle", "native", "stopping", "cancel", "done"}

Settled == \A o \in Operations : At(o) \in {"idle", "done"}

\* Once no call is between its native part and its bookkeeping, a stream both
\* of whose halves have ended, or that was reset or closed, has its context
\* ended (lifecycle.go: whichever half ends last sees the other).
EndedWhenOver ==
  Settled /\ ((life.sendClosed /\ life.recvClosed) \/ At("reset") = "done" \/ At("close") = "done")
    => life.cause # "none"

\* A clean end of one half alone never ends the stream's context, which is why
\* the carriers do not use the native stream's context.
HalfCloseKeepsAlive == life.cause = "eof" => life.sendClosed /\ life.recvClosed
=============================================================================
