---------------------------- MODULE TunnelBridge ----------------------------
(***************************************************************************)
(* What becomes of a paired tunnel: the hand-over of a native leg from its *)
(* waiting guard (internal/tunnelv2/native_leg.go) and the Bridge between  *)
(* the two legs (broker.go).  The bridge splices the client's first stream *)
(* with a control stream of the server leg, and every later stream of      *)
(* either leg with a new stream of the other.                              *)
(***************************************************************************)
EXTENDS Integers, Sequences, FiniteSets

CONSTANTS
  Streams,                \* streams the endpoints open, 1, 2, ...; the first is the client's
  MaxConcurrentStreams,   \* capacity of the semaphore
  Legs                    \* {"client", "server"}

VARIABLES
  leg,      \* the client's NativeStreamLeg: guard, pending stream, admission flags
  arrive,   \* per leg: streams waiting in AcceptStream
  bridge,   \* Bridge: where it is, the cause of its context's end, the task group,
            \* the semaphore, and whether the carrier of a leg is lost
  loop,     \* per leg: its acceptLoop
  pair      \* per stream: the splice that carries it

bridgeVars == <<leg, arrive, bridge, loop, pair>>

Control == 1
NoStream == 0

\* A splice: the directions that still copy, and whether one ended with EOF,
\* one with an error, and both streams were reset.
NoPair == [at |-> "none", copying |-> 2, eof |-> FALSE, err |-> FALSE, reset |-> FALSE]

Init ==
  /\ leg = [guard |-> "accept", canceled |-> FALSE, stream |-> NoStream, pending |-> NoStream,
            responded |-> FALSE, active |-> FALSE, late |-> NoStream]
  /\ arrive = [l \in Legs |-> <<>>]
  /\ bridge = [at |-> "waiting", cause |-> "none", count |-> 0, done |-> FALSE, early |-> FALSE, sem |-> 0,
               wait |-> "none", lost |-> FALSE]
  /\ loop = [l \in Legs |-> [at |-> "off", stream |-> NoStream]]
  /\ pair = [s \in Streams |-> NoPair]

Opened == {s \in Streams : \/ pair[s].at # "none" \/ \E l \in Legs : loop[l].stream = s
                           \/ \E l \in Legs : \E i \in DOMAIN arrive[l] : arrive[l][i] = s
                           \/ s \in {leg.stream, leg.pending}}

\* An endpoint opens a stream on its leg (the first data stream is the client's:
\* the legs are interchangeable once bridged); the client's first one is its control
\* stream and follows the admission response, or comes too early.
OpenStream(l, s) ==
  /\ s \notin Opened /\ \A t \in 1..s - 1 : t \in Opened
  /\ s <= 2 => l = "client"
  /\ s # Control => bridge.at \in {"splice", "loops"}
  /\ arrive' = [arrive EXCEPT ![l] = Append(@, s)]
  /\ leg' = IF s = Control /\ leg.canceled THEN [leg EXCEPT !.late = s] ELSE leg
  /\ UNCHANGED <<bridge, loop, pair>>

-----------------------------------------------------------------------------
(* RejectWaitingStreams and Activate.                                       *)

\* AcceptStream returns a stream, also when its context has just ended.
GuardAccepts ==
  /\ leg.guard = "accept" /\ arrive["client"] # <<>>
  /\ leg' = [leg EXCEPT !.guard = "took", !.stream = Head(arrive["client"])]
  /\ arrive' = [arrive EXCEPT !["client"] = Tail(@)]
  /\ UNCHANGED <<bridge, loop, pair>>

\* Mutant: the guard resets whatever it took.
GuardDropsLate(s) == NoStream

handedOver(s) == IF leg.pending = NoStream THEN s ELSE leg.pending

GuardDecides ==
  /\ leg.guard = "took"
  /\ IF leg.canceled
     THEN /\ leg' = [leg EXCEPT !.guard = "over", !.pending = handedOver(leg.stream), !.stream = NoStream]
          /\ UNCHANGED pair
     ELSE /\ leg' = [leg EXCEPT !.guard = "accept", !.stream = NoStream]
          /\ pair' = [pair EXCEPT ![leg.stream].at = "refused"]
  /\ UNCHANGED <<arrive, bridge, loop>>

GuardCanceled ==
  /\ leg.guard = "accept" /\ leg.canceled /\ leg' = [leg EXCEPT !.guard = "over"]
  /\ UNCHANGED <<arrive, bridge, loop, pair>>

\* The coordinator pairs the leg: it stops the guard, waits for it, answers the
\* admission and activates the leg.
CancelGuard ==
  /\ ~leg.canceled /\ leg' = [leg EXCEPT !.canceled = TRUE] /\ UNCHANGED <<arrive, bridge, loop, pair>>

SendAdmission ==
  /\ leg.guard = "over" /\ ~leg.responded /\ leg' = [leg EXCEPT !.responded = TRUE]
  /\ UNCHANGED <<arrive, bridge, loop, pair>>

\* nativeStreamHandoffSession: the pending stream is the first one accepted.
Activate ==
  /\ leg.responded /\ ~leg.active
  /\ arrive' = IF leg.pending = NoStream THEN arrive
               ELSE [arrive EXCEPT !["client"] = <<leg.pending>> \o @]
  /\ leg' = [leg EXCEPT !.active = TRUE, !.pending = NoStream]
  /\ bridge' = [bridge EXCEPT !.at = "control"] /\ UNCHANGED <<loop, pair>>

-----------------------------------------------------------------------------
(* Bridge.                                                                  *)

\* The context of the bridge ends: every splice is reset.
Canceled(b, cause) == IF b.cause = "none" THEN [b EXCEPT !.cause = cause] ELSE b

CallerCancels ==
  /\ bridge.at \in {"control", "splice", "loops"} /\ bridge.cause = "none"
  /\ bridge' = Canceled(bridge, "caller") /\ UNCHANGED <<leg, arrive, loop, pair>>

\* A leg's carrier is lost: its AcceptStream and its streams fail.
LegLost ==
  /\ bridge.at \in {"control", "splice", "loops"} /\ ~bridge.lost
  /\ bridge' = [bridge EXCEPT !.lost = TRUE] /\ UNCHANGED <<leg, arrive, loop, pair>>

\* The control stream is accepted and its counterpart opened; a failure of
\* either ends the bridge before it starts any task.
AcceptControl(ok) ==
  /\ bridge.at = "control"
  /\ IF ok
     THEN /\ bridge.cause = "none" /\ arrive["client"] # <<>>
          /\ pair' = [pair EXCEPT ![Head(arrive["client"])].at = "splice"]
          /\ arrive' = [arrive EXCEPT !["client"] = Tail(@)]
          /\ bridge' = [bridge EXCEPT !.at = "splice", !.count = 1]
     ELSE /\ bridge' = [Canceled(bridge, "open") EXCEPT !.at = "returned"] /\ UNCHANGED <<arrive, pair>>
  /\ UNCHANGED <<leg, loop>>

\* tasks.Add(2), after the control splice has started; early: it is over already.
StartLoops ==
  /\ bridge.at = "splice"
  /\ bridge' = [bridge EXCEPT !.at = "loops", !.count = @ + 2, !.early = bridge.done]
  /\ loop' = [l \in Legs |-> [at |-> "accept", stream |-> NoStream]]
  /\ UNCHANGED <<leg, arrive, pair>>

\* taskGroup.Done closes the done channel when the count reaches zero; closing
\* it a second time panics, in a goroutine that does not recover.
Done(b) ==
  IF b.count > 1 THEN [b EXCEPT !.count = @ - 1]
  ELSE [b EXCEPT !.count = 0, !.done = TRUE, !.at = IF b.done THEN "crashed" ELSE @]

\* The process lives.
Running == bridge.at # "crashed"

\* Both legs are closed with the context's cause; tasks have CleanupTimeout.
CloseLegs ==
  /\ bridge.at = "loops" /\ bridge.cause # "none"
  /\ bridge' = [bridge EXCEPT !.at = "closed"] /\ UNCHANGED <<leg, arrive, loop, pair>>

tasksWaited == bridge.done

BridgeReturns ==
  /\ bridge.at = "closed" /\ tasksWaited
  /\ bridge' = [bridge EXCEPT !.at = "returned", !.wait = "tasks"] /\ UNCHANGED <<leg, arrive, loop, pair>>

CleanupTimeout ==
  /\ bridge.at = "closed" /\ ~bridge.done
  /\ bridge' = [bridge EXCEPT !.at = "returned", !.wait = "deadline"] /\ UNCHANGED <<leg, arrive, loop, pair>>

-----------------------------------------------------------------------------
(* acceptLoop.                                                              *)

LoopOver == [at |-> "over", stream |-> NoStream]

LoopAccepts(l) ==
  /\ loop[l].at = "accept"
  /\ \/ /\ bridge.at = "loops" /\ arrive[l] # <<>>
        /\ loop' = [loop EXCEPT ![l] = [at |-> "sem", stream |-> Head(arrive[l])]]
        /\ arrive' = [arrive EXCEPT ![l] = Tail(@)] /\ UNCHANGED bridge
     \/ /\ bridge.cause # "none" \/ bridge.lost
        /\ loop' = [loop EXCEPT ![l] = LoopOver] /\ bridge' = Done(bridge) /\ UNCHANGED arrive
  /\ UNCHANGED <<leg, pair>>

slotFree == bridge.sem < MaxConcurrentStreams

LoopAcquires(l) ==
  /\ loop[l].at = "sem"
  /\ \/ /\ slotFree
        /\ bridge' = [bridge EXCEPT !.sem = @ + 1]
        /\ loop' = [loop EXCEPT ![l].at = "open"] /\ UNCHANGED pair
     \/ /\ bridge.cause # "none"
        /\ pair' = [pair EXCEPT ![loop[l].stream].at = "refused"]
        /\ loop' = [loop EXCEPT ![l] = LoopOver] /\ bridge' = Done(bridge)
  /\ UNCHANGED <<leg, arrive>>

slotGivenBack == [bridge EXCEPT !.sem = @ - 1]

\* OpenStream on the other leg succeeds, or fails and concerns this stream only.
LoopOpens(l, ok) ==
  /\ loop[l].at = "open"
  /\ IF ok
     THEN /\ bridge.at = "loops"
          /\ bridge' = [bridge EXCEPT !.count = @ + 1]
          /\ pair' = [pair EXCEPT ![loop[l].stream].at = "splice"]
          /\ loop' = [loop EXCEPT ![l] = [at |-> "accept", stream |-> NoStream]]
     ELSE /\ pair' = [pair EXCEPT ![loop[l].stream].at = "refused"]
          /\ IF bridge.cause # "none"
             THEN bridge' = Done(slotGivenBack) /\ loop' = [loop EXCEPT ![l] = LoopOver]
             ELSE bridge' = slotGivenBack /\ loop' = [loop EXCEPT ![l] = [at |-> "accept", stream |-> NoStream]]
  /\ UNCHANGED <<leg, arrive>>

-----------------------------------------------------------------------------
(* spliceStreamPair.                                                        *)

\* A direction copies until EOF, which it passes on with CloseWrite, or an error.
CopyEnds(s, how) ==
  /\ pair[s].at = "splice" /\ pair[s].copying > 0
  /\ how = "eof" => ~pair[s].reset /\ ~bridge.lost /\ bridge.at \in {"splice", "loops"}
  /\ pair' = [pair EXCEPT ![s].copying = @ - 1, ![s].eof = @ \/ how = "eof", ![s].err = @ \/ how = "err"]
  /\ UNCHANGED <<leg, arrive, bridge, loop>>

\* Mutant: the error of one direction leaves the other copying.
OtherDirectionKept(s) == FALSE

failed(s) == pair[s].err

\* The first error, the end of the context, or for the control pair the
\* half-close grace, resets both streams.
PairReset(s) ==
  /\ pair[s].at = "splice" /\ ~pair[s].reset /\ pair[s].copying > 0
  /\ \/ failed(s) \/ bridge.cause # "none"
     \/ s = Control /\ pair[s].eof
  /\ pair' = [pair EXCEPT ![s].reset = TRUE] /\ UNCHANGED <<leg, arrive, bridge, loop>>

\* Mutant: every pair ends the bridge.
AnyPairEnds(s) == Done(Canceled(IF s = Control THEN bridge ELSE slotGivenBack, "control"))

\* The control pair ends the bridge, any other pair gives its slot back.
afterPair(s) == IF s = Control THEN Done(Canceled(bridge, "control")) ELSE Done(slotGivenBack)

\* Both directions have ended.
PairEnds(s) ==
  /\ pair[s].at = "splice" /\ pair[s].copying = 0
  /\ pair' = [pair EXCEPT ![s] = [NoPair EXCEPT !.at = "over"]]
  /\ bridge' = afterPair(s)
  /\ UNCHANGED <<leg, arrive, loop>>

CopyFails(s) == (pair[s].reset \/ bridge.lost \/ bridge.at \in {"closed", "returned"}) /\ CopyEnds(s, "err")

Next ==
  /\ Running
  /\ \/ \E s \in Streams : \/ \E l \in Legs : OpenStream(l, s)
                           \/ \E how \in {"eof", "err"} : CopyEnds(s, how)
                           \/ PairReset(s) \/ PairEnds(s)
     \/ GuardAccepts \/ GuardDecides \/ GuardCanceled \/ CancelGuard \/ SendAdmission \/ Activate
     \/ CallerCancels \/ LegLost \/ StartLoops \/ CloseLegs \/ BridgeReturns \/ CleanupTimeout
     \/ \E ok \in BOOLEAN : AcceptControl(ok)
     \/ \E l \in Legs : LoopAccepts(l) \/ LoopAcquires(l) \/ \E ok \in BOOLEAN : LoopOpens(l, ok)

\* Goroutines that can go on do, a reset stream fails its reader, and Bridge
\* reaches its deadline.
SpliceSteps(s) == Running /\ (PairReset(s) \/ PairEnds(s) \/ CopyFails(s))
LoopSteps(l) == Running /\ (LoopAccepts(l) \/ LoopAcquires(l) \/ \E ok \in BOOLEAN : LoopOpens(l, ok))
BridgeSteps ==
  /\ Running
  /\ \/ AcceptControl(FALSE) /\ (bridge.cause # "none" \/ bridge.lost)
     \/ StartLoops \/ CloseLegs \/ BridgeReturns \/ CleanupTimeout

Fairness ==
  /\ \A s \in Streams : WF_bridgeVars(SpliceSteps(s))
  /\ \A l \in Legs : WF_bridgeVars(LoopSteps(l))
  /\ WF_bridgeVars(BridgeSteps)

Spec == Init /\ [][Next]_bridgeVars /\ Fairness

-----------------------------------------------------------------------------
(* Properties.                                                              *)

TypeOK ==
  /\ bridge.sem \in 0..MaxConcurrentStreams /\ bridge.count \in 0..Cardinality(Streams) + 2
  /\ bridge.cause \in {"none", "caller", "open", "control"}
  /\ \A l \in Legs : loop[l].at \in {"off", "accept", "sem", "open", "over"} /\ loop[l].stream \in Streams \cup {NoStream}
  /\ \A s \in Streams : pair[s].at \in {"none", "splice", "refused", "over"}
  /\ leg.guard \in {"accept", "took", "over"}

\* A slot of the semaphore is held by every spliced data stream and by every
\* loop about to open one, so that failed opens and resets never shrink the
\* bridge (broker.go: every path of acceptLoop gives it back).
SemaphoreExact ==
  bridge.sem = Cardinality({s \in Streams \ {Control} : pair[s].at = "splice"})
               + Cardinality({l \in Legs : loop[l].at = "open"})

\* A stream that reaches the native leg after its guard was told to stop is
\* handed over, not reset: it is the client's control stream.
LateStreamKept ==
  leg.late # NoStream => leg.late \in Opened /\ pair[leg.late].at # "refused" /\ (leg.active => leg.guard = "over")

\* The second close of the done channel, which ends the process, is reached in
\* one case only: the control pair was over before tasks.Add(2) counted the
\* accept loops (taskGroup.Done).
CrashOnlyEarly == bridge.at = "crashed" => bridge.early

\* When Bridge returns because its tasks are done, no task runs.  In the case
\* above it returns beside the loops, whose end is then the crash.
TasksOver ==
  bridge.at = "returned" /\ bridge.wait = "tasks" /\ ~bridge.early
  => /\ \A s \in Streams : pair[s].at # "splice"
     /\ \A l \in Legs : loop[l].at = "over"

\* The failure of a data stream, or of opening its counterpart, never ends the
\* bridge: its context ends with the caller, the control pair, or at the start.
DataFailuresScoped ==
  [][bridge.cause = "none" /\ bridge'.cause # "none"
     => \/ bridge'.cause = "caller" \/ bridge.at = "control"
        \/ pair[Control].at = "splice" /\ pair'[Control].at = "over"]_bridgeVars

BridgeOwed ==
  /\ Running
  /\ bridge.cause # "none" \/ bridge.lost \/ pair[Control].copying < 2
  /\ \/ bridge.at # "returned"
     \/ \E s \in Streams : pair[s].at = "splice"
     \/ \E l \in Legs : loop[l].at \notin {"off", "over"}

\* Once the caller cancels, the control pair fails or a leg is lost, every task
\* ends and Bridge returns: no splice and no loop outlives it for ever.  The
\* crash above ends everything else in the process too.
BridgeEnds == BridgeOwed ~> ~BridgeOwed
=============================================================================
