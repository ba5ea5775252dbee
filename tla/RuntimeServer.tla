--------------------------- MODULE RuntimeServer ---------------------------
(* The runtime command (cmd/flowersec-runtime): Serve opens four listeners, *)
(* serves every connection in a goroutine of its own and, when a signal or  *)
(* a failed listener stops it, closes the listeners and waits, first for    *)
(* them and then for the sessions it counted. A direct connection holds a   *)
(* slot, asks the external authorization service, and bridges the streams   *)
(* of its session to the upstream the service named; a tunnel connection is *)
(* given to the coordinator.                                                *)
EXTENDS Integers, Sequences, FiniteSets

CONSTANTS Workloads,          \* what the connections are and are answered
          MaxDirectSessions   \* capacity of directSlots

VARIABLES serve,    \* runtimeServer.Serve
          sockets,  \* the sockets and servers it has open
          loops,    \* the listener goroutines: "off", "running" or "over"
          load,     \* the workload
          conn      \* per connection, its goroutine and what it holds

runtimeVars == <<serve, sockets, loops, load, conn>>

Setup == <<"wss", "direct", "tunnel", "packet", "webtransport">>
Loops == {"wss", "direct", "tunnel", "webtransport"}
Conns == DOMAIN load
Fresh == [at |-> "new", slot |-> FALSE, lease |-> "none", session |-> "none",
          answer |-> "none", bridge |-> "off", copies |-> {}]

Init ==
  /\ serve = [at |-> "setup", done |-> FALSE, err |-> FALSE]
  /\ sockets = <<>> /\ loops = [l \in Loops |-> "off"]
  /\ load \in Workloads /\ conn = [c \in DOMAIN load |-> Fresh]

Set(c, new) == conn' = [conn EXCEPT ![c] = new]
Only(c, new) == Set(c, new) /\ UNCHANGED <<serve, sockets, loops, load>>
-----------------------------------------------------------------------------
(* Serve.                                                                   *)

addCloser(s) == Append(sockets, s)
Open == {sockets[i] : i \in DOMAIN sockets}

\* The listeners are opened one by one; a failure closes those before it.
Listens(i) ==
  /\ serve.at = "setup" /\ i = Len(sockets) + 1
  /\ \/ /\ sockets' = addCloser(Setup[i])
        /\ IF i < Len(Setup) THEN UNCHANGED <<serve, loops>>
           ELSE /\ serve' = [serve EXCEPT !.at = "serving"]
                /\ loops' = [l \in Loops |-> "running"]
     \/ /\ sockets' = <<>> /\ UNCHANGED loops
        /\ serve' = [serve EXCEPT !.at = "over", !.err = TRUE]
  /\ UNCHANGED <<load, conn>>

\* runListener: a listener that fails says so, without waiting.
ListenerFails(l) ==
  /\ serve.at = "serving" /\ loops[l] = "running" /\ ~serve.err
  /\ loops' = [loops EXCEPT ![l] = "over"] /\ serve' = [serve EXCEPT !.err = TRUE]
  /\ UNCHANGED <<sockets, load, conn>>

Signal ==
  /\ serve.at = "serving" /\ ~serve.done /\ serve' = [serve EXCEPT !.done = TRUE]
  /\ UNCHANGED <<sockets, loops, load, conn>>

\* The serve context ends, then closeListeners closes what was opened.
Stops ==
  /\ serve.at = "serving" /\ (serve.done \/ serve.err)
  /\ serve' = [serve EXCEPT !.at = "closing", !.done = TRUE]
  /\ UNCHANGED <<sockets, loops, load, conn>>

CloseListeners ==
  /\ serve.at = "closing" /\ serve' = [serve EXCEPT !.at = "listeners"]
  /\ sockets' = <<>> /\ UNCHANGED <<loops, load, conn>>

canceled == serve.done /\ serve.at # "serving"

ListenerReturns(l) ==
  /\ loops[l] = "running"
  /\ l \notin Open \/ (l \in {"direct", "tunnel"} /\ canceled)
  /\ loops' = [loops EXCEPT ![l] = "over"]
  /\ UNCHANGED <<serve, sockets, load, conn>>

\* Mutant: the sessions are waited for before the listeners.
ListenersNotAwaited == TRUE

listenersOver == \A l \in Loops : loops[l] # "running"

\* sessionWG: the raw QUIC and WebTransport sessions, and every bridge.
running(c) ==
  \/ load[c].kind = "raw" /\ conn[c].at \notin {"new", "over"}
  \/ load[c].kind = "webtransport" /\ conn[c].at \notin {"new", "upgraded", "over"}
  \/ conn[c].bridge \notin {"off", "over"}

Waits ==
  /\ \/ /\ serve.at = "listeners" /\ listenersOver
        /\ serve' = [serve EXCEPT !.at = "sessions"]
     \/ /\ serve.at = "sessions" /\ \A c \in Conns : ~running(c)
        /\ serve' = [serve EXCEPT !.at = "over"]
  /\ UNCHANGED <<sockets, loops, load, conn>>
-----------------------------------------------------------------------------
(* The authorization service and what the runtime makes of its decisions.   *)

\* admissionDecision: a reason goes with a refusal only, and must be known.
decisionOf(d) ==
  CASE d.decision = "allow" /\ d.reason = "none" -> "success"
    [] d.decision \in {"reject", "retry"} /\ d.reason = "known" -> d.decision
    [] OTHER -> "invalid"

\* authorizeDirect: the lease, credential, expiry and upstream it needs are
\* there, and the contract is the one the client's request names, with the
\* stream limit this runtime was configured with.
directComplete(d) == d.direct /\ d.fields /\ d.contract

\* The service answers in time, with one well-formed JSON decision.
Authorize(d) == d.reachable

\* The candidate the client chose is one of the carrier it came over.
chosenCarrierMatches(d) == d.carrier

authorizeDirect(d) ==
  IF ~chosenCarrierMatches(d) THEN "invalid"
  ELSE IF ~Authorize(d) THEN "retry"
  ELSE IF decisionOf(d) = "success" /\ ~directComplete(d) THEN "invalid"
  ELSE decisionOf(d)

\* tunnelAuthorizer; what the coordinator checks again is its own.
tunnelAuthorizer(d) ==
  IF ~Authorize(d) THEN "retry"
  ELSE IF decisionOf(d) = "success" /\ (d.direct \/ ~d.fields \/ ~d.contract) THEN "invalid"
  ELSE decisionOf(d)
-----------------------------------------------------------------------------
(* A connection.                                                            *)

loopOf(c) == CASE load[c].kind = "wss" -> "wss"
               [] load[c].kind = "webtransport" -> "webtransport"
               [] OTHER -> load[c].path

started(c) == IF load[c].path = "tunnel" THEN "tunnel" ELSE "slot"

\* A raw QUIC session is counted by the accept loop itself, a WebTransport
\* session by its handler after the upgrade, a WebSocket not at all.
Accepts(c) ==
  /\ conn[c].at = "new" /\ loops[loopOf(c)] = "running"
  /\ Only(c, [conn[c] EXCEPT !.at = IF load[c].kind = "webtransport"
                                    THEN "upgraded" ELSE started(c)])

Counted(c) == conn[c].at = "upgraded" /\ Only(c, [conn[c] EXCEPT !.at = started(c)])

\* The coordinator serves the leg until it is over or the context ends.
Tunnel(c) ==
  /\ conn[c].at = "tunnel"
  /\ Only(c, [conn[c] EXCEPT !.at = "over", !.answer = tunnelAuthorizer(load[c])])

slots == Cardinality({c \in Conns : conn[c].slot})

acquireDirectSlot == slots < MaxDirectSessions

AcquireSlot(c) ==
  /\ conn[c].at = "slot"
  /\ Only(c, IF acquireDirectSlot THEN [conn[c] EXCEPT !.at = "admit", !.slot = TRUE]
                                  ELSE [conn[c] EXCEPT !.at = "over"])

\* A lease the service granted is known to the runtime only when it allowed
\* the session; it is granted too when the runtime refuses the decision.
granted(d) == chosenCarrierMatches(d) /\ Authorize(d) /\ d.decision = "allow"

Admits(c) ==
  /\ conn[c].at = "admit"
  /\ \/ Only(c, [conn[c] EXCEPT !.at = "release"])
     \/ LET status == authorizeDirect(load[c]) IN
        Only(c, [conn[c] EXCEPT
                   !.at = IF status = "success" THEN "answer" ELSE "release",
                   !.answer = IF status = "success" THEN @ ELSE status,
                   !.lease = IF status = "success" THEN "held"
                             ELSE IF granted(load[c]) THEN "lost" ELSE @])

\* Respond fails, or Serve returns the decoded request; only then is the
\* release of the lease deferred.
Answers(c) ==
  /\ conn[c].at = "answer"
  /\ \/ Only(c, [conn[c] EXCEPT !.at = "release", !.lease = "lost"])
     \/ Only(c, [conn[c] EXCEPT !.at = "establish", !.answer = "success"])

\* Establish closes the carrier itself when it fails.
Establishes(c) ==
  /\ conn[c].at = "establish"
  /\ \/ Only(c, [conn[c] EXCEPT !.at = "accept", !.session = "open"])
     \/ Only(c, [conn[c] EXCEPT !.at = "release"])

AcceptStream(c) ==
  /\ conn[c].at = "accept" /\ conn[c].bridge = "off"
  /\ Only(c, [conn[c] EXCEPT !.bridge = "dial"])

SessionOver(c) ==
  /\ conn[c].at = "accept"
  /\ Only(c, [conn[c] EXCEPT !.at = "release", !.session = "closed"])

\* The deferred calls: the lease, then the slot.
Releases(c) ==
  /\ conn[c].at = "release"
  /\ Only(c, [conn[c] EXCEPT !.at = "slotted",
                             !.lease = IF @ = "held" THEN "released" ELSE @])

ReleasesSlot(c) ==
  /\ conn[c].at = "slotted"
  /\ Only(c, [conn[c] EXCEPT !.at = "over", !.slot = FALSE])

\* bridgeDirectStream: both copies must end.
Bridges(c) ==
  /\ conn[c].bridge = "dial"
  /\ \/ Only(c, [conn[c] EXCEPT !.bridge = "over"])
     \/ Only(c, [conn[c] EXCEPT !.bridge = "copy", !.copies = {"up", "down"}])

\* The client ends its half or the session is closed; while the upstream does
\* not read, what was read before still waits to be written.
StreamEnds(c) ==
  /\ "up" \in conn[c].copies
  /\ Only(c, [conn[c] EXCEPT !.copies = @ \ {"up"}])

\* The upstream closes: nothing in the runtime makes it.
UpstreamEnds(c) ==
  /\ "down" \in conn[c].copies
  /\ Only(c, [conn[c] EXCEPT !.copies = @ \ {"down"}])

BridgeOver(c) ==
  /\ conn[c].bridge = "copy" /\ conn[c].copies = {}
  /\ Only(c, [conn[c] EXCEPT !.bridge = "over"])

ServeStep == Stops \/ CloseListeners \/ Waits
             \/ (\E i \in DOMAIN Setup : Listens(i)) \/ (\E l \in Loops : ListenerReturns(l))
Step(c) == \/ Counted(c) \/ Tunnel(c) \/ AcquireSlot(c) \/ Admits(c) \/ Answers(c)
           \/ Establishes(c) \/ Releases(c) \/ ReleasesSlot(c) \/ Bridges(c)
           \/ BridgeOver(c)
Ended(c) == canceled /\ SessionOver(c)

Next == \/ ServeStep \/ Signal \/ (\E l \in Loops : ListenerFails(l))
        \/ \E c \in Conns : \/ Accepts(c) \/ Step(c) \/ AcceptStream(c)
                            \/ SessionOver(c) \/ StreamEnds(c) \/ UpstreamEnds(c)

\* Every goroutine runs and an ended context is noticed. Nothing is assumed of
\* the client and of the upstream, whose connection has no deadline.
Fairness == /\ WF_runtimeVars(ServeStep)
            /\ \A c \in UNION {DOMAIN w : w \in Workloads} :
                 /\ WF_runtimeVars(c \in Conns /\ Step(c))
                 /\ WF_runtimeVars(c \in Conns /\ Ended(c))
Spec == Init /\ [][Next]_runtimeVars /\ Fairness
-----------------------------------------------------------------------------
TypeOK ==
  /\ serve.at \in {"setup", "serving", "closing", "listeners", "sessions", "over"}
  /\ loops \in [Loops -> {"off", "running", "over"}]
  /\ \A c \in Conns : conn[c] \in
       [at : {"new", "upgraded", "tunnel", "slot", "admit", "answer", "establish",
              "accept", "release", "slotted", "over"},
        slot : BOOLEAN, lease : {"none", "held", "released", "lost"},
        session : {"none", "open", "closed"},
        answer : {"none", "success", "reject", "retry", "invalid"},
        bridge : {"off", "dial", "copy", "over"}, copies : SUBSET {"up", "down"}]

\* When Serve has returned it has left nothing behind: no socket is open,
\* whichever listener failed, and no raw QUIC session and no bridge of one is
\* still running, even one accepted while the listeners were being closed.
NothingLeftBehind ==
  serve.at = "over" =>
    /\ sockets = <<>> /\ listenersOver
    /\ \A c \in Conns : load[c].kind = "raw" => ~running(c)

\* A slot is held by exactly the direct connections between their admission
\* and their end, so the slots come back whichever step fails.
SlotsReturned ==
  /\ slots <= MaxDirectSessions
  /\ \A c \in Conns : conn[c].slot <=> conn[c].at \in {"admit", "answer", "establish",
                                                         "accept", "release", "slotted"}

\* The lease of a direct session is held for as long as the session is open. A
\* stream is bridged to an upstream only if it was accepted under that lease,
\* for a client that was told it was admitted, on a complete decision of a
\* service that allowed it. The bridge may outlive the session and its lease.
ServedIsAuthorized ==
  \A c \in Conns :
    /\ conn[c].session = "open" => conn[c].lease = "held"
    /\ conn[c].bridge # "off" =>
         /\ conn[c].lease = IF conn[c].at \in {"accept", "release"} THEN "held" ELSE "released"
         /\ conn[c].answer = "success" /\ load[c].decision = "allow"
         /\ load[c].direct /\ load[c].fields /\ load[c].contract

ServeOwed == serve.done /\ serve.at # "over" /\ \A c \in Conns : conn[c].copies = {}

\* Once Serve is stopped it returns, when no upstream keeps a connection of a
\* bridge open: nothing in the runtime closes one before both copies are over.
ServeEnds == ServeOwed ~> ~ServeOwed
=============================================================================
