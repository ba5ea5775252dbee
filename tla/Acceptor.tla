------------------------------ MODULE Acceptor ------------------------------
(***************************************************************************)
(* The accepting application (acceptor.go, server.go and the WebSocket     *)
(* admission adapter): handleDirect takes a slot, admits a request over    *)
(* the upgraded connection, establishes a session, runs the application's  *)
(* callback beside its stream handlers, and releases the control plane's   *)
(* lease.                                                                  *)
(***************************************************************************)
EXTENDS Integers, FiniteSets

CONSTANTS
  Requests,              \* upgraded connections
  MaxDirectSessions,     \* capacity of directSlots
  MaxConcurrentStreams,  \* of SessionHandlers
  StreamBudget,          \* streams a peer opens in one session
  Kinds                  \* stream kinds the application registers handlers for

VARIABLES
  req,       \* per connection: where handleDirect is, and what it holds
  serve,     \* per connection: SessionHandlers.Serve
  acceptor   \* the slots, the registry and whether it is frozen

acceptorVars == <<req, serve, acceptor>>

NoServe == [at |-> "off", active |-> 0, streams |-> 0]

Init ==
  /\ req = [r \in Requests |-> [at |-> "new", done |-> FALSE, guard |-> "off", open |-> TRUE, ok |-> TRUE,
                                answer |-> "none", lease |-> "none", session |-> "none", callback |-> "off"]]
  /\ serve = [r \in Requests |-> NoServe]
  /\ acceptor = [slots |-> 0, handlers |-> {}, frozen |-> FALSE]

Set(r, new) == req' = [req EXCEPT ![r] = new]

\* HandleStream and HandleRPC: one registration per kind, none once frozen.
HandleStream(kind) ==
  /\ ~acceptor.frozen /\ kind \notin acceptor.handlers
  /\ acceptor' = [acceptor EXCEPT !.handlers = @ \cup {kind}] /\ UNCHANGED <<req, serve>>

-----------------------------------------------------------------------------
(* handleDirect up to the admission.                                        *)

acquireDirect == acceptor.slots < MaxDirectSessions

\* acquireDirect does not wait; the admission guard closes the connection when
\* the context of the request ends.
Upgrade(r) ==
  /\ req[r].at = "new"
  /\ IF acquireDirect
     THEN /\ Set(r, [req[r] EXCEPT !.at = "read", !.guard = "armed"])
          /\ acceptor' = [acceptor EXCEPT !.slots = @ + 1]
     ELSE Set(r, [req[r] EXCEPT !.at = "returned", !.open = FALSE]) /\ UNCHANGED acceptor
  /\ UNCHANGED serve

Unwinds(q, ok) == [q EXCEPT !.at = "unwind", !.ok = ok]

\* One message, well formed and for this path, or the admission fails.
ReadRequest(r, valid) ==
  /\ req[r].at = "read"
  /\ valid => req[r].open /\ ~req[r].done
  /\ Set(r, IF valid THEN [req[r] EXCEPT !.at = "authorize"] ELSE Unwinds(req[r], FALSE))
  /\ UNCHANGED <<serve, acceptor>>

\* External: Authorize reserves the record before it answers "allow".
Authorize(r, answer) ==
  /\ req[r].at = "authorize"
  /\ Set(r, CASE answer = "allow" -> [req[r] EXCEPT !.at = "resolve", !.answer = answer, !.lease = "held"]
              [] answer \in {"retry", "reject"} -> [req[r] EXCEPT !.at = "respond", !.answer = answer]
              [] answer = "error" -> Unwinds(req[r], FALSE))
  /\ UNCHANGED <<serve, acceptor>>

freeze == [acceptor EXCEPT !.frozen = TRUE]

\* acceptedHandlerSnapshot freezes the registry the session will use.
ResolveHandlers(r, ok) ==
  /\ req[r].at = "resolve"
  /\ Set(r, IF ok THEN [req[r] EXCEPT !.at = "respond"] ELSE Unwinds(req[r], FALSE))
  /\ acceptor' = IF ok THEN freeze ELSE acceptor
  /\ UNCHANGED serve

Respond(r) ==
  /\ req[r].at = "respond"
  /\ Set(r, Unwinds(req[r], req[r].open /\ ~req[r].done /\ req[r].answer = "allow"))
  /\ UNCHANGED <<serve, acceptor>>

\* The request's context ends; its callback closes the connection.
RequestCanceled(r) ==
  /\ req[r].at \notin {"new", "returned"} /\ ~req[r].done
  /\ Set(r, [req[r] EXCEPT !.done = TRUE, !.guard = IF @ = "armed" THEN "fired" ELSE @])
  /\ UNCHANGED <<serve, acceptor>>

GuardCloses(r) ==
  /\ req[r].guard = "fired"
  /\ Set(r, [req[r] EXCEPT !.guard = "done", !.open = FALSE]) /\ UNCHANGED <<serve, acceptor>>

\* Mutant: the guard is stopped but not waited for.
StopWithoutWait(r) == IF req[r].guard = "armed" THEN "stopped" ELSE req[r].guard

stopAndWait(r) == IF req[r].guard = "armed" THEN "stopped" ELSE IF req[r].guard = "done" THEN "done" ELSE "wait"

releaseDirect == [acceptor EXCEPT !.slots = @ - 1]

\* handleDirect returns: the slot goes back.
Returned(r) ==
  /\ Set(r, [req[r] EXCEPT !.at = "returned", !.open = FALSE, !.session = IF @ = "live" THEN "closed" ELSE @])
  /\ acceptor' = releaseDirect /\ UNCHANGED serve

\* The deferred calls of the admission: the guard first, then the connection.
AdmissionReturns(r) ==
  /\ req[r].at = "unwind" /\ stopAndWait(r) # "wait"
  /\ IF req[r].ok /\ stopAndWait(r) # "done"
     THEN Set(r, [req[r] EXCEPT !.at = "admitted", !.guard = stopAndWait(r)]) /\ UNCHANGED <<serve, acceptor>>
     ELSE Returned(r)

-----------------------------------------------------------------------------
(* handleDirect from the admission on.                                      *)

\* Decoding the authorization, taking over the connection and the contract may
\* each fail; establishAcceptedSession runs under the request's context.
Establish(r, outcome) ==
  /\ req[r].at = "admitted"
  /\ CASE outcome = "ok" ->
            /\ ~req[r].done
            /\ Set(r, [req[r] EXCEPT !.at = "run", !.session = "live", !.callback = "running"])
            /\ serve' = [serve EXCEPT ![r] = [at |-> "accept", active |-> 0, streams |-> StreamBudget]]
            /\ UNCHANGED acceptor
       [] outcome = "failed" -> Set(r, [req[r] EXCEPT !.at = "release"]) /\ UNCHANGED <<serve, acceptor>>
       [] outcome = "invalid" -> Returned(r)

\* External: OnSession returns.
OnSessionReturns(r) ==
  /\ req[r].callback = "running" /\ Set(r, [req[r] EXCEPT !.callback = "done"]) /\ UNCHANGED <<serve, acceptor>>

SessionLost(r) ==
  /\ req[r].session = "live" /\ Set(r, [req[r] EXCEPT !.session = "closed"]) /\ UNCHANGED <<serve, acceptor>>

\* runAcceptedSession: the first of the two to finish closes the session.
FirstDone(r) ==
  /\ req[r].at = "run" /\ (req[r].callback = "done" \/ serve[r].at = "over")
  /\ Set(r, [req[r] EXCEPT !.at = "second", !.session = "closed"]) /\ UNCHANGED <<serve, acceptor>>

bothDone(r) == req[r].callback = "done" /\ serve[r].at = "over"

SecondDone(r) ==
  /\ req[r].at = "second" /\ bothDone(r)
  /\ Set(r, [req[r] EXCEPT !.at = "release"]) /\ UNCHANGED <<serve, acceptor>>

\* releaseLease, then the deferred releaseDirect.
ReleaseLease(r) ==
  /\ req[r].at = "release"
  /\ Set(r, [req[r] EXCEPT !.at = "returned", !.open = FALSE, !.lease = "released"])
  /\ acceptor' = releaseDirect /\ UNCHANGED serve

-----------------------------------------------------------------------------
(* SessionHandlers.Serve.                                                   *)

\* A stream of a kind without a handler, or beyond the semaphore, is rejected.
Dispatch(r, kind) ==
  /\ serve[r].at = "accept" /\ req[r].session = "live" /\ serve[r].streams > 0
  /\ serve' = [serve EXCEPT ![r].streams = @ - 1,
                            ![r].active = IF kind \in acceptor.handlers /\ @ < MaxConcurrentStreams THEN @ + 1 ELSE @]
  /\ UNCHANGED <<req, acceptor>>

HandlerReturns(r) ==
  /\ serve[r].active > 0 /\ serve' = [serve EXCEPT ![r].active = @ - 1] /\ UNCHANGED <<req, acceptor>>

acceptFails(r) == req[r].session = "closed"

AcceptFails(r) ==
  /\ serve[r].at = "accept" /\ acceptFails(r)
  /\ serve' = [serve EXCEPT ![r].at = "wait"] /\ UNCHANGED <<req, acceptor>>

handlersOver(r) == serve[r].active = 0

\* The deferred active.Wait runs before the handlers' context is canceled.
ServeReturns(r) ==
  /\ serve[r].at = "wait" /\ handlersOver(r)
  /\ serve' = [serve EXCEPT ![r].at = "over"] /\ UNCHANGED <<req, acceptor>>

Outcomes == {"ok", "failed", "invalid"}

Handle(r) ==
  \/ Upgrade(r) \/ Respond(r) \/ AdmissionReturns(r) \/ FirstDone(r) \/ SecondDone(r) \/ ReleaseLease(r)
  \/ \E ok \in BOOLEAN : ReadRequest(r, ok) \/ ResolveHandlers(r, ok)
  \/ \E a \in {"allow", "retry", "reject", "error"} : Authorize(r, a)
  \/ \E o \in Outcomes : Establish(r, o)

Serve(r) == AcceptFails(r) \/ ServeReturns(r)

Next ==
  \/ \E kind \in Kinds : HandleStream(kind)
  \/ \E r \in Requests : \/ Handle(r) \/ Serve(r) \/ GuardCloses(r) \/ OnSessionReturns(r) \/ HandlerReturns(r)
                         \/ RequestCanceled(r) \/ SessionLost(r) \/ \E kind \in Kinds : Dispatch(r, kind)

\* Goroutines run; a callback and a handler return once the session is closed.
Fairness ==
  \A r \in Requests :
    /\ WF_acceptorVars(Handle(r)) /\ WF_acceptorVars(Serve(r)) /\ WF_acceptorVars(GuardCloses(r))
    /\ WF_acceptorVars(req[r].session = "closed" /\ OnSessionReturns(r))
    /\ WF_acceptorVars(req[r].session = "closed" /\ HandlerReturns(r))

Spec == Init /\ [][Next]_acceptorVars /\ Fairness

-----------------------------------------------------------------------------
TypeOK ==
  /\ acceptor.slots \in 0..MaxDirectSessions /\ acceptor.handlers \subseteq Kinds
  /\ \A r \in Requests : /\ serve[r].active \in 0..MaxConcurrentStreams /\ serve[r].streams \in 0..StreamBudget
                         /\ req[r].lease \in {"none", "held", "released"}
                         /\ req[r].session \in {"none", "live", "closed"}

\* A slot is held by exactly the requests between their upgrade and their
\* return, so that no error path shrinks the acceptor.
SlotsExact == acceptor.slots = Cardinality({r \in Requests : req[r].at \notin {"new", "returned"}})

\* Once the admission has returned successfully, its guard cannot close the
\* connection the session now owns, whenever the context ends.
AdmittedStaysOpen == \A r \in Requests : req[r].at \in {"admitted", "run"} => req[r].open /\ req[r].guard = "stopped"

\* The lease outlives everything done under it: it is released only when the
\* session is closed, the callback has returned and no handler runs.
LeaseOutlivesWork ==
  \A r \in Requests : req[r].lease = "released" => /\ req[r].session # "live" /\ req[r].callback # "running"
                                                   /\ serve[r].active = 0

\* The handlers of a session are those its admission saw: no registration
\* succeeds once a session was admitted with the registry.
HandlersFrozen ==
  [][(\E r \in Requests : req[r].session # "none") => acceptor'.handlers = acceptor.handlers]_acceptorVars

SessionOwed == \E r \in Requests : req[r].session = "closed" /\ req[r].at # "returned"

\* A session whose callback returned, or that was lost, ends and frees its slot.
SessionEnds == SessionOwed ~> ~SessionOwed

\* acceptor.go: "Release is called exactly once for every accepted lease".
LeaseReleased == \A r \in Requests : req[r].at = "returned" => req[r].lease # "held"
=============================================================================
