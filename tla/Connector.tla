------------------------------ MODULE Connector ------------------------------
(***************************************************************************)
(* One-shot Connect calls: internal/connectv2/connector.go over the        *)
(* candidate attempts of internal/candidatev2/factory.go and the lease of  *)
(* artifact.go.  Every call races the candidates of one artifact behind a  *)
(* barrier, closes the losers, records the artifact as SPENT and only then *)
(* writes the admission credential.  Two calls may hold the same lease.    *)
(*                                                                         *)
(* A process crash loses everything but the durable SPENT record and what  *)
(* was written on the wire; after it the application loads an artifact     *)
(* that is not SPENT into a new lease.                                     *)
(***************************************************************************)
EXTENDS Integers, Sequences, FiniteSets

CONSTANTS
  Calls,       \* Connect calls
  Candidates,  \* of the artifact
  Scenarios,   \* bounds: the candidates that compatibleCandidates leaves each call, how many
               \* crashes, and whether the artifact may expire
  None

ASSUME ConnectorAssumption ==
  /\ IsFiniteSet(Calls) /\ None \notin Calls
  /\ IsFiniteSet(Candidates) /\ None \notin Candidates
  /\ \A x \in Scenarios : x.usable \in [Calls -> SUBSET Candidates]

VARIABLES
  scenario,
  conn,     \* per call: the locals of Connect
  cand,     \* per call and candidate: the candidateAttempt and its goroutines
  lease,    \* artifactLeaseState of the process
  durable   \* SPENT record, credentials written, expiry, crashes

connectorVars == <<scenario, conn, cand, lease, durable>>

NewCall == [pc |-> "out", ctx |-> "live", race |-> "live", cleanup |-> "live", winner |-> None,
            left |-> 0, results |-> <<>>, closeErr |-> FALSE, outcome |-> "none"]

\* ready, abort: the goroutines that run Ready and Abort.  wire: the carrier,
\* "stuck" when its Close failed.  dropped, a history: nobody was told so.
NewAttempt == [ready |-> "none", abort |-> "none", used |-> FALSE, done |-> FALSE,
               aborted |-> FALSE, wire |-> "none", prepared |-> FALSE, dropped |-> FALSE]

NewProcess ==
  /\ conn' = [k \in Calls |-> NewCall]
  /\ cand' = [k \in Calls |-> [c \in Candidates |-> NewAttempt]]
  /\ lease' = [spending |-> None, consumed |-> FALSE]

ConnectorInit ==
  /\ scenario \in Scenarios
  /\ conn = [k \in Calls |-> NewCall]
  /\ cand = [k \in Calls |-> [c \in Candidates |-> NewAttempt]]
  /\ lease = [spending |-> None, consumed |-> FALSE]
  /\ durable = [spent |-> FALSE, written |-> 0, expired |-> FALSE, crashes |-> 0]

Entries(k) == {c \in scenario.usable[k] : cand[k][c].ready # "none"}
Losers(k) == Entries(k) \ {conn[k].winner}

-----------------------------------------------------------------------------
(* candidateAttempt: Ready and Abort.                                       *)

SetAttempt(k, c, a) == cand' = [cand EXCEPT ![k][c] = a]

\* The goroutine waits for the barrier and the race context, in either order.
ReadyStarts(k, c) ==
  LET a == cand[k][c] IN
  /\ a.ready = "barrier"
  /\ \/ SetAttempt(k, c, [a EXCEPT !.ready = "begun", !.used = TRUE])
     \/ conn[k].race # "live" /\ SetAttempt(k, c, [a EXCEPT !.ready = "report"])
  /\ UNCHANGED <<scenario, conn, lease, durable>>

\* The first critical section of Ready.
ReadyChecks(k, c) ==
  LET a == cand[k][c] IN
  /\ a.ready = "begun"
  /\ SetAttempt(k, c, IF a.aborted THEN [a EXCEPT !.ready = "report", !.done = TRUE]
                                   ELSE [a EXCEPT !.ready = "dialing"])
  /\ UNCHANGED <<scenario, conn, lease, durable>>

\* The dial fails, or a carrier is there; cancelation may come too late for it.
DialReturns(k, c) ==
  LET a == cand[k][c] IN
  /\ a.ready = "dialing"
  /\ \/ SetAttempt(k, c, [a EXCEPT !.ready = "report", !.done = TRUE])
     \/ SetAttempt(k, c, [a EXCEPT !.ready = "dialed", !.wire = "open"])
  /\ UNCHANGED <<scenario, conn, lease, durable>>

\* A carrier that arrives after Abort is closed by Ready itself.  The error of that
\* Close is part of Ready's, which closeLosers does not look at.
lateCarrier(a) ==
  IF a.aborted THEN {[a EXCEPT !.wire = "closed"], [a EXCEPT !.wire = "stuck", !.dropped = TRUE]}
  ELSE {[a EXCEPT !.prepared = TRUE]}

\* The second critical section of Ready.
ReadyReturns(k, c) ==
  /\ cand[k][c].ready = "dialed"
  /\ \E a \in lateCarrier(cand[k][c]) : SetAttempt(k, c, [a EXCEPT !.ready = "report", !.done = TRUE])
  /\ UNCHANGED <<scenario, conn, lease, durable>>

\* The result reaches the channel of Connect.
ReadyReports(k, c) ==
  /\ cand[k][c].ready = "report" /\ SetAttempt(k, c, [cand[k][c] EXCEPT !.ready = "over"])
  /\ conn' = [conn EXCEPT ![k].results = Append(@, c)]
  /\ UNCHANGED <<scenario, lease, durable>>

afterAborted(a) == IF a.used THEN "await" ELSE "ok"

AbortMarks(k, c) ==
  LET a == cand[k][c] IN
  /\ a.abort = "start"
  /\ SetAttempt(k, c, [a EXCEPT !.aborted = TRUE, !.abort = afterAborted(a)])
  /\ UNCHANGED <<scenario, conn, lease, durable>>

\* readyDone, or the cleanup context: select takes either when both are ready.
AbortAwaits(k, c) ==
  LET a == cand[k][c] IN
  /\ a.abort = "await"
  /\ \/ a.done /\ SetAttempt(k, c, [a EXCEPT !.abort = IF a.prepared THEN "close" ELSE "ok"])
     \/ conn[k].cleanup # "live" /\ SetAttempt(k, c, [a EXCEPT !.abort = "failed"])
  /\ UNCHANGED <<scenario, conn, lease, durable>>

\* ReadyCarrier.Close closes once and repeats its answer.
AbortCloses(k, c) ==
  LET a == cand[k][c] IN
  /\ a.abort = "close"
  /\ \/ a.wire # "stuck" /\ SetAttempt(k, c, [a EXCEPT !.wire = "closed", !.abort = "ok"])
     \/ a.wire # "closed" /\ SetAttempt(k, c, [a EXCEPT !.wire = "stuck", !.abort = "failed"])
  /\ UNCHANGED <<scenario, conn, lease, durable>>

-----------------------------------------------------------------------------
(* Connect.                                                                 *)

\* The deferred cancels end the race context and the cleanup context.
Return(k, outcome) ==
  [NewCall EXCEPT !.pc = "returned", !.outcome = outcome, !.ctx = conn[k].ctx,
                  !.race = "canceled", !.cleanup = "canceled", !.closeErr = conn[k].closeErr]

SetCall(k, r) == conn' = [conn EXCEPT ![k] = r]

\* Validation, and the attempts that NewAttempt makes for the candidates.
Begin(k) ==
  /\ conn[k].pc = "out" /\ (durable.spent => lease.consumed \/ lease.spending # None)
  /\ \/ /\ durable.expired /\ SetCall(k, Return(k, "failed")) /\ UNCHANGED cand
     \/ /\ ~durable.expired
        /\ \E entries \in SUBSET scenario.usable[k] :
             IF entries = {} THEN SetCall(k, Return(k, "failed")) /\ UNCHANGED cand
             ELSE /\ SetCall(k, [conn[k] EXCEPT !.pc = "race", !.left = Cardinality(entries)])
                  /\ cand' = [cand EXCEPT ![k] =
                       [c \in Candidates |-> IF c \in entries THEN [NewAttempt EXCEPT !.ready = "barrier"]
                                                              ELSE NewAttempt]]
  /\ UNCHANGED <<scenario, lease, durable>>

\* cancelRace, and the Abort goroutines of closeLosers.
closeLosers(k, r) ==
  /\ SetCall(k, [r EXCEPT !.pc = "aborting", !.race = "canceled"])
  /\ cand' = [cand EXCEPT ![k] =
       [c \in Candidates |-> IF c \in Entries(k) \ {r.winner} THEN [@[c] EXCEPT !.abort = "start"] ELSE @[c]]]

\* A ready result: the first carrier wins.
RaceReceives(k) ==
  /\ conn[k].pc = "race" /\ conn[k].results # <<>>
  /\ LET c == Head(conn[k].results)
         r == [conn[k] EXCEPT !.results = Tail(@), !.left = @ - 1] IN
     IF cand[k][c].prepared THEN closeLosers(k, [r EXCEPT !.winner = c])
     ELSE IF r.left = 0 THEN closeLosers(k, r)
     ELSE SetCall(k, r) /\ UNCHANGED cand
  /\ UNCHANGED <<scenario, lease, durable>>

RaceCanceled(k) ==
  /\ conn[k].pc = "race" /\ conn[k].ctx # "live" /\ closeLosers(k, conn[k])
  /\ UNCHANGED <<scenario, lease, durable>>

\* abortDone and readyDone of closeLosers.
losersClosed(k) ==
  /\ \A c \in Losers(k) : cand[k][c].abort \in {"ok", "failed"}
  /\ \A c \in Entries(k) : cand[k][c].ready = "over"

\* closePrepared of a candidate: Abort with a cleanup context of its own, which may
\* already be done.
closePrepared(k, c) ==
  /\ \/ cand[k][c].wire # "stuck" /\ cand' = [cand EXCEPT ![k][c].wire = "closed", ![k][c].aborted = TRUE]
     \/ /\ cand' = [cand EXCEPT ![k][c].wire = IF @ = "open" THEN "stuck" ELSE @, ![k][c].aborted = TRUE]

\* The rest of Connect when it fails: the winner is closed as well.
terminate(k) ==
  LET fails(late) == SetCall(k, [Return(k, "failed") EXCEPT !.closeErr = @ \/ late]) IN
  IF conn[k].winner = None THEN fails(FALSE) /\ UNCHANGED cand
  ELSE closePrepared(k, conn[k].winner) /\ fails(cand'[k][conn[k].winner].wire # "closed")

\* closeLosers returns: the cleanup context is canceled, the results are drained.
LosersOver(k, pc, late) ==
  SetCall(k, [conn[k] EXCEPT !.pc = pc, !.closeErr = late, !.results = <<>>, !.left = 0, !.cleanup = "canceled"])

loserFailed(k) == \E c \in Losers(k) : cand[k][c].abort = "failed"

\* Mutant: the winner is used although a loser could not be closed.
WinnerAnyway(k) == IF conn[k].winner = None THEN "failed" ELSE "winner"

afterLosers(k) == IF conn[k].winner = None \/ loserFailed(k) THEN "failed" ELSE "winner"

\* The results that are still in the channel are closed again, with the same answer.
LosersDone(k) ==
  /\ conn[k].pc = "aborting" /\ losersClosed(k)
  /\ LosersOver(k, afterLosers(k), loserFailed(k))
  /\ UNCHANGED <<scenario, cand, lease, durable>>

\* The cleanup context ends first: ErrLoserCloseTimeout.
LosersTimeout(k) ==
  /\ conn[k].pc = "aborting" /\ conn[k].cleanup # "live"
  /\ LosersOver(k, "failed", TRUE)
  /\ UNCHANGED <<scenario, cand, lease, durable>>

Fails(k) ==
  /\ conn[k].pc = "failed" /\ terminate(k)
  /\ UNCHANGED <<scenario, lease, durable>>

stillValid(k) == ~durable.expired /\ conn[k].ctx = "live"

\* StateWinner: the context and the expiry are looked at before anything is spent.
WinnerChecks(k) ==
  /\ conn[k].pc = "winner"
  /\ IF stillValid(k) THEN SetCall(k, [conn[k] EXCEPT !.pc = "spend"]) /\ UNCHANGED cand ELSE terminate(k)
  /\ UNCHANGED <<scenario, lease, durable>>

maySpend == lease.spending = None /\ ~lease.consumed

\* ArtifactLease.commitSpend, up to the application's callback.
SpendBegins(k) ==
  /\ conn[k].pc = "spend"
  /\ IF maySpend THEN /\ lease' = [lease EXCEPT !.spending = k]
                      /\ SetCall(k, [conn[k] EXCEPT !.pc = "spending"]) /\ UNCHANGED cand
                 ELSE terminate(k) /\ UNCHANGED lease
  /\ UNCHANGED <<scenario, durable>>

\* The callback records SPENT; it may fail before or after the record is durable.
SpendRecords(k) ==
  /\ conn[k].pc = "spending" /\ durable' = [durable EXCEPT !.spent = TRUE]
  /\ SetCall(k, [conn[k] EXCEPT !.pc = "recorded"])
  /\ UNCHANGED <<scenario, cand, lease>>

SpendFails(k) ==
  /\ conn[k].pc \in {"spending", "recorded"} /\ terminate(k)
  /\ lease' = [lease EXCEPT !.spending = None]
  /\ UNCHANGED <<scenario, durable>>

\* The expiry and the context once more, after the callback.
SpendSucceeds(k) ==
  /\ conn[k].pc = "recorded"
  /\ lease' = [lease EXCEPT !.spending = None, !.consumed = TRUE]
  /\ IF stillValid(k) THEN SetCall(k, [conn[k] EXCEPT !.pc = "admit"]) /\ UNCHANGED cand
                      ELSE terminate(k)
  /\ UNCHANGED <<scenario, durable>>

\* exchange.Commit writes FSB2.
AdmissionWrites(k) ==
  /\ conn[k].pc = "admit" /\ SetCall(k, [conn[k] EXCEPT !.pc = "admitting"])
  /\ durable' = [durable EXCEPT !.written = @ + 1]
  /\ UNCHANGED <<scenario, cand, lease>>

\* The admission response, ReadyCarrier.Establish and the session handshake.
AdmissionReturns(k) ==
  /\ conn[k].pc = "admitting"
  /\ SetCall(k, [conn[k] EXCEPT !.pc = "handshake"])
  /\ UNCHANGED <<scenario, cand, lease, durable>>

AdmissionFails(k) ==
  /\ conn[k].pc = "admitting" /\ terminate(k)
  /\ UNCHANGED <<scenario, lease, durable>>

Establishes(k) ==
  /\ conn[k].pc = "handshake" /\ SetCall(k, Return(k, "session"))
  /\ UNCHANGED <<scenario, cand, lease, durable>>

\* carrierSession.Abort, or Close if it is not the carrier that was asked for: the
\* error of either is dropped.
EstablishFails(k) ==
  LET w == conn[k].winner IN
  /\ conn[k].pc = "handshake" /\ SetCall(k, Return(k, "failed"))
  /\ \E failed \in BOOLEAN :
       SetAttempt(k, w, [cand[k][w] EXCEPT !.wire = IF failed THEN "stuck" ELSE "closed", !.dropped = failed])
  /\ UNCHANGED <<scenario, lease, durable>>

-----------------------------------------------------------------------------
(* Time, the caller, and a crash.                                           *)

\* The caller cancels, or ConnectTimeout or the establish timeout of the contract is over.
ContextDone(k) ==
  /\ conn[k].ctx = "live" /\ conn[k].pc # "out" /\ conn[k].pc # "returned"
  /\ SetCall(k, [conn[k] EXCEPT !.ctx = "done", !.race = "canceled"])
  /\ UNCHANGED <<scenario, cand, lease, durable>>

\* cleanupContext: at most loserCloseTimeout.
CleanupDeadline(k) ==
  /\ conn[k].pc = "aborting" /\ conn[k].cleanup = "live"
  /\ SetCall(k, [conn[k] EXCEPT !.cleanup = "deadline"])
  /\ UNCHANGED <<scenario, cand, lease, durable>>

\* The establish timeout never outlasts the artifact.
Expires ==
  /\ scenario.expiry /\ ~durable.expired /\ durable' = [durable EXCEPT !.expired = TRUE]
  /\ conn' = [k \in Calls |-> IF conn[k].pc \in {"out", "returned"} \/ conn[k].ctx # "live" THEN conn[k]
                              ELSE [conn[k] EXCEPT !.ctx = "done", !.race = "canceled"]]
  /\ UNCHANGED <<scenario, cand, lease>>

Crash ==
  /\ durable.crashes < scenario.crashes /\ durable' = [durable EXCEPT !.crashes = @ + 1]
  /\ NewProcess /\ UNCHANGED scenario

Attempt(k, c) ==
  \/ ReadyStarts(k, c) \/ ReadyChecks(k, c) \/ ReadyReturns(k, c) \/ ReadyReports(k, c)
  \/ AbortMarks(k, c) \/ AbortAwaits(k, c) \/ AbortCloses(k, c)

Call(k) ==
  \/ RaceReceives(k) \/ RaceCanceled(k) \/ LosersDone(k) \/ LosersTimeout(k) \/ Fails(k)
  \/ WinnerChecks(k) \/ SpendBegins(k) \/ SpendRecords(k) \/ SpendSucceeds(k) \/ SpendFails(k)
  \/ AdmissionWrites(k) \/ AdmissionReturns(k) \/ AdmissionFails(k) \/ Establishes(k)
  \/ EstablishFails(k)

ConnectorNext ==
  \/ \E k \in Calls : Begin(k) \/ Call(k) \/ ContextDone(k) \/ CleanupDeadline(k)
  \/ \E k \in Calls, c \in Candidates : Attempt(k, c) \/ DialReturns(k, c)
  \/ Expires \/ Crash

\* Goroutines are scheduled and timers fire; a dial may hang for ever.
ConnectorFairness ==
  \A k \in Calls :
    /\ WF_connectorVars(Call(k)) /\ WF_connectorVars(ContextDone(k))
    /\ WF_connectorVars(CleanupDeadline(k))
    /\ \A c \in Candidates : WF_connectorVars(Attempt(k, c))

ConnectorSpec == ConnectorInit /\ [][ConnectorNext]_connectorVars /\ ConnectorFairness

-----------------------------------------------------------------------------
ConnectorTypeOK ==
  /\ \A k \in Calls : conn[k].ctx \in {"live", "done"} /\ conn[k].left \in 0..Cardinality(Candidates)
  /\ \A k \in Calls, c \in Candidates : cand[k][c].wire \in {"none", "open", "closed", "stuck"}
  /\ durable.written \in Nat

\* A carrier was closed, or its Close failed and nobody was told: of a carrier that
\* came after Abort (Ready), or of one whose session was not established (Connect).
Closed(a) == a.wire \in {"none", "closed"} \/ (a.wire = "stuck" /\ a.dropped)

\* When a call starts to spend the artifact none of its losers dials any more, and
\* each one's carrier was closed.  Only the Close of one that came after Abort may
\* have failed; the failure of any other keeps the artifact from being spent.
LosersClosedBeforeSpend ==
  \A k \in Calls : conn[k].pc \in {"spend", "spending", "recorded", "admit", "admitting"} =>
    \A c \in Losers(k) : cand[k][c].ready \notin {"dialing", "dialed"} /\ Closed(cand[k][c])

\* The credential is written after the SPENT record is durable, and never twice: not
\* by two calls that share a lease, not after a retry, not after a crash.
CredentialOnce == (durable.written > 0 => durable.spent) /\ durable.written <= 1

\* A Connect that fails has closed every carrier and runs no dial, unless its error
\* holds that of a Close or an Abort.  The two errors that are dropped are the
\* exception: such a carrier may be left open with nothing reported.
NothingLeftOpen ==
  \A k \in Calls : conn[k].pc = "returned" /\ conn[k].outcome # "session" /\ ~conn[k].closeErr =>
    \A c \in Candidates : Closed(cand[k][c]) /\ cand[k][c].ready \in {"none", "over"}

\* An artifact is spent once: the credential is written after the SPENT record is durable and never twice, not by two
\* calls that share a lease, not after a retry, not after a crash. When a call starts to spend it no loser dials any
\* more and every carrier of a loser was closed; a failed Close keeps it from being spent, but for that of a carrier
\* that came after Abort (candidateAttempt.Ready). A Connect that fails has closed every carrier, unless its error
\* says otherwise or the code drops the error: of that Close, and of the Abort after a failed Establish.
SpentOnce == ConnectorTypeOK /\ CredentialOnce /\ LosersClosedBeforeSpend /\ NothingLeftOpen

\* Connect returns even when every dial hangs.
ConnectOwed == \E k \in Calls : conn[k].pc \notin {"returned", "out"}
ConnectEnds == ConnectOwed ~> ~ConnectOwed
=============================================================================
