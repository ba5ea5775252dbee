------------------------ MODULE ConnectionController ------------------------
(***************************************************************************)
(* The long-lived connection owner: connection_controller.go.  One         *)
(* scheduler goroutine (run) acquires a lease, connects, watches the       *)
(* session and waits before it tries again; any goroutine may call Start,  *)
(* RetryNow, Close and WaitForSnapshotChange.  Each critical section of mu *)
(* and each look at the context is a step.                                 *)
(*                                                                         *)
(* Time is counted in ticks that are left: delay to the timer of the wait, *)
(* hold to the not-before deadline of a retry_after disposition.           *)
(***************************************************************************)
EXTENDS Integers, Sequences

CONSTANTS
  Closers, Waiters,         \* goroutines that call Close and WaitForSnapshotChange
  MaximumAttempts,          \* 0: no limit
  InitialDelay, MaxDelay, BackoffFactor,
  RetryAfters,              \* deadlines a source may name, in ticks from now
  MaxAcquires               \* bound: Acquire calls

ASSUME ControllerAssumption ==
  /\ MaximumAttempts \in Nat /\ MaxAcquires \in Nat /\ RetryAfters \subseteq Nat
  /\ InitialDelay \in Nat /\ MaxDelay \in Nat /\ BackoffFactor \in Nat \ {0}

VARIABLES
  ctl,       \* the fields of ConnectionController, its channels and its context
  run,       \* the scheduler goroutine: pc, its locals, and the clock of its wait
  sessions,  \* sessions that connect returned: live, ended or closed
  calls      \* where the Close and WaitForSnapshotChange calls are

controllerVars == <<ctl, run, sessions, calls>>

\* retry: the channel, 0 or the revision in which its token was sent.
\* changed: how many changed channels were closed.  tries: Acquire calls since
\* the last session.
ControllerInit ==
  /\ ctl = [state |-> "idle", attempt |-> 0, session |-> 0, revision |-> 0, changed |-> 0,
            retry |-> 0, notBefore |-> FALSE, canceled |-> FALSE, done |-> FALSE]
  /\ run = [pc |-> "off", failures |-> 0, attempts |-> 1, kind |-> "terminal", hold |-> 0,
            delay |-> 0, acquires |-> 0, tries |-> 0]
  /\ sessions = <<>>
  /\ calls = [c \in Closers \cup Waiters |-> [at |-> "out", after |-> 0, changed |-> 0]]

started == run.pc # "off"

-----------------------------------------------------------------------------
(* Snapshots.                                                               *)

\* Mutant: the channel of the old snapshot stays open.
setSnapshotKeepsChannel(c, state, attempt, session) ==
  [c EXCEPT !.state = state, !.attempt = attempt, !.session = session, !.revision = @ + 1]

setSnapshotLocked(c, state, attempt, session) ==
  [c EXCEPT !.state = state, !.attempt = attempt, !.session = session, !.revision = @ + 1,
            !.changed = @ + 1]

\* WaitForSnapshotChange, up to the unlock; the caller passes the snapshot it saw last.
WaiterChecks(w) ==
  /\ calls[w].at = "out"
  /\ calls' = [calls EXCEPT ![w] =
       IF ctl.revision # @.after THEN [@ EXCEPT !.after = ctl.revision]
                                 ELSE [@ EXCEPT !.at = "blocked", !.changed = ctl.changed]]
  /\ UNCHANGED <<ctl, run, sessions>>

WaiterWakes(w) ==
  /\ calls[w].at = "blocked" /\ calls[w].changed # ctl.changed
  /\ calls' = [calls EXCEPT ![w].at = "out", ![w].changed = 0]
  /\ UNCHANGED <<ctl, run, sessions>>

-----------------------------------------------------------------------------
(* Start, RetryNow and Close.                                               *)

Start ==
  /\ ~started /\ ctl.state = "idle"
  /\ ctl' = setSnapshotLocked(ctl, "connecting", 1, 0)
  /\ run' = [run EXCEPT !.pc = "loop"]
  /\ UNCHANGED <<sessions, calls>>

\* The context of Start ends.
ParentCanceled ==
  /\ started /\ ~ctl.canceled /\ ctl' = [ctl EXCEPT !.canceled = TRUE]
  /\ UNCHANGED <<run, sessions, calls>>

\* The send on the retry channel does not block.  In any other state, and before
\* the deadline, RetryNow returns false.
RetryNow ==
  /\ ctl.state = "waiting" /\ (ctl.notBefore => run.hold = 0)
  /\ ctl' = [ctl EXCEPT !.retry = IF @ = 0 THEN ctl.revision ELSE @]
  /\ UNCHANGED <<run, sessions, calls>>

ToClosed(c) == IF c.state = "closed" THEN c ELSE setSnapshotLocked(c, "closed", c.attempt, 0)

\* Close, up to the first unlock.
CloseBegins(c) ==
  /\ calls[c].at = "out"
  /\ IF started THEN UNCHANGED ctl ELSE ctl' = [ToClosed(ctl) EXCEPT !.done = TRUE]
  /\ calls' = [calls EXCEPT ![c].at = IF started THEN "canceling" ELSE "returned"]
  /\ UNCHANGED <<run, sessions>>

CloseCancels(c) ==
  /\ calls[c].at = "canceling" /\ calls' = [calls EXCEPT ![c].at = "waiting"]
  /\ ctl' = [ctl EXCEPT !.canceled = TRUE]
  /\ UNCHANGED <<run, sessions>>

doneClosed == ctl.done

CloseReturns(c) ==
  /\ calls[c].at = "waiting" /\ doneClosed
  /\ calls' = [calls EXCEPT ![c].at = "returned"] /\ ctl' = ToClosed(ctl)
  /\ UNCHANGED <<run, sessions>>

\* The context of the Close call ends first.
CloseGivesUp(c) ==
  /\ calls[c].at = "waiting" /\ calls' = [calls EXCEPT ![c].at = "gaveUp"]
  /\ UNCHANGED <<ctl, run, sessions>>

-----------------------------------------------------------------------------
(* run.  handleFailure and the waits are its subroutines.                   *)

Goto(pc) == run' = [run EXCEPT !.pc = pc]

fail ==
  /\ ctl' = setSnapshotLocked(ctl, "failed", ctl.attempt, 0)
  /\ Goto("return")

connectionControllerBackoff(ordinal) ==
  LET step[n \in 1..ordinal] ==
        IF n = 1 THEN InitialDelay
        ELSE IF step[n - 1] >= MaxDelay THEN step[n - 1]
        ELSE IF step[n - 1] > MaxDelay \div BackoffFactor THEN MaxDelay
        ELSE step[n - 1] * BackoffFactor
  IN  IF step[ordinal] > MaxDelay THEN MaxDelay ELSE step[ordinal]

exhausted(made) == MaximumAttempts # 0 /\ made >= MaximumAttempts

retryAt(backoff, hold) == IF hold > backoff THEN hold ELSE backoff

\* handleFailure, up to the wait; after: the RetryAt of a retry_after disposition.
handleFailure(kind, after, ordinal) ==
  IF kind = "terminal" \/ exhausted(run.attempts) THEN fail
  ELSE LET hold == IF kind = "retry_after" THEN after ELSE 0 IN
       /\ run' = [run EXCEPT !.pc = "drain", !.failures = ordinal, !.kind = kind, !.hold = hold,
                             !.delay = retryAt(connectionControllerBackoff(ordinal), hold)]
       /\ UNCHANGED ctl

\* ctx.Err() after every call that may block.
UnlessCanceled(A) == IF ctl.canceled THEN Goto("finish") /\ UNCHANGED ctl ELSE A

\* The head of the loop, and the call of source.Acquire.
RunLoops ==
  /\ run.pc = "loop" /\ (run.acquires < MaxAcquires \/ ctl.canceled)
  /\ UnlessCanceled(/\ run' = [run EXCEPT !.pc = "acquire", !.acquires = @ + 1, !.tries = @ + 1]
                    /\ UNCHANGED ctl)
  /\ UNCHANGED <<sessions, calls>>

\* source.Acquire returns a lease that claimForConnectionController accepts.
AcquireLeases ==
  /\ run.pc = "acquire" /\ UnlessCanceled(Goto("connect") /\ UNCHANGED ctl)
  /\ UNCHANGED <<sessions, calls>>

\* An empty lease, or one that was claimed before.
AcquireUnusable ==
  /\ run.pc = "acquire" /\ UnlessCanceled(fail) /\ UNCHANGED <<sessions, calls>>

\* An ArtifactSourceError.
AcquireFails(kind, after) ==
  /\ run.pc = "acquire" /\ UnlessCanceled(handleFailure(kind, after, run.failures + 1))
  /\ UNCHANGED <<sessions, calls>>

\* connectErrorDisposition, ConnectError.RetryDisposition
connectErrorDisposition(code) ==
  IF code \in {"expired", "timeout", "connection_failed"} THEN "retryable" ELSE "terminal"

ConnectFails(code) ==
  /\ run.pc = "connect"
  /\ UnlessCanceled(handleFailure(connectErrorDisposition(code), 0, run.failures + 1))
  /\ UNCHANGED <<sessions, calls>>

\* Mutant: a session that arrives after Close is dropped, not closed.
LateSessionDropped == "live"

lateSession == "closed"

\* connect returns a session.
ConnectReturns ==
  /\ run.pc = "connect" /\ UnlessCanceled(Goto("publish") /\ UNCHANGED ctl)
  /\ sessions' = Append(sessions, IF ctl.canceled THEN lateSession ELSE "live")
  /\ UNCHANGED calls

publishConnected ==
  /\ run.pc = "publish" /\ ctl' = setSnapshotLocked(ctl, "connected", ctl.attempt, Len(sessions))
  /\ run' = [run EXCEPT !.pc = "session", !.failures = 0, !.attempts = 0, !.tries = 0]
  /\ UNCHANGED <<sessions, calls>>

\* The peer, the carrier or the application ends a session.
SessionEnds(i) ==
  /\ sessions[i] = "live" /\ sessions' = [sessions EXCEPT ![i] = "ended"]
  /\ UNCHANGED <<ctl, run, calls>>

\* sessionErrorDisposition, SessionError.RetryDisposition
sessionErrorDisposition(code) ==
  IF code \in {"closed", "going_away", "timeout", "resource_exhausted", "stream_reset",
               "rekey_failed", "liveness_failed"} THEN "retryable" ELSE "terminal"

\* WaitTermination returns: the session ended, or the context did.
WaitTerminationReturns(code) ==
  /\ run.pc = "session" /\ (ctl.canceled \/ sessions[ctl.session] = "ended")
  /\ UnlessCanceled(handleFailure(sessionErrorDisposition(code), 0, 1))
  /\ sessions' = [sessions EXCEPT ![ctl.session] = IF ctl.canceled THEN @ ELSE "closed"]
  /\ UNCHANGED calls

-----------------------------------------------------------------------------
(* wait, beginNextAttempt and the end of run.                               *)

\* Mutant: a token that is already in the retry channel stays there.
drainKeepsToken(c) == c

drainRetry(c) == [c EXCEPT !.retry = 0]

WaitDrains ==
  /\ run.pc = "drain" /\ Goto("arm") /\ ctl' = drainRetry(ctl)
  /\ UNCHANGED <<sessions, calls>>

WaitArms ==
  /\ run.pc = "arm" /\ Goto("wait")
  /\ ctl' = [setSnapshotLocked(ctl, "waiting", ctl.attempt, 0) EXCEPT !.notBefore = run.kind = "retry_after"]
  /\ UNCHANGED <<sessions, calls>>

Tick ==
  /\ run.pc = "wait" /\ run.delay > 0
  /\ run' = [run EXCEPT !.delay = @ - 1, !.hold = IF @ > 0 THEN @ - 1 ELSE 0]
  /\ UNCHANGED <<ctl, sessions, calls>>

WaitCanceled ==
  /\ run.pc = "wait" /\ ctl.canceled
  /\ run' = [run EXCEPT !.pc = "finish", !.kind = "terminal", !.hold = 0, !.delay = 0]
  /\ UNCHANGED <<ctl, sessions, calls>>

\* Mutant: a token only arms the timer again.
RetriedRearms ==
  /\ run.pc = "wait" /\ ctl.retry # 0 /\ ctl' = [ctl EXCEPT !.retry = 0]
  /\ run' = [run EXCEPT !.delay = run.hold]
  /\ UNCHANGED <<sessions, calls>>

\* A token wakes the wait; before the deadline it would only arm the timer again.
WaitRetried ==
  /\ run.pc = "wait" /\ ctl.retry # 0 /\ ctl' = [ctl EXCEPT !.retry = 0]
  /\ run' = IF run.hold = 0 THEN [run EXCEPT !.pc = "begin"] ELSE [run EXCEPT !.delay = run.hold]
  /\ UNCHANGED <<sessions, calls>>

WaitTimer ==
  /\ run.pc = "wait" /\ run.delay = 0 /\ Goto("begin")
  /\ ctl' = [ctl EXCEPT !.notBefore = FALSE]
  /\ UNCHANGED <<sessions, calls>>

\* attempts is 0 after a session: the next attempt is the first.
beginNextAttempt ==
  /\ run.pc = "begin" /\ run' = [run EXCEPT !.pc = "loop", !.attempts = @ + 1, !.kind = "terminal", !.delay = 0]
  /\ ctl' = [setSnapshotLocked(ctl, "connecting", run.attempts + 1, 0) EXCEPT !.notBefore = FALSE]
  /\ UNCHANGED <<sessions, calls>>

\* finishClosed: the snapshot first, the session after the unlock.
finishClosed ==
  /\ run.pc = "finish" /\ Goto(IF ctl.session = 0 THEN "return" ELSE "closeSession")
  /\ ctl' = [setSnapshotLocked(ctl, "closed", ctl.attempt, 0) EXCEPT !.notBefore = FALSE]
  /\ UNCHANGED <<sessions, calls>>

finishClosesSession ==
  /\ run.pc = "closeSession" /\ Goto("return")
  /\ sessions' = [sessions EXCEPT ![Len(sessions)] = "closed"]
  /\ UNCHANGED <<ctl, calls>>

closeDoneLocked ==
  /\ run.pc = "return" /\ Goto("over") /\ ctl' = [ctl EXCEPT !.done = TRUE]
  /\ UNCHANGED <<sessions, calls>>

-----------------------------------------------------------------------------
Users ==
  \/ Start \/ ParentCanceled \/ RetryNow
  \/ \E w \in Waiters : WaiterChecks(w) \/ WaiterWakes(w)
  \/ \E c \in Closers : CloseBegins(c) \/ CloseCancels(c) \/ CloseReturns(c) \/ CloseGivesUp(c)
  \/ \E i \in DOMAIN sessions : SessionEnds(i)

\* What the scheduler does by itself once the calls it makes have returned.
Scheduler ==
  \/ RunLoops \/ publishConnected \/ WaitDrains \/ WaitArms \/ Tick \/ WaitRetried \/ WaitTimer
  \/ WaitCanceled \/ beginNextAttempt \/ finishClosed \/ finishClosesSession \/ closeDoneLocked
  \/ \E code \in {"closed", "protocol"} : WaitTerminationReturns(code)

Acquire ==
  \/ AcquireLeases \/ AcquireUnusable
  \/ \E kind \in {"terminal", "retryable"} : AcquireFails(kind, 0)
  \/ \E after \in RetryAfters : AcquireFails("retry_after", after)

Connect == ConnectReturns \/ \E code \in {"timeout", "invalid"} : ConnectFails(code)

ControllerNext == Users \/ Scheduler \/ Acquire \/ Connect

\* source.Acquire and connect return at least when their context is done; nothing
\* else of what they do is assumed.  A caller that waits is scheduled.
ControllerFairness ==
  /\ WF_controllerVars(Scheduler)
  /\ WF_controllerVars(ctl.canceled /\ (Acquire \/ Connect))
  /\ \A w \in Waiters : WF_controllerVars(WaiterChecks(w) \/ WaiterWakes(w))
  /\ \A c \in Closers : WF_controllerVars(CloseCancels(c)) /\ WF_controllerVars(CloseReturns(c))

ControllerSpec == ControllerInit /\ [][ControllerNext]_controllerVars /\ ControllerFairness

-----------------------------------------------------------------------------
ControllerTypeOK ==
  /\ ctl.state \in {"idle", "connecting", "connected", "waiting", "failed", "closed"}
  /\ ctl.attempt \in 0..MaxAcquires + 1 /\ ctl.session \in 0..Len(sessions)
  /\ ctl.retry \in 0..ctl.revision /\ ctl.changed \in 0..ctl.revision
  /\ run.kind \in {"terminal", "retryable", "retry_after"}
  /\ run.delay \in Nat /\ run.hold \in Nat /\ run.attempts \in 0..MaxAcquires + 1
  /\ \A i \in DOMAIN sessions : sessions[i] \in {"live", "ended", "closed"}

\* The controller owns at most one session that is not closed, and none once done
\* is closed: "max_in_flight_attempts": 1 of the controller vectors, and Close.
AtMostOneOpen ==
  LET open == {i \in DOMAIN sessions : sessions[i] # "closed"}
  IN  open \subseteq {Len(sessions)} /\ (ctl.done => open = {})

\* A token in the retry channel of a waiting scheduler was sent in this wait: a
\* RetryNow of an earlier wait never cuts a later wait short.
TokenOfThisWait == run.pc = "wait" /\ ctl.retry # 0 => ctl.retry = ctl.revision

\* No attempt begins before the deadline of a retry_after disposition, whether the
\* timer or RetryNow ends the wait.
DeadlineKept == run.pc = "begin" => run.hold = 0

\* The snapshot counts the attempts since the last session, and no attempt is made
\* beyond MaximumAttempts.
AttemptsCounted ==
  run.pc \in {"acquire", "connect"} =>
    ctl.attempt = run.tries /\ (MaximumAttempts # 0 => run.tries <= MaximumAttempts)

\* InitialDelay * BackoffFactor^(ordinal-1)
uncapped(ordinal) ==
  LET full[n \in 1..ordinal] == IF n = 1 THEN InitialDelay ELSE full[n - 1] * BackoffFactor
  IN  full[ordinal]

\* The n-th consecutive failure waits InitialDelay * BackoffFactor^(n-1), up to MaxDelay.
BackoffDoubles ==
  run.pc = "drain" /\ run.hold = 0 =>
    run.delay = IF uncapped(run.failures) < MaxDelay THEN uncapped(run.failures) ELSE MaxDelay

\* Close returns without an error only when the controller is closed for good: no
\* acquisition, no attempt and no open session is left or comes later.
ClosedIsFinal ==
  (\E c \in Closers : calls[c].at = "returned") =>
    /\ ctl.state = "closed" /\ run.pc \in {"off", "over"}
    /\ \A i \in DOMAIN sessions : sessions[i] = "closed"

Lifecycle == INSTANCE ConnectionLifecycle WITH state <- ctl.state, session <- ctl.session

\* A RetryNow that returned true is not lost: its token leaves the channel of a waiting scheduler only by ending the
\* wait, whatever timer or deadline is pending (wait drains the channel before it publishes "waiting").
RetryNowWakes ==
  [][ctl.state = "waiting" /\ ctl.retry # 0 /\ ctl'.retry = 0 => run'.pc = "begin"]_controllerVars

\* The controller owns at most one session that is not closed, and none once done is closed ("max_in_flight_attempts":
\* 1 of the controller vectors); Close returns without an error only when the controller is closed for good: no
\* acquisition, no attempt and no open session is left or comes later.
OneLiveSession == ControllerTypeOK /\ AtMostOneOpen /\ ClosedIsFinal

\* Attempts are paced: a RetryNow of an earlier wait never cuts a later one short; no attempt begins before the
\* deadline of a retry_after, whether timer or RetryNow ends the wait; the snapshot counts the attempts since the last
\* session, never beyond MaximumAttempts; and the n-th failure in a row waits InitialDelay * BackoffFactor^(n-1), up
\* to MaxDelay.
AttemptsPaced == TokenOfThisWait /\ DeadlineKept /\ AttemptsCounted /\ BackoffDoubles

\* What a watcher of the snapshots sees is the abstract lifecycle: closed is final, failed is left only by Close, and
\* a session is named only while connected. And a RetryNow that returned true is not lost: its token leaves the
\* channel of a waiting scheduler only by ending the wait, whatever timer is pending.
ImplementsLifecycle == Lifecycle!Spec /\ RetryNowWakes

\* A WaitForSnapshotChange call that is blocked on an old revision returns: the
\* channel it took under the lock is closed by the change it waits for.
WakeupOwed == \E w \in Waiters : calls[w].at = "blocked" /\ calls[w].after # ctl.revision
NoLostWakeup == WakeupOwed ~> ~WakeupOwed

\* Close returns, unless its own context ends first.
CloseOwed == \E c \in Closers : calls[c].at = "waiting"
CloseCompletes == CloseOwed ~> ~CloseOwed
=============================================================================
