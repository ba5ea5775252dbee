-------------------------- MODULE ControllerProofs --------------------------
(***************************************************************************)
(* Proofs about the connection controller, for every limit on attempts and *)
(* every backoff: it owns at most one session, paces its attempts, and     *)
(* what its snapshots show is the abstract lifecycle.                      *)
(***************************************************************************)
EXTENDS ConnectionController, WellFoundedInduction, TLAPS

\* Induction over 1..m, for a set of numbers.
LEMMA Upwards ==
  ASSUME NEW m \in Nat, NEW S, m >= 1 => 1 \in S, \A n \in 1..m : n + 1 \in 1..m /\ n \in S => n + 1 \in S
  PROVE  1..m \subseteq S
<1> DEFINE Bad == {n \in 1..m : n \notin S}
<1>1. SUFFICES ASSUME Bad # {} PROVE FALSE
  OBVIOUS
<1>2. PICK k \in Bad : \A j \in Bad : ~(<<j, k>> \in OpToRel(<, Nat))
  <2>1. Bad \subseteq Nat
    OBVIOUS
  <2> QED BY <1>1, <2>1, NatLessThanWellFounded, WFMin, Zenon
<1>3. k \in 1..m /\ k \notin S /\ k # 1
  OBVIOUS
<1>4. k - 1 \in 1..m /\ k - 1 \in Nat /\ k \in Nat /\ k - 1 < k /\ (k - 1) + 1 = k
  BY <1>3
<1>5. k - 1 \in S
  <2>1. <<k - 1, k>> \in OpToRel(<, Nat)
    BY <1>4 DEF OpToRel
  <2> QED BY <1>2, <1>4, <2>1, Zenon
<1> QED BY <1>3, <1>4, <1>5

\* A function that is defined by recursion over 1..m exists.
Iterates(f, m, first, G) == f = [n \in 1..m |-> IF n = 1 THEN first ELSE G[f[n - 1]]]

LEMMA Recursion ==
  ASSUME NEW m \in Nat, NEW first \in Nat, NEW G \in [Nat -> Nat]
  PROVE  \E f \in [1..m -> Nat] : Iterates(f, m, first, G)
<1> DEFINE Good(k) == \E f \in [1..k -> Nat] : \A n \in 1..k : f[n] = IF n = 1 THEN first ELSE G[f[n - 1]]
           S == {k \in 1..m : Good(k)}
<1>1. m >= 1 => 1 \in S
  <2>1. \A n \in 1..1 : n = 1
    OBVIOUS
  <2>2. [n \in 1..1 |-> first] \in [1..1 -> Nat]
    OBVIOUS
  <2>3. Good(1)
    BY <2>1, <2>2, Zenon
  <2> QED BY <2>3
<1>2. ASSUME NEW k \in 1..m, k + 1 \in 1..m, k \in S
      PROVE  k + 1 \in S
  <2>1. PICK f \in [1..k -> Nat] : \A n \in 1..k : f[n] = IF n = 1 THEN first ELSE G[f[n - 1]]
    BY <1>2, Zenon
  <2> DEFINE g == [n \in 1..k + 1 |-> IF n = k + 1 THEN G[f[k]] ELSE f[n]]
  <2>2. f[k] \in Nat /\ G[f[k]] \in Nat
    OBVIOUS
  <2>3. g \in [1..k + 1 -> Nat]
    <3>1. \A n \in 1..k + 1 : n # k + 1 => n \in 1..k
      OBVIOUS
    <3>2. \A n \in 1..k + 1 : (IF n = k + 1 THEN G[f[k]] ELSE f[n]) \in Nat
      BY <2>2, <3>1, Zenon
    <3> QED BY <3>2, Zenon
  <2>4. \A n \in 1..k + 1 : g[n] = IF n = 1 THEN first ELSE G[g[n - 1]]
    <3> SUFFICES ASSUME NEW n \in 1..k + 1 PROVE g[n] = IF n = 1 THEN first ELSE G[g[n - 1]]
      BY Zenon
    <3>1. CASE n = k + 1
      <4>1. n # 1 /\ n - 1 = k /\ k \in 1..k + 1 /\ k # k + 1
        BY <3>1
      <4>2. g[n - 1] = f[k] /\ g[n] = G[f[k]]
        BY <3>1, <4>1
      <4> QED BY <4>1, <4>2
    <3>2. CASE n # k + 1
      <4>1. n \in 1..k /\ g[n] = f[n]
        BY <3>2
      <4>2. n # 1 => n - 1 \in 1..k + 1 /\ n - 1 # k + 1
        BY <4>1
      <4>3. n # 1 => g[n - 1] = f[n - 1]
        BY <4>2
      <4> QED BY <2>1, <4>1, <4>3, Zenon
    <3> QED BY <3>1, <3>2
  <2>5. Good(k + 1)
    <3> HIDE DEF g
    <3> QED BY <2>3, <2>4, Zenon
  <2> QED BY <1>2, <2>5, Zenon
<1>3. 1..m \subseteq S
  <2> HIDE DEF S
  <2> QED BY <1>1, <1>2, Upwards
<1>4. CASE m = 0
  <2> DEFINE e == [n \in 1..m |-> first]
  <2>1. 1..m = {} /\ e \in [1..m -> Nat]
    BY <1>4
  <2>2. Iterates(e, m, first, G)
    <3>1. \A n \in 1..m : e[n] = IF n = 1 THEN first ELSE G[e[n - 1]]
      BY <2>1, Zenon
    <3> HIDE DEF e
    <3> QED BY <2>1, <3>1 DEF Iterates
  <2> HIDE DEF e
  <2> QED BY <2>1, <2>2, Zenon
<1>5. CASE m # 0
  <2>0. m \in 1..m
    BY <1>5
  <2>1. Good(m)
    BY <1>3, <2>0, Zenon
  <2>2. PICK f \in [1..m -> Nat] : \A n \in 1..m : f[n] = IF n = 1 THEN first ELSE G[f[n - 1]]
    BY <2>1, Zenon
  <2>3. Iterates(f, m, first, G)
    BY <2>2 DEF Iterates
  <2> QED BY <2>3, Zenon
<1> QED BY <1>4, <1>5, Zenon

\* One round of the loop of connectionControllerBackoff, against plain multiplication.
Capped(d) == IF d < MaxDelay THEN d ELSE MaxDelay
Grown(d) == IF d >= MaxDelay THEN d ELSE IF d > MaxDelay \div BackoffFactor THEN MaxDelay ELSE d * BackoffFactor

LEMMA Product ==
  ASSUME NEW d \in Nat, NEW e \in Nat
  PROVE  /\ d * e \in Nat
         /\ e # 0 => d * e >= d
         /\ e # 0 => (d > MaxDelay \div e => d * e > MaxDelay)
         /\ e # 0 => (d <= MaxDelay \div e => d * e <= MaxDelay)
<1>1. d * e \in Nat /\ (e # 0 => d * e >= d)
  OBVIOUS
<1>2. ASSUME e # 0
      PROVE  /\ d > MaxDelay \div e => d * e > MaxDelay
             /\ d <= MaxDelay \div e => d * e <= MaxDelay
  <2> DEFINE q == MaxDelay \div e
  <2>1. q \in Nat /\ q * e <= MaxDelay /\ MaxDelay < (q + 1) * e
    BY <1>2, ControllerAssumption
  <2> HIDE DEF q
  <2>2. d > q => d * e >= (q + 1) * e
    BY <2>1
  <2>3. d <= q => d * e <= q * e
    BY <2>1
  <2>4. d * e \in Nat /\ q * e \in Nat /\ (q + 1) * e \in Nat
    BY <2>1
  <2>5. MaxDelay \in Nat
    BY ControllerAssumption
  <2>6. /\ d > q => d * e > MaxDelay
        /\ d <= q => d * e <= MaxDelay
    BY <2>1, <2>2, <2>3, <2>4, <2>5
  <2> QED BY <2>6 DEF q
<1> QED BY <1>1, <1>2

LEMMA GrownIs ==
  ASSUME NEW d \in Nat, NEW e \in Nat, Capped(d) = Capped(e)
  PROVE  Grown(d) \in Nat /\ e * BackoffFactor \in Nat /\ Capped(Grown(d)) = Capped(e * BackoffFactor)
<1>1. MaxDelay \in Nat /\ BackoffFactor \in Nat /\ BackoffFactor # 0
  BY ControllerAssumption
<1>2. e * BackoffFactor \in Nat /\ e * BackoffFactor >= e /\ d * BackoffFactor \in Nat
  BY <1>1, Product
<1>3. CASE d >= MaxDelay
  BY <1>1, <1>2, <1>3 DEF Capped, Grown
<1>4. CASE d < MaxDelay
  <2>1. e = d
    BY <1>1, <1>4 DEF Capped
  <2>2. CASE d > MaxDelay \div BackoffFactor
    BY <1>1, <1>2, <1>4, <2>1, <2>2, Product DEF Capped, Grown
  <2>3. CASE ~(d > MaxDelay \div BackoffFactor)
    BY <1>1, <1>2, <1>4, <2>1, <2>3 DEF Grown
  <2> QED BY <2>2, <2>3
<1> QED BY <1>1, <1>3, <1>4

(* connectionControllerBackoff never overflows: it stops before it would    *)
(* multiply past MaxDelay, and still returns the capped power.              *)
LEMMA BackoffIs ==
  ASSUME NEW ordinal \in Nat \ {0}
  PROVE  uncapped(ordinal) \in Nat /\ connectionControllerBackoff(ordinal) = Capped(uncapped(ordinal))
<1> DEFINE m == ordinal
           G == [d \in Nat |-> Grown(d)]
           H == [d \in Nat |-> d * BackoffFactor]
           step == CHOOSE f : f = [n \in 1..m |-> IF n = 1 THEN InitialDelay ELSE Grown(f[n - 1])]
           full == CHOOSE f : f = [n \in 1..m |-> IF n = 1 THEN InitialDelay ELSE f[n - 1] * BackoffFactor]
<1>1. InitialDelay \in Nat /\ MaxDelay \in Nat /\ BackoffFactor \in Nat
  BY ControllerAssumption
<1>2. \A d \in Nat : Grown(d) \in Nat /\ d * BackoffFactor \in Nat
  BY GrownIs
<1>3. G \in [Nat -> Nat] /\ H \in [Nat -> Nat]
  BY <1>2
<1>4. step = [n \in 1..m |-> IF n = 1 THEN InitialDelay ELSE Grown(step[n - 1])]
  <2>1. PICK f \in [1..m -> Nat] : Iterates(f, m, InitialDelay, G)
    <3> HIDE DEF G, H, step, full
    <3> QED BY <1>1, <1>3, Recursion, Zenon
  <2>2. \A n \in 1..m : n # 1 => f[n - 1] \in Nat
    OBVIOUS
  <2>3. \A n \in 1..m : n # 1 => G[f[n - 1]] = Grown(f[n - 1])
    BY <2>2
  <2>4. f = [n \in 1..m |-> IF n = 1 THEN InitialDelay ELSE Grown(f[n - 1])]
    BY <2>1, <2>3, Zenon DEF Iterates
  <2> QED BY <2>4
<1>5. full = [n \in 1..m |-> IF n = 1 THEN InitialDelay ELSE full[n - 1] * BackoffFactor]
  <2>1. PICK f \in [1..m -> Nat] : Iterates(f, m, InitialDelay, H)
    <3> HIDE DEF G, H, step, full
    <3> QED BY <1>1, <1>3, Recursion, Zenon
  <2>2. \A n \in 1..m : n # 1 => f[n - 1] \in Nat
    OBVIOUS
  <2>3. \A n \in 1..m : n # 1 => H[f[n - 1]] = f[n - 1] * BackoffFactor
    BY <2>2
  <2>4. f = [n \in 1..m |-> IF n = 1 THEN InitialDelay ELSE f[n - 1] * BackoffFactor]
    BY <2>1, <2>3, Zenon DEF Iterates
  <2> QED BY <2>4, Zenon
<1>6. connectionControllerBackoff(ordinal) = IF step[m] > MaxDelay THEN MaxDelay ELSE step[m]
  BY DEF connectionControllerBackoff, Grown
<1>7. uncapped(ordinal) = full[m]
  BY DEF uncapped
<1> HIDE DEF step, full, G, H
<1> DEFINE S == {n \in 1..m : step[n] \in Nat /\ full[n] \in Nat /\ Capped(step[n]) = Capped(full[n])}
<1>8. 1 \in S
  BY <1>1, <1>4, <1>5
<1>9. ASSUME NEW n \in 1..m, n + 1 \in 1..m, n \in S
      PROVE  n + 1 \in S
  <2>1. n + 1 # 1 /\ (n + 1) - 1 = n
    OBVIOUS
  <2>2. step[n + 1] = Grown(step[n]) /\ full[n + 1] = full[n] * BackoffFactor
    BY <1>4, <1>5, <1>9, <2>1
  <2> QED BY <1>9, <2>2, GrownIs
<1>10. m \in S
  <2> HIDE DEF S
  <2>1. m \in 1..m
    OBVIOUS
  <2> QED BY <1>8, <1>9, <2>1, Upwards
<1> QED BY <1>1, <1>6, <1>7, <1>10 DEF Capped

-----------------------------------------------------------------------------
States == {"idle", "connecting", "connected", "waiting", "failed", "closed"}
Kinds == {"terminal", "retryable", "retry_after"}
Ctls ==
  [state : States, attempt : Nat, session : Nat, revision : Nat, changed : Nat, retry : Nat,
   notBefore : BOOLEAN, canceled : BOOLEAN, done : BOOLEAN]
Runs ==
  [pc : {"off", "loop", "acquire", "connect", "publish", "session", "drain", "arm", "wait", "begin", "finish",
         "closeSession", "return", "over"},
   failures : Nat, attempts : Nat, kind : Kinds, hold : Nat, delay : Nat, acquires : Nat, tries : Nat]
ControllerCalls ==
  [at : {"out", "blocked", "canceling", "waiting", "returned", "gaveUp"}, after : Nat, changed : Nat]

ControllerTypes ==
  /\ ctl \in Ctls /\ run \in Runs /\ sessions \in Seq({"live", "ended", "closed"})
  /\ calls \in [Closers \cup Waiters -> ControllerCalls]

(* The state of the snapshot belongs to where the scheduler is.             *)
Phases ==
  /\ run.pc = "off" => ctl.state \in {"idle", "closed"} /\ sessions = <<>>
  /\ run.pc \in {"loop", "acquire", "connect", "publish"} => ctl.state = "connecting"
  /\ run.pc = "session" => ctl.state = "connected"
  /\ run.pc \in {"drain", "arm"} => ctl.state \in {"connecting", "connected"}
  /\ run.pc \in {"wait", "begin"} => ctl.state = "waiting"
  /\ run.pc = "finish" => ctl.state \in {"connecting", "connected", "waiting"}
  /\ run.pc = "closeSession" => ctl.state = "closed"
  /\ run.pc \in {"return", "over"} => ctl.state \in {"failed", "closed"}
  /\ ctl.done => run.pc \in {"off", "over"} /\ (run.pc = "off" => ctl.state = "closed")
  /\ run.pc = "over" => ctl.done

(* Only the last session may be open, and only from the moment connect      *)
(* returned it until its termination was handled; the snapshot names no     *)
(* other one.                                                               *)
AllClosed == \A i \in DOMAIN sessions : sessions[i] = "closed"

Ownership ==
  /\ \A i \in DOMAIN sessions : i # Len(sessions) => sessions[i] = "closed"
  /\ run.pc \notin {"publish", "session", "finish", "closeSession"} => AllClosed
  /\ run.pc = "finish" /\ ctl.session = 0 => AllClosed
  /\ run.pc \in {"publish", "session", "closeSession"} => Len(sessions) > 0
  /\ ctl.session # 0 => ctl.session = Len(sessions) /\ run.pc \in {"session", "drain", "arm", "finish"}
  /\ run.pc = "session" => ctl.session # 0

(* Attempts and acquisitions are counted, and limited.                      *)
Counts ==
  /\ ctl.changed = ctl.revision /\ ctl.retry <= ctl.revision
  /\ run.acquires <= MaxAcquires /\ run.attempts <= run.acquires + 1 /\ ctl.attempt <= MaxAcquires + 1
  /\ run.pc \in {"acquire", "connect", "publish", "session", "drain", "arm", "wait", "begin"} =>
       run.attempts <= run.acquires
  /\ run.pc = "off" => run.attempts = 1 /\ run.tries = 0
  /\ run.pc = "loop" => ctl.attempt = run.attempts /\ run.tries + 1 = run.attempts
  /\ run.pc \in {"acquire", "connect", "publish"} => ctl.attempt = run.attempts /\ run.tries = run.attempts
  /\ run.pc \in {"session", "drain", "arm", "wait", "begin"} => run.tries = run.attempts
  /\ run.pc \in {"loop", "acquire", "connect"} => (MaximumAttempts # 0 => run.attempts <= MaximumAttempts)
  /\ run.pc = "session" => run.attempts = 0
  /\ run.pc \in {"drain", "arm", "wait", "begin"} => (MaximumAttempts # 0 => run.attempts < MaximumAttempts)

(* The wait: its timer never fires before the deadline, and a token in the  *)
(* channel was sent after both the drain and the deadline.                  *)
Waits ==
  /\ run.pc \in {"drain", "arm", "wait"} => run.hold <= run.delay
  /\ run.pc \in {"drain", "arm"} /\ run.kind # "retry_after" => run.hold = 0
  /\ run.pc = "wait" /\ ~ctl.notBefore => run.hold = 0
  /\ run.pc = "wait" /\ ctl.retry # 0 => run.hold = 0 /\ ctl.retry = ctl.revision
  /\ run.pc = "arm" => ctl.retry = 0
  /\ run.pc = "begin" => run.hold = 0
  /\ BackoffDoubles

(* Close returned: the scheduler never started, or is over.                 *)
Closing ==
  \A c \in Closers :
    /\ calls[c].at = "returned" => ctl.state = "closed" /\ run.pc \in {"off", "over"}
    /\ calls[c].at \in {"canceling", "waiting", "gaveUp"} => run.pc # "off"

ControllerInv == ControllerTypes /\ Phases /\ Ownership /\ Counts /\ Waits /\ Closing

\* A new snapshot keeps the channels and the context.
LEMMA Snapshot ==
  ASSUME NEW c \in Ctls, NEW state \in States, NEW attempt \in Nat, NEW session \in Nat,
         NEW d, d = setSnapshotLocked(c, state, attempt, session)
  PROVE  /\ d \in Ctls /\ d.state = state /\ d.attempt = attempt /\ d.session = session
         /\ d.revision = c.revision + 1 /\ d.changed = c.changed + 1 /\ d.retry = c.retry
         /\ d.notBefore = c.notBefore /\ d.canceled = c.canceled /\ d.done = c.done
<1> DEFINE r == c.revision + 1
           h == c.changed + 1
<1>1. r \in Nat /\ h \in Nat
  BY DEF Ctls
<1>2. d = [c EXCEPT !.state = state, !.attempt = attempt, !.session = session, !.revision = r, !.changed = h]
  BY DEF setSnapshotLocked, Ctls
<1>3. d.revision = r /\ d.changed = h
  <2> HIDE DEF r, h
  <2> QED BY <1>2 DEF Ctls
<1>4. /\ d \in Ctls /\ d.state = state /\ d.attempt = attempt /\ d.session = session /\ d.retry = c.retry
      /\ d.notBefore = c.notBefore /\ d.canceled = c.canceled /\ d.done = c.done
  <2> HIDE DEF r, h
  <2> QED BY <1>1, <1>2, Zenon DEF Ctls
<1> QED BY <1>3, <1>4

LEMMA SnapshotNone ==
  ASSUME NEW c \in Ctls, NEW state \in States, NEW attempt \in Nat,
         NEW d, d = setSnapshotLocked(c, state, attempt, 0)
  PROVE  /\ d \in Ctls /\ d.state = state /\ d.attempt = attempt /\ d.session = 0
         /\ d.revision = c.revision + 1 /\ d.changed = c.changed + 1 /\ d.retry = c.retry
         /\ d.notBefore = c.notBefore /\ d.canceled = c.canceled /\ d.done = c.done
<1> DEFINE n == 0
<1>1. n \in Nat /\ d = setSnapshotLocked(c, state, attempt, n) /\ n = 0
  OBVIOUS
<1> HIDE DEF n
<1> QED BY <1>1, Snapshot, SMTT(30)

LEMMA InitController == ControllerInit => ControllerInv
<1> SUFFICES ASSUME ControllerInit PROVE ControllerInv
  OBVIOUS
<1>1. ControllerTypes
  BY DEF ControllerInit, ControllerTypes, Ctls, Runs, States, Kinds, ControllerCalls
<1>2. Phases /\ Ownership /\ Closing
  BY DEF ControllerInit, Phases, Ownership, AllClosed, Closing
<1>3. Counts /\ Waits
  BY ControllerAssumption DEF ControllerInit, Counts, Waits, BackoffDoubles
<1> QED BY <1>1, <1>2, <1>3 DEF ControllerInv

(* WaitForSnapshotChange reads the controller, and RetryNow sends a token.  *)
LEMMA WaitersKeep ==
  ASSUME ControllerInv, NEW w \in Waiters, WaiterChecks(w) \/ WaiterWakes(w)
  PROVE  ControllerInv'
<1>1. ctl' = ctl /\ run' = run /\ sessions' = sessions
  BY DEF WaiterChecks, WaiterWakes
<1>2. /\ calls' \in [Closers \cup Waiters -> ControllerCalls]
      /\ \A c \in Closers : calls'[c].at # calls[c].at => calls'[c].at \in {"out", "blocked"}
  <2>1. calls[w] \in ControllerCalls /\ ctl.revision \in Nat /\ ctl.changed \in Nat
    BY DEF ControllerInv, ControllerTypes, Ctls
  <2>2. CASE WaiterChecks(w)
    <3>1. PICK x \in ControllerCalls : x.at \in {calls[w].at, "blocked"} /\ calls' = [calls EXCEPT ![w] = x]
      <4>1. CASE ctl.revision # calls[w].after
        <5> DEFINE x == [calls[w] EXCEPT !.after = ctl.revision]
        <5>1. x \in ControllerCalls /\ x.at = calls[w].at /\ calls' = [calls EXCEPT ![w] = x]
          BY <2>1, <2>2, <4>1 DEF WaiterChecks, ControllerCalls
        <5> QED BY <5>1, Zenon
      <4>2. CASE ctl.revision = calls[w].after
        <5> DEFINE x == [calls[w] EXCEPT !.at = "blocked", !.changed = ctl.changed]
        <5>1. x \in ControllerCalls /\ x.at = "blocked" /\ calls' = [calls EXCEPT ![w] = x]
          BY <2>1, <2>2, <4>2, Zenon DEF WaiterChecks, ControllerCalls
        <5> QED BY <5>1, Zenon
      <4> QED BY <4>1, <4>2
    <3> QED BY <3>1 DEF ControllerInv, ControllerTypes
  <2>3. CASE WaiterWakes(w)
    <3> DEFINE n == 0
               x == [calls[w] EXCEPT !.at = "out", !.changed = n]
    <3>1. n \in Nat /\ calls' = [calls EXCEPT ![w] = x]
      BY <2>3, Zenon DEF WaiterWakes, ControllerInv, ControllerTypes
    <3> HIDE DEF n
    <3>2. x \in ControllerCalls /\ x.at = "out"
      BY <2>1, <3>1, Zenon DEF ControllerCalls
    <3> HIDE DEF x
    <3> QED BY <3>1, <3>2 DEF ControllerInv, ControllerTypes
  <2> QED BY <2>2, <2>3
<1>3. ControllerTypes' /\ Phases' /\ Ownership' /\ Counts' /\ Waits'
  BY <1>1, <1>2 DEF ControllerInv, ControllerTypes, Phases, Ownership, AllClosed, Counts, Waits, BackoffDoubles
<1>4. Closing'
  BY <1>1, <1>2 DEF ControllerInv, Closing
<1> QED BY <1>3, <1>4 DEF ControllerInv

(* Start and the end of its context, and RetryNow.                          *)
LEMMA UsersKeep ==
  ASSUME ControllerInv, Start \/ ParentCanceled \/ RetryNow
  PROVE  ControllerInv'
<1>1. CASE Start
  <2>1. /\ run.pc = "off" /\ ctl.state = "idle" /\ sessions' = sessions /\ calls' = calls
        /\ ctl' = setSnapshotLocked(ctl, "connecting", 1, 0) /\ run' = [run EXCEPT !.pc = "loop"]
    BY <1>1 DEF Start, started
  <2>2. /\ ctl' \in Ctls /\ ctl'.state = "connecting" /\ ctl'.attempt = 1 /\ ctl'.session = 0
        /\ ctl'.revision = ctl.revision + 1 /\ ctl'.changed = ctl.changed + 1 /\ ctl'.retry = ctl.retry
        /\ ctl'.done = ctl.done
    <3> DEFINE n == 1
    <3>1. n \in Nat /\ n = 1 /\ ctl' = setSnapshotLocked(ctl, "connecting", n, 0)
      BY <2>1
    <3> HIDE DEF n
    <3>2. ctl \in Ctls /\ "connecting" \in States
      BY DEF ControllerInv, ControllerTypes, States
    <3> QED BY <3>1, <3>2, SnapshotNone
  <2>3. /\ run' \in Runs /\ run'.pc = "loop" /\ run'.attempts = run.attempts /\ run'.tries = run.tries
        /\ run'.acquires = run.acquires /\ run'.kind = run.kind /\ run'.hold = run.hold /\ run'.delay = run.delay
    BY <2>1 DEF ControllerInv, ControllerTypes, Runs
  <2>4. ControllerTypes' /\ Phases' /\ Ownership'
    BY <2>1, <2>2, <2>3 DEF ControllerInv, ControllerTypes, Phases, Ownership, AllClosed
  <2>5. Counts'
    <3>1. run.attempts = 1 /\ run.tries = 0
      BY <2>1 DEF ControllerInv, Counts
    <3>2. ctl.changed \in Nat /\ ctl.revision \in Nat /\ ctl.retry \in Nat /\ run.acquires \in Nat
      BY DEF ControllerInv, ControllerTypes, Ctls, Runs
    <3> QED BY <2>2, <2>3, <3>1, <3>2, ControllerAssumption DEF ControllerInv, Counts
  <2>6. Waits' /\ Closing'
    BY <2>1, <2>2, <2>3 DEF ControllerInv, Waits, BackoffDoubles, Closing
  <2> QED BY <2>4, <2>5, <2>6 DEF ControllerInv
<1>2. CASE ParentCanceled
  <2>1. /\ ctl' = [ctl EXCEPT !.canceled = TRUE] /\ run' = run /\ sessions' = sessions /\ calls' = calls
    BY <1>2 DEF ParentCanceled
  <2>2. /\ ctl' \in Ctls /\ ctl'.state = ctl.state /\ ctl'.attempt = ctl.attempt /\ ctl'.session = ctl.session
        /\ ctl'.revision = ctl.revision /\ ctl'.changed = ctl.changed /\ ctl'.retry = ctl.retry
        /\ ctl'.done = ctl.done /\ ctl'.notBefore = ctl.notBefore
    BY <2>1, Zenon DEF ControllerInv, ControllerTypes, Ctls
  <2>3. ControllerTypes' /\ Phases' /\ Ownership' /\ Counts'
    BY <2>1, <2>2 DEF ControllerInv, ControllerTypes, Phases, Ownership, AllClosed, Counts
  <2>4. Waits' /\ Closing'
    BY <2>1, <2>2 DEF ControllerInv, Waits, BackoffDoubles, Closing
  <2> QED BY <2>3, <2>4 DEF ControllerInv
<1>3. CASE RetryNow
  <2>1. /\ ctl.state = "waiting" /\ (ctl.notBefore => run.hold = 0)
        /\ ctl' = [ctl EXCEPT !.retry = IF @ = 0 THEN ctl.revision ELSE @]
        /\ run' = run /\ sessions' = sessions /\ calls' = calls
    BY <1>3 DEF RetryNow
  <2>2. /\ ctl' \in Ctls /\ ctl'.state = ctl.state /\ ctl'.attempt = ctl.attempt /\ ctl'.session = ctl.session
        /\ ctl'.revision = ctl.revision /\ ctl'.changed = ctl.changed
        /\ ctl'.retry = (IF ctl.retry = 0 THEN ctl.revision ELSE ctl.retry)
        /\ ctl'.done = ctl.done /\ ctl'.notBefore = ctl.notBefore
    BY <2>1 DEF ControllerInv, ControllerTypes, Ctls
  <2>3. ControllerTypes' /\ Phases' /\ Ownership'
    BY <2>1, <2>2 DEF ControllerInv, ControllerTypes, Phases, Ownership, AllClosed
  <2>4. Counts'
    BY <2>1, <2>2 DEF ControllerInv, ControllerTypes, Ctls, Counts
  <2>5. Waits'
    BY <2>1, <2>2 DEF ControllerInv, Phases, Waits, BackoffDoubles
  <2>6. Closing'
    BY <2>1, <2>2 DEF ControllerInv, Closing
  <2> QED BY <2>3, <2>4, <2>5, <2>6 DEF ControllerInv
<1> QED BY <1>1, <1>2, <1>3

-----------------------------------------------------------------------------
(* The scheduler.                                                           *)

\* The scheduler moves on: everything else of its locals stays.
Moved(s, r, pc) ==
  /\ s \in Runs /\ s.pc = pc /\ s.failures = r.failures /\ s.attempts = r.attempts /\ s.kind = r.kind
  /\ s.hold = r.hold /\ s.delay = r.delay /\ s.acquires = r.acquires /\ s.tries = r.tries

LEMMA Moves ==
  ASSUME NEW r \in Runs, NEW s, NEW pc, pc # "off", s = [r EXCEPT !.pc = pc],
         pc \in {"loop", "acquire", "connect", "publish", "session", "drain", "arm", "wait", "begin", "finish",
                 "closeSession", "return", "over"}
  PROVE  Moved(s, r, pc)
  BY DEF Moved, Runs

LEMMA Numbers ==
  ASSUME ControllerTypes
  PROVE  /\ ctl.attempt \in Nat /\ ctl.session \in Nat /\ ctl.revision \in Nat /\ ctl.changed \in Nat /\ ctl.retry \in Nat
         /\ run.failures \in Nat /\ run.attempts \in Nat /\ run.hold \in Nat /\ run.delay \in Nat
         /\ run.acquires \in Nat /\ run.tries \in Nat /\ Len(sessions) \in Nat
         /\ run.kind \in Kinds /\ ctl.state \in States
  BY DEF ControllerTypes, Ctls, Runs

\* While the scheduler runs no Close has returned.
LEMMA ClosingKept ==
  ASSUME Closing, calls' = calls, run.pc \notin {"off", "over"}, run'.pc # "off"
  PROVE  Closing'
  BY DEF Closing

\* A canceled context sends the scheduler to finishClosed.
LEMMA CanceledKeeps ==
  ASSUME ControllerInv, run.pc \in {"loop", "acquire", "connect", "session"}, Goto("finish"),
         ctl' = ctl, sessions' = sessions, calls' = calls
  PROVE  ControllerInv'
<1>1. Moved(run', run, "finish")
  BY Moves DEF ControllerInv, ControllerTypes, Goto
<1>2. ControllerTypes' /\ Phases' /\ Ownership'
  BY <1>1 DEF Moved, ControllerInv, ControllerTypes, Phases, Ownership, AllClosed
<1>3. Counts'
  BY <1>1, Numbers DEF Moved, ControllerInv, Counts
<1>4. Waits' /\ Closing'
  BY <1>1, ClosingKept DEF Moved, ControllerInv, Waits, BackoffDoubles
<1> QED BY <1>2, <1>3, <1>4 DEF ControllerInv

\* What handleFailure finds: no session is open any more.
HandlesFailure ==
  /\ run.pc \in {"acquire", "connect", "session"} /\ calls' = calls
  /\ sessions' \in Seq({"live", "ended", "closed"}) /\ Len(sessions') = Len(sessions) /\ AllClosed'

LEMMA FailKeeps ==
  ASSUME ControllerInv, HandlesFailure, fail
  PROVE  ControllerInv'
<1> USE DEF HandlesFailure
<1>1. Moved(run', run, "return")
  BY Moves DEF ControllerInv, ControllerTypes, Goto, fail
<1>2. /\ ctl' \in Ctls /\ ctl'.state = "failed" /\ ctl'.attempt = ctl.attempt /\ ctl'.session = 0
      /\ ctl'.revision = ctl.revision + 1 /\ ctl'.changed = ctl.changed + 1 /\ ctl'.retry = ctl.retry
      /\ ctl'.done = ctl.done
  <2>1. ctl \in Ctls /\ "failed" \in States /\ ctl.attempt \in Nat
    BY Numbers DEF ControllerInv, ControllerTypes, States
  <2>2. ctl' = setSnapshotLocked(ctl, "failed", ctl.attempt, 0)
    BY DEF fail
  <2> QED BY <2>1, <2>2, SnapshotNone
<1>3. ControllerTypes' /\ Phases' /\ Ownership'
  BY <1>1, <1>2 DEF Moved, ControllerInv, ControllerTypes, Phases, Ownership, AllClosed
<1>4. Counts'
  BY <1>1, <1>2, Numbers DEF Moved, ControllerInv, Counts
<1>5. Waits' /\ Closing'
  BY <1>1, ClosingKept DEF Moved, ControllerInv, Waits, BackoffDoubles
<1> QED BY <1>3, <1>4, <1>5 DEF ControllerInv

LEMMA WaitKeeps ==
  ASSUME ControllerInv, HandlesFailure, ctl' = ctl, ~exhausted(run.attempts),
         NEW kind \in Kinds, NEW hold \in Nat, NEW ordinal \in Nat \ {0}, kind # "retry_after" => hold = 0,
         run' = [run EXCEPT !.pc = "drain", !.failures = ordinal, !.kind = kind, !.hold = hold,
                            !.delay = retryAt(connectionControllerBackoff(ordinal), hold)]
  PROVE  ControllerInv'
<1> USE DEF HandlesFailure
<1> DEFINE b == connectionControllerBackoff(ordinal)
           w == retryAt(b, hold)
<1>1. uncapped(ordinal) \in Nat /\ b = Capped(uncapped(ordinal)) /\ b \in Nat
  BY BackoffIs, ControllerAssumption DEF Capped
<1>2. w \in Nat /\ w >= hold /\ (hold = 0 => w = b)
  <2> HIDE DEF b
  <2> QED BY <1>1 DEF retryAt
<1>3. /\ run' \in Runs /\ run'.pc = "drain" /\ run'.failures = ordinal /\ run'.kind = kind /\ run'.hold = hold
      /\ run'.delay = w /\ run'.attempts = run.attempts /\ run'.acquires = run.acquires /\ run'.tries = run.tries
  <2> HIDE DEF w
  <2>1. run' = [run EXCEPT !.pc = "drain", !.failures = ordinal, !.kind = kind, !.hold = hold, !.delay = w]
    BY DEF w
  <2> QED BY <1>2, <2>1, Zenon DEF ControllerInv, ControllerTypes, Runs
<1> HIDE DEF w, b
<1>4. ControllerTypes' /\ Phases' /\ Ownership'
  BY <1>3 DEF ControllerInv, ControllerTypes, Phases, Ownership, AllClosed
<1>5. Counts'
  <2>1. /\ run.acquires <= MaxAcquires /\ run.attempts <= run.acquires /\ run.attempts <= run.acquires + 1
        /\ ctl.attempt <= MaxAcquires + 1 /\ ctl.changed = ctl.revision /\ ctl.retry <= ctl.revision
        /\ run.tries = run.attempts
    BY DEF ControllerInv, Counts
  <2>2. MaximumAttempts # 0 => run.attempts < MaximumAttempts
    BY Numbers, ControllerAssumption DEF ControllerInv, exhausted
  <2>3. run'.pc = "drain" /\ run'.attempts = run.attempts /\ run'.acquires = run.acquires /\ run'.tries = run.tries
    BY <1>3
  <2>4. ctl' = ctl
    OBVIOUS
  <2> QED BY <2>1, <2>2, <2>3, <2>4 DEF Counts
<1>6. Waits'
  BY <1>1, <1>2, <1>3, ControllerAssumption DEF Waits, BackoffDoubles, Capped
<1>7. Closing'
  BY <1>3, ClosingKept DEF ControllerInv
<1> QED BY <1>4, <1>5, <1>6, <1>7 DEF ControllerInv

LEMMA FailureKeeps ==
  ASSUME ControllerInv, HandlesFailure, NEW kind \in Kinds, NEW after \in Nat, NEW ordinal \in Nat \ {0},
         handleFailure(kind, after, ordinal)
  PROVE  ControllerInv'
<1>1. CASE kind = "terminal" \/ exhausted(run.attempts)
  BY <1>1, FailKeeps DEF handleFailure
<1>2. CASE ~(kind = "terminal" \/ exhausted(run.attempts))
  <2> DEFINE hold == IF kind = "retry_after" THEN after ELSE 0
  <2>1. hold \in Nat /\ (kind # "retry_after" => hold = 0)
    OBVIOUS
  <2>2. /\ ctl' = ctl
        /\ run' = [run EXCEPT !.pc = "drain", !.failures = ordinal, !.kind = kind, !.hold = hold,
                              !.delay = retryAt(connectionControllerBackoff(ordinal), hold)]
    BY <1>2 DEF handleFailure
  <2> HIDE DEF hold
  <2> QED BY <1>2, <2>1, <2>2, WaitKeeps, Zenon
<1> QED BY <1>1, <1>2

LEMMA RunLoopsKeeps ==
  ASSUME ControllerInv, RunLoops
  PROVE  ControllerInv'
<1>1. CASE ctl.canceled
  BY <1>1, CanceledKeeps DEF RunLoops, UnlessCanceled
<1>2. CASE ~ctl.canceled
  <2> DEFINE a == run.acquires + 1
             t == run.tries + 1
  <2>1. /\ run.pc = "loop" /\ run.acquires < MaxAcquires /\ ctl' = ctl /\ sessions' = sessions /\ calls' = calls
        /\ run' = [run EXCEPT !.pc = "acquire", !.acquires = a, !.tries = t]
    BY <1>2 DEF RunLoops, UnlessCanceled
  <2>2. a \in Nat /\ t \in Nat
    BY Numbers, SMTT(30) DEF ControllerInv
  <2>3. /\ run' \in Runs /\ run'.pc = "acquire" /\ run'.acquires = a /\ run'.tries = t /\ run'.attempts = run.attempts
        /\ run'.hold = run.hold /\ run'.delay = run.delay /\ run'.kind = run.kind
    <3> HIDE DEF a, t
    <3> QED BY <2>1, <2>2, Zenon DEF ControllerInv, ControllerTypes, Runs
  <2>4. ControllerTypes' /\ Phases' /\ Ownership'
    BY <2>1, <2>3 DEF ControllerInv, ControllerTypes, Phases, Ownership, AllClosed
  <2>5. Counts'
    <3>1. /\ run.attempts <= run.acquires + 1 /\ ctl.attempt = run.attempts /\ run.tries + 1 = run.attempts
          /\ ctl.changed = ctl.revision /\ ctl.retry <= ctl.revision /\ ctl.attempt <= MaxAcquires + 1
          /\ (MaximumAttempts # 0 => run.attempts <= MaximumAttempts)
      BY <2>1 DEF ControllerInv, Counts
    <3>2. run.acquires \in Nat /\ run.tries \in Nat /\ run.attempts \in Nat /\ MaxAcquires \in Nat
      BY Numbers, ControllerAssumption DEF ControllerInv
    <3>3. /\ run'.acquires <= MaxAcquires /\ run'.attempts <= run'.acquires /\ run'.attempts <= run'.acquires + 1
          /\ run'.tries = run'.attempts
      BY <2>1, <2>3, <3>1, <3>2
    <3>4. ctl' = ctl /\ run'.pc = "acquire" /\ run'.attempts = run.attempts
      BY <2>1, <2>3
    <3> QED BY <3>1, <3>3, <3>4 DEF Counts
  <2>6. Waits' /\ Closing'
    BY <2>1, <2>3, ClosingKept DEF ControllerInv, Waits, BackoffDoubles
  <2> QED BY <2>4, <2>5, <2>6 DEF ControllerInv
<1> QED BY <1>1, <1>2

\* source.Acquire returns.
LEMMA AcquireKeeps ==
  ASSUME ControllerInv, Acquire
  PROVE  ControllerInv'
<1>1. run.pc = "acquire" /\ sessions' = sessions /\ calls' = calls
  BY DEF Acquire, AcquireLeases, AcquireUnusable, AcquireFails
<1>2. HandlesFailure
  BY <1>1 DEF HandlesFailure, ControllerInv, ControllerTypes, Ownership, AllClosed
<1>3. CASE ctl.canceled
  <2>1. Goto("finish") /\ ctl' = ctl
    BY <1>3 DEF Acquire, AcquireLeases, AcquireUnusable, AcquireFails, UnlessCanceled
  <2> QED BY <1>1, <2>1, CanceledKeeps
<1>4. CASE ~ctl.canceled
  <2>1. CASE AcquireLeases
    <3>1. Moved(run', run, "connect") /\ ctl' = ctl
      BY <1>4, <2>1, Moves DEF AcquireLeases, UnlessCanceled, Goto, ControllerInv, ControllerTypes
    <3>2. ControllerTypes' /\ Phases' /\ Ownership'
      BY <1>1, <3>1 DEF Moved, ControllerInv, ControllerTypes, Phases, Ownership, AllClosed
    <3>3. Counts'
      BY <1>1, <3>1, Numbers DEF Moved, ControllerInv, Counts
    <3>4. Waits' /\ Closing'
      BY <1>1, <3>1, ClosingKept DEF Moved, ControllerInv, Waits, BackoffDoubles
    <3> QED BY <3>2, <3>3, <3>4 DEF ControllerInv
  <2>2. CASE AcquireUnusable
    BY <1>2, <1>4, <2>2, FailKeeps DEF AcquireUnusable, UnlessCanceled
  <2>3. ASSUME NEW kind \in Kinds, NEW after \in Nat, AcquireFails(kind, after)
        PROVE  ControllerInv'
    <3> DEFINE ordinal == run.failures + 1
    <3>1. handleFailure(kind, after, ordinal)
      BY <1>4, <2>3, Zenon DEF AcquireFails, UnlessCanceled
    <3>2. run.failures \in Nat
      BY <1>4, Numbers, Zenon DEF ControllerInv
    <3>3. ordinal \in Nat \ {0}
      BY <3>2
    <3> HIDE DEF ordinal
    <3> QED BY <1>2, <3>1, <3>3, FailureKeeps
  <2>4. CASE \E kind \in {"terminal", "retryable"} : AcquireFails(kind, 0)
    <3>1. PICK kind \in {"terminal", "retryable"} : AcquireFails(kind, 0)
      BY <2>4
    <3> DEFINE after == 0
    <3>2. kind \in Kinds /\ after \in Nat /\ AcquireFails(kind, after)
      BY <3>1 DEF Kinds
    <3> HIDE DEF after
    <3> QED BY <2>3, <3>2
  <2>5. CASE \E after \in RetryAfters : AcquireFails("retry_after", after)
    <3>1. PICK after \in RetryAfters : AcquireFails("retry_after", after)
      BY <2>5
    <3>2. "retry_after" \in Kinds /\ after \in Nat
      BY ControllerAssumption DEF Kinds
    <3> QED BY <2>3, <3>1, <3>2
  <2> QED BY <2>1, <2>2, <2>4, <2>5 DEF Acquire
<1> QED BY <1>3, <1>4

\* connect returns: an error, or a session, which is closed if Close came first.
LEMMA ConnectKeeps ==
  ASSUME ControllerInv, Connect
  PROVE  ControllerInv'
<1>1. run.pc = "connect" /\ calls' = calls
  BY DEF Connect, ConnectReturns, ConnectFails
<1>2. CASE \E code \in {"timeout", "invalid"} : ConnectFails(code)
  <2>1. PICK code \in {"timeout", "invalid"} : ConnectFails(code)
    BY <1>2
  <2>2. sessions' = sessions /\ HandlesFailure
    BY <1>1, <2>1 DEF ConnectFails, HandlesFailure, ControllerInv, ControllerTypes, Ownership, AllClosed
  <2>3. CASE ctl.canceled
    BY <1>1, <2>1, <2>2, <2>3, CanceledKeeps DEF ConnectFails, UnlessCanceled
  <2>4. CASE ~ctl.canceled
    <3> DEFINE ordinal == run.failures + 1
               kind == connectErrorDisposition(code)
               after == 0
    <3>1. ordinal \in Nat \ {0} /\ kind \in Kinds /\ after \in Nat
      BY Numbers DEF ControllerInv, connectErrorDisposition, Kinds
    <3>2. handleFailure(kind, after, ordinal)
      BY <2>1, <2>4 DEF ConnectFails, UnlessCanceled
    <3> HIDE DEF ordinal, kind, after
    <3> QED BY <2>2, <3>1, <3>2, FailureKeeps
  <2> QED BY <2>3, <2>4
<1>3. CASE ConnectReturns
  <2> DEFINE fate == IF ctl.canceled THEN lateSession ELSE "live"
             pc == IF ctl.canceled THEN "finish" ELSE "publish"
  <2>1. /\ ctl' = ctl /\ sessions' = Append(sessions, fate) /\ run' = [run EXCEPT !.pc = pc]
        /\ pc \in {"finish", "publish"} /\ fate \in {"live", "closed"} /\ (pc = "finish" => fate = "closed")
    BY <1>3 DEF ConnectReturns, UnlessCanceled, Goto, lateSession
  <2> HIDE DEF fate, pc
  <2>2. Moved(run', run, pc)
    BY <2>1, Moves DEF ControllerInv, ControllerTypes
  <2>3. /\ sessions' \in Seq({"live", "ended", "closed"}) /\ Len(sessions') = Len(sessions) + 1
        /\ \A i \in DOMAIN sessions' : i # Len(sessions') => sessions'[i] = "closed"
        /\ sessions'[Len(sessions')] = fate
    BY <1>1, <2>1 DEF ControllerInv, ControllerTypes, Ownership, AllClosed
  <2>4. ctl.session = 0
    BY <1>1 DEF ControllerInv, Ownership
  <2>5. ControllerTypes' /\ Phases'
    BY <1>1, <2>1, <2>2, <2>3 DEF Moved, ControllerInv, ControllerTypes, Phases
  <2>6. pc = "finish" => AllClosed'
    BY <2>1, <2>3 DEF AllClosed
  <2>7. Ownership'
    BY <2>1, <2>2, <2>3, <2>4, <2>6, Numbers DEF Moved, Ownership, ControllerInv
  <2>8. Counts'
    BY <1>1, <2>1, <2>2, Numbers DEF Moved, ControllerInv, Counts
  <2>9. Waits' /\ Closing'
    BY <1>1, <2>1, <2>2, ClosingKept DEF Moved, ControllerInv, Waits, BackoffDoubles
  <2> QED BY <2>5, <2>7, <2>8, <2>9 DEF ControllerInv
<1> QED BY <1>2, <1>3 DEF Connect

LEMMA PublishKeeps ==
  ASSUME ControllerInv, publishConnected
  PROVE  ControllerInv'
<1> DEFINE n == 0
<1>1. /\ run.pc = "publish" /\ sessions' = sessions /\ calls' = calls
      /\ ctl' = setSnapshotLocked(ctl, "connected", ctl.attempt, Len(sessions))
      /\ run' = [run EXCEPT !.pc = "session", !.failures = n, !.attempts = n, !.tries = n]
      /\ n \in Nat /\ n = 0
  BY DEF publishConnected
<1> HIDE DEF n
<1>2. /\ run' \in Runs /\ run'.pc = "session" /\ run'.attempts = 0 /\ run'.tries = 0 /\ run'.acquires = run.acquires
      /\ run'.hold = run.hold /\ run'.delay = run.delay /\ run'.kind = run.kind
  BY <1>1, Zenon DEF ControllerInv, ControllerTypes, Runs
<1>3. ctl \in Ctls /\ "connected" \in States /\ ctl.attempt \in Nat /\ Len(sessions) \in Nat
  BY Numbers DEF ControllerInv, ControllerTypes, States
<1>4. /\ ctl' \in Ctls /\ ctl'.state = "connected" /\ ctl'.attempt = ctl.attempt /\ ctl'.session = Len(sessions)
      /\ ctl'.revision = ctl.revision + 1 /\ ctl'.changed = ctl.changed + 1 /\ ctl'.retry = ctl.retry
      /\ ctl'.done = ctl.done
  BY <1>1, <1>3, Snapshot
<1>5. ControllerTypes' /\ Phases' /\ Ownership'
  BY <1>1, <1>2, <1>4 DEF ControllerInv, ControllerTypes, Phases, Ownership, AllClosed
<1>6. Counts'
  BY <1>1, <1>2, <1>4, Numbers DEF ControllerInv, Counts
<1>7. Waits' /\ Closing'
  BY <1>1, <1>2, ClosingKept DEF ControllerInv, Waits, BackoffDoubles
<1> QED BY <1>5, <1>6, <1>7 DEF ControllerInv

LEMMA TerminationKeeps ==
  ASSUME ControllerInv, NEW code \in {"closed", "protocol"}, WaitTerminationReturns(code)
  PROVE  ControllerInv'
<1>1. /\ run.pc = "session" /\ calls' = calls /\ ctl.session \in DOMAIN sessions /\ ctl.session = Len(sessions)
      /\ sessions \in Seq({"live", "ended", "closed"})
  BY Numbers DEF WaitTerminationReturns, ControllerInv, ControllerTypes, Ownership
<1>2. CASE ctl.canceled
  <2>1. sessions' = sessions
    BY <1>1, <1>2 DEF WaitTerminationReturns
  <2> QED BY <1>1, <1>2, <2>1, CanceledKeeps DEF WaitTerminationReturns, UnlessCanceled
<1>3. CASE ~ctl.canceled
  <2> DEFINE kind == sessionErrorDisposition(code)
             after == 0
             ordinal == 1
  <2>1. sessions' = [sessions EXCEPT ![ctl.session] = "closed"]
    BY <1>1, <1>3 DEF WaitTerminationReturns
  <2>2. /\ sessions' \in Seq({"live", "ended", "closed"}) /\ Len(sessions') = Len(sessions)
        /\ \A i \in DOMAIN sessions' : i \in DOMAIN sessions /\ sessions'[i] = (IF i = ctl.session THEN "closed" ELSE sessions[i])
    BY <1>1, <2>1
  <2>3. HandlesFailure
    BY <1>1, <2>2 DEF HandlesFailure, AllClosed, ControllerInv, Ownership
  <2>4. kind \in Kinds /\ after \in Nat /\ ordinal \in Nat \ {0}
    BY DEF sessionErrorDisposition, Kinds
  <2>5. handleFailure(kind, after, ordinal)
    BY <1>3 DEF WaitTerminationReturns, UnlessCanceled
  <2> HIDE DEF kind, after, ordinal
  <2> QED BY <2>3, <2>4, <2>5, FailureKeeps
<1> QED BY <1>2, <1>3

\* The wait, up to the snapshot that says waiting.
LEMMA WaitBeginKeeps ==
  ASSUME ControllerInv, WaitDrains \/ WaitArms
  PROVE  ControllerInv'
<1>1. CASE WaitDrains
  <2> DEFINE n == 0
  <2>1. /\ run.pc = "drain" /\ sessions' = sessions /\ calls' = calls /\ run' = [run EXCEPT !.pc = "arm"]
        /\ ctl' = [ctl EXCEPT !.retry = n] /\ n \in Nat /\ n = 0
    BY <1>1 DEF WaitDrains, drainRetry, Goto
  <2> HIDE DEF n
  <2>2. Moved(run', run, "arm")
    BY <2>1, Moves DEF ControllerInv, ControllerTypes
  <2>3. /\ ctl' \in Ctls /\ ctl'.state = ctl.state /\ ctl'.attempt = ctl.attempt /\ ctl'.session = ctl.session
        /\ ctl'.revision = ctl.revision /\ ctl'.changed = ctl.changed /\ ctl'.retry = 0
        /\ ctl'.done = ctl.done /\ ctl'.notBefore = ctl.notBefore
    BY <2>1 DEF ControllerInv, ControllerTypes, Ctls
  <2>4. ControllerTypes' /\ Phases' /\ Ownership'
    BY <2>1, <2>2, <2>3 DEF Moved, ControllerInv, ControllerTypes, Phases, Ownership, AllClosed
  <2>5. Counts'
    BY <2>1, <2>2, <2>3, Numbers DEF Moved, ControllerInv, Counts
  <2>6. Waits' /\ Closing'
    BY <2>1, <2>2, <2>3, ClosingKept DEF Moved, ControllerInv, Waits, BackoffDoubles
  <2> QED BY <2>4, <2>5, <2>6 DEF ControllerInv
<1>2. CASE WaitArms
  <2> DEFINE d == setSnapshotLocked(ctl, "waiting", ctl.attempt, 0)
             b == run.kind = "retry_after"
  <2>1. /\ run.pc = "arm" /\ sessions' = sessions /\ calls' = calls /\ run' = [run EXCEPT !.pc = "wait"]
        /\ ctl' = [d EXCEPT !.notBefore = b] /\ b \in BOOLEAN
    BY <1>2 DEF WaitArms, Goto
  <2>2. Moved(run', run, "wait")
    BY <2>1, Moves DEF ControllerInv, ControllerTypes
  <2>3. ctl \in Ctls /\ "waiting" \in States /\ ctl.attempt \in Nat
    BY Numbers DEF ControllerInv, ControllerTypes, States
  <2>4. /\ d \in Ctls /\ d.state = "waiting" /\ d.attempt = ctl.attempt /\ d.session = 0
        /\ d.revision = ctl.revision + 1 /\ d.changed = ctl.changed + 1 /\ d.retry = ctl.retry /\ d.done = ctl.done
    BY <2>3, SnapshotNone
  <2> HIDE DEF d
  <2>5. /\ ctl' \in Ctls /\ ctl'.state = "waiting" /\ ctl'.attempt = ctl.attempt /\ ctl'.session = 0
        /\ ctl'.revision = ctl.revision + 1 /\ ctl'.changed = ctl.changed + 1 /\ ctl'.retry = ctl.retry
        /\ ctl'.done = ctl.done /\ ctl'.notBefore = b
    <3> HIDE DEF b
    <3> QED BY <2>1, <2>4 DEF Ctls
  <2>6. ControllerTypes' /\ Phases' /\ Ownership'
    BY <2>1, <2>2, <2>5 DEF Moved, ControllerInv, ControllerTypes, Phases, Ownership, AllClosed
  <2>7. Counts'
    BY <2>1, <2>2, <2>5, Numbers DEF Moved, ControllerInv, Counts
  <2>8. Waits' /\ Closing'
    BY <2>1, <2>2, <2>5, ClosingKept, Zenon DEF Moved, ControllerInv, Waits, BackoffDoubles
  <2> QED BY <2>6, <2>7, <2>8 DEF ControllerInv
<1> QED BY <1>1, <1>2

\* The clock and the ways out of the wait.
LEMMA WaitEndKeeps ==
  ASSUME ControllerInv, Tick \/ WaitCanceled \/ WaitRetried \/ WaitTimer
  PROVE  ControllerInv'
<1>1. CASE Tick
  <2> DEFINE d == run.delay - 1
             h == IF run.hold > 0 THEN run.hold - 1 ELSE 0
  <2>1. /\ run.pc = "wait" /\ run.delay > 0 /\ ctl' = ctl /\ sessions' = sessions /\ calls' = calls
        /\ run' = [run EXCEPT !.delay = d, !.hold = h]
    BY <1>1 DEF Tick
  <2>2. d \in Nat /\ h \in Nat /\ (run.hold <= run.delay => h <= d) /\ (run.hold = 0 => h = 0)
    BY <2>1, Numbers, SMTT(30) DEF ControllerInv
  <2> HIDE DEF d, h
  <2>3. /\ run' \in Runs /\ run'.pc = "wait" /\ run'.delay = d /\ run'.hold = h /\ run'.attempts = run.attempts
        /\ run'.acquires = run.acquires /\ run'.tries = run.tries /\ run'.kind = run.kind
    BY <2>1, <2>2, Zenon DEF ControllerInv, ControllerTypes, Runs
  <2>4. ControllerTypes' /\ Phases' /\ Ownership' /\ Counts'
    BY <2>1, <2>3 DEF ControllerInv, ControllerTypes, Phases, Ownership, AllClosed, Counts
  <2>5. Waits' /\ Closing'
    BY <2>1, <2>2, <2>3, ClosingKept DEF ControllerInv, Waits, BackoffDoubles
  <2> QED BY <2>4, <2>5 DEF ControllerInv
<1>2. CASE WaitCanceled
  <2> DEFINE n == 0
  <2>1. /\ run.pc = "wait" /\ ctl' = ctl /\ sessions' = sessions /\ calls' = calls /\ n \in Nat
        /\ run' = [run EXCEPT !.pc = "finish", !.kind = "terminal", !.hold = n, !.delay = n]
    BY <1>2 DEF WaitCanceled
  <2> HIDE DEF n
  <2>2. /\ run' \in Runs /\ run'.pc = "finish" /\ run'.attempts = run.attempts
        /\ run'.acquires = run.acquires /\ run'.tries = run.tries
    BY <2>1, Zenon DEF ControllerInv, ControllerTypes, Runs, Kinds
  <2>3. ControllerTypes' /\ Phases' /\ Ownership' /\ Counts'
    BY <2>1, <2>2 DEF ControllerInv, ControllerTypes, Phases, Ownership, AllClosed, Counts
  <2>4. Waits' /\ Closing'
    BY <2>1, <2>2, ClosingKept DEF ControllerInv, Waits, BackoffDoubles
  <2> QED BY <2>3, <2>4 DEF ControllerInv
<1>3. CASE WaitRetried
  <2> DEFINE n == 0
  <2>1. /\ run.pc = "wait" /\ run.hold = 0 /\ sessions' = sessions /\ calls' = calls /\ n \in Nat /\ n = 0
        /\ ctl' = [ctl EXCEPT !.retry = n] /\ run' = [run EXCEPT !.pc = "begin"]
    BY <1>3 DEF WaitRetried, ControllerInv, Waits
  <2> HIDE DEF n
  <2>2. Moved(run', run, "begin")
    BY <2>1, Moves DEF ControllerInv, ControllerTypes
  <2>3. /\ ctl' \in Ctls /\ ctl'.state = ctl.state /\ ctl'.attempt = ctl.attempt /\ ctl'.session = ctl.session
        /\ ctl'.revision = ctl.revision /\ ctl'.changed = ctl.changed /\ ctl'.retry = 0
        /\ ctl'.done = ctl.done /\ ctl'.notBefore = ctl.notBefore
    BY <2>1 DEF ControllerInv, ControllerTypes, Ctls
  <2>4. ControllerTypes' /\ Phases' /\ Ownership'
    BY <2>1, <2>2, <2>3 DEF Moved, ControllerInv, ControllerTypes, Phases, Ownership, AllClosed
  <2>5. Counts'
    BY <2>1, <2>2, <2>3, Numbers DEF Moved, ControllerInv, Counts
  <2>6. Waits' /\ Closing'
    BY <2>1, <2>2, <2>3, ClosingKept DEF Moved, ControllerInv, Waits, BackoffDoubles
  <2> QED BY <2>4, <2>5, <2>6 DEF ControllerInv
<1>4. CASE WaitTimer
  <2>1. /\ run.pc = "wait" /\ run.delay = 0 /\ sessions' = sessions /\ calls' = calls
        /\ ctl' = [ctl EXCEPT !.notBefore = FALSE] /\ run' = [run EXCEPT !.pc = "begin"]
    BY <1>4 DEF WaitTimer, Goto
  <2>2. Moved(run', run, "begin") /\ run.hold = 0
    BY <2>1, Moves, Numbers DEF ControllerInv, ControllerTypes, Waits
  <2>3. /\ ctl' \in Ctls /\ ctl'.state = ctl.state /\ ctl'.attempt = ctl.attempt /\ ctl'.session = ctl.session
        /\ ctl'.revision = ctl.revision /\ ctl'.changed = ctl.changed /\ ctl'.retry = ctl.retry
        /\ ctl'.done = ctl.done
    BY <2>1, Zenon DEF ControllerInv, ControllerTypes, Ctls
  <2>4. ControllerTypes' /\ Phases' /\ Ownership'
    BY <2>1, <2>2, <2>3 DEF Moved, ControllerInv, ControllerTypes, Phases, Ownership, AllClosed
  <2>5. Counts'
    BY <2>1, <2>2, <2>3, Numbers DEF Moved, ControllerInv, Counts
  <2>6. Waits' /\ Closing'
    BY <2>1, <2>2, <2>3, ClosingKept DEF Moved, ControllerInv, Waits, BackoffDoubles
  <2> QED BY <2>4, <2>5, <2>6 DEF ControllerInv
<1> QED BY <1>1, <1>2, <1>3, <1>4

LEMMA NextAttemptKeeps ==
  ASSUME ControllerInv, beginNextAttempt
  PROVE  ControllerInv'
<1> DEFINE n == 0
           a == run.attempts + 1
           d == setSnapshotLocked(ctl, "connecting", a, 0)
<1>1. /\ run.pc = "begin" /\ sessions' = sessions /\ calls' = calls
      /\ run' = [run EXCEPT !.pc = "loop", !.attempts = a, !.kind = "terminal", !.delay = n]
      /\ ctl' = [d EXCEPT !.notBefore = FALSE] /\ n \in Nat
  BY DEF beginNextAttempt
<1>2. a \in Nat /\ ctl \in Ctls /\ "connecting" \in States
  BY Numbers DEF ControllerInv, ControllerTypes, States
<1> HIDE DEF n
<1>3. /\ run' \in Runs /\ run'.pc = "loop" /\ run'.attempts = a /\ run'.acquires = run.acquires /\ run'.tries = run.tries
  <2> HIDE DEF a, d
  <2> QED BY <1>1, <1>2, Zenon DEF ControllerInv, ControllerTypes, Runs, Kinds
<1>4. /\ d \in Ctls /\ d.state = "connecting" /\ d.attempt = a /\ d.session = 0
      /\ d.revision = ctl.revision + 1 /\ d.changed = ctl.changed + 1 /\ d.retry = ctl.retry /\ d.done = ctl.done
  <2> HIDE DEF a
  <2> QED BY <1>2, SnapshotNone
<1> HIDE DEF d
<1>5. /\ ctl' \in Ctls /\ ctl'.state = "connecting" /\ ctl'.attempt = a /\ ctl'.session = 0
      /\ ctl'.revision = ctl.revision + 1 /\ ctl'.changed = ctl.changed + 1 /\ ctl'.retry = ctl.retry
      /\ ctl'.done = ctl.done
  <2> HIDE DEF a
  <2> QED BY <1>1, <1>4, Zenon DEF Ctls
<1>6. ControllerTypes' /\ Phases' /\ Ownership'
  BY <1>1, <1>3, <1>5 DEF ControllerInv, ControllerTypes, Phases, Ownership, AllClosed
<1>7. Counts'
  <2>1. /\ run.attempts <= run.acquires /\ run.tries = run.attempts /\ run.acquires <= MaxAcquires
        /\ ctl.changed = ctl.revision /\ ctl.retry <= ctl.revision
        /\ (MaximumAttempts # 0 => run.attempts < MaximumAttempts)
    BY <1>1 DEF ControllerInv, Counts
  <2>2. /\ run.acquires \in Nat /\ run.tries \in Nat /\ run.attempts \in Nat /\ MaxAcquires \in Nat
        /\ MaximumAttempts \in Nat /\ ctl.revision \in Nat /\ ctl.retry \in Nat
    BY Numbers, ControllerAssumption DEF ControllerInv
  <2>3. /\ a <= run.acquires + 1 /\ a <= MaxAcquires + 1 /\ run.tries + 1 = a /\ ctl.retry <= ctl.revision + 1
        /\ ctl.changed + 1 = ctl.revision + 1 /\ (MaximumAttempts # 0 => a <= MaximumAttempts)
    BY <2>1, <2>2
  <2> HIDE DEF a
  <2> QED BY <1>3, <1>5, <2>1, <2>3 DEF Counts
<1>8. Waits' /\ Closing'
  BY <1>1, <1>3, ClosingKept DEF ControllerInv, Waits, BackoffDoubles
<1> QED BY <1>6, <1>7, <1>8 DEF ControllerInv

\* finishClosed and the deferred close of done.
LEMMA FinishKeeps ==
  ASSUME ControllerInv, finishClosed \/ finishClosesSession \/ closeDoneLocked
  PROVE  ControllerInv'
<1>1. CASE finishClosed
  <2> DEFINE pc == IF ctl.session = 0 THEN "return" ELSE "closeSession"
             d == setSnapshotLocked(ctl, "closed", ctl.attempt, 0)
  <2>1. /\ run.pc = "finish" /\ sessions' = sessions /\ calls' = calls /\ run' = [run EXCEPT !.pc = pc]
        /\ ctl' = [d EXCEPT !.notBefore = FALSE]
    BY <1>1 DEF finishClosed, Goto
  <2>2. pc \in {"return", "closeSession"} /\ (pc = "return" => ctl.session = 0) /\ (pc = "closeSession" => ctl.session # 0)
    OBVIOUS
  <2>3. ctl \in Ctls /\ "closed" \in States /\ ctl.attempt \in Nat
    BY Numbers DEF ControllerInv, ControllerTypes, States
  <2>4. /\ d \in Ctls /\ d.state = "closed" /\ d.attempt = ctl.attempt /\ d.session = 0
        /\ d.revision = ctl.revision + 1 /\ d.changed = ctl.changed + 1 /\ d.retry = ctl.retry /\ d.done = ctl.done
    BY <2>3, SnapshotNone
  <2> HIDE DEF d, pc
  <2>5. /\ ctl' \in Ctls /\ ctl'.state = "closed" /\ ctl'.attempt = ctl.attempt /\ ctl'.session = 0
        /\ ctl'.revision = ctl.revision + 1 /\ ctl'.changed = ctl.changed + 1 /\ ctl'.retry = ctl.retry
        /\ ctl'.done = ctl.done
    BY <2>1, <2>4, Zenon DEF Ctls
  <2>6. Moved(run', run, pc)
    BY <2>1, <2>2, Moves DEF ControllerInv, ControllerTypes
  <2>7. ControllerTypes' /\ Phases'
    BY <2>1, <2>2, <2>5, <2>6 DEF Moved, ControllerInv, ControllerTypes, Phases
  <2>8. Ownership'
    BY <2>1, <2>2, <2>5, <2>6, Numbers, SMTT(30) DEF Moved, ControllerInv, Ownership, AllClosed
  <2>9. Counts'
    BY <2>1, <2>2, <2>5, <2>6, Numbers, SMTT(30) DEF Moved, ControllerInv, Counts
  <2>10. Waits' /\ Closing'
    BY <2>1, <2>2, <2>6, ClosingKept DEF Moved, ControllerInv, Waits, BackoffDoubles
  <2> QED BY <2>7, <2>8, <2>9, <2>10 DEF ControllerInv
<1>2. CASE finishClosesSession
  <2>1. /\ run.pc = "closeSession" /\ ctl' = ctl /\ calls' = calls /\ run' = [run EXCEPT !.pc = "return"]
        /\ sessions' = [sessions EXCEPT ![Len(sessions)] = "closed"]
    BY <1>2 DEF finishClosesSession, Goto
  <2>2. Moved(run', run, "return")
    BY <2>1, Moves DEF ControllerInv, ControllerTypes
  <2>3. /\ sessions' \in Seq({"live", "ended", "closed"}) /\ Len(sessions') = Len(sessions)
        /\ \A i \in DOMAIN sessions' : sessions'[i] = "closed"
    BY <2>1 DEF ControllerInv, ControllerTypes, Ownership
  <2>4. ControllerTypes' /\ Phases' /\ Ownership'
    BY <2>1, <2>2, <2>3 DEF Moved, ControllerInv, ControllerTypes, Phases, Ownership, AllClosed
  <2>5. Counts' /\ Waits' /\ Closing'
    BY <2>1, <2>2, ClosingKept DEF Moved, ControllerInv, Counts, Waits, BackoffDoubles
  <2> QED BY <2>4, <2>5 DEF ControllerInv
<1>3. CASE closeDoneLocked
  <2>1. /\ run.pc = "return" /\ sessions' = sessions /\ calls' = calls /\ run' = [run EXCEPT !.pc = "over"]
        /\ ctl' = [ctl EXCEPT !.done = TRUE]
    BY <1>3 DEF closeDoneLocked, Goto
  <2>2. Moved(run', run, "over")
    BY <2>1, Moves DEF ControllerInv, ControllerTypes
  <2>3. /\ ctl' \in Ctls /\ ctl'.state = ctl.state /\ ctl'.attempt = ctl.attempt /\ ctl'.session = ctl.session
        /\ ctl'.revision = ctl.revision /\ ctl'.changed = ctl.changed /\ ctl'.retry = ctl.retry /\ ctl'.done
    BY <2>1, Zenon DEF ControllerInv, ControllerTypes, Ctls
  <2>4. ControllerTypes' /\ Phases' /\ Ownership'
    BY <2>1, <2>2, <2>3 DEF Moved, ControllerInv, ControllerTypes, Phases, Ownership, AllClosed
  <2>5. Counts' /\ Waits' /\ Closing'
    BY <2>1, <2>2, <2>3, ClosingKept DEF Moved, ControllerInv, Counts, Waits, BackoffDoubles
  <2> QED BY <2>4, <2>5 DEF ControllerInv
<1> QED BY <1>1, <1>2, <1>3

LEMMA SessionEndsKeeps ==
  ASSUME ControllerInv, NEW i \in DOMAIN sessions, SessionEnds(i)
  PROVE  ControllerInv'
<1>1. /\ ctl' = ctl /\ run' = run /\ calls' = calls /\ sessions[i] = "live"
      /\ sessions' = [sessions EXCEPT ![i] = "ended"]
  BY DEF SessionEnds
<1>2. /\ sessions' \in Seq({"live", "ended", "closed"}) /\ Len(sessions') = Len(sessions)
      /\ DOMAIN sessions' = DOMAIN sessions
      /\ \A j \in DOMAIN sessions : sessions[j] = "closed" => sessions'[j] = "closed"
  BY <1>1 DEF ControllerInv, ControllerTypes
<1>3. ControllerTypes' /\ Ownership'
  BY <1>1, <1>2 DEF ControllerInv, ControllerTypes, Ownership, AllClosed
<1>4. Phases'
  BY <1>1, <1>2 DEF ControllerInv, ControllerTypes, Phases
<1>5. Counts' /\ Waits' /\ Closing'
  BY <1>1 DEF ControllerInv, Counts, Waits, BackoffDoubles, Closing
<1> QED BY <1>3, <1>4, <1>5 DEF ControllerInv

LEMMA CallMoves ==
  ASSUME calls \in [Closers \cup Waiters -> ControllerCalls], NEW c \in Closers,
         NEW at \in {"out", "blocked", "canceling", "waiting", "returned", "gaveUp"},
         calls' = [calls EXCEPT ![c].at = at]
  PROVE  /\ calls' \in [Closers \cup Waiters -> ControllerCalls]
         /\ \A k \in Closers : calls'[k].at = IF k = c THEN at ELSE calls[k].at
  BY DEF ControllerCalls

\* ToClosed: the snapshot of a closed controller is final.
LEMMA ClosedSnapshot ==
  ASSUME NEW c \in Ctls, NEW d, d = ToClosed(c)
  PROVE  /\ d \in Ctls /\ d.state = "closed" /\ d.attempt = c.attempt /\ d.session = (IF c.state = "closed" THEN c.session ELSE 0)
         /\ d.revision = (IF c.state = "closed" THEN c.revision ELSE c.revision + 1)
         /\ d.changed = (IF c.state = "closed" THEN c.changed ELSE c.changed + 1) /\ d.retry = c.retry
         /\ d.done = c.done
<1>1. CASE c.state = "closed"
  BY <1>1 DEF ToClosed
<1>2. CASE c.state # "closed"
  <2>1. c.attempt \in Nat /\ "closed" \in States /\ d = setSnapshotLocked(c, "closed", c.attempt, 0)
    BY <1>2 DEF Ctls, States, ToClosed
  <2> QED BY <1>2, <2>1, SnapshotNone
<1> QED BY <1>1, <1>2

\* Close.
LEMMA CloseKeeps ==
  ASSUME ControllerInv, NEW c \in Closers,
         CloseBegins(c) \/ CloseCancels(c) \/ CloseReturns(c) \/ CloseGivesUp(c)
  PROVE  ControllerInv'
<1>1. run' = run /\ sessions' = sessions /\ ctl \in Ctls
  BY DEF CloseBegins, CloseCancels, CloseReturns, CloseGivesUp, ControllerInv, ControllerTypes
<1>2. CASE CloseBegins(c) /\ ~started
  <2> DEFINE d == ToClosed(ctl)
  <2>1. /\ run.pc = "off" /\ ctl' = [d EXCEPT !.done = TRUE] /\ calls' = [calls EXCEPT ![c].at = "returned"]
    BY <1>2 DEF CloseBegins, started
  <2>2. /\ d \in Ctls /\ d.state = "closed" /\ d.attempt = ctl.attempt /\ d.session = (IF ctl.state = "closed" THEN ctl.session ELSE 0)
        /\ d.revision = (IF ctl.state = "closed" THEN ctl.revision ELSE ctl.revision + 1)
        /\ d.changed = (IF ctl.state = "closed" THEN ctl.changed ELSE ctl.changed + 1) /\ d.retry = ctl.retry
    BY <1>1, ClosedSnapshot
  <2> HIDE DEF d
  <2>3. /\ ctl' \in Ctls /\ ctl'.state = "closed" /\ ctl'.attempt = ctl.attempt /\ ctl'.session = d.session
        /\ ctl'.revision = d.revision /\ ctl'.changed = d.changed /\ ctl'.retry = ctl.retry /\ ctl'.done
    BY <2>1, <2>2, Zenon DEF Ctls
  <2>4. /\ calls' \in [Closers \cup Waiters -> ControllerCalls]
        /\ \A k \in Closers : calls'[k].at = IF k = c THEN "returned" ELSE calls[k].at
    BY <2>1, CallMoves, Zenon DEF ControllerInv, ControllerTypes
  <2>5. ControllerTypes' /\ Phases'
    BY <1>1, <2>1, <2>3, <2>4 DEF ControllerInv, ControllerTypes, Phases
  <2>6. Ownership' /\ Closing'
    BY <1>1, <2>1, <2>2, <2>3, <2>4 DEF ControllerInv, Ownership, AllClosed, Closing
  <2>7. Counts'
    BY <1>1, <2>1, <2>2, <2>3, Numbers DEF ControllerInv, Counts
  <2>8. Waits'
    BY <1>1, <2>1 DEF ControllerInv, Waits, BackoffDoubles
  <2> QED BY <2>5, <2>6, <2>7, <2>8 DEF ControllerInv
<1>3. CASE CloseReturns(c)
  <2>1. /\ calls[c].at = "waiting" /\ ctl.done /\ ctl' = ToClosed(ctl) /\ calls' = [calls EXCEPT ![c].at = "returned"]
    BY <1>3 DEF CloseReturns, doneClosed
  <2>2. run.pc = "over" /\ ctl.session = 0
    BY <2>1 DEF ControllerInv, Phases, Closing, Ownership
  <2>3. /\ ctl' \in Ctls /\ ctl'.state = "closed" /\ ctl'.attempt = ctl.attempt /\ ctl'.session = 0
        /\ ctl'.revision = (IF ctl.state = "closed" THEN ctl.revision ELSE ctl.revision + 1)
        /\ ctl'.changed = (IF ctl.state = "closed" THEN ctl.changed ELSE ctl.changed + 1) /\ ctl'.retry = ctl.retry
        /\ ctl'.done = ctl.done
    BY <1>1, <2>1, <2>2, ClosedSnapshot, Zenon
  <2>4. /\ calls' \in [Closers \cup Waiters -> ControllerCalls]
        /\ \A k \in Closers : calls'[k].at = IF k = c THEN "returned" ELSE calls[k].at
    BY <2>1, CallMoves, Zenon DEF ControllerInv, ControllerTypes
  <2>5. ControllerTypes' /\ Phases'
    BY <1>1, <2>1, <2>2, <2>3, <2>4 DEF ControllerInv, ControllerTypes, Phases
  <2>6. Ownership' /\ Closing'
    BY <1>1, <2>2, <2>3, <2>4 DEF ControllerInv, Ownership, AllClosed, Closing
  <2>7. Counts'
    BY <1>1, <2>2, <2>3, Numbers DEF ControllerInv, Counts
  <2>8. Waits'
    BY <1>1, <2>2 DEF ControllerInv, Waits, BackoffDoubles
  <2> QED BY <2>5, <2>6, <2>7, <2>8 DEF ControllerInv
<1>4. CASE CloseCancels(c) \/ CloseGivesUp(c) \/ (CloseBegins(c) /\ started)
  <2>1. PICK at \in {"canceling", "waiting", "gaveUp"} : calls' = [calls EXCEPT ![c].at = at]
    BY <1>4 DEF CloseCancels, CloseGivesUp, CloseBegins
  <2>2. run.pc # "off"
    BY <1>4 DEF CloseCancels, CloseGivesUp, CloseBegins, started, ControllerInv, Closing
  <2>3. ctl' = ctl \/ ctl' = [ctl EXCEPT !.canceled = TRUE]
    BY <1>4 DEF CloseCancels, CloseGivesUp, CloseBegins
  <2>4. /\ ctl' \in Ctls /\ ctl'.state = ctl.state /\ ctl'.attempt = ctl.attempt /\ ctl'.session = ctl.session
        /\ ctl'.revision = ctl.revision /\ ctl'.changed = ctl.changed /\ ctl'.retry = ctl.retry
        /\ ctl'.done = ctl.done /\ ctl'.notBefore = ctl.notBefore
    BY <1>1, <2>3, Zenon DEF Ctls
  <2>5. /\ calls' \in [Closers \cup Waiters -> ControllerCalls]
        /\ \A k \in Closers : calls'[k].at = IF k = c THEN at ELSE calls[k].at
    BY <2>1, CallMoves, Zenon DEF ControllerInv, ControllerTypes
  <2>6. ControllerTypes' /\ Phases' /\ Ownership' /\ Counts'
    BY <1>1, <2>4, <2>5 DEF ControllerInv, ControllerTypes, Phases, Ownership, AllClosed, Counts
  <2>7. Waits' /\ Closing'
    BY <1>1, <2>2, <2>4, <2>5 DEF ControllerInv, Waits, BackoffDoubles, Closing
  <2> QED BY <2>6, <2>7 DEF ControllerInv
<1> QED BY <1>2, <1>3, <1>4

LEMMA StepController == ControllerInv /\ [ControllerNext]_controllerVars => ControllerInv'
<1> SUFFICES ASSUME ControllerInv, [ControllerNext]_controllerVars PROVE ControllerInv'
  OBVIOUS
<1>1. CASE Users
  BY <1>1, UsersKeep, WaitersKeep, CloseKeeps, SessionEndsKeeps DEF Users
<1>2. CASE Scheduler
  BY <1>2, RunLoopsKeeps, PublishKeeps, WaitBeginKeeps, WaitEndKeeps, NextAttemptKeeps, FinishKeeps, TerminationKeeps
     DEF Scheduler
<1>3. CASE Acquire \/ Connect
  BY <1>3, AcquireKeeps, ConnectKeeps
<1>4. CASE UNCHANGED controllerVars
  <2>1. ControllerTypes' /\ Phases' /\ Ownership'
    BY <1>4 DEF controllerVars, ControllerInv, ControllerTypes, Phases, Ownership, AllClosed
  <2>2. Counts' /\ Closing'
    BY <1>4 DEF controllerVars, ControllerInv, Counts, Closing
  <2>3. Waits'
    BY <1>4 DEF controllerVars, ControllerInv, Waits, BackoffDoubles
  <2> QED BY <2>1, <2>2, <2>3 DEF ControllerInv
<1> QED BY <1>1, <1>2, <1>3, <1>4 DEF ControllerNext

-----------------------------------------------------------------------------
(* The properties.                                                          *)

LEMMA ControllerAlways == ControllerSpec => []ControllerInv
  BY InitController, StepController, PTL DEF ControllerSpec

\* However Start, RetryNow, Close and the ends of sessions interleave with the scheduler, the controller owns at
\* most one session that is not closed, none once done is closed, and a Close that returned is final.
THEOREM ControllerOwnsOneSession == ControllerSpec => []OneLiveSession
<1>1. ControllerInv => OneLiveSession
  <2> SUFFICES ASSUME ControllerInv PROVE OneLiveSession
    OBVIOUS
  <2>1. ControllerTypeOK
    <3>1. ControllerTypes /\ Ownership /\ Counts
      BY DEF ControllerInv
    <3>2. ctl.attempt \in Nat /\ ctl.session \in Nat /\ ctl.revision \in Nat /\ ctl.changed \in Nat /\ ctl.retry \in Nat
          /\ run.attempts \in Nat /\ run.acquires \in Nat /\ run.hold \in Nat /\ run.delay \in Nat
          /\ Len(sessions) \in Nat /\ MaxAcquires \in Nat
      BY <3>1, Numbers, ControllerAssumption
    <3>3. run.kind \in {"terminal", "retryable", "retry_after"}
          /\ ctl.state \in {"idle", "connecting", "connected", "waiting", "failed", "closed"}
      BY <3>1, Numbers, Zenon DEF Kinds, States
    <3>4. \A i \in DOMAIN sessions : sessions[i] \in {"live", "ended", "closed"}
      BY <3>1 DEF ControllerTypes
    <3>5. ctl.session \in 0..Len(sessions)
      <4>1. ctl.session # 0 => ctl.session = Len(sessions)
        BY <3>1 DEF Ownership
      <4> QED BY <3>2, <4>1
    <3>6. ctl.retry <= ctl.revision /\ ctl.changed = ctl.revision /\ ctl.attempt <= MaxAcquires + 1
          /\ run.acquires <= MaxAcquires /\ run.attempts <= run.acquires + 1
      BY <3>1, Zenon DEF Counts
    <3>7. ctl.attempt \in 0..MaxAcquires + 1 /\ run.attempts \in 0..MaxAcquires + 1
          /\ ctl.retry \in 0..ctl.revision /\ ctl.changed \in 0..ctl.revision
      BY <3>2, <3>6
    <3> QED BY <3>2, <3>3, <3>4, <3>5, <3>7, Zenon DEF ControllerTypeOK
  <2>2. AtMostOneOpen
    BY DEF ControllerInv, Phases, Ownership, AllClosed, AtMostOneOpen
  <2>3. ClosedIsFinal
    BY DEF ControllerInv, Ownership, AllClosed, Closing, ClosedIsFinal
  <2> QED BY <2>1, <2>2, <2>3 DEF OneLiveSession
<1> QED BY <1>1, ControllerAlways, PTL

\* For every delay, factor, limit and retry_after deadline: no wait is cut short by an old token or ends before its
\* deadline, attempts are counted and limited, and the backoff is the capped geometric one.
THEOREM ControllerPacesAttempts == ControllerSpec => []AttemptsPaced
<1>1. ControllerInv => AttemptsPaced
  <2> SUFFICES ASSUME ControllerInv PROVE AttemptsPaced
    OBVIOUS
  <2>1. TokenOfThisWait /\ DeadlineKept /\ BackoffDoubles
    BY DEF ControllerInv, Waits, TokenOfThisWait, DeadlineKept
  <2>2. AttemptsCounted
    BY DEF ControllerInv, Counts, AttemptsCounted
  <2> QED BY <2>1, <2>2 DEF AttemptsPaced
<1> QED BY <1>1, ControllerAlways, PTL

-----------------------------------------------------------------------------
(* The refinement: what a watcher of the snapshots sees.                    *)

Watched(c, d) ==
  \/ d.state = c.state /\ d.session = c.session
  \/ c.state = "idle" /\ d.state = "connecting" /\ d.session = c.session
  \/ c.state = "connecting" /\ d.state = "connected" /\ c.session = 0 /\ d.session # 0
  \/ c.state \in {"connecting", "connected"} /\ d.state \in {"waiting", "failed"} /\ d.session = 0
  \/ c.state = "waiting" /\ d.state = "connecting" /\ d.session = c.session
  \/ c.state # "closed" /\ d.state = "closed" /\ d.session = 0

\* The token leaves the channel of a waiting scheduler.
TokenTaken(c, d) == c.state = "waiting" /\ c.retry # 0 /\ d.retry = 0

LEMMA FailureWatched ==
  ASSUME ControllerInv, run.pc \in {"acquire", "connect", "session"}, NEW kind, NEW after, NEW ordinal,
         UnlessCanceled(handleFailure(kind, after, ordinal)) \/ UnlessCanceled(fail)
  PROVE  Watched(ctl, ctl') /\ ~TokenTaken(ctl, ctl')
<1>1. ctl' = ctl \/ ctl' = setSnapshotLocked(ctl, "failed", ctl.attempt, 0)
  BY DEF UnlessCanceled, handleFailure, fail
<1>2. ctl.state \in {"connecting", "connected"} /\ ctl \in Ctls
  BY DEF ControllerInv, ControllerTypes, Phases
<1> QED BY <1>1, <1>2, Zenon DEF setSnapshotLocked, Ctls, Watched, TokenTaken

LEMMA UsersWatched ==
  ASSUME ControllerInv, Users
  PROVE  Watched(ctl, ctl') /\ ~TokenTaken(ctl, ctl')
<1>1. ctl \in Ctls
  BY DEF ControllerInv, ControllerTypes
<1>2. CASE Start
  BY <1>1, <1>2 DEF Start, setSnapshotLocked, started, Ctls, Watched, TokenTaken, ControllerInv, Ownership
<1>3. CASE ParentCanceled \/ \E c \in Closers : CloseCancels(c)
  BY <1>1, <1>3 DEF ParentCanceled, CloseCancels, Ctls, Watched, TokenTaken
<1>4. CASE RetryNow
  BY <1>1, <1>4 DEF RetryNow, Ctls, Watched, TokenTaken
<1>5. CASE \/ \E w \in Waiters : WaiterChecks(w) \/ WaiterWakes(w)
           \/ \E c \in Closers : CloseGivesUp(c)
           \/ \E i \in DOMAIN sessions : SessionEnds(i)
  BY <1>5, Zenon DEF WaiterChecks, WaiterWakes, CloseGivesUp, SessionEnds, Watched, TokenTaken
<1>6. ASSUME NEW c \in Closers, CloseBegins(c) \/ CloseReturns(c)
      PROVE  Watched(ctl, ctl') /\ ~TokenTaken(ctl, ctl')
  <2> DEFINE d == ToClosed(ctl)
  <2>1. ctl' = ctl \/ ctl' = d \/ ctl' = [d EXCEPT !.done = TRUE]
    BY <1>6 DEF CloseBegins, CloseReturns
  <2>2. /\ d \in Ctls /\ d.state = "closed" /\ d.session = (IF ctl.state = "closed" THEN ctl.session ELSE 0)
        /\ d.retry = ctl.retry
    BY <1>1, ClosedSnapshot
  <2> HIDE DEF d
  <2>3. ctl' = ctl \/ (ctl'.state = d.state /\ ctl'.session = d.session /\ ctl'.retry = d.retry)
    BY <2>1, <2>2 DEF Ctls
  <2> QED BY <2>2, <2>3 DEF Watched, TokenTaken
<1> QED BY <1>2, <1>3, <1>4, <1>5, <1>6 DEF Users

LEMMA SchedulerWatched ==
  ASSUME ControllerInv, Scheduler \/ Acquire \/ Connect
  PROVE  Watched(ctl, ctl') /\ (TokenTaken(ctl, ctl') => run'.pc = "begin")
<1>1. ctl \in Ctls /\ run \in Runs
  BY DEF ControllerInv, ControllerTypes
<1>2. CASE RunLoops \/ AcquireLeases \/ ConnectReturns \/ Tick \/ WaitCanceled \/ finishClosesSession
  BY <1>2 DEF RunLoops, AcquireLeases, ConnectReturns, Tick, WaitCanceled, finishClosesSession, UnlessCanceled,
              Watched, TokenTaken
<1>3. CASE AcquireUnusable
  <2>1. run.pc = "acquire" /\ UnlessCanceled(fail)
    BY <1>3 DEF AcquireUnusable
  <2> QED BY <2>1, FailureWatched
<1>4. CASE \E kind, after : AcquireFails(kind, after)
  BY <1>4, FailureWatched DEF AcquireFails
<1>5. CASE \E code : ConnectFails(code)
  BY <1>5, FailureWatched DEF ConnectFails
<1>6. CASE \E code : WaitTerminationReturns(code)
  BY <1>6, FailureWatched DEF WaitTerminationReturns
<1>7. CASE publishConnected
  BY <1>1, <1>7, Numbers
     DEF publishConnected, setSnapshotLocked, Ctls, Watched, TokenTaken, ControllerInv, Phases, Ownership
<1>8. CASE WaitDrains \/ WaitArms
  BY <1>1, <1>8, Zenon DEF WaitDrains, WaitArms, drainRetry, setSnapshotLocked, Ctls, Watched, TokenTaken, ControllerInv, Phases
<1>9. CASE WaitTimer \/ closeDoneLocked
  BY <1>1, <1>9 DEF WaitTimer, closeDoneLocked, Ctls, Watched, TokenTaken
<1>10. CASE WaitRetried
  <2>1. run.hold = 0
    BY <1>10 DEF WaitRetried, ControllerInv, Waits
  <2> QED BY <1>1, <1>10, <2>1 DEF WaitRetried, Ctls, Runs, Watched
<1>11. CASE beginNextAttempt \/ finishClosed
  BY <1>1, <1>11, Zenon DEF beginNextAttempt, finishClosed, setSnapshotLocked, Ctls, Watched, TokenTaken, ControllerInv,
                     Phases, Ownership
<1> QED BY <1>2, <1>3, <1>4, <1>5, <1>6, <1>7, <1>8, <1>9, <1>10, <1>11 DEF Scheduler, Acquire, Connect

\* The snapshots of the controller implement the abstract lifecycle, and a RetryNow that returned true ends the wait.
THEOREM ControllerImplementsLifecycle == ControllerSpec => ImplementsLifecycle
<1>1. ControllerInit => Lifecycle!Init
  BY DEF ControllerInit, Lifecycle!Init
<1>2. ASSUME ControllerInv, [ControllerNext]_controllerVars
      PROVE  Watched(ctl, ctl') /\ (TokenTaken(ctl, ctl') => run'.pc = "begin")
  <2>1. CASE UNCHANGED controllerVars
    BY <2>1 DEF controllerVars, Watched, TokenTaken
  <2> QED BY <1>2, <2>1, UsersWatched, SchedulerWatched DEF ControllerNext
<1>3. Watched(ctl, ctl') => [Lifecycle!Next]_(Lifecycle!vars)
  BY DEF Watched, Lifecycle!Next, Lifecycle!Start, Lifecycle!Connected, Lifecycle!Failed, Lifecycle!Retry,
         Lifecycle!Closed, Lifecycle!vars
<1>4. (TokenTaken(ctl, ctl') => run'.pc = "begin") =>
        [ctl.state = "waiting" /\ ctl.retry # 0 /\ ctl'.retry = 0 => run'.pc = "begin"]_controllerVars
  BY DEF TokenTaken
<1>5. ControllerInv /\ [ControllerNext]_controllerVars =>
        /\ [Lifecycle!Next]_(Lifecycle!vars)
        /\ [ctl.state = "waiting" /\ ctl.retry # 0 /\ ctl'.retry = 0 => run'.pc = "begin"]_controllerVars
  BY <1>2, <1>3, <1>4
<1> QED BY <1>1, <1>5, ControllerAlways, PTL DEF ControllerSpec, ImplementsLifecycle, Lifecycle!Spec, RetryNowWakes
=============================================================================
