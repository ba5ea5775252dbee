----------------------------- MODULE PumpCore -----------------------------
(* What the two weak-network pumps share (internal/weaknet/pump.go): one    *)
(* Run, a Close that may come at any moment of it, the run context with the *)
(* goroutine that closes the connections when it ends, and the clock.       *)
EXTENDS Integers

CONSTANTS MaxTime,      \* bound: ticks of the clock
          LastArrival   \* bound: the source sends nothing later

VARIABLES core,     \* pumpCore, with the context of the caller of Run
          closer,   \* the goroutine that calls Close
          now       \* PumpClock

coreVars == <<core, closer, now>>

CoreInit ==
  /\ core = [explicit |-> FALSE, bound |-> FALSE, canceled |-> FALSE,
             parent |-> FALSE, conns |-> "open"]
  /\ closer = "idle" /\ now = 0

\* The run context ends with its parent's or by cancel.
runDone == core.bound /\ (core.canceled \/ core.parent)

closeConnections(c) == [c EXCEPT !.conns = "closed"]
cancelRun(c) == [c EXCEPT !.canceled = @ \/ c.bound]

\* bindCancel: a Close that found no cancel to call is made up for here.
lateClose == core.explicit
bindCancel == [core EXCEPT !.bound = TRUE, !.canceled = lateClose]

ParentCanceled == ~core.parent /\ core' = [core EXCEPT !.parent = TRUE]
                  /\ UNCHANGED <<closer, now>>

\* context.AfterFunc(runCtx, closeConnections)
AfterFunc == runDone /\ core.conns = "open" /\ core' = closeConnections(core)
             /\ UNCHANGED <<closer, now>>

\* closeExplicitly, in its three steps.
CloseStores == /\ closer = "idle" /\ closer' = "cancel"
               /\ core' = [core EXCEPT !.explicit = TRUE] /\ UNCHANGED now
CloseCancels == /\ closer = "cancel" /\ closer' = "conns"
                /\ core' = cancelRun(core) /\ UNCHANGED now
CloseConns == /\ closer = "conns" /\ closer' = "over"
              /\ core' = closeConnections(core) /\ UNCHANGED now

Tick == now < MaxTime /\ now' = now + 1 /\ UNCHANGED <<core, closer>>

\* classify: what Run reports before it looks at its own errors.
classify(fallback) ==
  IF core.parent THEN "canceled"
  ELSE IF core.explicit THEN "closed" ELSE fallback

CoreNext == \/ AfterFunc \/ CloseCancels \/ CloseConns \/ Tick

-----------------------------------------------------------------------------
(* The token bucket of the weak-network relays (internal/weaknet/rate.go): *)
(* a copy of the bucket is scheduled and kept only when scheduling it      *)
(* succeeded. Time is counted in ticks, Second of them to a second, and    *)
(* the fraction of a byte that a tick earns is carried in remainder.       *)
CONSTANT Second

enabled(rate) == rate.bytesPerSecond > 0 \/ rate.burstBytes > 0

newTokenBucket(rate) ==
  [profile |-> rate, tokens |-> rate.burstBytes, last |-> 0, remainder |-> 0,
   started |-> FALSE]

\* A full bucket keeps no fraction either.
capped(b) ==
  IF b.tokens >= b.profile.burstBytes
  THEN [b EXCEPT !.tokens = b.profile.burstBytes, !.remainder = 0]
  ELSE b

refill(b, elapsed) ==
  LET numerator == elapsed * b.profile.bytesPerSecond + b.remainder IN
  IF elapsed <= 0 THEN b
  ELSE capped([b EXCEPT !.tokens = @ + numerator \div Second,
                        !.remainder = numerator % Second])

\* The bucket when a unit arrives: a unit that is ready before the bucket's
\* last departure is held until it.
arrived(b, at) ==
  IF ~b.started THEN [b EXCEPT !.started = TRUE, !.last = at]
  ELSE IF at > b.last THEN [refill(b, at - b.last) EXCEPT !.last = at]
  ELSE b

spent(b, size) == [b EXCEPT !.tokens = @ - size]

waited(b, size) ==
  LET numerator == (size - b.tokens) * Second - b.remainder
      wait == (numerator + b.profile.bytesPerSecond - 1)
                \div b.profile.bytesPerSecond
  IN  [refill(b, wait) EXCEPT !.last = @ + wait]

\* schedule: when a unit of this size may leave, and the bucket afterwards.
schedule(b, at, size) ==
  LET c == arrived(b, at)
      w == waited(c, size)
      failed == [ok |-> FALSE, ready |-> 0, limited |-> FALSE, rate |-> b]
  IN  CASE ~enabled(b.profile) \/ size = 0 ->
             [ok |-> TRUE, ready |-> at, limited |-> FALSE, rate |-> b]
        [] OTHER ->
             IF size > b.profile.burstBytes THEN failed
             ELSE IF c.tokens >= size
             THEN [ok |-> TRUE, ready |-> c.last, limited |-> FALSE,
                   rate |-> spent(c, size)]
             ELSE IF w.tokens < size THEN failed
             ELSE [ok |-> TRUE, ready |-> w.last, limited |-> TRUE,
                   rate |-> spent(w, size)]

\* rate.validate
validRate(rate) ==
  enabled(rate) => rate.bytesPerSecond > 0 /\ rate.burstBytes > 0
=============================================================================
