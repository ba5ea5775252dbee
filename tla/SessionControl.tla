--------------------------- MODULE SessionControl ---------------------------
(* The control actor of the two ends of a session: the bounded queue and its   *)
(* writer, the reader, liveness probes, the idle timer, and the three ways a    *)
(* session ends (Close, the peer's SESSION_CLOSE, fail), which share one        *)
(* sync.Once: a caller that comes second waits for the first to finish.         *)
EXTENDS Integers, Sequences, FiniteSets

CONSTANTS Scenarios,    \* [probes, closers, idle: per-end sets; normalCap;
                        \* timeouts, cancel, loss: whether these happen]
          PipeCapacity, \* records in flight before flow control blocks the writer
          CriticalCap   \* controlCriticalCap

VARIABLES scenario,
          ses,   \* per end: lifecycle, cause, once, queue, pings, carrier
          task,  \* per end: where the writer, reader, idle loop and Close are
          probe, \* per end and probe: [at, nonce]
          pipe,  \* per sender: control records not yet read
          heard  \* history: the probes whose PING the peer has read

controlVars == <<scenario, ses, task, probe, pipe, heard>>

Ends == {"a", "b"}
other(e) == IF e = "a" THEN "b" ELSE "a"
Workers == {"writer", "reader", "idler"}
AllProbes == UNION {s.probes["a"] \cup s.probes["b"] : s \in Scenarios}

NewSession ==
  [life |-> "open", cause |-> "", once |-> "free", peerClosed |-> FALSE, goingAway |-> FALSE,
   queue |-> <<>>, wake |-> FALSE, pings |-> {}, nextPing |-> 1, writeClosed |-> FALSE,
   carrier |-> "open"]

Init ==
  /\ scenario \in Scenarios
  /\ ses = [e \in Ends |-> NewSession]
  /\ task = [e \in Ends |-> [writer |-> "wait", reader |-> "run", closer |-> "none", late |-> FALSE,
                             idler |-> IF e \in scenario.idle THEN "run" ELSE "gone"]]
  /\ probe = [e \in Ends |-> [p \in AllProbes |-> [at |-> "none", nonce |-> 0]]]
  /\ pipe = [e \in Ends |-> <<>>] /\ heard = [e \in Ends |-> {}]

-----------------------------------------------------------------------------
(* commitControl: PING and PONG share a small budget, everything else has its  *)
(* own, and a record that is accepted wakes the writer.                        *)
Record(type, nonce, of) == [type |-> type, nonce |-> nonce, of |-> of]
critical(type) == type \notin {"ping", "pong"}
queued(s, c) == Cardinality({i \in DOMAIN s.queue : critical(s.queue[i].type) = c})
full(s, type) ==
  queued(s, critical(type)) >= (IF critical(type) THEN CriticalCap ELSE scenario.normalCap)

commitControl(s, r) ==
  IF full(s, r.type) THEN s
  ELSE [s EXCEPT !.queue = Append(@, r), !.wake = TRUE]

sendGoAway(s) == commitControl([s EXCEPT !.goingAway = TRUE], Record("goaway", 0, 0))
sendClose(s) == commitControl(s, Record("close", 0, 0))

beginClosing(s) ==
  IF s.life = "open" THEN [s EXCEPT !.life = "closing", !.goingAway = TRUE] ELSE s
markClosed(s) == [s EXCEPT !.life = "closed", !.goingAway = TRUE]
\* cancel, markClosed and closeCarrierWithin end the session; Once is done.
firstCause(s, cause) == IF s.cause = "" THEN cause ELSE s.cause
teardown(s, cause) ==
  [markClosed(s) EXCEPT !.cause = firstCause(s, cause), !.carrier = "closed", !.once = "done"]

\* fail, called by worker w: a no-op once another path owns the end of the session,
\* but only after that path has finished.
ownsEnd(s) == s.once = "free"
fail(e, w, cause) ==
  /\ ses' = IF ownsEnd(ses[e]) THEN [ses EXCEPT ![e] = teardown(@, cause)] ELSE ses
  /\ task' = [task EXCEPT ![e][w] = IF ses[e].once = "busy" THEN "once" ELSE "gone"]

Released(e, w) ==
  /\ task[e][w] = "once" /\ ses[e].once = "done"
  /\ task' = [task EXCEPT ![e][w] = "gone"]
  /\ UNCHANGED <<scenario, ses, probe, pipe, heard>>

-----------------------------------------------------------------------------
(* controlWriterLoop.                                                          *)
canWrite(e) == ~ses[e].writeClosed /\ ses[e].carrier = "open"

WriterWakes(e) ==
  /\ task[e].writer = "wait" /\ ses[e].wake
  /\ ses' = [ses EXCEPT ![e].wake = FALSE] /\ task' = [task EXCEPT ![e].writer = "drain"]
  /\ UNCHANGED <<scenario, probe, pipe, heard>>

WriterStops(e) ==
  /\ task[e].writer = "wait" /\ ses[e].cause # ""
  /\ task' = [task EXCEPT ![e].writer = "gone"]
  /\ UNCHANGED <<scenario, ses, probe, pipe, heard>>

WriterWrites(e) ==
  /\ task[e].writer = "drain" /\ ses[e].queue # <<>>
  /\ canWrite(e) /\ Len(pipe[e]) < PipeCapacity
  /\ pipe' = [pipe EXCEPT ![e] = Append(@, Head(ses[e].queue))]
  /\ ses' = [ses EXCEPT ![e].queue = Tail(@)]
  /\ UNCHANGED <<scenario, task, probe, heard>>

WriterDrained(e) ==
  /\ task[e].writer = "drain" /\ ses[e].queue = <<>>
  /\ task' = [task EXCEPT ![e].writer = "wait"]
  /\ UNCHANGED <<scenario, ses, probe, pipe, heard>>

WriterFails(e) ==
  /\ task[e].writer = "drain" /\ ses[e].queue # <<>> /\ ~canWrite(e)
  /\ IF ses[e].cause = "" THEN fail(e, "writer", "protocol")
                          ELSE task' = [task EXCEPT ![e].writer = "gone"] /\ UNCHANGED ses
  /\ UNCHANGED <<scenario, probe, pipe, heard>>

-----------------------------------------------------------------------------
(* controlLoop and handleControl.                                              *)
next(e) == Head(pipe[other(e)])
reads(e, type) ==
  /\ task[e].reader = "run" /\ ses[e].carrier = "open"
  /\ pipe[other(e)] # <<>> /\ next(e).type = type
  /\ pipe' = [pipe EXCEPT ![other(e)] = Tail(@)]

\* A PONG that finds the queue full fails the session.
ReadPing(e) ==
  /\ reads(e, "ping") /\ heard' = [heard EXCEPT ![other(e)] = @ \cup {next(e).of}]
  /\ IF full(ses[e], "pong") THEN fail(e, "reader", "protocol")
     ELSE /\ ses' = [ses EXCEPT ![e] = commitControl(@, Record("pong", next(e).nonce, 0))]
          /\ UNCHANGED task
  /\ UNCHANGED <<scenario, probe>>

ReadPong(e) ==
  /\ reads(e, "pong")
  /\ LET n == next(e).nonce
     IN /\ probe' = [probe EXCEPT ![e] = [p \in AllProbes |->
                       IF @[p].at = "waiting" /\ @[p].nonce = n /\ n \in ses[e].pings
                         THEN [@[p] EXCEPT !.at = "answered"] ELSE @[p]]]
        /\ ses' = [ses EXCEPT ![e].pings = @ \ {n}]
  /\ UNCHANGED <<scenario, task, heard>>

ReadGoAway(e) ==
  /\ reads(e, "goaway") /\ ses' = [ses EXCEPT ![e].goingAway = TRUE]
  /\ UNCHANGED <<scenario, task, probe, heard>>

\* handlePeerSessionClose signals a waiting Close before it asks for the Once.
ReadClose(e) ==
  /\ reads(e, "close")
  /\ LET s == [ses[e] EXCEPT !.peerClosed = TRUE]
     IN /\ ses' = [ses EXCEPT ![e] = IF s.once = "free"
                     THEN sendClose(beginClosing([s EXCEPT !.once = "busy"])) ELSE s]
        /\ task' = [task EXCEPT ![e].reader =
                      CASE s.once = "free" -> "flush" [] s.once = "busy" -> "once" [] OTHER -> "gone"]
  /\ UNCHANGED <<scenario, probe, heard>>

\* flushControl returns: the queue is empty, the peer has closed, or ctx is over.
flushed(s) == s.queue = <<>> \/ s.peerClosed \/ s.cause # ""
PeerCloseFlushed(e) ==
  /\ task[e].reader = "flush" /\ flushed(ses[e])
  /\ ses' = [ses EXCEPT ![e].writeClosed = TRUE]
  /\ task' = [task EXCEPT ![e].reader = "teardown"]
  /\ UNCHANGED <<scenario, probe, pipe, heard>>
PeerCloseEnds(e) ==
  /\ task[e].reader = "teardown"
  /\ ses' = [ses EXCEPT ![e] = teardown(@, "closed")] /\ task' = [task EXCEPT ![e].reader = "gone"]
  /\ UNCHANGED <<scenario, probe, pipe, heard>>

\* A read fails: the peer closed its side of the stream, or the carrier is gone.
readFails(e) ==
  \/ ses[e].carrier # "open"
  \/ pipe[other(e)] = <<>> /\ ses[other(e)].writeClosed
isClosing(s) == s.life # "open"
ReaderFails(e) ==
  /\ task[e].reader = "run" /\ readFails(e)
  /\ CASE ses[e].cause # "" -> task' = [task EXCEPT ![e].reader = "gone"] /\ UNCHANGED ses
       [] ses[e].cause = "" /\ isClosing(ses[e]) ->
            /\ ses' = [ses EXCEPT ![e].peerClosed = TRUE]
            /\ task' = [task EXCEPT ![e].reader = "gone"]
       [] OTHER -> fail(e, "reader", "protocol")
  /\ UNCHANGED <<scenario, probe, pipe, heard>>

-----------------------------------------------------------------------------
(* ProbeLiveness.  A nonce is never used for two probes, so that the late PONG  *)
(* of a probe that gave up answers nobody.                                      *)

\* Mutant: a nonce is used again once its probe is over.
NonceReused(s) == CHOOSE n \in 1..(Cardinality(s.pings) + 1) : n \notin s.pings

nextNonce(s) == s.nextPing
ProbeLiveness(e, p) ==
  /\ p \in scenario.probes[e] /\ probe[e][p].at = "none"
  /\ LET n == nextNonce(ses[e])
         s == [ses[e] EXCEPT !.nextPing = n + 1]
     IN IF full(s, "ping")
        THEN ses' = [ses EXCEPT ![e] = s] /\ probe' = [probe EXCEPT ![e][p].at = "failed"]
        ELSE /\ ses' = [ses EXCEPT ![e] = [commitControl(s, Record("ping", n, p))
                                             EXCEPT !.pings = @ \cup {n}]]
             /\ probe' = [probe EXCEPT ![e][p] = [at |-> "waiting", nonce |-> n]]
  /\ UNCHANGED <<scenario, task, pipe, heard>>

\* The caller's context or the session is over.
ProbeGivesUp(e, p) ==
  /\ probe[e][p].at = "waiting" /\ (scenario.cancel \/ ses[e].cause # "")
  /\ probe' = [probe EXCEPT ![e][p].at = "failed"]
  /\ ses' = [ses EXCEPT ![e].pings = @ \ {probe[e][p].nonce}]
  /\ UNCHANGED <<scenario, task, pipe, heard>>

-----------------------------------------------------------------------------
(* Close, the idle timer, and the loss of the carrier.                         *)
Close(e) ==
  /\ e \in scenario.closers /\ task[e].closer = "none"
  /\ CASE ses[e].once = "free" ->
            /\ ses' = [ses EXCEPT ![e] = sendClose(sendGoAway(beginClosing([@ EXCEPT !.once = "busy"])))]
            /\ task' = [task EXCEPT ![e].closer = "flush"]
       [] OTHER -> task' = [task EXCEPT ![e].closer = "once"] /\ UNCHANGED ses
  /\ UNCHANGED <<scenario, probe, pipe, heard>>

CloseFlushed(e) ==
  /\ task[e].closer = "flush" /\ flushed(ses[e])
  /\ ses' = [ses EXCEPT ![e].writeClosed = TRUE] /\ task' = [task EXCEPT ![e].closer = "wait"]
  /\ UNCHANGED <<scenario, probe, pipe, heard>>

CloseAnswered(e) ==
  /\ task[e].closer = "wait" /\ (ses[e].peerClosed \/ ses[e].carrier # "open")
  /\ ses' = [ses EXCEPT ![e] = teardown(@, "closed")]
  /\ task' = [task EXCEPT ![e].closer = "workers"]
  /\ UNCHANGED <<scenario, probe, pipe, heard>>

\* The flush timeout of two seconds, at any wait of Close.
CloseTimeout(e) ==
  /\ scenario.timeouts /\ task[e].closer \in {"flush", "wait", "workers"}
  /\ task' = [task EXCEPT ![e].closer = CASE @ = "flush" -> "wait" [] @ = "wait" -> "workers"
                                          [] OTHER -> "returned",
                          ![e].late = TRUE]
  /\ ses' = [ses EXCEPT ![e] = CASE task[e].closer = "flush" -> [@ EXCEPT !.writeClosed = TRUE]
                                 [] task[e].closer = "wait" -> teardown(@, "closed")
                                 [] OTHER -> @]
  /\ UNCHANGED <<scenario, probe, pipe, heard>>

\* closeOnce is done; closeWaitOnce waits for the workers.
CloseJoins(e) ==
  /\ task[e].closer = "once" /\ ses[e].once = "done"
  /\ task' = [task EXCEPT ![e].closer = "workers"]
  /\ UNCHANGED <<scenario, ses, probe, pipe, heard>>
CloseReturns(e) ==
  /\ task[e].closer = "workers" /\ \A w \in Workers : task[e][w] = "gone"
  /\ task' = [task EXCEPT ![e].closer = "returned"]
  /\ UNCHANGED <<scenario, ses, probe, pipe, heard>>

IdleFires(e) ==
  /\ task[e].idler = "run"
  /\ ses' = [ses EXCEPT ![e] = sendGoAway(@)] /\ task' = [task EXCEPT ![e].idler = "flush"]
  /\ UNCHANGED <<scenario, probe, pipe, heard>>
IdleFlushed(e) ==
  /\ task[e].idler = "flush" /\ flushed(ses[e])
  /\ fail(e, "idler", "closed") /\ UNCHANGED <<scenario, probe, pipe, heard>>
IdlerStops(e) ==
  /\ task[e].idler = "run" /\ ses[e].cause # ""
  /\ task' = [task EXCEPT ![e].idler = "gone"]
  /\ UNCHANGED <<scenario, ses, probe, pipe, heard>>

\* The carrier of e ends because the other end closed it, or is lost.
CarrierEnds(e) ==
  /\ ses[e].carrier = "open" /\ ses[other(e)].carrier # "open"
  /\ ses' = [ses EXCEPT ![e].carrier = "lost"]
  /\ UNCHANGED <<scenario, task, probe, pipe, heard>>
CarrierLost(e) ==
  /\ scenario.loss /\ ses[e].carrier = "open"
  /\ ses' = [ses EXCEPT ![e].carrier = "lost"]
  /\ UNCHANGED <<scenario, task, probe, pipe, heard>>

Steps(e) ==
  \/ \E w \in Workers : Released(e, w)
  \/ WriterWakes(e) \/ WriterStops(e) \/ WriterWrites(e) \/ WriterDrained(e) \/ WriterFails(e)
  \/ ReadPing(e) \/ ReadPong(e) \/ ReadGoAway(e) \/ ReadClose(e) \/ ReaderFails(e)
  \/ PeerCloseFlushed(e) \/ PeerCloseEnds(e)
  \/ CloseFlushed(e) \/ CloseAnswered(e) \/ CloseJoins(e) \/ CloseReturns(e)
  \/ IdleFlushed(e) \/ IdlerStops(e) \/ CarrierEnds(e)
Calls(e) ==
  \/ \E p \in AllProbes : ProbeLiveness(e, p) \/ ProbeGivesUp(e, p)
  \/ Close(e) \/ CloseTimeout(e) \/ IdleFires(e) \/ CarrierLost(e)
Next == \E e \in Ends : Steps(e) \/ Calls(e)

\* Every goroutine that can run does; no timeout is relied on.
worker(e, w) ==
  CASE w = "writer" -> \/ Released(e, "writer") \/ WriterWakes(e) \/ WriterStops(e)
                       \/ WriterWrites(e) \/ WriterDrained(e) \/ WriterFails(e)
    [] w = "reader" -> \/ Released(e, "reader") \/ ReadPing(e) \/ ReadPong(e) \/ ReadGoAway(e)
                       \/ ReadClose(e) \/ ReaderFails(e) \/ PeerCloseFlushed(e) \/ PeerCloseEnds(e)
    [] w = "idler"  -> Released(e, "idler") \/ IdleFlushed(e) \/ IdlerStops(e)
closing(e) == CloseFlushed(e) \/ CloseAnswered(e) \/ CloseJoins(e) \/ CloseReturns(e)
Fairness ==
  \A e \in Ends : /\ \A w \in Workers : WF_controlVars(worker(e, w))
                  /\ WF_controlVars(closing(e)) /\ WF_controlVars(CarrierEnds(e))
Spec == Init /\ [][Next]_controlVars /\ Fairness

-----------------------------------------------------------------------------
\* Lifecycles, tasks and queues take the values the code gives them.
TypeOK ==
  /\ \A e \in Ends : /\ ses[e].life \in {"open", "closing", "closed"}
                     /\ ses[e].cause \in {"", "closed", "protocol"}
                     /\ ses[e].once \in {"free", "busy", "done"}
                     /\ queued(ses[e], FALSE) <= scenario.normalCap
                     /\ Len(pipe[e]) <= PipeCapacity
                     /\ heard[e] \subseteq AllProbes

\* A record in the queue has a writer under way or a wakeup pending: the token the
\* writer takes before it drains never belongs to a record it does not see
\* (control.go:117-157).
WriterWoken ==
  \A e \in Ends : ses[e].queue # <<>> /\ task[e].writer = "wait" => ses[e].wake

\* ProbeLiveness reports success only for a PING the peer has read: the PONG of a
\* probe that was canceled is not taken for the answer to a later one.
ProbeHeard ==
  \A e \in Ends, p \in AllProbes : probe[e][p].at = "answered" => p \in heard[e]

calm == ~scenario.loss /\ scenario.idle = {} /\ scenario.normalCap >= 2 * Cardinality(AllProbes)

\* Closing a healthy session, from one end or from both at once, is a clean close at
\* both ends: no read or write that the shutdown cuts short is recorded as a
\* protocol failure, unless a flush ran into its timeout.
CleanClose ==
  calm /\ (\A e \in Ends : ~task[e].late) => \A e \in Ends : ses[e].cause # "protocol"

\* Unless PINGs overflow the queue, Close returns without waiting for its timeout,
\* whether the peer answers, closes at the same time, fails, or is lost.
CloseOwed ==
  /\ scenario.normalCap >= 2 * Cardinality(AllProbes)
  /\ \E e \in Ends : task[e].closer \notin {"none", "returned"}
CloseReturnsSoon == CloseOwed ~> ~CloseOwed

\* Once a session has its cause, its writer, reader and idle loop come to an end.
WorkersOwed == \E e \in Ends : ses[e].cause # "" /\ \E w \in Workers : task[e][w] # "gone"
WorkersEnd == WorkersOwed ~> ~WorkersOwed
=============================================================================
