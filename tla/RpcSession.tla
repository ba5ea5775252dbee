----------------------------- MODULE RpcSession -----------------------------
(***************************************************************************)
(* RPC over one stream: internal/rpc/session.go, request_scheduler.go and  *)
(* session/rpc_peer.go.  A Client with concurrent calls and its read loop  *)
(* on one side; on the other a Server whose read loop feeds the request    *)
(* scheduler and the notification worker.  The stream keeps the order of   *)
(* frames in each direction until either side closes it.                   *)
(***************************************************************************)
EXTENDS Integers, Sequences, FiniteSets, SequencesExt

CONSTANTS
  RpcCalls,   \* Call invocations 1, 2, ..., in the order in which they reserve
  MaxConcurrentRequests, MaxQueuedRequests, MaxQueuedNotifications,
  MaxInvalidJSONFrames,
  Workloads   \* bounds: how many calls, notifications and undecodable frames there may be,
              \* ids, for maxPortableRequestID, and whether anything is closed

VARIABLES
  client,   \* closed, nextID, pending, invalid frames in a row, and its read loop
  call,     \* per Call: where it is, its request id, its channel and its result
  server,   \* Serve, the requestScheduler and the notification worker
  stream    \* frames under way up and down, open, and what of the workload is left

rpcVars == <<client, call, server, stream>>

\* What a call's channel holds and what a call returns, besides the call that an answer is about.
Empty == 0
Closed == -1
Canceled == -2

Init ==
  /\ client = [closed |-> FALSE, nextID |-> 1, pending |-> <<>>, invalid |-> 0, loop |-> "read",
               answered |-> 0]
  /\ call = [i \in RpcCalls |-> [at |-> "out", id |-> 0, ch |-> Empty, result |-> Empty]]
  /\ server = [at |-> "serve", canceled |-> FALSE, invalid |-> 0, notifications |-> 0, worker |-> "idle",
               pending |-> <<>>, active |-> 0, closed |-> FALSE, runs |-> {}]
  /\ \E load \in Workloads : stream = [up |-> <<>>, down |-> <<>>, open |-> TRUE, load |-> load]

\* A frame, with the payload of requests and responses: the call they are about.
Frame(kind, id, about) == [kind |-> kind, id |-> id, about |-> about]
Response(request) == Frame("response", request.id, request.about)
Send(dir, frame) == [stream EXCEPT ![dir] = Append(@, frame)]

-----------------------------------------------------------------------------
(* Client.Call.                                                             *)

\* Mutant: request ids are used again.
ReserveReusesID(i) == [client EXCEPT !.pending = (client.nextID :> i) @@ @]

reserved(i) == [client EXCEPT !.pending = (client.nextID :> i) @@ @, !.nextID = @ + 1]

\* pending maps the id to the call whose channel it is.
reserve(i) ==
  /\ call[i].at = "out" /\ i <= stream.load.calls /\ \A j \in 1..i - 1 : call[j].at # "out"
  /\ IF client.closed \/ client.nextID > stream.load.ids
     THEN call' = [call EXCEPT ![i].at = "returned", ![i].result = Closed] /\ UNCHANGED client
     ELSE /\ client' = reserved(i)
          /\ call' = [call EXCEPT ![i].at = "reserved", ![i].id = client.nextID]
  /\ UNCHANGED <<server, stream>>

release(i) == [client EXCEPT !.pending = [id \in DOMAIN @ \ {call[i].id} |-> @[id]]]

CallWrites(i) ==
  /\ call[i].at = "reserved"
  /\ IF stream.open
     THEN /\ stream' = Send("up", Frame("request", call[i].id, i))
          /\ call' = [call EXCEPT ![i].at = "waiting"] /\ UNCHANGED client
     ELSE /\ call' = [call EXCEPT ![i].at = "returned", ![i].result = Closed]
          /\ client' = release(i) /\ UNCHANGED stream
  /\ UNCHANGED server

\* The channel has an answer, or was closed by closeAll.
CallReceives(i) ==
  /\ call[i].at = "waiting" /\ call[i].ch # Empty
  /\ call' = [call EXCEPT ![i].at = "returned", ![i].ch = Empty,
                          ![i].result = IF call[i].ch = Closed THEN Closed ELSE call[i].ch]
  /\ client' = release(i) /\ UNCHANGED <<server, stream>>

CallCanceled(i) ==
  /\ call[i].at = "waiting" /\ client' = release(i)
  /\ call' = [call EXCEPT ![i].at = "returned", ![i].result = Canceled, ![i].ch = Empty]
  /\ UNCHANGED <<server, stream>>

\* Client.Notify
Notify ==
  /\ stream.open /\ stream.load.notes > 0
  /\ stream' = [Send("up", Frame("notification", 0, 0)) EXCEPT !.load.notes = @ - 1]
  /\ UNCHANGED <<client, call, server>>

-----------------------------------------------------------------------------
(* Client.readLoop, closeAll and Close.                                     *)

\* Mutant: calls that wait are not told that the stream is gone.
CloseAllForgets == call

closedChannels ==
  [i \in RpcCalls |-> IF i \in Range(client.pending) THEN [call[i] EXCEPT !.ch = Closed] ELSE call[i]]

closeAll ==
  /\ client' = [client EXCEPT !.closed = TRUE, !.pending = <<>>, !.loop = "over"]
  /\ call' = closedChannels

Drop(dir) == [stream EXCEPT ![dir] = Tail(@)]

\* A frame that decodeEnvelope refuses; the third in a row ends the client.
ClientReadsInvalid ==
  /\ client.loop = "read" /\ stream.down # <<>> /\ Head(stream.down).kind = "invalid"
  /\ IF client.invalid + 1 >= MaxInvalidJSONFrames
     THEN closeAll /\ stream' = [Drop("down") EXCEPT !.open = FALSE]
     ELSE /\ client' = [client EXCEPT !.invalid = @ + 1] /\ stream' = Drop("down") /\ UNCHANGED call
  /\ UNCHANGED server

\* A response: the channel is looked up under the lock.
ClientReads ==
  /\ client.loop = "read" /\ stream.down # <<>> /\ Head(stream.down).kind = "response"
  /\ LET id == Head(stream.down).id
     IN  client' = [client EXCEPT !.invalid = 0, !.loop = IF id \in DOMAIN client.pending THEN "deliver" ELSE "read",
                                  !.answered = IF id \in DOMAIN client.pending THEN client.pending[id] ELSE 0]
  /\ stream' = [stream EXCEPT !.down = IF client'.loop = "deliver" THEN @ ELSE Tail(@)]
  /\ UNCHANGED <<call, server>>

\* and filled after the unlock, unless it is full.
ClientDelivers ==
  /\ client.loop = "deliver" /\ client' = [client EXCEPT !.loop = "read", !.answered = 0]
  /\ LET i == client.answered IN
     call' = [call EXCEPT ![i].ch = IF @ = Empty /\ call[i].at # "returned" THEN Head(stream.down).about ELSE @]
  /\ stream' = Drop("down") /\ UNCHANGED server

\* Reading a stream that was closed fails, with or without what was under way.
ClientReadFails ==
  /\ client.loop = "read" /\ ~stream.open /\ closeAll
  /\ UNCHANGED <<server, stream>>

\* Client.Close: the flag, then the stream.
ClientCloses ==
  /\ stream.load.ends /\ ~client.closed /\ client' = [client EXCEPT !.closed = TRUE]
  /\ UNCHANGED <<call, server, stream>>

StreamCloses ==
  /\ stream.load.ends /\ stream.open /\ stream' = [stream EXCEPT !.open = FALSE]
  /\ UNCHANGED <<client, call, server>>

-----------------------------------------------------------------------------
(* requestScheduler.                                                        *)

submitted(request) ==
  IF server.active < MaxConcurrentRequests
  THEN [server EXCEPT !.active = @ + 1, !.runs = @ \cup {<<request, "begin">>}]
  ELSE [server EXCEPT !.pending = Append(@, request)]

overloaded == server.active >= MaxConcurrentRequests /\ Len(server.pending) >= MaxQueuedRequests

\* Serve answers 429 itself.
busyAnswered(request) ==
  IF stream.open THEN [Drop("up") EXCEPT !.down = Append(@, Response(request))] ELSE Drop("up")

\* Server.Serve reads a request and calls Submit.
ServeReadsRequest ==
  /\ server.at = "serve" /\ ~server.canceled /\ stream.up # <<>> /\ Head(stream.up).kind = "request"
  /\ LET request == Head(stream.up) IN
     IF server.closed \/ overloaded
     THEN server' = [server EXCEPT !.invalid = 0] /\ stream' = busyAnswered(request)
     ELSE server' = [submitted(request) EXCEPT !.invalid = 0] /\ stream' = Drop("up")
  /\ UNCHANGED <<client, call>>

\* run: the handler is called unless the workers were canceled.
RunBegins(r) ==
  /\ r[2] = "begin"
  /\ server' = [server EXCEPT !.runs = (@ \ {r}) \cup {<<r[1], IF server.canceled THEN "end" ELSE "handle">>}]
  /\ UNCHANGED <<client, call, stream>>

\* Router.handle and writeResponse, which ignores a failed write.
RunHandles(r) ==
  /\ r[2] = "handle"
  /\ server' = [server EXCEPT !.runs = (@ \ {r}) \cup {<<r[1], "end">>}]
  /\ stream' = IF stream.open THEN Send("down", Response(r[1])) ELSE stream
  /\ UNCHANGED <<client, call>>

\* A run takes the next request with it, or gives its place back.
runEnded(r) ==
  IF server.closed \/ server.canceled \/ server.pending = <<>>
  THEN [server EXCEPT !.runs = @ \ {r}, !.active = @ - 1,
                      !.pending = IF server.canceled THEN <<>> ELSE @]
  ELSE [server EXCEPT !.runs = (@ \ {r}) \cup {<<Head(server.pending), "begin">>}, !.pending = Tail(@)]

RunEnds(r) ==
  /\ r[2] = "end" /\ server' = runEnded(r) /\ UNCHANGED <<client, call, stream>>

-----------------------------------------------------------------------------
(* Server.Serve.                                                            *)

ServeReadsInvalid ==
  /\ server.at = "serve" /\ ~server.canceled /\ stream.up # <<>> /\ Head(stream.up).kind = "invalid"
  /\ LET over == server.invalid + 1 >= MaxInvalidJSONFrames IN
     /\ server' = [server EXCEPT !.invalid = @ + 1, !.at = IF over THEN "return" ELSE @]
     /\ stream' = [Drop("up") EXCEPT !.open = @ /\ ~over]
  /\ UNCHANGED <<client, call>>

\* A notification that finds the queue full ends the server.
ServeReadsNotification ==
  /\ server.at = "serve" /\ ~server.canceled /\ stream.up # <<>> /\ Head(stream.up).kind = "notification"
  /\ LET full == server.notifications >= MaxQueuedNotifications IN
     /\ server' = IF full THEN [server EXCEPT !.at = "return", !.invalid = 0]
                          ELSE [server EXCEPT !.notifications = @ + 1, !.invalid = 0]
     /\ stream' = [Drop("up") EXCEPT !.open = @ /\ ~full]
  /\ UNCHANGED <<client, call>>

\* The notification worker takes one at a time.
WorkerTakes ==
  /\ server.worker = "idle" /\ server.notifications > 0
  /\ server' = [server EXCEPT !.worker = "busy", !.notifications = @ - 1]
  /\ UNCHANGED <<client, call, stream>>

WorkerHandles ==
  /\ server.worker = "busy" /\ server' = [server EXCEPT !.worker = "idle"]
  /\ UNCHANGED <<client, call, stream>>

WorkerStops ==
  /\ server.worker = "idle" /\ server.canceled /\ server' = [server EXCEPT !.worker = "over"]
  /\ UNCHANGED <<client, call, stream>>

\* The context of the session ends; a callback closes the stream.
ServeCanceled ==
  /\ stream.load.ends /\ ~server.canceled /\ server' = [server EXCEPT !.canceled = TRUE]
  /\ stream' = [stream EXCEPT !.open = FALSE]
  /\ UNCHANGED <<client, call>>

ServeReadFails ==
  /\ server.at = "serve" /\ (server.canceled \/ ~stream.open)
  /\ server' = [server EXCEPT !.at = "return"]
  /\ UNCHANGED <<client, call, stream>>

\* The deferred cancelWorkers and requestScheduler.Close.
ServeCancelsWorkers ==
  /\ server.at = "return"
  /\ server' = [server EXCEPT !.at = "wait", !.canceled = TRUE, !.closed = TRUE, !.pending = <<>>]
  /\ UNCHANGED <<client, call, stream>>

workersOver == server.runs = {} /\ server.worker = "over"

ServeReturns ==
  /\ server.at = "wait" /\ workersOver
  /\ server' = [server EXCEPT !.at = "over"] /\ stream' = [stream EXCEPT !.open = FALSE]
  /\ UNCHANGED <<client, call>>

\* Frames that do not decode, in either direction.
BadFrame(dir) ==
  /\ stream.open /\ stream.load.bad > 0
  /\ stream' = [Send(dir, Frame("invalid", 0, 0)) EXCEPT !.load.bad = @ - 1]
  /\ UNCHANGED <<client, call, server>>

ClientLoop == ClientReads \/ ClientReadsInvalid \/ ClientDelivers \/ ClientReadFails

Runs == \E r \in server.runs : RunBegins(r) \/ RunHandles(r) \/ RunEnds(r)

Serve ==
  \/ ServeReadsRequest \/ ServeReadsInvalid \/ ServeReadsNotification \/ ServeReadFails
  \/ ServeCancelsWorkers \/ ServeReturns

Worker == WorkerTakes \/ WorkerHandles \/ WorkerStops

Next ==
  \/ \E i \in RpcCalls : reserve(i) \/ CallWrites(i) \/ CallReceives(i) \/ CallCanceled(i)
  \/ Notify \/ ClientLoop \/ ClientCloses \/ StreamCloses
  \/ Serve \/ Worker \/ ServeCanceled \/ Runs
  \/ \E dir \in {"up", "down"} : BadFrame(dir)

\* Goroutines are scheduled and handlers return.
Fairness ==
  /\ WF_rpcVars(ClientLoop) /\ WF_rpcVars(Serve) /\ WF_rpcVars(Worker) /\ WF_rpcVars(Runs)
  /\ \A i \in RpcCalls : WF_rpcVars(CallWrites(i)) /\ WF_rpcVars(CallReceives(i))

Spec == Init /\ [][Next]_rpcVars /\ Fairness

-----------------------------------------------------------------------------
TypeOK ==
  /\ DOMAIN client.pending \subseteq 1..client.nextID /\ Range(client.pending) \subseteq RpcCalls
  /\ \A i \in RpcCalls : call[i].at \in {"out", "reserved", "waiting", "returned"}
  /\ server.active \in 0..MaxConcurrentRequests /\ server.notifications \in 0..MaxQueuedNotifications

\* A Call returns the answer to its own request, whatever was canceled, answered late
\* or closed meanwhile.
OwnAnswer == \A i \in RpcCalls : call[i].result \in {Empty, Closed, Canceled, i}

\* A request waits in the queue only while every worker is busy, and the workers are
\* as many as active says.
QueueOnlyWhenBusy ==
  /\ server.active = Cardinality(server.runs)
  /\ server.pending # <<>> /\ ~server.canceled => server.active = MaxConcurrentRequests

\* When Serve has returned no handler runs any more.
NoHandlerAfterServe == server.at = "over" => server.runs = {} /\ server.worker = "over"

CallsOwed == \E i \in RpcCalls : call[i].at = "waiting"

\* A Call returns: its request is answered while the stream lives, and it fails when the stream was closed.
CallsEnd == CallsOwed ~> ~CallsOwed

ServeOwed == server.canceled /\ server.at # "over"

\* Serve returns once its context is done.
ServeEnds == ServeOwed ~> ~ServeOwed
=============================================================================
