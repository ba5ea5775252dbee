------------------------------ MODULE MCServices ------------------------------
(***************************************************************************)
(* The serving side on small instances: the acceptor, admission, the       *)
(* runtime command, the proxy and RPC. Every behaviour runs one component, *)
(* "part"; the others stay in an initial state.                            *)
(***************************************************************************)
EXTENDS Integers, Sequences, FiniteSets, SequencesExt

CONSTANTS r1, r2

VARIABLES
  part,
  acceptorReq, acceptorServe, acceptorAcceptor,
  admissionClient, admissionServer, admissionPipe,
  runtimeServe, runtimeSockets, runtimeLoops, runtimeLoad, runtimeConn,
  proxyAsk, proxyHandler, proxyRelay, proxyPump, proxyUp, proxyDown, proxyWire, proxyClient, proxyStream,
  rpcClient, rpcCall, rpcServer, rpcStream

Accept == INSTANCE Acceptor WITH
  Requests <- {r1, r2}, MaxDirectSessions <- 1, MaxConcurrentStreams <- 1, StreamBudget <- 2, Kinds <- {"a"},
  req <- acceptorReq, serve <- acceptorServe, acceptor <- acceptorAcceptor

Admit == INSTANCE Admission WITH
  Payloads <- {"fsb2", "malformed", "wrong_path", "trailing"},
  Decisions <- {"success", "retryable", "reject", "error"}, client <- admissionClient,
  server <- admissionServer, pipe <- admissionPipe

\* Two connections for one slot, and one connection of each kind that is answered differently.
Allowed ==
  [kind |-> "raw", path |-> "direct", decision |-> "allow", reason |-> "none", direct |-> TRUE, fields |-> TRUE,
   contract |-> TRUE, carrier |-> TRUE, reachable |-> TRUE]
ARuntimeLoad == <<Allowed>>
RuntimeLoads ==
  {ARuntimeLoad, <<Allowed, Allowed>>}
  \cup {<<o>> : o \in {[Allowed EXCEPT !.kind = "webtransport"], [Allowed EXCEPT !.kind = "wss"],
                       [Allowed EXCEPT !.path = "tunnel", !.direct = FALSE], [Allowed EXCEPT !.contract = FALSE],
                       [Allowed EXCEPT !.decision = "reject", !.reason = "known"], [Allowed EXCEPT !.reason = "known"],
                       [Allowed EXCEPT !.reachable = FALSE], [Allowed EXCEPT !.carrier = FALSE]}}
Runtime == INSTANCE RuntimeServer WITH
  Workloads <- RuntimeLoads, MaxDirectSessions <- 1, serve <- runtimeServe, sockets <- runtimeSockets,
  loops <- runtimeLoops, load <- runtimeLoad, conn <- runtimeConn

\* A plain request behind one of every kind: bodies that end, stop, are cut or too long, answers with and without a length.
Exchange(kind, meta, method, body, ending, answer, sized, answerEnds) ==
  [kind |-> kind, meta |-> meta, method |-> method, body |-> body, ending |-> ending, answer |-> answer, sized |-> sized,
   answerEnds |-> answerEnds, lost |-> IF kind = "ws" THEN {"lost", "ended"} ELSE {"lost"}]
Http(method, body, ending, answer, sized, answerEnds) == Exchange("http", "valid", method, body, ending, answer, sized, answerEnds)
PlainExchange == [Http("GET", <<>>, "end", <<1>>, FALSE, "eof") EXCEPT !.lost = {}]
Refused(meta) == Exchange("http", meta, "POST", <<>>, "end", <<>>, FALSE, "eof")
ProxyLoads ==
  {<<x, PlainExchange>> : x \in
     {Http("GET", <<>>, "end", <<1, 2>>, FALSE, "eof"), Http("GET", <<1>>, "fin", <<1>>, TRUE, "eof"), Http("GET", <<1>>, "quiet", <<1>>, TRUE, "eof"),
      Http("POST", <<2, 1>>, "end", <<1>>, TRUE, "error"), Http("POST", <<2, 2>>, "end", <<2, 2>>, FALSE, "eof"),
      Http("POST", <<1>>, "fin", <<2, 2>>, TRUE, "eof"), Http("POST", <<1>>, "header", <<1>>, FALSE, "eof"),
      Http("POST", <<1>>, "cut", <<1>>, FALSE, "eof"), Http("POST", <<1>>, "quiet", <<1>>, FALSE, "eof"), Refused("invalid"), Refused("silent"),
      Exchange("ws", "valid", "GET", <<1>>, "quiet", <<1>>, FALSE, "eof"), Exchange("ws", "valid", "GET", <<1>>, "fin", <<1>>, FALSE, "quiet"),
      Exchange("ws", "valid", "GET", <<1>>, "quiet", <<>>, FALSE, "stalled")}}
AProxyLoad == <<Refused("invalid"), PlainExchange>>
Proxy == INSTANCE ProxyServer WITH
  Streams <- {1, 2}, Workloads <- ProxyLoads, MaxConcurrentStreams <- 1, MaxChunk <- 2, MaxBody <- 3, Window <- 2,
  ask <- proxyAsk, handler <- proxyHandler, relay <- proxyRelay, pump <- proxyPump, up <- proxyUp,
  down <- proxyDown, wire <- proxyWire, client <- proxyClient, stream <- proxyStream

\* Calls that fill the queue, notifications and undecodable frames beside a call, and request ids that run out.
RpcLoad(calls, notes, bad, ids, ends) == [calls |-> calls, notes |-> notes, bad |-> bad, ids |-> ids, ends |-> ends]
ARpcLoad == RpcLoad(2, 0, 0, 1, TRUE)
RpcLoads == {ARpcLoad, RpcLoad(3, 0, 0, 3, FALSE), RpcLoad(1, 2, 0, 1, TRUE), RpcLoad(1, 0, 2, 1, TRUE), RpcLoad(2, 0, 0, 2, TRUE)}
Rpc == INSTANCE RpcSession WITH
  RpcCalls <- {1, 2, 3}, MaxConcurrentRequests <- 1, MaxQueuedRequests <- 1, MaxQueuedNotifications <- 1,
  MaxInvalidJSONFrames <- 2, Workloads <- RpcLoads, client <- rpcClient, call <- rpcCall, server <- rpcServer,
  stream <- rpcStream

acceptorVars == <<acceptorReq, acceptorServe, acceptorAcceptor>>
admissionVars == <<admissionClient, admissionServer, admissionPipe>>
runtimeVars == <<runtimeServe, runtimeSockets, runtimeLoops, runtimeLoad, runtimeConn>>
proxyVars == <<proxyAsk, proxyHandler, proxyRelay, proxyPump, proxyUp, proxyDown, proxyWire, proxyClient, proxyStream>>
rpcVars == <<rpcClient, rpcCall, rpcServer, rpcStream>>

-----------------------------------------------------------------------------
ServicesInit ==
  /\ part \in {"acceptor", "admission", "runtime", "proxy", "rpc"}
  /\ Accept!Init
  /\ Admit!Init /\ (part = "admission" \/ admissionClient.sends = "fsb2")
  /\ Runtime!Init /\ (part = "runtime" \/ runtimeLoad = ARuntimeLoad)
  /\ Proxy!Init /\ (part = "proxy" \/ proxyAsk = AProxyLoad)
  /\ Rpc!Init /\ (part = "rpc" \/ rpcStream.load = ARpcLoad)

ServicesNext ==
  /\ UNCHANGED part
  /\ IF part = "acceptor" THEN Accept!Next ELSE UNCHANGED acceptorVars
  /\ IF part = "admission" THEN Admit!Next ELSE UNCHANGED admissionVars
  /\ IF part = "runtime" THEN Runtime!Next ELSE UNCHANGED runtimeVars
  /\ IF part = "proxy" THEN Proxy!Next ELSE UNCHANGED proxyVars
  /\ IF part = "rpc" THEN Rpc!Next ELSE UNCHANGED rpcVars

\* The fairness of each component while it is the part that runs.
AcceptFairness ==
  \A r \in {r1, r2} :
    /\ WF_acceptorVars(part = "acceptor" /\ Accept!Handle(r))
    /\ WF_acceptorVars(part = "acceptor" /\ Accept!Serve(r))
    /\ WF_acceptorVars(part = "acceptor" /\ Accept!GuardCloses(r))
    /\ WF_acceptorVars(part = "acceptor" /\ acceptorReq[r].session = "closed" /\ Accept!OnSessionReturns(r))
    /\ WF_acceptorVars(part = "acceptor" /\ acceptorReq[r].session = "closed" /\ Accept!HandlerReturns(r))

AdmitFairness ==
  WF_admissionVars(part = "admission" /\ Admit!Exchange) /\ WF_admissionVars(part = "admission" /\ Admit!ServerCanceled)

\* Progress of the runtime is checked with one connection at a time.
single == part = "runtime" /\ Len(runtimeLoad) = 1

RuntimeFairness ==
  /\ WF_runtimeVars(single /\ Runtime!ServeStep)
  /\ \A c \in UNION {DOMAIN w : w \in RuntimeLoads} :
       /\ WF_runtimeVars(single /\ c \in Runtime!Conns /\ Runtime!Step(c))
       /\ WF_runtimeVars(single /\ c \in Runtime!Conns /\ Runtime!Ended(c))

ProxyFairness ==
  \A s \in {1, 2} :
    /\ WF_proxyVars(part = "proxy" /\ (Proxy!Serve(s) \/ Proxy!RequestFails(s)))
    /\ WF_proxyVars(part = "proxy" /\ Proxy!closed(s) /\ Proxy!CopyBody(s))
    /\ WF_proxyVars(part = "proxy" /\ Proxy!FromClient(s))
    /\ WF_proxyVars(part = "proxy" /\ Proxy!FromUpstream(s))

RpcFairness ==
  /\ WF_rpcVars(part = "rpc" /\ Rpc!ClientLoop)
  /\ WF_rpcVars(part = "rpc" /\ Rpc!Serve)
  /\ WF_rpcVars(part = "rpc" /\ Rpc!Worker)
  /\ WF_rpcVars(part = "rpc" /\ Rpc!Runs)
  /\ \A i \in {1, 2, 3} : /\ WF_rpcVars(part = "rpc" /\ Rpc!CallWrites(i))
                          /\ WF_rpcVars(part = "rpc" /\ Rpc!CallReceives(i))

servicesVars ==
  <<part, acceptorVars, admissionVars, runtimeVars, proxyVars, rpcVars>>

ServicesSpec ==
  /\ ServicesInit
  /\ [][ServicesNext]_servicesVars
  /\ AcceptFairness /\ AdmitFairness /\ RuntimeFairness /\ ProxyFairness /\ RpcFairness

-----------------------------------------------------------------------------
\* Slots come back whichever step fails: the acceptor's are held by exactly the requests between upgrade and return,
\* the runtime's by exactly the direct connections between admission and end. When Serve has returned no socket is
\* open, and no raw QUIC session or bridge runs, even one accepted while the listeners were being closed.
ResourcesReturned ==
  /\ part = "acceptor" => Accept!TypeOK /\ Accept!SlotsExact
  /\ part = "runtime" => Runtime!TypeOK /\ Runtime!SlotsReturned /\ Runtime!NothingLeftBehind

\* The lease outlives everything done under it: it is released only when the session is closed, the callback has
\* returned and no handler runs; and once the admission has returned successfully, its guard cannot close the
\* connection the session now owns, whenever the context ends.
LeaseOutlivesWork == part = "acceptor" => Accept!LeaseOutlivesWork /\ Accept!AdmittedStaysOpen

\* The authorizer, which reserves a one-time credential, sees only a well-formed request that ended exactly where it
\* should. The client takes itself for admitted only on its word, and alone only if the server's context ended; a
\* response reported as sent is lost only to a context that ended or the carrier; and the runtime bridges a stream
\* upstream only if it came in under a held lease, for a client that was told it was admitted on a complete decision.
AuthorizedOnly ==
  /\ part = "admission" => /\ Admit!TypeOK /\ Admit!AuthorizeOnlyClean
                           /\ Admit!ClientNeverAlone /\ Admit!SuccessDelivered
  /\ part = "runtime" => Runtime!ServedIsAuthorized

\* Proxied bodies are whole: the upstream sees a request as complete only with every whole chunk the client sent, within
\* the limits, and ended by the client, be it by a FIN where the proxy begins to read; a client that reads a successful
\* head and the terminator has the whole response. A body cut by a reset, a deadline, a failure or in the middle of a
\* header or a payload is aborted, not ended.
BodiesWhole == part = "proxy" => Proxy!TypeOK /\ Proxy!RequestBodyWhole /\ Proxy!TerminatedIsWhole

\* A Call returns the answer to its own request, whatever was canceled, answered late or closed meanwhile; a request
\* waits in the queue only while every worker is busy; and when Serve has returned no handler runs any more.
OwnAnswer == part = "rpc" => Rpc!TypeOK /\ Rpc!OwnAnswer /\ Rpc!QueueOnlyWhenBusy /\ Rpc!NoHandlerAfterServe

\* What a handler owes: a session that was closed, an admission exchange whose authorizer returned, a Serve whose context
\* is done and whose upstreams have closed, a proxied stream that is over with its goroutines, a Call.
HandlerOwed ==
  \/ part = "acceptor" /\ Accept!SessionOwed
  \/ part = "admission" /\ Admit!ExchangeOwed
  \/ single /\ Runtime!ServeOwed
  \/ part = "proxy" /\ Proxy!StreamsOwed
  \/ part = "rpc" /\ (Rpc!ServeOwed \/ Rpc!CallsOwed)

\* Nothing is owed for ever, whatever a silent peer does: a session whose callback returned or that was lost frees its
\* slot (handleDirect), both sides of an admission exchange return, Serve of the runtime and of an RPC session returns
\* once it is stopped, and a proxied stream that is over frees its permit and leaves no goroutine. A Call on a closed
\* stream returns, and a request under way is answered while the stream lives. No handler joins late: a registry that
\* served an admission stays frozen (freeze).
HandlersEnd ==
  /\ HandlerOwed ~> ~HandlerOwed
  /\ Accept!HandlersFrozen

\* acceptor.go, AcceptorOptions: "Release is called exactly once for every accepted lease", so a handleDirect that has
\* returned holds none.
LeaseReleased == part = "acceptor" => Accept!LeaseReleased

\* TestProxyServerHTTPRoundTripUsesSessionHandlers: a client that reads to the end gets the whole response that the
\* proxy wrote, although the handler closes its stream when it returns.
ResponseDelivered == part = "proxy" => Proxy!ResponseDelivered
=============================================================================
