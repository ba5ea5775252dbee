------------------------------- MODULE MCClient -------------------------------
(***************************************************************************)
(* The client side on small instances: the connection controller, the      *)
(* connector and its artifact lease, capability selection, the control     *)
(* plane that issues what a client connects with, and the limits of the    *)
(* carriers it dials. Every behaviour runs one component, "part"; the      *)
(* others stay in an initial state.                                        *)
(***************************************************************************)
EXTENDS Integers, Sequences, FiniteSets, SequencesExt, ConnectionController, Connector

VARIABLES
  part,
  composed, artifact, capableAt, descriptor, selected,
  planeNow, issue, stored, ends, answers,
  input, bound

\* Two candidates race; two calls share a lease; a crash between any two steps.
\* Progress is checked for one call at a time.
ConnectScenario(first, second, crashes, expiry) ==
  [usable |-> <<first, second>>, crashes |-> crashes, expiry |-> expiry]
ConnectProgress == {ConnectScenario({"q", "w"}, {}, 0, FALSE), ConnectScenario({"q"}, {}, 1, TRUE)}
ConnectScenarios == ConnectProgress \cup {ConnectScenario({"q"}, {"q"}, 0, FALSE)}
AConnect == ConnectScenario({"q"}, {}, 1, TRUE)

\* Both paths and roles, with candidates in several orders.
CandidateLists ==
  {a \in [path : {"direct", "tunnel"}, role : {1, 2},
          candidates : {<<"raw_quic", "webtransport", "websocket">>, <<"websocket">>, <<"webtransport", "raw_quic">>,
                        <<"websocket", "websocket">>}] :
     a.path = "direct" => a.role = 1}
ACandidateList == [path |-> "direct", role |-> 1, candidates |-> <<"websocket">>]
Capable == INSTANCE Capabilities WITH Artifacts <- CandidateLists, at <- capableAt

\* Calls of IssueDirect and IssueTunnelPair: the endpoints they may name, and options around every limit.
URL(scheme, name, written, port, path) == [scheme |-> scheme, host |-> [name |-> name, written |-> written], port |-> port, path |-> path]
WSS(kind, written, port) == URL("wss", "example", written, port, <<"websocket", kind>>)
EndpointLists(kind) ==
  {<<URL("https", "example", "normal", 8443, <<"webtransport", kind>>), WSS(kind, "other case", 0), URL("quic", "example", "other case", 0, <<"/">>)>>,
   <<WSS(kind, "normal", 8443), URL("quic", "example", "other case", 0, <<>>), URL("wss", "other", "normal", 443, <<"websocket", kind>>)>>,
   <<WSS(kind, "normal", 443), WSS(kind, "other case", 0)>>,
   <<URL("ws", "127.0.0.1", "normal", 8080, <<"websocket", kind>>)>>, <<WSS(kind, "dotted", 0)>>}
PlainCall(kind) ==
  [kind |-> kind, channel |-> "channel", expires |-> 0, idle |-> 0, maxInbound |-> 0, group |-> "group", audience |-> "audience",
   first |-> "a", second |-> "b", replacement |-> FALSE, upstream |-> "tcp", scopes |-> <<[name |-> "s", version |-> 1]>>,
   bytes |-> 2000, payload |-> 1000, urls |-> <<WSS(kind, "normal", 443)>>]
Variants(o) ==
  {o, [o EXCEPT !.expires = 3], [o EXCEPT !.expires = 4], [o EXCEPT !.idle = 1500], [o EXCEPT !.idle = 20000, !.maxInbound = 128],
   [o EXCEPT !.maxInbound = 129], [o EXCEPT !.bytes = 65536, !.payload = 32768], [o EXCEPT !.bytes = 65537], [o EXCEPT !.replacement = TRUE],
   [o EXCEPT !.scopes = @ \o @], [o EXCEPT !.second = "a"], [o EXCEPT !.channel = ""], [o EXCEPT !.upstream = ""]}
IssueCalls ==
  UNION {Variants(PlainCall(kind)) \cup {[PlainCall(kind) EXCEPT !.urls = u] : u \in EndpointLists(kind)} : kind \in {"direct", "tunnel"}}
AnIssueCall == PlainCall("direct")
Plane == INSTANCE ControlPlane WITH IssueOptions <- IssueCalls, MaxTime <- 3, now <- planeNow

\* Contracts and configurations around the limits, zeros and overridden defaults included.
LimitDefaults == INSTANCE CarrierLimits WITH Contracts <- {}, QuicLimits <- {}, Policies <- {}, Configs <- {}
OfferedContracts == [maxInbound : {0, 1, 32, 127, 128, 129}, idle : {0, 1, 20, 21, 3600}, establish : {0, 30}]
QuicConfigs ==
  LET d == LimitDefaults!DefaultLimits
  IN  {d, [d EXCEPT !.idle = 20], [d EXCEPT !.keepAlive = 0], [d EXCEPT !.maxStream = 1024]}
YamuxPolicies ==
  LET d == LimitDefaults!DefaultYamux
  IN  {d, [f \in DOMAIN d |-> 0], [d EXCEPT !.active = 200], [d EXCEPT !.active = 16], [d EXCEPT !.frame = 512],
       [d EXCEPT !.sessionReceive = 1024]}
RuntimeConfigs ==
  [streams : {0, 1, 128, 129, 130}, direct : {0, 1, 4097}, admission : {0, 300}, shutdown : {0}, authorization : {0, 61}, paths : {TRUE},
   udp : {<<1, 2, 3>>, <<1, 2, 1>>}, origins : {<<>>, <<1>>, <<1, 1>>}, reasons : {<<>>, <<1, 1>>}]
ALimit == [carrier |-> "raw_quic", contract |-> [maxInbound |-> 1, idle |-> 1, establish |-> 30], limits |-> LimitDefaults!DefaultLimits]
Limits == INSTANCE CarrierLimits WITH
  Contracts <- OfferedContracts, QuicLimits <- QuicConfigs, Policies <- YamuxPolicies,
  Configs <- RuntimeConfigs

capabilitiesVars == <<composed, artifact, capableAt, descriptor, selected>>
planeVars == <<planeNow, issue, stored, ends, answers>>
limitsVars == <<input, bound>>

-----------------------------------------------------------------------------
ClientInit ==
  /\ part \in {"controller", "connector", "capabilities", "plane", "limits"}
  /\ ControllerInit
  /\ ConnectorInit /\ (part = "connector" \/ scenario = AConnect)
  /\ Capable!Init /\ (part = "capabilities" \/ (composed = {} /\ artifact = ACandidateList))
  /\ Plane!Init /\ (part = "plane" \/ issue.opts = AnIssueCall)
  /\ Limits!Init /\ (part = "limits" \/ input = ALimit)

ClientNext ==
  /\ UNCHANGED part
  /\ IF part = "controller" THEN ControllerNext ELSE UNCHANGED controllerVars
  /\ IF part = "connector" THEN ConnectorNext ELSE UNCHANGED connectorVars
  /\ IF part = "capabilities" THEN Capable!Next ELSE UNCHANGED capabilitiesVars
  /\ IF part = "plane" THEN Plane!Next ELSE UNCHANGED planeVars
  /\ IF part = "limits" THEN Limits!Next ELSE UNCHANGED limitsVars

\* The fairness of each component while it is the part that runs.
FairController ==
  /\ WF_controllerVars(part = "controller" /\ Scheduler)
  /\ WF_controllerVars(part = "controller" /\ ctl.canceled /\ (Acquire \/ Connect))
  /\ \A w \in Waiters : WF_controllerVars(part = "controller" /\ (WaiterChecks(w) \/ WaiterWakes(w)))
  /\ \A c \in Closers : /\ WF_controllerVars(part = "controller" /\ CloseCancels(c))
                       /\ WF_controllerVars(part = "controller" /\ CloseReturns(c))

connecting == part = "connector" /\ scenario \in ConnectProgress

FairConnector ==
  \A k \in Calls :
    /\ WF_connectorVars(connecting /\ Call(k))
    /\ WF_connectorVars(connecting /\ ContextDone(k))
    /\ WF_connectorVars(connecting /\ CleanupDeadline(k))
    /\ \A c \in Candidates : WF_connectorVars(connecting /\ Attempt(k, c))

clientVars ==
  <<part, controllerVars, connectorVars, capabilitiesVars, planeVars, limitsVars>>

ClientSpec ==
  /\ ClientInit
  /\ [][ClientNext]_clientVars
  /\ FairController /\ FairConnector

-----------------------------------------------------------------------------
\* The documents of the control plane agree: what is issued is parsed by the client and each candidate's FSB2 by the
\* listener, however the URLs were written; an end that presents it before it expires, over the carrier it chose, is
\* allowed unless the application rejects it, also over a restart, and never later; client and listener derive the
\* same contract and identities; and the two ends of an issued pair meet.
DocumentsAgree ==
  part = "plane" => /\ Plane!TypeOK /\ Plane!IssuedIsUsable /\ Plane!HonestAllowed
                    /\ Plane!AllowBeforeExpiry /\ Plane!EndsAgree /\ Plane!PairMeets

\* What is offered fits what is composed: every descriptor passes Connect's validation; exactly the candidates with a
\* dialer are tried, in the artifact's order; a carrier dialed for a contract is one Establish accepts (engine.go:252);
\* a valid contract binds to every valid configuration; and a configuration the command accepts starts, with exactly
\* the streams it configures.
OffersFit ==
  /\ part = "capabilities" => Capable!TypeOK /\ Capable!DescriptorAccepted /\ Capable!TriesWhatItCanDial
  /\ part = "limits" => /\ Limits!TypeOK /\ Limits!EstablishAccepts
                        /\ Limits!ValidContractDials /\ Limits!ValidConfigStarts

\* What the client owes: the return of a Close, of a Connect and of a WaitForSnapshotChange that missed a change.
ClientOwed ==
  \/ part = "controller" /\ (CloseOwed \/ WakeupOwed)
  \/ connecting /\ ConnectOwed

\* Nobody waits for ever: a WaitForSnapshotChange blocked on an old revision returns, for the channel it took under the
\* lock is closed by the change it waits for; Close returns, unless its own context ends first; and Connect returns
\* even when every dial hangs.
ClientEnds == ClientOwed ~> ~ClientOwed
=============================================================================
