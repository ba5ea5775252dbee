------------------------------ MODULE MCSession -------------------------------
(***************************************************************************)
(* A session on small instances: the stream ledger, stream setup with      *)
(* GOAWAY, one logical stream, unreliable messages, the handshake, the     *)
(* control stream, records, and OPEN metadata. Every behaviour runs one    *)
(* component, "part"; the others stay in an initial state.                 *)
(***************************************************************************)
EXTENDS LedgerCalls, HandshakeChecks, FiniteSets, Sequences, TLC

VARIABLES
  part,
  cl, sv, open, resp, wire, ctl, load,
  streamEnd, unsent, streamWire, streamCarrier, streamControl, streamLedger, app,
  tx, send, net, rx, delivered, now,
  pair, handshakeEnd, handshakePipe, ctx, handshakeCarrier,
  scenario, ses, task, probe, controlPipe, heard,
  frame, sender, frameReader, step, frameWire,
  metadataInput, metadataAt, metadataStream, metadataWire, got

\* Opens that compete for one permit, with cancels; with GOAWAY, Close and the rekeys of either side.
\* Progress is checked where the opens do not also run side by side.
SetupScenario(n, max, flags) ==
  [calls |-> 1..n, max |-> max, cancel |-> "cancel" \in flags, goAway |-> "goAway" \in flags, close |-> "close" \in flags,
   clientRekey |-> "clientRekey" \in flags, serverRekey |-> "serverRekey" \in flags]
SetupProgress ==
  {SetupScenario(2, 1, {"cancel"}), SetupScenario(2, 1, {"goAway"}), SetupScenario(1, 1, {"goAway", "close"}),
   SetupScenario(1, 1, {"clientRekey", "cancel"}), SetupScenario(2, 1, {"serverRekey"}), SetupScenario(1, 1, {"close", "cancel"})}
SetupScenarios ==
  SetupProgress \cup
  {SetupScenario(2, 2, {"goAway"}), SetupScenario(2, 2, {"clientRekey"})}
ASetup == SetupScenario(2, 1, {"cancel"})
Setup == INSTANCE StreamSetup WITH Opens <- {1, 2}, Scenarios <- SetupScenarios

Stream == INSTANCE LogicalStream WITH
  Answers <- {"open_ack", "open_reject"}, WriteBudget <- 2, end <- streamEnd, wire <- streamWire,
  carrier <- streamCarrier, control <- streamControl, ledger <- streamLedger

\* One sender across two rekeys, and two senders that share the budget and the counter
\* while messages expire.
Datagram == INSTANCE Unreliable WITH
  Senders <- {"a"}, SendBudget <- 1, WindowBits <- 2, MaxSequence <- 3, MaxEpoch <- 2, Lifetimes <- {1}, MaxTime <- 0
Datagrams == INSTANCE Unreliable WITH
  Senders <- {"a", "b"}, SendBudget <- 2, WindowBits <- 2, MaxSequence <- 3, MaxEpoch <- 0, Lifetimes <- {1}, MaxTime <- 1

\* Two ends that agree, on both paths, and pairs that differ in one field.
Binding(x) == [binding |-> x]
SessionConfig == [channel |-> "ch", hash |-> [h |-> 1], default |-> 1, psk |-> "k", maxInbound |-> 8]
DirectPair ==
  [client |-> Config("client", "direct", SessionConfig, Binding("x"), Binding("x"), "", ""),
   server |-> Config("server", "direct", SessionConfig, Binding("x"), Binding("x"), "", ""),
   clientFeatures |-> {"unreliable"}, serverFeatures |-> {"unreliable"}]
TunnelPair ==
  [client |-> Config("client", "tunnel", SessionConfig, Binding("x"), Zero, "a", "b"),
   server |-> Config("server", "tunnel", SessionConfig, Binding("y"), Binding("x"), "b", "a"),
   clientFeatures |-> {"unreliable"}, serverFeatures |-> {}]
Configurations ==
  {DirectPair, TunnelPair, [TunnelPair EXCEPT !.clientFeatures = {}, !.serverFeatures = {"unreliable"}],
   [TunnelPair EXCEPT !.server.hash = [h |-> 2]], [TunnelPair EXCEPT !.server.psk = "other"],
   [TunnelPair EXCEPT !.server.peerBinding = Binding("z")], [TunnelPair EXCEPT !.client.peerEndpoint = "c"],
   [TunnelPair EXCEPT !.server.binding = Zero], [DirectPair EXCEPT !.server.maxInbound = 9],
   [DirectPair EXCEPT !.client.peerBinding = Binding("z")], [DirectPair EXCEPT !.server.channel = "other"],
   [DirectPair EXCEPT !.server.endpoint = "a"]}
Shake == INSTANCE Handshake WITH
  Pairs <- Configurations, pipe <- handshakePipe, carrier <- handshakeCarrier, end <- handshakeEnd

\* Probes and Close of either end, an idle end, a full queue, a lost carrier and the timeouts.
ControlScenario(p, q, closers, idle, cap, faults) ==
  [probes |-> [e \in {"a", "b"} |-> IF e = "a" THEN p ELSE q], closers |-> closers, idle |-> idle, normalCap |-> cap,
   timeouts |-> "timeouts" \in faults, cancel |-> "cancel" \in faults, loss |-> "loss" \in faults]
ControlScenarios ==
  {ControlScenario({}, {}, {"a", "b"}, {}, 4, {}), ControlScenario({1}, {}, {"a"}, {}, 4, {}),
   ControlScenario({1, 2}, {}, {}, {}, 4, {"cancel"}), ControlScenario({1}, {2}, {}, {}, 1, {}),
   ControlScenario({}, {}, {"b"}, {"a"}, 4, {}), ControlScenario({}, {}, {"a"}, {}, 4, {"loss"}),
   ControlScenario({}, {}, {"a"}, {}, 4, {"timeouts"})}
AControl == ControlScenario({}, {}, {"a", "b"}, {}, 4, {})
Control == INSTANCE SessionControl WITH
  Scenarios <- ControlScenarios, PipeCapacity <- 1, CriticalCap <- 10, pipe <- controlPipe

Frame == INSTANCE WireFrames WITH
  Streams <- {0, 1, 2}, Epochs <- {0, 1, 2}, SequenceNumbers <- {0, 1},
  Kinds <- [size : {0, 1, 128, 129}, edge : BOOLEAN], MetadataSizes <- {0, 2, 4096, 4097},
  DataSizes <- {1, 16383, 16384}, wire <- frameWire, reader <- frameReader

\* Values around every limit, and documents in every spelling of two members.
Number(n) == [num |-> n]
Zeros(n) == [items |-> [i \in 1..n |-> Number("0")]]
Members ==
  {[str |-> t] : t \in {"empty", "html", "control", "long"}}
  \cup {Number("0"), Number("1.5"), [lit |-> "true"]} \cup {Zeros(n) : n \in 0..3}
  \cup {[items |-> <<Zeros(1)>>], [map |-> <<>>], [map |-> "a" :> Number("0")], [map |-> "a" :> Zeros(0)]}
MetadataValues ==
  {[map |-> f] : f \in UNION {[ks -> Members] : ks \in {ks \in SUBSET {"a", "aa", "basic", "astral", "control"} : Cardinality(ks) <= 2}}}
  \cup {[map |-> [k \in {"a", "basic", "astral"} |-> Number("0")]]}
RawMembers ==
  [key : {"a", "basic", "astral"}, plain : BOOLEAN,
   value : {[str |-> "a", plain |-> b] : b \in BOOLEAN}
           \cup {Number("0"), Number("-0"), Number("1.5"), [lit |-> "true"], [items |-> <<>>], [members |-> <<>>]}]
MetadataDocuments ==
  {[root |-> [members |-> ms], spaced |-> FALSE, trailing |-> FALSE] :
     ms \in {<<>>} \cup {<<m>> : m \in RawMembers} \cup (RawMembers \X RawMembers)}
  \cup [root : {[members |-> <<>>], [items |-> <<>>]}, spaced : BOOLEAN, trailing : BOOLEAN]
ADocument == [root |-> [members |-> <<>>], spaced |-> FALSE, trailing |-> FALSE]
Metadata == INSTANCE OpenMetadata WITH
  MaxBytes <- 18, MaxDepth <- 3, MaxNodes <- 4, MaxKeys <- 2, MaxArray <- 2, MaxKey <- 1, MaxString <- 2,
  Values <- MetadataValues, Documents <- MetadataDocuments, wire <- metadataWire, stream <- metadataStream,
  at <- metadataAt, input <- metadataInput

setupVars == <<cl, sv, open, resp, wire, ctl, load>>
streamVars == <<streamEnd, unsent, streamWire, streamCarrier, streamControl, streamLedger, app>>
unreliableVars == <<tx, send, net, rx, delivered, now>>
handshakeVars == <<pair, handshakeEnd, handshakePipe, ctx, handshakeCarrier>>
controlVars == <<scenario, ses, task, probe, controlPipe, heard>>
framesVars == <<frame, sender, frameReader, step, frameWire>>
metadataVars == <<metadataInput, metadataAt, metadataStream, metadataWire, got>>

-----------------------------------------------------------------------------
SessionInit ==
  /\ part \in {"ledger", "setup", "stream", "unreliable", "senders", "handshake", "control", "frames", "metadata"}
  /\ Init /\ (part = "ledger" \/ ledger = NewStreamLedger("client"))
  /\ Setup!Init /\ (part = "setup" \/ load = ASetup)
  /\ Stream!Init
  /\ IF part = "senders" THEN Datagrams!Init ELSE Datagram!Init
  /\ Shake!Init /\ (part = "handshake" \/ pair = DirectPair)
  /\ Control!Init /\ (part = "control" \/ scenario = AControl)
  /\ Frame!Init /\ (part = "frames" \/ (frame.type = "data" /\ frame.size = 1 /\ sender = Frame!Home /\ frameReader = Frame!Home))
  /\ Metadata!Init /\ (part = "metadata" \/ metadataInput = [what |-> "document", document |-> ADocument])

SessionNext ==
  /\ UNCHANGED part
  /\ IF part = "ledger" THEN Next ELSE UNCHANGED vars
  /\ IF part = "setup" THEN Setup!Next ELSE UNCHANGED setupVars
  /\ IF part = "stream" THEN Stream!Next ELSE UNCHANGED streamVars
  /\ \/ part = "unreliable" /\ Datagram!Next
     \/ part = "senders" /\ Datagrams!Next
     \/ part \notin {"unreliable", "senders"} /\ UNCHANGED unreliableVars
  /\ IF part = "handshake" THEN Shake!Next ELSE UNCHANGED handshakeVars
  /\ IF part = "control" THEN Control!Next ELSE UNCHANGED controlVars
  /\ IF part = "frames" THEN Frame!Next ELSE UNCHANGED framesVars
  /\ IF part = "metadata" THEN Metadata!Next ELSE UNCHANGED metadataVars

\* The fairness of each component while it is the part that runs.
progress == part = "setup" /\ load \in SetupProgress

SetupFairness ==
  /\ \A k \in {1, 2} : /\ WF_setupVars(progress /\ Setup!ClientSteps(k))
                       /\ WF_setupVars(progress /\ Setup!ServerSteps(k))
  /\ WF_setupVars(progress /\ Setup!ControlSteps)
  /\ WF_setupVars(progress /\ Setup!ClientCarrierLost)
  /\ WF_setupVars(progress /\ Setup!ServerCarrierLost)
  /\ WF_setupVars(progress /\ Setup!UpdateDeadline)
  /\ WF_setupVars(progress /\ Setup!ServerUpdates)
  /\ WF_setupVars(progress /\ Setup!ServerGivesUp)

StreamFairness ==
  /\ WF_streamVars(part = "stream" /\ (Stream!AcceptOpen \/ Stream!AcceptFails))
  /\ WF_streamVars(part = "stream" /\ Stream!Answer)
  /\ WF_streamVars(part = "stream" /\ Stream!ReceiveResponse)
  /\ WF_streamVars(part = "stream" /\ streamEnd["acceptor"].rejected /\ Stream!CloseWrite("acceptor"))
  /\ \A e \in Stream!Ends : /\ WF_streamVars(part = "stream" /\ (Stream!WriteRecord(e) \/ Stream!WriteFails(e)))
                     /\ WF_streamVars(part = "stream" /\ (Stream!Read(e) \/ Stream!ReadFails(e)))
                     /\ WF_streamVars(part = "stream" /\ Stream!ReceiveStreamReset(e))

ShakeFairness ==
  /\ \A e \in Shake!Ends : WF_handshakeVars(part = "handshake" /\ Shake!Step(e))
  /\ WF_handshakeVars(part = "handshake" /\ Shake!WriteInit)
  /\ WF_handshakeVars(part = "handshake" /\ Shake!ReadInit)
  /\ WF_handshakeVars(part = "handshake" /\ Shake!ReadServerFinished)
  /\ WF_handshakeVars(part = "handshake" /\ Shake!ReadClientFinished)

ControlFairness ==
  \A e \in Control!Ends : /\ \A w \in Control!Workers : WF_controlVars(part = "control" /\ Control!worker(e, w))
                          /\ WF_controlVars(part = "control" /\ Control!closing(e))
                          /\ WF_controlVars(part = "control" /\ Control!CarrierEnds(e))

sessionVars ==
  <<part, vars, setupVars, streamVars, unreliableVars, handshakeVars, controlVars, framesVars, metadataVars>>

SessionSpec ==
  /\ SessionInit
  /\ [][SessionNext]_sessionVars
  /\ SetupFairness /\ StreamFairness /\ ShakeFairness /\ ControlFairness

-----------------------------------------------------------------------------
\* Budgets are exact however an operation ends: a permit is held by every open under way and by every registered
\* stream (releasePermit and release in openStream and acceptCarrierStream), a message slot by every Send under way
\* (dropped messages do not use up the budget), and neither by anything else.
BudgetsExact ==
  /\ part = "setup" => Setup!TypeOK /\ Setup!PermitsExact
  /\ part = "unreliable" => Datagram!SlotsExact
  /\ part = "senders" => Datagrams!SlotsExact

\* Opener and acceptor agree while opens, GOAWAY, Close and rekeys interleave. A stream both hold is read in the
\* epoch it is written in, also if a rekey commits between the capture of the epochs and the registration; the
\* opener's rekey finds the acceptor at its own watermark and no preface is a duplicate; a GOAWAY never fails its
\* receiver, unless repeated; and when nothing is under way no stream is open on one side only.
SetupAgrees ==
  part = "setup" => Setup!EpochsAgree /\ Setup!WatermarksAgree /\ Setup!GoAwayValid /\ Setup!NoHalfOpenStream

\* The two ends of a stream agree on how it ends: whatever the order of writes, half-closes, resets and rejects, no
\* honest record is called a protocol violation (failProtocol); an end of file comes after every byte the peer ever
\* wrote; and a stream that is clean at one end was half-closed by both.
StreamsAgree ==
  part = "stream" => Stream!TypeOK /\ Stream!NoFalseViolation /\ Stream!EOFIsWhole /\ Stream!CleanIsMutual

\* No datagram of the current receive epoch or of the one before it is returned by Receive twice, however often and in
\* whatever order the network delivers it; an older one is only if its window was dropped (acceptSequence) while a
\* stream kept its root (cleanupEpochRoots). What the sender's epoch seals can be read, whatever streams clean up; no
\* two datagrams carry one sequence number, up to the last there is; and the window is exact: a datagram inside it
\* that was not seen is never refused.
DatagramsOnce ==
  /\ part = "unreliable" => /\ Datagram!TypeOK /\ Datagram!AtMostOnce /\ Datagram!SenderReadable
                            /\ Datagram!SequencesUnique /\ Datagram!WindowExact
  /\ part = "senders" => /\ Datagrams!TypeOK /\ Datagrams!AtMostOnce
                         /\ Datagrams!SequencesUnique /\ Datagrams!WindowExact

\* Two ends that both complete the handshake hold the same key, transcript and features. Neither completes it unless
\* the configurations agree on channel, contract, key, suite, capacity, bindings and identities, the server only
\* after the client; and two compatible ends whose contexts live are never refused by each other's checks.
HandshakeAgrees ==
  part = "handshake" => Shake!TypeOK /\ Shake!KeysAgree /\ Shake!OnlyCompatible /\ Shake!CompatibleSucceeds

\* The control stream loses nothing: a queued record has a writer under way or a wakeup pending (control.go:117-157);
\* ProbeLiveness succeeds only for a PING the peer has read, never on the PONG of a canceled probe; and closing a
\* healthy session, from one end or both, is a clean close at both, unless a flush ran into its timeout.
ControlSafe ==
  part = "control" => Control!TypeOK /\ Control!WriterWoken /\ Control!ProbeHeard /\ Control!CleanClose

\* What one session sends, the other takes, and nothing else: a record the sender's checks let through is accepted at
\* its position, up to the limits, which fit together (an OPEN with the largest kind and metadata included); no two
\* records share key and nonce; a record moved to another stream, direction, epoch or place is refused; and metadata
\* that NewStreamMetadata accepted arrives as the same object, in the one spelling both ends hash.
RecordsFit ==
  /\ part = "frames" => /\ Frame!TypeOK /\ Frame!SentIsReadable /\ Frame!LimitsFit
                        /\ Frame!NonceUsedOnce /\ Frame!OnlyInPlace
  /\ part = "metadata" => Metadata!TypeOK /\ Metadata!MetadataSurvives /\ Metadata!OneSpelling

\* What a session owes: the return of an open, the release of a stream that is over, the return of Establish and of
\* Close, and the end of the workers of a session that has its cause.
SessionOwed ==
  \/ progress /\ Setup!OpenOwed
  \/ part = "stream" /\ Stream!ReleaseOwed
  \/ part = "handshake" /\ Shake!EstablishOwed
  \/ part = "control" /\ (Control!CloseOwed \/ Control!WorkersOwed)

\* Nothing is owed for ever. An open whose OPEN is written returns, whatever the acceptor, a GOAWAY or a rekey
\* does; a stream that is over gives back permit and registration (releaseOnce), also when its STREAM_RESET was
\* overtaken; both calls of Establish return without waiting for a timeout; Close does too, unless PINGs overflow the
\* queue; and a session that has its cause ends its writer, reader and idle loop.
SessionEnds == SessionOwed ~> ~SessionOwed
=============================================================================
