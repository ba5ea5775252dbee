------------------------------ MODULE MCCarriers ------------------------------
(***************************************************************************)
(* The carriers on small instances: WebSocket admission and Yamux, raw     *)
(* QUIC, WebTransport, the life of a carrier stream, and the weak-network  *)
(* pumps that test them. Every behaviour runs one component, "part"; the   *)
(* others stay in an initial state.                                        *)
(***************************************************************************)
EXTENDS Integers, Sequences, FiniteSets, SequencesExt

CONSTANTS a1, a2, c1, c2, s1, s2, s3, m1, m2

VARIABLES
  part,
  pendingSrv, pendingPump, pendingCall, pendingPeer,
  websocketCand, websocketDial, websocketConn, websocketHandle, websocketMux, websocketLoop, websocketSession, websocketAccept,
  yamuxBudget, yamuxTracker, yamuxWriting, yamuxConn, yamuxLeft,
  receiveWire, receiveReader, receiveMemory,
  lifecycleCarrier, lifecycleLife, lifecycleCall, lifecycleParent,
  quicSock, quicConn, quicDial, quicSession, quicMigrate, quicClosing,
  webtransportCtx, webtransportDial, webtransportDialer, webtransportConn, webtransportUse, webtransportServer,
  packetP, packetRelay, packetReader, packetWriter, packetQueue, packetWrote, packetCore, packetCloser, packetNow,
  connP, connRelay, connReader, connWriter, connQueue, connAck, connSink, connEmitted, connCore, connCloser, connNow

Pending == INSTANCE WebSocketPending WITH
  MessageBudget <- 3, srv <- pendingSrv, pump <- pendingPump, call <- pendingCall, peer <- pendingPeer

WebSocket == INSTANCE WebSocketCarrier WITH
  Candidates <- [scheme : {"ws", "wss"}, agreed : BOOLEAN], StreamBudget <- 3, AcceptCapacity <- 1,
  Acceptors <- {a1, a2}, Closers <- {c1}, cand <- websocketCand, dial <- websocketDial, conn <- websocketConn,
  handle <- websocketHandle, mux <- websocketMux, loop <- websocketLoop, session <- websocketSession,
  accept <- websocketAccept

\* A window update between two data frames, of lengths around the limit.
YamuxWire(w, n) == <<[kind |-> "data", length |-> 2], [kind |-> "window", length |-> w], [kind |-> "data", length |-> n]>>
YamuxWires == {YamuxWire(w, n) : w \in {1, 3}, n \in {0, 1, 3}}
AYamuxWire == YamuxWire(1, 0)
Mux == INSTANCE Yamux WITH
  Streams <- {1, 2}, MaxQueue <- 3, HeaderBytes <- 2, WriteSizes <- {1, 2}, WriteBudget <- 3,
  Wires <- YamuxWires, MaxFrame <- 2, Managed <- {s1, s2, s3}, MaxActive <- 2, MaxStream <- 2, MaxSession <- 3,
  Sizes <- {1, 2}, budget <- yamuxBudget, tracker <- yamuxTracker, writing <- yamuxWriting, conn <- yamuxConn,
  left <- yamuxLeft, wire <- receiveWire, reader <- receiveReader, memory <- receiveMemory

Life == INSTANCE StreamLifecycle WITH
  Carriers <- {"websocket", "raw_quic", "webtransport"}, carrier <- lifecycleCarrier, life <- lifecycleLife,
  call <- lifecycleCall, parent <- lifecycleParent

Quic == INSTANCE RawQuic WITH
  Migrations <- {m1, m2}, Closers <- {c1, c2}, sock <- quicSock, conn <- quicConn, dial <- quicDial,
  session <- quicSession, migrate <- quicMigrate, closing <- quicClosing

Wt == INSTANCE WebTransport WITH
  Closers <- {c1, c2}, ctx <- webtransportCtx, dial <- webtransportDial, dialer <- webtransportDialer,
  conn <- webtransportConn, use <- webtransportUse, server <- webtransportServer

\* Datagrams lost, doubled, reordered, delayed, limited, rebound, and a pump that is closed, canceled or run again.
NoRate == [bytesPerSecond |-> 0, burstBytes |-> 0]
APacketProfile ==
  [lost |-> {}, reorder |-> {}, duplicate |-> {}, rebinds |-> <<>>, delay |-> 0, jitter |-> <<>>, rate |-> NoRate, mtu |-> 0,
   queueUnits |-> 0, queueBytes |-> 0, script |-> <<1, 2, 1>>, again |-> FALSE, fails |-> FALSE, stops |-> "none"]
PacketProfiles ==
  LET b == APacketProfile
  IN  {b, [b EXCEPT !.reorder = {1}, !.jitter = <<0, 1>>, !.stops = "close", !.script = <<1, 2>>],
       [b EXCEPT !.reorder = {1}, !.delay = 1, !.stops = "cancel", !.script = <<1, 2>>],
       [b EXCEPT !.reorder = {1, 2}, !.script = <<1, 2, 1, 1>>],
       [b EXCEPT !.duplicate = {1, 3}, !.queueUnits = 2, !.queueBytes = 3, !.delay = 1],
       [b EXCEPT !.lost = {2}, !.again = TRUE, !.reorder = {1}],
       [b EXCEPT !.duplicate = {2}, !.rate = [bytesPerSecond |-> 1, burstBytes |-> 2], !.mtu = 2, !.script = <<1, 2, 3>>],
       [b EXCEPT !.duplicate = {2}, !.rate = [bytesPerSecond |-> 2, burstBytes |-> 1], !.fails = TRUE, !.script = <<1, 2>>],
       [b EXCEPT !.rebinds = <<TRUE, FALSE>>, !.delay = 1]}
Packet == INSTANCE PacketPump WITH
  Profiles <- PacketProfiles, DefaultQueue <- 1, MaxTime <- 6, LastArrival <- 1, Second <- 2, p <- packetP,
  relay <- packetRelay, reader <- packetReader, writer <- packetWriter, queue <- packetQueue,
  wrote <- packetWrote, core <- packetCore, closer <- packetCloser, now <- packetNow

\* A byte stream that is split, coalesced, delayed, limited, interrupted or held back, and a pump that is closed, canceled or run again.
AByteProfile ==
  [delay |-> 0, jitter |-> <<>>, rate |-> NoRate, outages |-> <<>>, pattern |-> <<>>, coalesce |-> 0, backpressure |-> 0,
   readBuffer |-> 3, script |-> 3, halfCloser |-> TRUE, again |-> FALSE, reran |-> FALSE, fails |-> FALSE, stops |-> "none"]
ByteProfiles ==
  LET b == AByteProfile
  IN  {b, [b EXCEPT !.pattern = <<1, 2>>, !.jitter = <<1, 0>>, !.stops = "close", !.script = 2],
       [b EXCEPT !.coalesce = 2, !.backpressure = 2, !.delay = 1], [b EXCEPT !.coalesce = 3, !.backpressure = 2],
       [b EXCEPT !.backpressure = 1, !.outages = <<1>>, !.stops = "cancel", !.script = 2],
       [b EXCEPT !.coalesce = 2, !.backpressure = 3, !.fails = TRUE],
       [b EXCEPT !.again = TRUE, !.halfCloser = FALSE, !.coalesce = 2, !.script = 2],
       [b EXCEPT !.rate = [bytesPerSecond |-> 2, burstBytes |-> 2], !.coalesce = 2, !.pattern = <<1>>, !.script = 4],
       [b EXCEPT !.rate = [bytesPerSecond |-> 2, burstBytes |-> 1], !.jitter = <<0, 3, 0>>, !.script = 4],
       [b EXCEPT !.rate = [bytesPerSecond |-> 1, burstBytes |-> 1], !.pattern = <<1, 2>>]}
Bytes == INSTANCE ConnPump WITH
  Profiles <- ByteProfiles, DefaultQueue <- 2, MaxTime <- 12, LastArrival <- 1, Second <- 2, p <- connP,
  relay <- connRelay, reader <- connReader, writer <- connWriter, queue <- connQueue, ack <- connAck,
  sink <- connSink, emitted <- connEmitted, core <- connCore, closer <- connCloser, now <- connNow

pendingVars == <<pendingSrv, pendingPump, pendingCall, pendingPeer>>
websocketVars == <<websocketCand, websocketDial, websocketConn, websocketHandle, websocketMux, websocketLoop, websocketSession, websocketAccept>>
yamuxVars == <<yamuxBudget, yamuxTracker, yamuxWriting, yamuxConn, yamuxLeft>>
receiveVars == <<receiveWire, receiveReader, receiveMemory>>
lifecycleVars == <<lifecycleCarrier, lifecycleLife, lifecycleCall, lifecycleParent>>
quicVars == <<quicSock, quicConn, quicDial, quicSession, quicMigrate, quicClosing>>
webtransportVars == <<webtransportCtx, webtransportDial, webtransportDialer, webtransportConn, webtransportUse, webtransportServer>>
packetVars == <<packetP, packetRelay, packetReader, packetWriter, packetQueue, packetWrote, packetCore, packetCloser, packetNow>>
connVars == <<connP, connRelay, connReader, connWriter, connQueue, connAck, connSink, connEmitted, connCore, connCloser, connNow>>

-----------------------------------------------------------------------------
CarriersInit ==
  /\ part \in {"pending", "websocket", "yamux", "receive", "lifecycle", "quic", "webtransport", "packet", "conn"}
  /\ Pending!Init /\ (part = "pending" \/ pendingPeer.honest)
  /\ WebSocket!Init /\ (part = "websocket" \/ websocketCand = [scheme |-> "wss", agreed |-> TRUE])
  /\ Mux!Init /\ (part = "receive" \/ receiveWire = AYamuxWire)
  /\ Life!Init /\ (part = "lifecycle" \/ lifecycleCarrier = "raw_quic")
  /\ Quic!Init
  /\ Wt!Init
  /\ Packet!Init /\ (part = "packet" \/ packetP = APacketProfile)
  /\ Bytes!Init /\ (part = "conn" \/ connP = AByteProfile)

CarriersNext ==
  /\ UNCHANGED part
  /\ IF part = "pending" THEN Pending!Next ELSE UNCHANGED pendingVars
  /\ IF part = "websocket" THEN WebSocket!Next ELSE UNCHANGED websocketVars
  /\ IF part = "yamux" THEN Mux!WriteNext ELSE UNCHANGED yamuxVars
  /\ IF part = "receive" THEN Mux!ReceiveNext ELSE UNCHANGED receiveVars
  /\ IF part = "lifecycle" THEN Life!Next ELSE UNCHANGED lifecycleVars
  /\ IF part = "quic" THEN Quic!Next ELSE UNCHANGED quicVars
  /\ IF part = "webtransport" THEN Wt!Next ELSE UNCHANGED webtransportVars
  /\ IF part = "packet" THEN Packet!Next ELSE UNCHANGED packetVars
  /\ IF part = "conn" THEN Bytes!Next ELSE UNCHANGED connVars

\* The fairness of each component while it is the part that runs.
PendingFairness ==
  /\ WF_pendingVars(part = "pending" /\ Pending!Pump)
  /\ WF_pendingVars(part = "pending" /\ Pending!Calls)
  /\ WF_pendingVars(part = "pending" /\ Pending!ReceiveCanceled)
  /\ WF_pendingVars(part = "pending" /\ Pending!SessionFails)

WebSocketFairness ==
  /\ WF_websocketVars(part = "websocket" /\ WebSocket!PublishSession)
  /\ WF_websocketVars(part = "websocket" /\ WebSocket!HandleCloseEnds)
  /\ WF_websocketVars(part = "websocket" /\ (WebSocket!LoopAccepts \/ WebSocket!LoopFails \/ WebSocket!LoopOffers \/ WebSocket!LoopResets))
  /\ WF_websocketVars(part = "websocket" /\ (WebSocket!CloseControl \/ WebSocket!CloseMux))
  /\ \A a \in {a1, a2} : WF_websocketVars(part = "websocket" /\ WebSocket!AcceptGets(a))

QuicFairness ==
  /\ WF_quicVars(part = "quic" /\ Quic!CloseMigrations)
  /\ WF_quicVars(part = "quic" /\ Quic!CloseMain)
  /\ \A m \in {m1, m2} : WF_quicVars(part = "quic" /\ (Quic!MigrateRefused(m) \/ Quic!AddPath(m)))

WtFairness ==
  /\ WF_webtransportVars(part = "webtransport" /\ Wt!Running)
  /\ WF_webtransportVars(part = "webtransport" /\ Wt!Dialing)
  /\ WF_webtransportVars(part = "webtransport" /\ Wt!Serving)
  /\ WF_webtransportVars(part = "webtransport" /\ Wt!Inner)
  /\ WF_webtransportVars(part = "webtransport" /\ Wt!InnerStops)

PacketFairness ==
 /\ WF_packetVars(part = "packet" /\ Packet!Reader)
 /\ WF_packetVars(part = "packet" /\ Packet!Writer)
 /\ WF_packetVars(part = "packet" /\ Packet!CoreStep)

BytesFairness ==
 /\ WF_connVars(part = "conn" /\ Bytes!Reader)
 /\ WF_connVars(part = "conn" /\ Bytes!Writer)
 /\ WF_connVars(part = "conn" /\ Bytes!CoreStep)

carriersVars ==
  <<part, pendingVars, websocketVars, yamuxVars, receiveVars, lifecycleVars, quicVars, webtransportVars,
    packetVars, connVars>>

CarriersSpec ==
  /\ CarriersInit
  /\ [][CarriersNext]_carriersVars
  /\ PendingFairness /\ WebSocketFairness /\ QuicFairness /\ WtFairness /\ PacketFairness /\ BytesFairness

-----------------------------------------------------------------------------
\* A WebSocket becomes a carrier in the right order: activating comes before the peer can read the response, so a peer
\* that waits for it is never closed for an unexpected message, and no byte reaches Yamux unless the admitting
\* response was committed.
PendingSafe == part = "pending" => Pending!TypeOK /\ Pending!HonestPeerAccepted /\ Pending!NoEarlyBytes

\* A carrier leaves nothing open, and closes nothing in use. WebSocket: a failed dial and a closed handle or session
\* leave no connection, also when closed while Establish publishes, and every stream taken from Yamux is offered,
\* delivered or reset. Streams: the context ends when both halves have, and not with one clean half. Raw QUIC: a live
\* connection keeps every socket it was bound to, and none is left after Close, whichever of Close and Migrate came
\* first. WebTransport: CloseLocal leaves no usable connection, no session is handed out whose dialer was closed, a
\* timed out drain leaves nothing, and webtransport-go's count is never raised while Close waits for it.
CarriersReleased ==
  /\ part = "websocket" => WebSocket!TypeOK /\ WebSocket!ConnectionReleased /\ WebSocket!NoStreamLost
  /\ part = "lifecycle" => Life!TypeOK /\ Life!EndedWhenOver /\ Life!HalfCloseKeepsAlive
  /\ part = "quic" => Quic!TypeOK /\ Quic!BoundSocketsStay /\ Quic!SocketsReleased
  /\ part = "webtransport" => /\ Wt!TypeOK /\ Wt!LocallyUnusable /\ Wt!NothingLeft
                              /\ Wt!ReadyIsOpen /\ Wt!NoAddDuringWait

\* The limits around libyamux count exactly. A stream's write budget is what the connection has still to write of its
\* bodies and what its Write has not handed over, however writes are cut; the tracker holds exactly the streams with
\* pending bytes; the parser is where the writer is. On the way in, the reader stands at a frame between two frames,
\* delivers no byte of one above the limit, and the memory counters are the sums over the streams.
YamuxExact ==
  /\ part = "yamux" => Mux!TypeOK /\ Mux!PendingExact /\ Mux!TrackerExact /\ Mux!ParserInStep
  /\ part = "receive" => Mux!TypeOK /\ Mux!ReaderAligned /\ Mux!OversizedNeverDelivered /\ Mux!MemoryExact

\* The UDP relay keeps its books: every datagram and byte is accounted for at every moment, through overflow, failed
\* schedules and writes and a second Run (CheckUDPConservation, verifyDrained); an admitted delivery finds room in the
\* channel; a datagram held back is written after a later one, unless that one overflowed; and each goes to the target
\* of its own source.
PacketsKept ==
  part = "packet" => /\ Packet!TypeOK /\ Packet!Conserved /\ Packet!QueueBounded
                     /\ Packet!ReorderedLater /\ Packet!TargetKept

\* The byte relay loses and invents nothing: the destination has a prefix of what the source sent, and all of it with
\* the half-close when Run returns nil (only a second Run, which discards what the first one holds, breaks this);
\* every byte is accounted for (CheckByteConservation); what is held stays within the backpressure budget; and no more
\* is scheduled in any stretch of time than burst and rate allow.
BytesKept ==
  part = "conn" => /\ Bytes!TypeOK /\ Bytes!StreamOrdered /\ Bytes!NilIsWhole
                   /\ Bytes!Conserved /\ Bytes!BudgetKept /\ Bytes!RateBound

\* What a carrier owes: the release of a closed transport, the return of AcceptStream, of the accept loop and of
\* Close, and the end of a failed dial; and what a pump owes: the return of Run once it is closed, its context or its
\* source has ended, or one of its halves has failed, and the release of a blocked reader. Nothing is owed while a
\* migration probes, or while a destination that is open holds a Write: neither has a deadline of its own.
CarrierOwed ==
  \/ part = "pending" /\ Pending!ReleaseOwed
  \/ part = "websocket" /\ (WebSocket!AcceptsOwed \/ WebSocket!LoopOwed)
  \/ part = "quic" /\ Quic!CloseOwed
  \/ part = "webtransport" /\ Wt!OwnersOwed
  \/ part = "packet" /\ Packet!RunOwed
  \/ part = "conn" /\ (Bytes!RunOwed \/ Bytes!ReaderOwed)

\* Nothing is owed for ever: a closed pending WebSocket releases transport and session whether Close or Activate came
\* first, and no late response revives it; acceptors return once Yamux is down, the accept loop ends after Close even
\* with a full queue; a raw QUIC Close returns once no migration is probing; a failed WebTransport dial and the Close of
\* its owners end; Run of either pump returns, though the peers of its connections stay silent once these are closed;
\* and a reader blocked by backpressure is released.
CarriersEnd ==
  /\ CarrierOwed ~> ~CarrierOwed
  /\ Pending!ClosedIsFinal
=============================================================================
