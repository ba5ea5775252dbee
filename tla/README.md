# Flowersec in TLA+

TLA+ models of Flowersec, written from the Go reference implementation
(`src/flowersec-go`): TLC checks small instances, TLAPS proves what matters most
for every value of the constants. Paths below are relative to `src/flowersec-go`.

## The system

Flowersec connects two endpoints and gives them an encrypted session with
streams, RPC and unreliable messages.

    application
      ConnectionController      attempts, backoff, RetryNow, one live session
        ArtifactSource          a fresh artifact lease per attempt
          Connector             candidate race, durable spend, admission
            session engine      handshake, streams, rekey, messages, RPC
              carrier           WebSocket + Yamux, raw QUIC, WebTransport

On the other side an *acceptor* or the *runtime command* listens, asks the
control plane to authorize what was presented, and serves the session with its
handlers (RPC, proxy). A *tunnel* connects two legs that cannot reach each other:
its *coordinator* admits and pairs them, its *bridge* copies ciphertext between
them. The *weak-network pumps* are the relays the repository tests its carriers
with. The TypeScript, Rust and Swift SDKs are ports of the Go code, which these
models follow.

| Part | Source | Modules | Suite |
|---|---|---|---|
| Logical stream ledger | `internal/protocolv2/state.go` | `StreamLedger`, `LedgerCalls`, `PackedLedger`, `LedgerProofs` | session, rekey |
| Session rekey | `internal/session/{control,stream,engine}.go` | `SessionRekey` | rekey |
| Stream setup, GOAWAY | `internal/session/{stream,engine,control}.go` | `StreamSetup` | session |
| Logical streams | `internal/protocolv2/logical_stream.go`, `internal/session/stream.go` | `LogicalStream` | session |
| Unreliable messages | `internal/session/unreliable.go` | `Unreliable` | session |
| Handshake | `internal/session/{handshake,engine}.go` | `Handshake`, `HandshakeChecks` | session |
| Control stream, close, liveness | `internal/session/{control,engine}.go` | `SessionControl` | session |
| Records, keys, OPEN metadata | `internal/protocolv2` | `WireFrames`, `OpenMetadata` | session |
| Tunnel coordinator | `internal/tunnelv2/coordinator.go` | `TunnelCoordinator`, `CoordinatorSteps`, `CoordinatorProofs` | tunnel |
| Tunnel bridge, native leg | `internal/tunnelv2/{broker,native_leg}.go` | `TunnelBridge` | tunnel |
| Connection controller | `connection_controller.go` | `ConnectionController`, `ConnectionLifecycle`, `ControllerProofs` | client |
| Connector, artifact lease | `internal/connectv2`, `internal/candidatev2`, `artifact.go` | `Connector`, `ConnectorProofs` | client |
| Capabilities | `internal/runtimev2` | `Capabilities` | client |
| Artifacts and control plane | `controlplane`, `internal/artifactv2` | `ControlPlane` | client |
| Carrier limits | `internal/candidatev2/dialers.go`, `internal/carrier`, command configuration | `CarrierLimits` | client |
| Acceptor, handlers, leases | `acceptor.go`, `server.go` | `Acceptor` | services |
| Admission exchange | `internal/admissionv2` | `Admission` | services |
| Runtime command | `cmd/flowersec-runtime` | `RuntimeServer` | services |
| Proxy | `proxy_server*.go` | `ProxyServer` | services |
| RPC | `internal/rpc` | `RpcSession` | services |
| WebSocket carrier | `internal/carrier/websocket` | `WebSocketPending`, `WebSocketCarrier` | carriers |
| Yamux limits | `internal/mux/yamux` | `Yamux` | carriers |
| Carrier streams | `internal/carrier/internal/lifecycle` | `StreamLifecycle` | carriers |
| Raw QUIC, WebTransport | `internal/carrier/{rawquic,webtransport}` | `RawQuic`, `WebTransport` | carriers |
| Weak-network pumps | `internal/weaknet` | `PumpCore`, `PacketPump`, `ConnPump` | carriers |

`PROJECT.json` holds the same inventory with the reasons for what is left out, the
lines every definition stands for, and the hazards of the code with the
properties that would catch them.

## How the models are made

A step is what one goroutine does while it holds a mutex, or one call that
blocks. Where the code checks under a lock and acts after it, or captures a
channel in a second critical section, the steps are separate. Values are
abstracted to what a property tells apart: a key is the tuple it is derived from,
a hash the tuple it hashes, a body the sequence of its chunk sizes, a record its
type, epoch and sequence number. Sizes, limits, counters and times stay numbers.

What is outside the repository is modelled from how the code uses it and marked
external in `PROJECT.json`: QUIC and WebTransport libraries, libyamux, the
network, the HTTP upstreams, and the application. A network write may fail, a
peer may be silent, a context may end at any moment. A carrier stream keeps the
order of its bytes until a reset overtakes them; nothing orders two streams.
Memory that a process crash loses and the durable record that survives it are
separate variables of `Connector`.

Mutated forms of definitions stand before the definition they change and are
named in `PROJECT.json` with the property each one breaks.

## The modules

### Session

**StreamLedger, LedgerCalls, PackedLedger.** A session numbers the logical
streams of each opener role and must resolve every ID once. `StreamLedger` has
the methods of the Go type as operators on a record (`role`, `states`,
`frontier`); `LedgerCalls` calls them in any order with any ID, zero, IDs of the
other role and IDs beyond the cap included. `PackedLedger` has the bytes with four
two-bit states each and the loop of `advanceFrontier`, and implements
`LedgerCalls`.

**SessionRekey.** Two endpoints with open streams, either of which may call
`Rekey`, write, half-close, reset or read at any time. The state is a record of
the two `engineSession`s and of what is in flight. The actions are the steps of
the `Rekey` call, of each stream's writer, reader and ACK goroutine, of the
goroutine that waits for the peer's ACK, of the control loop and of the goroutine
that answers a received update. `awaitReceiveRekey` looks at its status and
captures its wake-up channel in separate steps, at both of its `select`s. `Rekey`
starts the update of all its streams in one step, and no stream is opened
meanwhile; the barrier between opens and updates is part of `StreamSetup`.

**StreamSetup.** `openStream` of a client and `acceptCarrierStream` of a server,
from the permit to the registration, with cancellation, rejection, GOAWAY, `Close`
and a rekey of either side running beside them. The other direction is the same
code. `openGate` is the test an open meets first: refused, made to wait, or let
through.

**LogicalStream.** The two `LogicalStreamState`s of one stream. A method decides
under `stateMu` and writes afterwards, so a decided record may still be unsent
while the reader of the same end goes on.

**Unreliable.** `Send` with its slot, its epoch and its sequence number; a network
that loses, repeats and reorders; `Receive` with one replay window per epoch; and
the rekeys that add and remove receive roots.

**Handshake, HandshakeChecks.** `Establish` of both ends with every check of
FSC2 and the three FSH2 messages, over pairs of configurations that agree or
differ in one field; a context may end and a carrier be closed at any step.

**SessionControl.** The bounded control queue and its writer, the reader,
`ProbeLiveness`, the idle timer, and the three ways a session ends (`Close`, the
peer's SESSION_CLOSE, `fail`), which share one `sync.Once`.

**WireFrames, OpenMetadata.** One record through the sender's checks, the wire and
the reader's checks, at any position and around every size limit; and one
metadata object from `NewStreamMetadata` to `decodeMetadata`, or one document
spelled in any way, through the canonical form.

### Tunnel

**TunnelCoordinator.** A leg is one `Serve` call, a generation a `pairGeneration`
named by the leg that creates it. Every critical section of the coordinator's
mutex is a step. The replacement of an old generation, the pair timer and its
callback (a fired timer cannot be recalled), the cancel callback, the waiting
guards, the activation and the teardown interleave with it. What the authorizer
verified is the constant `Claims`.

**TunnelBridge.** The guard of a native leg and its hand-over, then `Bridge`: the
control pair, an accept loop per leg with the semaphore, a splice of two copies
per stream, the task group and the cleanup timeout.

### Client

**ConnectionController, ConnectionLifecycle.** The scheduler goroutine (acquire,
connect, publish, watch, wait) and the calls `Start`, `RetryNow`,
`WaitForSnapshotChange` and `Close`. Time is what is left of a wait and of a
`retry_after` deadline. `ConnectionLifecycle` is what a watcher of the snapshots
may rely on; the controller is shown to implement it.

**Connector.** `Connect` calls that may share an artifact lease: candidates race
behind a barrier, `Ready` and `Abort` of an attempt run concurrently, losers are
closed, the artifact is recorded as SPENT, then the credential is written and the
session established. A crash between any two steps keeps only the durable record
and what was sent.

**Capabilities, ControlPlane, CarrierLimits.** What is agreed before a connection:
the descriptor of a composed runtime and the candidates it tries; the documents
of an issued artifact, its stored record over a restart, the request of each
candidate and its authorization; and the limits a contract gives to each carrier
at both ends.

### Services

**Admission, Acceptor.** The exchange of one FSB2 request and one FSA2 response,
each followed by a FIN, while both contexts may end. `handleDirect` takes a slot,
admits, establishes, runs the callback beside `SessionHandlers.Serve`, and
releases the lease.

**RuntimeServer.** `Serve` with four listeners, connections of the three
carriers, the answers of the authorization service, the bridging of streams to an
upstream, and the shutdown on a signal or a failed listener.

**ProxyServer.** One handler per stream under a permit: metadata, request body in
chunks, upstream response, or a WebSocket relay with two pumps; the client's
stream may be reset or lost at any time, and a reset overtakes what the client has
not read.

**RpcSession.** `Call`, cancellation, `Notify` and the read loop of a client; the
read loop, request scheduler and notification worker of a server; request ids
that run out.

### Carriers

**WebSocketPending, WebSocketCarrier.** The exchange of a server's upgraded
WebSocket before it carries Yamux; then the dial, with its cancellation goroutine,
the handle, the session, its accept loop and `Close`.

**Yamux.** The write budget: `Write` reserves before it takes the write lock, the
connection's bytes are cut anywhere, and a parser attributes them to streams. The
receive limits: frames above the limit and memory per stream and session.

**StreamLifecycle, RawQuic, WebTransport.** The context of a half-closed stream;
dial, migration and `Close` over several sockets; dialers, owners, `Serve` and
`Close`, where the handler of a request registers with its library first and is
noticed by the wrapper afterwards.

**PumpCore, PacketPump, ConnPump.** `Run`, `Close` and the run context; a UDP relay
that drops, doubles, reorders, delays, limits and rebinds; a byte relay that
splits, coalesces, delays, limits and holds back.

## Runs

Six suites must pass. Each composes the instances of one layer: the variable
`part` chooses, in the initial state, the instance a behaviour runs, and the
others keep still, so that one run covers every instance of its layer.

| Run | Property | Says |
|---|---|---|
| `rekey` | `RekeyAgrees` | the session commits after its streams, none is left behind, honest ends never contradict each other on the control stream, and every root still needed is held |
| | `StreamsFollow` | after `Rekey` no stream is left on old keys, a stream's failure stays its own, old roots go |
| | `NoncesNeverReused` | no epoch and sequence number is sealed twice on a stream or the control stream |
| | `UpdatesEnd` | an update completes without help of an application or a timer, and fails no session, but for the missed wake-up below |
| | `ImplementsLedger` | the packed ledger implements the abstract one |
| `session` | `LedgerSafe`, `NoRevival` | the frontier is exact, OPEN is accepted once, a resolved ID stays resolved |
| | `BudgetsExact` | stream permits and message slots are held by exactly what is under way |
| | `SetupAgrees` | opener and acceptor agree on epochs, watermarks, GOAWAY and which streams are open |
| | `StreamsAgree` | honest records are no violation, EOF comes after every byte, a clean end is mutual |
| | `DatagramsOnce` | no message of the current epoch or the one before is received twice; the replay window is exact |
| | `HandshakeAgrees` | two ends that complete agree on everything; compatible ones are not refused |
| | `ControlSafe` | no queued record is forgotten, a probe succeeds only if heard, a healthy close is clean at both ends |
| | `RecordsFit` | what is sealed within the limits opens at its own place and nowhere else; metadata survives |
| | `SessionEnds` | opens, releases, `Establish`, `Close` and the workers end |
| `tunnel` | `PairingSafe`, `VariantsSafe` | one authoritative generation per key, mirrored pairs, one claim per credential, exact quotas |
| | `OutcomeOnce` | every lease is released once, no leg is told both answers |
| | `BridgeSafe`, `DataFailuresScoped` | semaphore and tasks are exact; a data stream's failure ends nothing else |
| | `TunnelEnds` | every `Serve` returns or is bridged; a bridge told to end ends |
| `client` | `OneLiveSession` | at most one session is open, and none after `Close` |
| | `AttemptsPaced` | deadlines, attempt limit and backoff hold against `RetryNow` |
| | `ImplementsLifecycle` | snapshots follow the abstract lifecycle |
| | `SpentOnce` | the credential is written once, after the durable record and the end of all losers; a failed `Connect` closed its carriers |
| | `DocumentsAgree`, `OffersFit` | issued documents are usable and lead both ends to one contract; offers fit limits |
| | `ClientEnds` | no watcher misses a change; `Close` and `Connect` return |
| `services` | `ResourcesReturned` | slots come back; `Serve` leaves no socket and no raw QUIC session behind |
| | `LeaseOutlivesWork` | a lease ends after session, callback and handlers |
| | `AuthorizedOnly` | only well-formed requests are authorized, only admitted clients are bridged |
| | `BodiesWhole` | a body that looks complete is complete |
| | `OwnAnswer` | a call gets its own answer |
| | `HandlersEnd` | sessions, exchanges, `Serve`, proxied streams and calls end |
| `carriers` | `PendingSafe` | an honest peer is never cut off by activation; no early byte reaches Yamux |
| | `CarriersReleased` | closed carriers leave nothing open, live ones keep what they use |
| | `YamuxExact` | budgets, tracker, parser and memory counters agree with the bytes |
| | `PacketsKept`, `BytesKept` | the pumps account for every datagram and byte |
| | `CarriersEnd` | closes, accepts, dials and pump runs end |

The comment above each definition states it in full, with its exceptions.

Six runs are expected to be violated: each checks what a comment, a document or a
test of the repository says, and the trace shows the code doing otherwise.

| Run | Violated | What happens |
|---|---|---|
| `rekey_simultaneous` | `PendingACKReadable` | the peer's KEY_UPDATE is read just before the local `Rekey` publishes its own; the peer's old-epoch ACK is then refused |
| `rekey_half_closed` | `FailuresStayStreamScoped` | the peer half-closed the stream and cannot write its ACK; the rekeying session fails |
| `rekey_quiet` | `RekeyCompletes` | `awaitReceiveRekey` captures its channel after the ACK closed the previous one, and waits for the deadline |
| `coord_successor` | `ClosedBeforeSuccessor` | a generation leaves `groups` before its legs are closed, so a new pair can be active meanwhile |
| `lease_released` | `LeaseReleased` | `handleDirect` returns with the lease held when resolving handlers, the response or the session configuration fails after the authorization |
| `proxy_response` | `ResponseDelivered` | the handler's return closes its stream, which resets it, before the client has read the response |

`findings` in `PROJECT.json` quotes the lines. `FailuresStayStreamScoped` also
belongs to `StreamsFollow`: a FIN of the rekeying side never trips it, the
violation takes one of the peer.

### Bounds

Every bound is a constant or a scenario in an MC module or its `.cfg`.

- Ledger: three slots leave a gap on either side of an ID, and the cap; the packed
  one has four slots, a full byte.
- Rekey: both ends at once over one stream; two in a row over one stream with data
  from both and a FIN; one over two streams, the barrier; one against FIN, reset
  and deadlines of the peer. The races are between the goroutines of one stream
  and the control stream. `MaxRekeys`, `MaxData`, `MaxFINs` and `MaxResets` bound the
  application's calls.
- Setup: two opens for one permit, or side by side, with one of cancel, GOAWAY,
  `Close` and rekeys at a time, or two of them around one open.
- Messages: three sequence numbers with a window of two, so that numbers fall out
  of it and run out; three epochs, so that a window is dropped; two senders, one
  clock tick.
- Handshake: a direct and a tunnel pair, and one pair for each field that may differ.
- Control: probes, closes, idle, a full queue, a lost carrier and timeouts, in
  scenarios of at most two.
- Coordinator: up to four legs, what it takes to replace a pair by a pair; quotas
  of one and two; one failing and one canceled leg; one expiring credential.
- Bridge: two streams for one slot.
- Controller: two attempts, three acquisitions, delays of 2 and 3 ticks, so that
  the cap and the limit are both reached. Connector: two candidates, two calls,
  one crash.
- Services: two requests for one slot; two connections, or one of each kind; two
  proxied exchanges, the first of every kind; three calls, one worker, one place
  in the queue.
- Carriers: two or three streams, closers and migrations; three messages; profiles
  of the pumps with three or four units, each with one or two faults.

No symmetry is used: legs, endpoints and calls differ. Deadlock checking is off:
every suite has behaviours that really stop, all calls having returned; the
liveness property of the suite says that nothing stops too early.

### Fairness

Weak fairness is given to what the Go scheduler runs: each goroutine of the code
that can take a step eventually does. It is given to a timer or a context only
where the code sets the deadline itself (`ConnectTimeout`, the admission,
establishment, cleanup and close timeouts, the pair timer, the deadlines of a proxied
request, the runtime's shutdown). A library is fair in what the code relies on: a
closed carrier fails the reads of the other side, a Yamux session without its
connection ends, an HTTP/3 server that is closed returns.

An application need not write, close, retry or call anything. It is asked to do
four things: a reader of a logical stream reads on, `Acquire` and `Connect` return
once canceled (`ConnectionController`), a callback and a handler whose session is
closed return (`Acceptor`), and an RPC handler returns. A peer and an upstream owe
nothing. Where the code waits for them without a deadline of its own, nothing is
owed while it does: a raw QUIC `Close` waits for a migration that is probing, a byte
pump for the `Write` of an open destination, the runtime's `Serve` for upstreams
that keep their connection. The definitions named `...Owed` say so.

`rekey` gives fairness to the goroutines of the repeated update alone, and none to
deadlines; `rekey_quiet` asks the same of one undisturbed update. In `setup`,
`connector` and `runtime`, progress is asked of the scenarios without a second
concurrent call, whose interleavings the safety properties cover.

## Proofs

Proved by TLAPS for every value of the constants. The assumptions on constants
are named in the modules that declare them and evaluated by TLC in the suites.

| Module | Theorems | Assumes |
|---|---|---|
| `LedgerProofs` | `LedgerSafety`, `LedgerNoRevival` | `MaxSlots` is a positive number |
| `CoordinatorSteps`, `CoordinatorProofs` | `PairingIsSafe`, `OneOutcomePerLeg` and their parts `OneAuthorityPerKey`, `OnlyMirroredPairs`, `OneClaimPerCredential`, `QuotaIsExact`, `LeasesReleasedOnce`, `OneVerdictPerLeg`, `CoordinatorTypes` | finitely many legs, roles 1 or 2, positive limits |
| `ConnectorProofs` | `ArtifactSpentOnce` | finitely many calls and candidates; a scenario gives each call some of them |
| `ControllerProofs` | `ControllerOwnsOneSession`, `ControllerPacesAttempts`, `ControllerImplementsLifecycle` | limits and delays are numbers, the backoff factor is positive |

Each proves an inductive invariant, one lemma per action or group of actions, and
derives the properties from it.

**Ledger.** `Inv` adds to the frontier's exactness that an accepted OPEN leaves its
slot terminal and that a reset slot is resolved; without the first, nothing
forbids a second OPEN. `AdvanceExact` shows that `advanceFrontier` stops at the
first unresolved slot; `Step` is what every method does to the ledger, so that the
actions share one argument, which also gives the action property.

**Coordinator.** None of the properties is inductive. `Membership` says where the
legs of a generation are and that one without legs was never touched, so that a
new generation starts clean; `Authority` that `groups` names exactly the live ones;
`Pairing` that two legs of a generation are mirrored from the moment the second
joins; `Leases` ties a lease to its `Serve` call and to the progress of the
teardown; `Verdicts` ties what a leg was told to the fate of its generation;
`ClaimsUsed` keeps a claim in the used table until it expires. `Quota` then counts
waiting and running generations by cardinalities, for which `Inv` says that
`detach` meets each one once.

**Connector.** `CallOK` describes one call: `AttemptOK` which of `Ready` and `Abort`
closes a carrier, `ResultsOK` that the counter of the race is the number of
attempts that have not reported (so the race cannot end early), `RaceOK` that a
call past the race has a winner and that every other attempt is settled. `SpendOK`
ties the calls to the shared lease and the durable record: a consumed lease has at
most one call that may still write, and after a crash only a call that has not
begun. `SpentOnce` excepts what the code excepts: a `Close` that failed, and the two
errors it drops.

**Controller.** `Phases` ties the snapshot to the scheduler's place, `Ownership`
says that only the last session may be open and when, `Counts` relates attempts
and acquisitions, `Waits` that a token in the retry channel was sent after both
the drain and the deadline, `Closing` where the scheduler is once a `Close` has
returned. The backoff is a recursive function in the model; `Recursion` shows that
the function so defined exists, by the least number that would contradict it. The refinement maps each step to a step of the lifecycle or
to a stutter.

Only model-checked: `SessionRekey` and every other module; the refinement
`PackedLedger` to `LedgerCalls`; and all liveness, which is out of the prover's
reach.

## What the models show beside the properties

Behaviour of the code that no run calls an error, and that a maintainer may want
to know. Each was met while writing the models; those within a property are the
exceptions its comment names.

Session
- `awaitReceiveRekey` can miss its wake-up at either `select` (`stream.go:753`, `789`);
  otherwise an update of one endpoint completes without any `Read` or timer.
- A message of an epoch two behind can be returned again once its window was dropped
  while a stream kept the root of its epoch.
- A PONG that finds the normal control queue full fails the session
  (`control.go:50`); an idle close at one end is a protocol failure at the other.
- An open under way makes the peer's rekey wait, and fail at its deadline. A second
  GOAWAY with another boundary fails its receiver.
- The client's `Establish` returns before the server has read its FINISHED; a
  context that ends beside `stopWatch` can reset the control stream although
  `Establish` succeeds. SESSION_READY is reserved and never sent.
- A stream that ended cleanly still sends STREAM_RESET when it is closed.

Client
- When the `Close` of a late carrier fails, or the `Abort` after a failed
  `Establish`, the carrier may stay open and no error says so.
- A WebSocket dial ignores the result of `stopDialCancellation` and can hand out a
  connection its context has just closed (`dialers.go:285`). `ws` endpoints are
  documented, but the dial requires TLS 1.3.

Serving
- `authorizeTunnel` compares the session's channel before it looks at the decision
  (`acceptor.go:222`). A decision to reject has no session, so a tunnel client is
  told of a failure and never the reason or the retry of the rejection.
  It also loses the lease when `contract` or `ResolveHandlers` fails after an allow.
- `handleDirect` gives `OnSession` the channel of `wire.Session`, which a direct answer
  leaves empty (`acceptor.go:178`).
- A session configuration refused by `validateEngineConfig` leaves the hijacked
  carrier open. The runtime loses a lease when it refuses what the service allowed,
  or cannot respond (`runtime.go:238`, `334`). `Serve` does not count WSS handlers, and
  counts a WebTransport session only after its upgrade.
- The proxy takes a FIN between chunks, or between a chunk's header and its payload,
  for the end of a body. A client that sends no metadata holds its permit until its
  session ends. A relayed WebSocket whose upstream stops reading hangs, since its
  writes have no deadline.
- `SessionHandlers.Serve` waits for its handlers before their context is canceled.

Tunnel and carriers
- A control pair that ends before the accept loops are counted makes the task group
  close its channel twice, which panics (`broker.go:168`); `BridgeSafe` admits this one
  crash and no other.
- `Close` of a pending WebSocket between the pump's read and its lock leaves
  `ReceiveInitialMessage` waiting for its context.
- A second `Run` of a byte pump discards what the first one still holds, and a
  validated byte profile can still fail to be scheduled (`weaknet/byte.go:291`).

## What is not modelled

- Cipher and signature algorithms, JSON and URL syntax, DNS and IDNA: their results
  are terms or a few representatives.
- Error codes and messages, logging, metrics, option parsing, header filtering.
- The lookup of the RPC peer (`rpc_peer.go`), the opaque session wrappers, the
  client's commit of the WebSocket admission adapter, TLS files and flags of the
  command, fault-coverage counters of the pumps.
- `LogicalStreamState.CarrierEOF`, `ControlActor`, `ControlReceiveState` and the encoding of
  capabilities, which only tests use.
- Test laboratories, generators, and the TypeScript, Rust and Swift SDKs.
- The composition of layers in one run: a component meets the one below it as the
  events it can see (a failed write, a closed carrier, a reset stream).
