-------------------------- MODULE HandshakeChecks --------------------------
(* What each end of the FSH2 handshake requires of the other's message, and    *)
(* the configuration it requires it from.  Hashes, bindings and keys are       *)
(* opaque values: equal exactly when their inputs are.                         *)
EXTENDS Integers

Zero == [zero |-> TRUE] \* the all-zero admission binding

\* Config of Establish: only the fields the two ends must agree on.
Config(role, path, contract, binding, peerBinding, endpoint, peerEndpoint) ==
  [role |-> role, path |-> path, channel |-> contract.channel, hash |-> contract.hash,
   suite |-> contract.default, psk |-> contract.psk, maxInbound |-> contract.maxInbound,
   binding |-> binding, peerBinding |-> peerBinding,
   endpoint |-> endpoint, peerEndpoint |-> peerEndpoint]

\* The part of validateEngineConfig that is about the configuration alone.
validConfig(c) ==
  /\ c.role \in {"client", "server"} /\ c.path \in {"direct", "tunnel"}
  /\ c.maxInbound \in 1..128 /\ c.suite \in {1, 2}
  /\ IF c.path = "direct" THEN c.endpoint = "" /\ c.peerEndpoint = ""
                          ELSE c.endpoint # "" /\ c.peerEndpoint # ""

\* A tunnel end that knows no binding of its peer accepts any but zero.
validAdmissionBinding(path, actual, expected) ==
  IF path = "tunnel" /\ expected = Zero THEN actual # Zero ELSE actual = expected

validExpectedEndpoint(path, got, expected) ==
  /\ got = expected
  /\ (path = "direct") <=> (got = "")

\* ClientInit as the client fills it in; features is the set its carrier offers.
ClientInit(c, features, public) ==
  [channel |-> c.channel, hash |-> c.hash, suite |-> c.suite, public |-> public,
   features |-> features, maxInbound |-> c.maxInbound,
   binding |-> c.binding, endpoint |-> c.endpoint]

ValidateClientInit(m, c) ==
  /\ m.channel = c.channel /\ m.suite = c.suite /\ m.maxInbound = c.maxInbound
  /\ m.hash = c.hash
  /\ validAdmissionBinding(c.path, m.binding, c.peerBinding)
  /\ validExpectedEndpoint(c.path, m.endpoint, c.peerEndpoint)

\* ServerFinished's core; the features both carriers offer are selected.
ServerCore(c, init, features, public, id) ==
  [id |-> id, hash |-> c.hash, public |-> public, features |-> init.features \cap features,
   maxInbound |-> c.maxInbound, binding |-> c.binding, endpoint |-> c.endpoint]

ValidateServerFinished(core, c, features) ==
  /\ core.maxInbound = c.maxInbound /\ core.features \subseteq features
  /\ core.hash = c.hash
  /\ validAdmissionBinding(c.path, core.binding, c.peerBinding)
  /\ validExpectedEndpoint(c.path, core.endpoint, c.peerEndpoint)

\* Both ends accept each other's configuration and hold the same key.
Compatible(client, server, clientFeatures, serverFeatures) ==
  LET init == ClientInit(client, clientFeatures, "c")
  IN /\ validConfig(client) /\ validConfig(server)
     /\ client.psk = server.psk /\ client.path = server.path
     /\ ValidateClientInit(init, server)
     /\ ValidateServerFinished(ServerCore(server, init, serverFeatures, "s", "id"),
                               client, clientFeatures)
=============================================================================
