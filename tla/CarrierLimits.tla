--------------------------- MODULE CarrierLimits ---------------------------
(* The resource limits a dial or a listener gives its carrier before a session *)
(* is established on it: the stream budget derived from the session contract, *)
(* the QUIC windows and timeouts, and the Yamux limits of a WebSocket.        *)
(* One behaviour takes one configuration through one carrier.                 *)
EXTENDS Integers

CONSTANTS Contracts, \* contracts offered: [maxInbound, idle, establish]
          QuicLimits, \* configured QUIC limits
          Policies,   \* configured WebSocket resource policies
          Configs     \* configuration files of the runtime command

VARIABLES input, \* the carrier, the contract and the configuration of this dial
          bound  \* what the carrier is built with: "none", "refused" or limits

limitVars == <<input, bound>>

MaxLogicalIncomingStreams == 128
ReservedSessionStreams == 2
KiB == 1024
MaxStreamWindow == 6 * KiB * KiB
MaxConnectionWindow == 16 * KiB * KiB

\* The defaults: carrier streams, windows in bytes, times in seconds.
DefaultLimits ==
  [streams |-> MaxLogicalIncomingStreams + ReservedSessionStreams,
   initStream |-> 512 * KiB, maxStream |-> MaxStreamWindow,
   initConn |-> KiB * KiB, maxConn |-> MaxConnectionWindow,
   handshake |-> 30, idle |-> 60, keepAlive |-> 20]

DefaultYamux ==
  [active |-> 64, inbound |-> 32, frame |-> 256 * KiB, preferred |-> 64 * KiB,
   queue |-> 4 * KiB * KiB, streamReceive |-> 256 * KiB, sessionReceive |-> 16 * KiB * KiB]

Refused == [refused |-> TRUE]

\* One control stream and one RPC stream are reserved beside the logical ones.
physicalStreams(maxLogical) == maxLogical + ReservedSessionStreams

validCapacity(maxLogical) == maxLogical \in 1..MaxLogicalIncomingStreams

\* Limits.Validate.
validWindow(initial, maximum, cap) ==
  initial > 0 /\ initial <= cap /\ maximum <= cap /\ initial <= maximum
Validate(l) ==
  /\ l.streams \in 1..130
  /\ validWindow(l.initStream, l.maxStream, MaxStreamWindow)
  /\ validWindow(l.initConn, l.maxConn, MaxConnectionWindow)
  /\ l.handshake > 0 /\ l.idle > 0
  /\ l.keepAlive >= 0 /\ l.keepAlive < l.idle

BindSessionLimits(l, maxLogical) ==
  LET b == [l EXCEPT !.streams = physicalStreams(maxLogical)]
  IN IF validCapacity(maxLogical) /\ Validate(b) THEN b ELSE Refused

\* Mutant: the configured keep-alive stays.
KeepAliveKept(keepAlive, idle) == keepAlive

\* A keep-alive that the contract's idle timeout outlaws is switched off.
keptAlive(keepAlive, idle) == IF keepAlive >= idle THEN 0 ELSE keepAlive

bindQUICTimeouts(l, c) ==
  [l EXCEPT !.handshake = IF c.establish # 0 THEN c.establish ELSE @,
            !.idle = IF c.idle # 0 THEN c.idle ELSE @,
            !.keepAlive = IF c.idle # 0 THEN keptAlive(@, c.idle) ELSE @]

\* NewRawQUICCarrierDial and NewWebTransportCarrierDial validate the configured
\* limits, bind them to the contract, and the carrier validates what it is given.
quicDial(l, c) ==
  LET b == BindSessionLimits(l, c.maxInbound)
      t == bindQUICTimeouts(b, c)
  IN IF Validate(l) /\ b # Refused /\ Validate(t) THEN t ELSE Refused

\* normalizeLimits: an omitted field takes its default, then the fields must fit.
filled(l) == [f \in DOMAIN l |-> IF l[f] = 0 THEN DefaultYamux[f] ELSE l[f]]
fits(l) ==
  /\ l.inbound <= l.active
  /\ l.frame >= KiB /\ l.preferred >= KiB /\ l.preferred <= l.frame
  /\ l.frame <= l.streamReceive
  /\ l.streamReceive >= DefaultYamux.streamReceive
  /\ l.streamReceive <= l.sessionReceive
normalizeLimits(l) == IF fits(filled(l)) THEN filled(l) ELSE Refused

\* A session needs at least as many active streams as it admits inbound.
raisedActive(active, inbound) == IF active < inbound THEN inbound ELSE active

BindSessionResourcePolicy(policy, maxLogical) ==
  LET n == normalizeLimits(policy)
      physical == physicalStreams(maxLogical)
  IN IF validCapacity(maxLogical) /\ n # Refused
       THEN normalizeLimits([n EXCEPT !.inbound = physical, !.active = raisedActive(@, physical)])
       ELSE Refused

\* The WebSocket dialer binds its policy twice: to the largest contract when it is
\* built, and to the contract of the attempt when it dials.
webSocketDial(policy, c) ==
  LET base == BindSessionResourcePolicy(policy, MaxLogicalIncomingStreams)
  IN IF base = Refused THEN Refused ELSE BindSessionResourcePolicy(base, c.maxInbound)

\* decodeConfig gives what a file leaves out its default before validating.
defaulted(f) ==
  [f EXCEPT !.admission = IF @ = 0 THEN 10 ELSE @, !.direct = IF @ = 0 THEN 512 ELSE @,
            !.shutdown = IF @ = 0 THEN 10 ELSE @, !.authorization = IF @ = 0 THEN 5 ELSE @]

distinct(s) == \A i, j \in DOMAIN s : s[i] = s[j] => i = j

\* The command's own bound on the streams of a session.
streamsInRange(f) == f.streams \in 1..128

\* Config.validate: the three UDP listeners, the origins and the admission reasons
\* are valid and each differ from one another.
validateConfig(f) ==
  /\ f.paths /\ distinct(f.udp) /\ streamsInRange(f)
  /\ f.direct <= 4096 /\ f.admission <= 300 /\ f.shutdown <= 300 /\ f.authorization <= 60
  /\ f.origins # <<>> /\ distinct(f.origins) /\ distinct(f.reasons)

\* newRuntimeServer: the limits of both kinds of carrier, and the slots.
newRuntimeServer(f) ==
  LET ws == BindSessionResourcePolicy(DefaultYamux, f.streams)
      quic == BindSessionLimits(DefaultLimits, f.streams)
  IN IF ~validateConfig(f) \/ ws = Refused \/ quic = Refused THEN Refused
     ELSE [inbound |-> ws.inbound, streams |-> quic.streams, direct |-> f.direct]

Init ==
  /\ bound = [none |-> TRUE]
  /\ input \in [carrier : {"raw_quic", "webtransport"}, contract : Contracts, limits : QuicLimits]
       \cup [carrier : {"websocket"}, contract : Contracts, limits : Policies]
       \cup [carrier : {"runtime"}, config : Configs]

Start ==
  /\ bound = [none |-> TRUE] /\ input.carrier = "runtime"
  /\ bound' = newRuntimeServer(defaulted(input.config)) /\ UNCHANGED input

Dial ==
  /\ bound = [none |-> TRUE] /\ input.carrier # "runtime"
  /\ bound' = IF input.carrier = "websocket" THEN webSocketDial(input.limits, input.contract)
                                              ELSE quicDial(input.limits, input.contract)
  /\ UNCHANGED input

Next == Dial \/ Start
Spec == Init /\ [][Next]_limitVars

-----------------------------------------------------------------------------
Dialed == bound \notin {[none |-> TRUE], Refused}

\* MaxIncomingStreams of the session the carrier becomes.
MaxIncomingStreams == IF input.carrier = "websocket" THEN bound.inbound ELSE bound.streams

\* validateEngineConfig accepts a carrier whose stream budget is exactly the one of
\* the contract: limits bound by the dial of a contract pass Establish's check.
validateEngineConfig(c) ==
  /\ c.maxInbound \in 1..128 /\ MaxIncomingStreams = c.maxInbound + 2

\* The result is a limit record, a refusal or nothing yet.
TypeOK == /\ input.carrier \in {"raw_quic", "webtransport", "websocket", "runtime"}
          /\ Dialed => \A f \in DOMAIN bound : bound[f] \in Nat

\* A carrier dialed for a contract is one Establish accepts: the stream budget of
\* the bound limits is the contract's logical streams, the control stream and the
\* RPC stream, whatever the configuration said (engine.go:252).
EstablishAccepts ==
  Dialed /\ input.carrier # "runtime" => validateEngineConfig(input.contract)

\* Only a contract outside the protocol's limits or an invalid configuration is
\* refused: binding a valid contract to a valid configuration always succeeds. The
\* smallest idle timeout and the largest stream count are where it would not.
ValidContractDials ==
  LET c == input.contract
  IN bound = Refused /\ input.carrier # "runtime" =>
       \/ ~validCapacity(c.maxInbound)
       \/ input.carrier = "websocket" /\ normalizeLimits(input.limits) = Refused
       \/ input.carrier # "websocket" /\ ~Validate(input.limits)

\* A configuration the command accepts is one its carriers accept too: no valid file
\* is refused by the limits derived from it, the runtime it starts serves at least
\* one direct session, and both carriers carry exactly the streams it configures.
ValidConfigStarts ==
  LET f == defaulted(input.config)
  IN input.carrier = "runtime" /\ bound # [none |-> TRUE] /\ validateConfig(f) =>
       /\ bound # Refused /\ bound.direct > 0
       /\ bound.inbound = f.streams + 2 /\ bound.streams = f.streams + 2
=============================================================================
