---------------------------- MODULE Capabilities ----------------------------
(***************************************************************************)
(* What a runtime can do and which candidates of an artifact it may try:   *)
(* internal/runtimev2/capability.go, with the factory that composes        *)
(* carriers and compatibleCandidates of internal/connectv2/connector.go.   *)
(* Names are ordered by their rank, as their spellings are.                *)
(***************************************************************************)
EXTENDS Integers, Sequences, FiniteSets, SequencesExt

CONSTANT
  Artifacts    \* [path : {"direct", "tunnel"}, role : {1, 2}, candidates : sequence of carriers]

VARIABLES
  composed,    \* the carriers the factory was given a dialer for
  artifact,
  at,          \* "factory", "described", "checked", "selected" or an error
  descriptor,
  selected     \* compatibleCandidates

capabilityVars == <<composed, artifact, at, descriptor, selected>>

Kinds == <<"raw_quic", "websocket", "webtransport">>
Modes == <<"dial", "listen">>
Roles == <<"client", "server">>
Paths == <<"direct", "tunnel">>

Rank(names, name) == CHOOSE i \in DOMAIN names : names[i] = name
Bit(b) == IF b THEN 1 ELSE 0

Key(t) == <<Rank(Kinds, t.carrier), Rank(Modes, t.mode), Rank(Roles, t.role), Rank(Paths, t.path),
            Bit(t.reliable), Bit(t.datagrams), Bit(t.migration)>>

capabilityTupleLess(s, t) ==
  \E i \in 1..7 : Key(s)[i] < Key(t)[i] /\ \A j \in 1..(i - 1) : Key(s)[j] = Key(t)[j]

-----------------------------------------------------------------------------
validTuple(t) ==
  /\ t.carrier \in Range(Kinds) /\ t.mode \in Range(Modes) /\ t.role \in Range(Roles) /\ t.path \in Range(Paths)
  /\ t.reliable /\ ~(t.carrier = "websocket" /\ (t.datagrams \/ t.migration))
  /\ IF t.path = "direct" THEN <<t.mode, t.role>> \in {<<"dial", "client">>, <<"listen", "server">>} ELSE t.mode = "dial"

supportedCarriers(d) == {d.tuples[i].carrier : i \in DOMAIN d.tuples}

validateUnsupportedCapabilities(d) ==
  LET unsupported == {d.unsupported[i].carrier : i \in DOMAIN d.unsupported} IN
  /\ unsupported \subseteq Range(Kinds) \ supportedCarriers(d)
  /\ \A i \in 2..Len(d.unsupported) : Rank(Kinds, d.unsupported[i - 1].carrier) < Rank(Kinds, d.unsupported[i].carrier)
  /\ \A k \in Range(Kinds) : (k \in supportedCarriers(d)) # (k \in unsupported)

Validate(d) ==
  /\ Len(d.tuples) + Len(d.unsupported) > 0
  /\ \A i \in DOMAIN d.tuples : validTuple(d.tuples[i])
  /\ \A i \in 2..Len(d.tuples) : capabilityTupleLess(d.tuples[i - 1], d.tuples[i])
  /\ validateUnsupportedCapabilities(d)

-----------------------------------------------------------------------------
native(kind, mode, role, path) ==
  [carrier |-> kind, mode |-> mode, role |-> role, path |-> path, reliable |-> TRUE,
   datagrams |-> kind # "websocket", migration |-> kind = "raw_quic" /\ mode = "dial"]

routes(kind) ==
  <<native(kind, "dial", "client", "direct"), native(kind, "dial", "client", "tunnel"),
    native(kind, "dial", "server", "tunnel"), native(kind, "listen", "server", "direct")>>

GoCapabilitiesForCarriers(kinds) ==
  [tuples |-> FoldLeft(LAMBDA ts, k : IF k \in kinds THEN ts \o routes(k) ELSE ts, <<>>, Kinds),
   unsupported |-> FoldLeft(LAMBDA us, k : IF k \in kinds THEN us
                                           ELSE Append(us, [carrier |-> k, reason |-> "adapter_not_composed"]), <<>>, Kinds)]

routeMode(role) == "dial"

supportsCarrierRoute(d, kind, role, path) ==
  \E i \in DOMAIN d.tuples :
    LET t == d.tuples[i] IN
    t.carrier = kind /\ t.mode = routeMode(role) /\ t.role = role /\ t.path = path /\ t.reliable

\* The role and path compatibleCandidates asks for.
roleOf(a) == IF a.path = "tunnel" /\ a.role = 2 THEN "server" ELSE "client"

compatibleCandidates(d, a) == SelectSeq(a.candidates, LAMBDA k : supportsCarrierRoute(d, k, roleOf(a), a.path))

-----------------------------------------------------------------------------
Init ==
  /\ composed \in SUBSET Range(Kinds)
  /\ artifact \in Artifacts
  /\ at = "factory"
  /\ descriptor = [tuples |-> <<>>, unsupported |-> <<>>]
  /\ selected = <<>>

\* NewFactory refuses a composition without carriers.
NewFactory ==
  /\ at = "factory"
  /\ IF composed = {} THEN at' = "missing_adapter" /\ UNCHANGED descriptor
     ELSE at' = "described" /\ descriptor' = GoCapabilitiesForCarriers(composed)
  /\ UNCHANGED <<composed, artifact, selected>>

\* Connect validates the factory's descriptor before it selects.
CheckDescriptor ==
  /\ at = "described"
  /\ at' = IF Validate(descriptor) THEN "checked" ELSE "invalid_capability"
  /\ UNCHANGED <<composed, artifact, descriptor, selected>>

Select ==
  /\ at = "checked"
  /\ selected' = compatibleCandidates(descriptor, artifact)
  /\ at' = IF selected' = <<>> THEN "no_compatible_transport" ELSE "selected"
  /\ UNCHANGED <<composed, artifact, descriptor>>

Next == NewFactory \/ CheckDescriptor \/ Select

Spec == Init /\ [][Next]_capabilityVars

-----------------------------------------------------------------------------
TypeOK ==
  /\ composed \subseteq Range(Kinds) /\ artifact \in Artifacts
  /\ Range(selected) \subseteq Range(Kinds)
  /\ at \in {"factory", "missing_adapter", "described", "checked", "invalid_capability", "selected", "no_compatible_transport"}

\* Whatever carriers are composed, the descriptor passes the validation Connect makes of it: sorted, without duplicates,
\* each carrier supported or unsupported and not both.
DescriptorAccepted == at # "invalid_capability"

\* The connector tries exactly the candidates it has a dialer for, in the artifact's order: none without a dialer, and it
\* never reports that nothing is compatible while one of them is, for a client and for a server of a tunnel alike.
TriesWhatItCanDial ==
  at \in {"selected", "no_compatible_transport"} => selected = SelectSeq(artifact.candidates, LAMBDA k : k \in composed)
=============================================================================
