----------------------------- MODULE WireFrames -----------------------------
(***************************************************************************)
(* From a payload to the wire and back: the OPEN payload, inner records,   *)
(* record headers and the protection of records of internal/protocolv2     *)
(* (open.go, wire.go, crypto.go), as appendRecordLocked, writeControl,     *)
(* readStreamRecord and readControl of internal/session chain them.        *)
(*                                                                         *)
(* Lengths are the real ones.  Bytes are left out: a payload is its length *)
(* and what it carries, HKDF is a free constructor (distinct arguments     *)
(* give distinct secrets), and an AEAD opens a record exactly under the    *)
(* key, nonce and associated data that sealed it.                          *)
(***************************************************************************)
EXTENDS Integers, Sequences, TLC

CONSTANTS
  Streams,         \* logical stream ids; 0 is the control stream
  Epochs,          \* 0 .. the last epoch that is looked at
  SequenceNumbers,      \* sequence numbers that are looked at
  Kinds,           \* kinds of streams: [size, edge]; edge: it begins or ends with a space
  MetadataSizes,   \* sizes of canonical metadata; 0 is metadata left empty
  DataSizes        \* sizes of application data in one record

VARIABLES
  frame,     \* what is sent: [type, size], or an OPEN with [id, kind, metadata] too
  sender,    \* the position it is sealed for
  reader,    \* the position it is read at
  step,      \* how far it has come: "payload", "wire", "read", or where it was refused
  wire       \* the record on the wire

frameVars == <<frame, sender, reader, step, wire>>

OpenFixedPayloadBytes == 46
MaxOpenKindBytes == 128
MaxOpenMetadataBytes == 4096
InnerHeaderSize == 8
AEADTagBytes == 16
MaxOpenBytes == 8192
MaxDataBytes == 16384
MaxControlBytes == 256
MaxCiphertextBytes == InnerHeaderSize + MaxDataBytes + AEADTagBytes

Directions == {"client_to_server", "server_to_client"}
Position == [direction : Directions, epoch : Epochs, stream : Streams, sequence : SequenceNumbers]

None == [epoch |-> 0, sequence |-> 0, size |-> 0, key |-> <<>>, nonce |-> <<>>, aad |-> <<>>, type |-> "none", declared |-> 0]

-----------------------------------------------------------------------------
(* OPEN payloads.                                                          *)

validateOpenKind(kind) == kind.size \in 1..MaxOpenKindBytes /\ ~kind.edge

\* validateCanonicalMetadata with allowEmpty: no metadata is "{}".
canonicalSize(size) == IF size = 0 THEN 2 ELSE size

validMetadataSize(size) == size \in 1..MaxOpenMetadataBytes

openSize(kind, metadata) == OpenFixedPayloadBytes + kind.size + metadata

MarshalOpenPayload(open) ==
  /\ open.id # 0
  /\ validateOpenKind(open.kind)
  /\ validMetadataSize(canonicalSize(open.metadata))
  /\ openSize(open.kind, canonicalSize(open.metadata)) <= MaxOpenBytes

payloadLength(size) == size \in OpenFixedPayloadBytes..MaxOpenBytes

ParseOpenPayload(raw) ==
  /\ payloadLength(raw.size)
  /\ openSize(raw.kind, raw.metadata) = raw.size
  /\ raw.id # 0
  /\ validateOpenKind(raw.kind)
  /\ validMetadataSize(raw.metadata)

-----------------------------------------------------------------------------
(* Inner records and record headers.                                       *)

\* What the session puts into a record of each type: ping and its echo, marshalIDReason, the key updates and their ACKs, the
\* reason of a close, and the OPEN hash with or without a reject reason.
sessionPayload ==
  [open_ack |-> 32, open_reject |-> 34, fin |-> 0, stream_key_update |-> 12, session_ready |-> 0, session_ready_ack |-> 0,
   session_ready_confirm |-> 0, ping |-> 8, pong |-> 8, session_key_update |-> 20, session_key_update_ack |-> 20,
   stream_key_update_ack |-> 20, stream_reset |-> 10, goaway |-> 10, session_close |-> 2]

\* The sizes validateInner requires.
requirePayloadSize(type) ==
  CASE type \in {"fin", "session_ready", "session_ready_ack", "session_ready_confirm"} -> 0
    [] type = "open_ack" -> 32
    [] type = "open_reject" -> 34
    [] type = "stream_key_update" -> 12
    [] type \in {"ping", "pong"} -> 8
    [] type \in {"session_key_update", "session_key_update_ack", "stream_key_update_ack"} -> 20
    [] type \in {"stream_reset", "goaway"} -> 10
    [] type = "session_close" -> 2

validateInner(type, size) ==
  CASE type = "open" -> size \in 1..MaxOpenBytes
    [] type = "data" -> size \in 1..MaxDataBytes
    [] OTHER -> size = requirePayloadSize(type) /\ size <= MaxControlBytes

MarshalInnerRecord(f) == validateInner(f.type, f.size)

ParseInnerRecord(type, declared, length) ==
  /\ length >= InnerHeaderSize
  /\ declared + InnerHeaderSize = length
  /\ validateInner(type, declared)

\* RecordHeader.MarshalBinary and ParseRecordHeader.
validCiphertextLength(length) == length \in AEADTagBytes..MaxCiphertextBytes

-----------------------------------------------------------------------------
(* Protection.                                                             *)

\* A secret is the path of derivations that leads to it; every label is bound to a stream, a direction and an epoch, or to
\* none of them.
expand32(secret, label, stream, direction, epoch) ==
  Append(secret, [label |-> label, stream |-> stream, direction |-> direction, epoch |-> epoch])

Expand(secret, label) == expand32(secret, label, 0, "none", 0)

\* DeriveEpochZero and DeriveNextEpoch: the secret of an epoch of a direction, from the session PRK.
epochSecret(direction, epoch) ==
  LET secret[e \in Nat] ==
        IF e = 0 THEN expand32(<<>>, "epoch zero", 0, direction, 0)
        ELSE expand32(Expand(secret[e - 1], "rekey root"), "next epoch", 0, direction, e)
  IN secret[epoch]

\* deriveRoots: the control and the stream root of an epoch.
root(p) == Expand(epochSecret(p.direction, p.epoch), IF p.stream = 0 THEN "control root" ELSE "stream root")

\* Mutant: the streams of a direction share their keys.
SharedByStreams(p) == expand32(root(p), IF p.stream = 0 THEN "control" ELSE "stream", 0, p.direction, p.epoch)

\* DeriveControlMaterial and DeriveStreamMaterial.
deriveRecordMaterial(p) ==
  expand32(root(p), IF p.stream = 0 THEN "control" ELSE "stream", p.stream, p.direction, p.epoch)

recordKey(p) == Expand(deriveRecordMaterial(p), "record key")

recordNonce(p) == <<Expand(deriveRecordMaterial(p), "nonce"), p.sequence>>

recordAAD(p, length) == [position |-> p, length |-> length]

\* The record under its header, which carries epoch and sequence number in the clear.
SealRecord(f, p) ==
  LET length == InnerHeaderSize + f.size + AEADTagBytes IN
  [epoch |-> p.epoch, sequence |-> p.sequence, size |-> length,
   key |-> recordKey(p), nonce |-> recordNonce(p), aad |-> <<recordAAD(p, length)>>, type |-> f.type, declared |-> f.size]

OpenRecord(record, p) ==
  record.key = recordKey(p) /\ record.nonce = recordNonce(p) /\ record.aad = <<recordAAD(p, record.size)>>

\* The reader knows its stream and direction and takes epoch and sequence number from the header ...
headerPosition(record, p) == [p EXCEPT !.epoch = record.epoch, !.sequence = record.sequence]

\* ... which must be the ones it expects.
inOrder(record, p) == record.epoch = p.epoch /\ record.sequence = p.sequence

-----------------------------------------------------------------------------
\* Everything the session sends, at one position; and one record read anywhere.
Frames ==
  [type : {"open"}, id : Streams, kind : Kinds, metadata : MetadataSizes]
  \cup {[type |-> "data", size |-> n] : n \in DataSizes}
  \cup {[type |-> t, size |-> sessionPayload[t]] : t \in DOMAIN sessionPayload}

Home == [direction |-> "client_to_server", epoch |-> 0, stream |-> 1, sequence |-> 0]

Init ==
  /\ \/ frame \in Frames /\ sender = Home /\ reader = Home
     \/ frame = [type |-> "data", size |-> 1] /\ sender \in Position /\ reader \in Position
  /\ step = "payload"
  /\ wire = None

\* Write's chunk loop never makes a data record larger than MaxDataBytes.
Sendable(f) == IF f.type = "open" THEN MarshalOpenPayload(f) ELSE MarshalInnerRecord(f)

Sized(f) ==
  IF f.type # "open" THEN f
  ELSE [f EXCEPT !.metadata = canonicalSize(@)] @@ [size |-> openSize(f.kind, canonicalSize(f.metadata))]

\* appendRecordLocked and writeControl: marshal, seal and write; an error leaves the stream unwritten.
Send ==
  /\ step = "payload"
  /\ IF /\ Sendable(frame) /\ MarshalInnerRecord(Sized(frame))
        /\ validCiphertextLength(InnerHeaderSize + Sized(frame).size + AEADTagBytes)
     THEN wire' = SealRecord(Sized(frame), sender) /\ step' = "wire"
     ELSE step' = "not_sent" /\ UNCHANGED wire
  /\ UNCHANGED <<frame, sender, reader>>

\* readStreamRecord and readControl, and ParseOpenPayload for an OPEN.
Receive ==
  /\ step = "wire"
  /\ step' = IF /\ validCiphertextLength(wire.size)
                /\ inOrder(wire, reader) /\ OpenRecord(wire, headerPosition(wire, reader))
                /\ ParseInnerRecord(wire.type, wire.declared, wire.size - AEADTagBytes)
                /\ (wire.type = "open" => ParseOpenPayload(Sized(frame)))
             THEN "read" ELSE "refused"
  /\ UNCHANGED <<frame, sender, reader, wire>>

Next == Send \/ Receive

Spec == Init /\ [][Next]_frameVars

-----------------------------------------------------------------------------
TypeOK ==
  /\ sender \in Position /\ reader \in Position
  /\ step \in {"payload", "wire", "read", "not_sent", "refused"}
  /\ wire.type \in DOMAIN sessionPayload \cup {"none", "open", "data"}
  /\ wire.size \in 0..MaxCiphertextBytes

\* What one session manages to send, the other takes: every record that MarshalOpenPayload, MarshalInnerRecord and SealRecord
\* let through is accepted by ParseRecordHeader, OpenRecord, ParseInnerRecord and ParseOpenPayload at the same position, the
\* largest data record and an OPEN with empty metadata included.
SentIsReadable == sender = reader => step # "refused"

\* The session can send what its limits promise: data of up to MaxDataBytes, every control payload, and an OPEN with a valid
\* kind and metadata of any permitted size; the limits of kind and metadata together stay within an OPEN record.
LimitsFit ==
  step = "not_sent" =>
    /\ frame.type = "open"
    /\ frame.id = 0 \/ ~validateOpenKind(frame.kind) \/ frame.metadata > MaxOpenMetadataBytes

\* No two records share key and nonce: whatever direction, epoch, stream and sequence number they are sealed for.
NonceUsedOnce ==
  step # "payload" /\ recordKey(sender) = recordKey(reader) /\ recordNonce(sender) = recordNonce(reader) => sender = reader

\* A record opens only where it belongs: one that was moved to another stream, direction, epoch or place in the order of its
\* stream is refused by OpenRecord.
OnlyInPlace == step = "read" => sender = reader
=============================================================================
