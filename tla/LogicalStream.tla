---------------------------- MODULE LogicalStream ----------------------------
(***************************************************************************)
(* One logical stream from its OPEN to its end: the two LogicalStreamStates *)
(* of internal/protocolv2/logical_stream.go, driven the way encryptedStream *)
(* of internal/session/stream.go drives them.  A method first asks its     *)
(* state, under stateMu, and then writes the record, so a record may be    *)
(* decided and not yet written (unsent) while the reader of the same end   *)
(* goes on.  sendMu admits one such record at a time.                      *)
(*                                                                         *)
(* The carrier stream keeps the order of the records of a direction until  *)
(* one end resets it; STREAM_RESET travels on the control stream, which no *)
(* record of this stream is ordered with.                                  *)
(***************************************************************************)
EXTENDS Integers, Sequences

CONSTANTS
  Answers,       \* what the accepting session may answer: subset of {"open_ack", "open_reject"}
  WriteBudget    \* bound: Writes of one end

VARIABLES
  end,       \* per end: its LogicalStreamState
  unsent,    \* per end: the record its state has passed and writeAll has not written yet
  wire,      \* per end: records on their way to it
  carrier,   \* per end: what it did to the carrier stream: "open", "half" (CloseWrite), "closed" or "reset"
  control,   \* per end: a STREAM_RESET is on its way to it
  ledger,    \* the accepting session's ledger entry of the stream
  app        \* per end: records written and read, and whether the stream has been given back (releaseOnce)

streamVars == <<end, unsent, wire, carrier, control, ledger, app>>

Ends == {"opener", "acceptor"}
Peer(e) == IF e = "opener" THEN "acceptor" ELSE "opener"
Types == {"open", "open_ack", "open_reject", "data", "fin"}

NewOutboundLogicalStreamState ==
  [opener |-> TRUE, openSeen |-> FALSE, localFirst |-> FALSE, remoteFirst |-> FALSE, acknowledged |-> FALSE,
   rejected |-> FALSE, localFIN |-> FALSE, remoteFIN |-> FALSE, terminal |-> "none", violated |-> FALSE]

NewInboundLogicalStreamState == [NewOutboundLogicalStreamState EXCEPT !.opener = FALSE]

Init ==
  /\ end = [e \in Ends |-> IF e = "opener" THEN NewOutboundLogicalStreamState ELSE NewInboundLogicalStreamState]
  /\ unsent = [e \in Ends |-> "none"]
  /\ wire = [e \in Ends |-> <<>>]
  /\ carrier = [e \in Ends |-> "open"]
  /\ control = [e \in Ends |-> FALSE]
  /\ ledger = "open_seen"
  /\ app = [e \in Ends |-> [wrote |-> 0, read |-> 0, released |-> FALSE]]

-----------------------------------------------------------------------------
(* LogicalStreamState: each operation is what becomes of the state s.  A   *)
(* local operation that is refused returns an error and leaves s alone;    *)
(* one that breaks the protocol ends the stream (failProtocol).            *)

Allowed(s) == s.terminal = "none"

failProtocol(s) == [s EXCEPT !.terminal = IF @ = "none" THEN "reset" ELSE @, !.violated = TRUE]

Orderly(s, may, after) == IF ~Allowed(s) THEN s ELSE IF may THEN after ELSE failProtocol(s)

\* Mutant: one FIN is enough for a clean end.
OneFINEnds(s) == IF (s.localFIN \/ s.remoteFIN) /\ s.terminal = "none" THEN [s EXCEPT !.terminal = "clean"] ELSE s

finishIfBothFIN(s) ==
  IF s.localFIN /\ s.remoteFIN /\ s.terminal = "none" THEN [s EXCEPT !.terminal = "clean"] ELSE s

SendOpen(s) ==
  Orderly(s, s.opener /\ ~s.openSeen /\ ~s.localFirst, [s EXCEPT !.openSeen = TRUE, !.localFirst = TRUE])

ReceiveOpen(s) ==
  Orderly(s, ~s.opener /\ ~s.openSeen /\ ~s.remoteFirst, [s EXCEPT !.openSeen = TRUE, !.remoteFirst = TRUE])

SendOpenACK(s) ==
  Orderly(s, ~s.opener /\ s.openSeen /\ ~s.localFirst, [s EXCEPT !.localFirst = TRUE, !.acknowledged = TRUE])

ReceiveOpenACK(s) ==
  Orderly(s, s.opener /\ s.openSeen /\ ~s.remoteFirst, [s EXCEPT !.remoteFirst = TRUE, !.acknowledged = TRUE])

SendOpenReject(s) ==
  Orderly(s, ~s.opener /\ s.openSeen /\ ~s.localFirst, [s EXCEPT !.localFirst = TRUE, !.rejected = TRUE])

ReceiveOpenReject(s) ==
  Orderly(s, s.opener /\ s.openSeen /\ ~s.remoteFirst, [s EXCEPT !.remoteFirst = TRUE, !.rejected = TRUE])

\* SendRecord lets a data record through.
maySendData(s) == Allowed(s) /\ ~s.localFIN /\ ~s.rejected /\ s.acknowledged

\* SendRecord lets a FIN through: the acceptor may also finish a stream that it rejected.
maySendFIN(s) == Allowed(s) /\ ~s.localFIN /\ (s.acknowledged \/ (s.rejected /\ ~s.opener))

sendFIN(s) == finishIfBothFIN([s EXCEPT !.localFIN = TRUE])

\* ReceiveRecord.
ReceiveRecord(s, type) ==
  CASE type = "data" -> Orderly(s, s.acknowledged /\ ~s.rejected /\ ~s.remoteFIN, s)
    [] type = "fin" -> Orderly(s, ~s.remoteFIN /\ (s.acknowledged \/ (s.rejected /\ s.opener)),
                               finishIfBothFIN([s EXCEPT !.remoteFIN = TRUE]))
    [] OTHER -> failProtocol(s)

\* LogicalStreamState.Reset.
resetState(s) == IF s.terminal = "none" THEN [s EXCEPT !.terminal = "reset"] ELSE s

-----------------------------------------------------------------------------
(* encryptedStream.                                                        *)

Release(e) == [app EXCEPT ![e].released = TRUE]

CleanClosed(s) == s.terminal = "clean"

\* What finish gives back when a stream is reset.
releasedByReset(e) == Release(e)

\* localReset(e), once (terminalErr): the state, the carrier stream, STREAM_RESET to the peer, and the release.
localResetAs(e, s) ==
  /\ end' = [end EXCEPT ![e] = resetState(s)]
  /\ carrier' = [carrier EXCEPT ![e] = "reset"]
  /\ control' = [control EXCEPT ![Peer(e)] = TRUE]
  /\ app' = releasedByReset(e)

localReset(e) == localResetAs(e, end[e])

\* writeAll and CloseWrite fail, or succeed and go nowhere, once this end has reset the carrier stream or the peer is done
\* with it.
CarrierLive(e) == carrier[e] # "reset" /\ carrier[Peer(e)] \notin {"reset", "closed"}

\* The stream is the application's: OpenStream waits for the ACK, acceptCarrierStream delivers after writing it.
Delivered(e) == end[e].acknowledged /\ unsent[e] # "open_ack" /\ carrier[e] \in {"open", "half"}

Send(e, s, type) ==
  /\ end' = [end EXCEPT ![e] = s]
  /\ unsent' = [unsent EXCEPT ![e] = type]
  /\ UNCHANGED <<wire, carrier, control, ledger, app>>

\* OpenStream has sent its OPEN and waits.
AwaitsResponse(e) ==
  /\ end[e].opener /\ end[e].openSeen /\ ~end[e].remoteFirst
  /\ unsent[e] = "none" /\ carrier[e] = "open"

\* openStream: sendOpen.
OpenStream == ~end["opener"].openSeen /\ Allowed(end["opener"]) /\ Send("opener", SendOpen(end["opener"]), "open")

\* acceptCarrierStream reads the OPEN.
AcceptOpen ==
  /\ wire["acceptor"] # <<>> /\ Head(wire["acceptor"]) = "open" /\ carrier["acceptor"] = "open"
  /\ ledger = "open_seen"
  /\ ledger' = "used"
  /\ wire' = [wire EXCEPT !["acceptor"] = Tail(@)]
  /\ end' = [end EXCEPT !["acceptor"] = ReceiveOpen(@)]
  /\ UNCHANGED <<unsent, carrier, control, app>>

\* The OPEN cannot be read because the opener reset the carrier stream, or a STREAM_RESET has resolved the ledger entry
\* before it (NewInboundLogicalStreamState fails): resetInboundBeforeDelivery.
AcceptFails ==
  /\ ~end["acceptor"].openSeen /\ carrier["acceptor"] = "open"
  /\ carrier["opener"] = "reset" \/ (wire["acceptor"] # <<>> /\ ledger # "open_seen")
  /\ carrier' = [carrier EXCEPT !["acceptor"] = "reset"]
  /\ control' = [control EXCEPT !["opener"] = TRUE]
  /\ ledger' = "used"
  /\ UNCHANGED <<end, unsent, wire, app>>

\* sendOpenACK, or rejectInbound's sendOpenReject.
Answer ==
  LET s == end["acceptor"] IN
  /\ s.openSeen /\ ~s.localFirst /\ Allowed(s)
  /\ \/ "open_ack" \in Answers /\ Send("acceptor", SendOpenACK(s), "open_ack")
     \/ "open_reject" \in Answers /\ Send("acceptor", SendOpenReject(s), "open_reject")

\* Write: SendRecord for one record.
Write(e) ==
  /\ unsent[e] = "none" /\ app[e].wrote < WriteBudget
  /\ maySendData(end[e])
  /\ Send(e, end[e], "data")

\* CloseWrite, by the application and by rejectInbound: SendRecord for the FIN.
CloseWrite(e) == unsent[e] = "none" /\ maySendFIN(end[e]) /\ Send(e, sendFIN(end[e]), "fin")

\* writeAll has written the record.  After a FIN come carrier.CloseWrite and releaseIfClean; rejectInbound then closes the
\* carrier stream, which nothing reads at its end.
WriteRecord(e) ==
  /\ unsent[e] # "none" /\ carrier[e] # "reset"
  /\ unsent' = [unsent EXCEPT ![e] = "none"]
  /\ wire' = [wire EXCEPT ![Peer(e)] = IF CarrierLive(e) THEN Append(@, unsent[e]) ELSE @]
  /\ carrier' = [carrier EXCEPT ![e] = IF unsent[e] # "fin" THEN @ ELSE IF end[e].rejected THEN "closed" ELSE "half"]
  /\ app' = [app EXCEPT ![e].wrote = IF unsent[e] = "data" THEN @ + 1 ELSE @,
                        ![e].released = @ \/ (unsent[e] = "fin" /\ CleanClosed(end[e]))]
  /\ UNCHANGED <<end, control, ledger>>

\* writeAll fails: localReset, except that rejectInbound only closes the carrier stream when its OPEN_REJECT cannot be sent.
WriteFails(e) ==
  /\ unsent[e] # "none" /\ ~CarrierLive(e)
  /\ unsent' = [unsent EXCEPT ![e] = "none"]
  /\ \/ carrier[e] = "reset" /\ UNCHANGED <<end, carrier, control, app>>
     \/ /\ carrier[e] # "reset" /\ unsent[e] = "open_reject"
        /\ carrier' = [carrier EXCEPT ![e] = "closed"]
        /\ UNCHANGED <<end, control, app>>
     \/ carrier[e] # "reset" /\ unsent[e] # "open_reject" /\ localReset(e)
  /\ UNCHANGED <<wire, ledger>>

\* receiveOpenResponse: a rejected stream is over (finish with the carrier closed); any other record is a violation.
ReceiveResponse ==
  LET type == Head(wire["opener"])  s == end["opener"] IN
  /\ wire["opener"] # <<>> /\ AwaitsResponse("opener")
  /\ wire' = [wire EXCEPT !["opener"] = Tail(@)]
  /\ \/ /\ type = "open_ack"
        /\ end' = [end EXCEPT !["opener"] = ReceiveOpenACK(s)]
        /\ UNCHANGED <<carrier, control, app>>
     \/ /\ type = "open_reject"
        /\ end' = [end EXCEPT !["opener"] = ReceiveOpenReject(s)]
        /\ carrier' = [carrier EXCEPT !["opener"] = "closed"]
        /\ app' = Release("opener")
        /\ UNCHANGED control
     \/ type \notin {"open_ack", "open_reject"} /\ localResetAs("opener", failProtocol(s))
  /\ UNCHANGED <<unsent, ledger>>

\* Read takes the next record: readNextRecordLocked, and localReset if the state refuses it.
Read(e) ==
  LET type == Head(wire[e])  s == ReceiveRecord(end[e], type) IN
  /\ wire[e] # <<>> /\ type \notin {"open", "open_ack", "open_reject"}
  /\ Delivered(e) /\ ~end[e].remoteFIN
  /\ wire' = [wire EXCEPT ![e] = Tail(@)]
  /\ IF s.violated THEN localResetAs(e, s)
     ELSE /\ end' = [end EXCEPT ![e] = s]
          /\ app' = [app EXCEPT ![e].read = IF type = "data" THEN @ + 1 ELSE @, ![e].released = @ \/ CleanClosed(s)]
          /\ UNCHANGED <<carrier, control>>
  /\ UNCHANGED <<unsent, ledger>>

\* Read, or receiveOpenResponse, meets the peer's reset of the carrier stream.
ReadFails(e) ==
  /\ Delivered(e) \/ AwaitsResponse(e)
  /\ ~end[e].remoteFIN /\ carrier[Peer(e)] = "reset"
  /\ localReset(e)
  /\ UNCHANGED <<unsent, wire, ledger>>

\* Reset or Close by the application, or the end of the context of an OpenStream.
Reset(e) ==
  /\ Delivered(e) \/ AwaitsResponse(e)
  /\ localReset(e)
  /\ UNCHANGED <<unsent, wire, ledger>>

\* The session knows the stream: from before the OPEN at the opener, and at the acceptor from a moment before the OPEN_ACK
\* is decided; the stream of a reject is never registered.
MayBeRegistered(e) == end[e].openSeen /\ ~end[e].rejected /\ ~app[e].released /\ carrier[e] # "reset"
MustBeRegistered(e) == MayBeRegistered(e) /\ end[e].localFirst

\* The control reader takes STREAM_RESET: PeerReset on the ledger of the accepting session, and peerReset of the stream.
ReceiveStreamReset(e) ==
  /\ control[e]
  /\ control' = [control EXCEPT ![e] = FALSE]
  /\ ledger' = IF e = "acceptor" THEN "used" ELSE ledger
  /\ \/ /\ MayBeRegistered(e)
        /\ end' = [end EXCEPT ![e] = resetState(@)]
        /\ carrier' = [carrier EXCEPT ![e] = "reset"]
        /\ app' = Release(e)
     \/ ~MustBeRegistered(e) /\ UNCHANGED <<end, carrier, app>>
  /\ UNCHANGED <<unsent, wire>>

Next ==
  \/ OpenStream \/ AcceptOpen \/ AcceptFails \/ Answer \/ ReceiveResponse
  \/ \E e \in Ends : Write(e) \/ CloseWrite(e) \/ WriteRecord(e) \/ WriteFails(e)
  \/ \E e \in Ends : Read(e) \/ ReadFails(e) \/ Reset(e) \/ ReceiveStreamReset(e)

\* The goroutines that run carry on: a decided record is written, the acceptor answers, applications read on, a reject is
\* followed by its CloseWrite.  Nobody has to write, half-close or reset.
Fairness ==
  /\ WF_streamVars(AcceptOpen \/ AcceptFails) /\ WF_streamVars(Answer) /\ WF_streamVars(ReceiveResponse)
  /\ WF_streamVars(end["acceptor"].rejected /\ CloseWrite("acceptor"))
  /\ \A e \in Ends : /\ WF_streamVars(WriteRecord(e) \/ WriteFails(e))
                     /\ WF_streamVars(Read(e) \/ ReadFails(e))
                     /\ WF_streamVars(ReceiveStreamReset(e))

Spec == Init /\ [][Next]_streamVars /\ Fairness

-----------------------------------------------------------------------------
TypeOK ==
  /\ end \in [Ends -> [opener : BOOLEAN, openSeen : BOOLEAN, localFirst : BOOLEAN, remoteFirst : BOOLEAN,
                       acknowledged : BOOLEAN, rejected : BOOLEAN, localFIN : BOOLEAN, remoteFIN : BOOLEAN,
                       terminal : {"none", "clean", "reset"}, violated : BOOLEAN]]
  /\ unsent \in [Ends -> Types \cup {"none"}]
  /\ \A e \in Ends : wire[e] \in Seq(Types)
  /\ carrier \in [Ends -> {"open", "half", "closed", "reset"}]
  /\ control \in [Ends -> BOOLEAN]
  /\ ledger \in {"open_seen", "used"}
  /\ app \in [Ends -> [wrote : 0..WriteBudget, read : 0..WriteBudget, released : BOOLEAN]]

\* Two ends that run this code never convict each other: whatever the order of writes, half-closes, resets and rejects, no
\* record reaches a LogicalStreamState that calls it a protocol violation (failProtocol).
NoFalseViolation == \A e \in Ends : ~end[e].violated

\* An end of file is the whole message: when the peer's FIN has been taken, everything the peer ever wrote has been read, and
\* the peer has no data left to write.
EOFIsWhole ==
  \A e \in Ends : end[e].remoteFIN => app[e].read = app[Peer(e)].wrote /\ unsent[Peer(e)] # "data"

\* A clean end is one both ends asked for: a stream whose state is clean at one end was half-closed by both.
CleanIsMutual == \A e \in Ends : end[e].terminal = "clean" => end[e].localFIN /\ end[Peer(e)].localFIN

\* A stream that is over gives back its permit and its registration (releaseOnce), however it ended: both halves closed in
\* either order, reset, rejected, or its STREAM_RESET overtaken by other records.
ReleaseOwed == \E e \in Ends : end[e].terminal # "none" /\ ~app[e].released
OverIsReleased == ReleaseOwed ~> ~ReleaseOwed
=============================================================================
