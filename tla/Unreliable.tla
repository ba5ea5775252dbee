----------------------------- MODULE Unreliable -----------------------------
(***************************************************************************)
(* Unreliable messages: internal/session/unreliable.go over the datagrams  *)
(* of protocolv2/unreliable.go.  Senders share a budget of slots and one   *)
(* sequence counter; the network loses, repeats and reorders; the receiver *)
(* keeps a replay window per epoch.  Both directions are the same code.    *)
(***************************************************************************)
EXTENDS Integers, FiniteSets

CONSTANTS
  Senders,       \* concurrent Send calls; each calls again after it returned
  SendBudget,    \* unreliableSendBudget (code: 64)
  WindowBits,    \* width of the replay bitmap (code: 64)
  MaxSequence,   \* math.MaxUint64
  MaxEpoch,      \* bound on rekeys; two, so that a window is dropped
  Lifetimes,     \* what a message has left of its expiry; a sent one may be short
  MaxTime        \* bound on the clock

VARIABLES
  tx,          \* the session's send epoch, nextSequence, sendExhausted, slots taken
  send,        \* per Send: where it is, its expiry, epoch and sequence
  net,         \* datagrams the network may deliver, any number of times
  rx,          \* recvSessionEpoch, controlRecvEpoch, the lowest epoch a stream needs,
               \* the epochs with roots, and the replay windows
  delivered,   \* history: how often each datagram was returned by Receive
  now          \* the clock of both ends

unreliableVars == <<tx, send, net, rx, delivered, now>>

Epochs == 0..MaxEpoch
Datagrams == [epoch : Epochs, sequence : 1..MaxSequence]

Idle == [at |-> "idle", expires |-> 0, epoch |-> 0, sequence |-> 0]
Fresh == [initialized |-> FALSE, highest |-> 0, bits |-> {}]
NoNeed == MaxEpoch + 1   \* no stream reads a receive root

Init ==
  /\ tx = [epoch |-> 0, next |-> 1, exhausted |-> FALSE, slots |-> 0]
  /\ send = [s \in Senders |-> Idle]
  /\ net = {}
  /\ rx = [epoch |-> 0, ctl |-> 0, need |-> NoNeed, roots |-> {0}, replay |-> [e \in {} |-> Fresh]]
  /\ delivered = [d \in Datagrams |-> 0]
  /\ now = 0

-----------------------------------------------------------------------------
(* Send.                                                                    *)

\* validateUnreliableExpiry, then a slot; without one the message is dropped.
SendStart(s, lifetime) ==
  /\ send[s].at = "idle" /\ tx.slots < SendBudget
  /\ tx' = [tx EXCEPT !.slots = @ + 1]
  /\ send' = [send EXCEPT ![s] = [Idle EXCEPT !.at = "slot", !.expires = now + lifetime]]
  /\ UNCHANGED <<net, rx, delivered, now>>

\* The deferred return of the slot.
SendEnds(s) == send' = [send EXCEPT ![s] = Idle] /\ tx' = [tx EXCEPT !.slots = @ - 1]

\* The expiry once more, and unreliableSendRoots.
SendEpoch(s) ==
  /\ send[s].at = "slot"
  /\ IF now >= send[s].expires
     THEN SendEnds(s)
     ELSE send' = [send EXCEPT ![s].at = "epoch", ![s].epoch = tx.epoch] /\ UNCHANGED tx
  /\ UNCHANGED <<net, rx, delivered, now>>

sequenceTaken ==
  IF tx.next = MaxSequence THEN [tx EXCEPT !.exhausted = TRUE] ELSE [tx EXCEPT !.next = @ + 1]

takeSequence(s) ==
  /\ send[s].at = "epoch"
  /\ IF tx.exhausted
     THEN SendEnds(s)
     ELSE /\ send' = [send EXCEPT ![s].at = "sealed", ![s].sequence = tx.next]
          /\ tx' = sequenceTaken
  /\ UNCHANGED <<net, rx, delivered, now>>

\* A datagram is the header it is sealed with: it opens under the material of its
\* epoch and direction only, and no other header goes with it.
SealUnreliable(s) == [epoch |-> send[s].epoch, sequence |-> send[s].sequence, expires |-> send[s].expires]

\* SendUnreliable: the carrier takes the datagram or drops it.
SendDatagram(s, taken) ==
  /\ send[s].at = "sealed"
  /\ net' = IF taken THEN net \cup {SealUnreliable(s)} ELSE net
  /\ SendEnds(s) /\ UNCHANGED <<rx, delivered, now>>

-----------------------------------------------------------------------------
(* Receive.                                                                 *)

Window(e) == IF e \in DOMAIN rx.replay THEN rx.replay[e] ELSE Fresh

\* The first message of an epoch drops the windows older than the one before.
Kept(e) == IF e \in DOMAIN rx.replay THEN DOMAIN rx.replay
           ELSE {c \in DOMAIN rx.replay : ~(c < e /\ e - c > 1)}

\* Mutant: the bitmap is not moved with its highest number.
bitsNotShifted(w, sequence) == w.bits \cup {0}

\* bits << shift | 1, in WindowBits bits.
shifted(w, sequence) == {b \in {d + (sequence - w.highest) : d \in w.bits} : b < WindowBits} \cup {0}

tooOld(w, sequence) == w.highest - sequence >= WindowBits

accepts(w, sequence) ==
  \/ ~w.initialized \/ sequence > w.highest
  \/ ~tooOld(w, sequence) /\ (w.highest - sequence) \notin w.bits

acceptSequence(w, sequence) ==
  CASE ~w.initialized -> [initialized |-> TRUE, highest |-> sequence, bits |-> {0}]
    [] w.initialized /\ sequence > w.highest
         -> [w EXCEPT !.highest = sequence, !.bits = shifted(w, sequence)]
    [] w.initialized /\ sequence <= w.highest
         -> [w EXCEPT !.bits = @ \cup {w.highest - sequence}]

\* unreliableReceiveRoots.
Readable(e) == e <= rx.epoch /\ e \in rx.roots

\* open: a datagram that has expired, that no root reads or that was seen is
\* dropped.  The window is created whether or not the number is accepted.
Receive(m) ==
  /\ m \in net /\ now < m.expires /\ Readable(m.epoch)
  /\ LET w  == Window(m.epoch)
         ok == accepts(w, m.sequence)
     IN  /\ rx' = [rx EXCEPT !.replay =
                     [e \in Kept(m.epoch) \cup {m.epoch} |->
                        IF e # m.epoch THEN rx.replay[e]
                        ELSE IF ok THEN acceptSequence(w, m.sequence) ELSE w]]
         /\ delivered' = [delivered EXCEPT ![[epoch |-> m.epoch, sequence |-> m.sequence]] = IF ok THEN @ + 1 ELSE @]
  /\ UNCHANGED <<tx, send, net, now>>

-----------------------------------------------------------------------------
(* The session beside it, as far as it adds and removes receive roots.     *)

\* The roots no stream and no control record needs any more go.
cleanupEpochRoots(r) == [r EXCEPT !.roots = {e \in @ : e >= r.ctl \/ e >= r.need}]

\* handleSessionUpdate: the peer's update, read in the epoch it leaves, adds the
\* root of the next one and commits it; it removes none.
ReceiverRekeys ==
  /\ rx.epoch = tx.epoch /\ rx.ctl = rx.epoch /\ rx.epoch < MaxEpoch
  /\ rx' = [rx EXCEPT !.epoch = @ + 1, !.roots = @ \cup {rx.epoch + 1}]
  /\ UNCHANGED <<tx, send, net, delivered, now>>

SenderRekeys ==
  /\ tx.epoch < rx.epoch /\ tx' = [tx EXCEPT !.epoch = @ + 1]
  /\ UNCHANGED <<send, net, rx, delivered, now>>

\* readControl takes the first control record of the sender's new epoch.
ControlCutover ==
  /\ rx.ctl < tx.epoch /\ rx' = cleanupEpochRoots([rx EXCEPT !.ctl = @ + 1])
  /\ UNCHANGED <<tx, send, net, delivered, now>>

\* A stream opens in the current epoch, and later moves to a newer one or is over.
StreamNeeds(e) ==
  /\ rx.need # e /\ (e > rx.need \/ e = rx.epoch) /\ e \in 0..rx.epoch \cup {NoNeed}
  /\ rx' = [rx EXCEPT !.need = e] /\ UNCHANGED <<tx, send, net, delivered, now>>

\* The end of a stream, or of an own Rekey, cleans up.
RootsCleaned == rx' = cleanupEpochRoots(rx) /\ UNCHANGED <<tx, send, net, delivered, now>>

Tick == now < MaxTime /\ now' = now + 1 /\ UNCHANGED <<tx, send, net, rx, delivered>>

Next ==
  \/ \E s \in Senders : \/ \E l \in Lifetimes : SendStart(s, l)
                        \/ SendEpoch(s) \/ takeSequence(s)
                        \/ \E taken \in BOOLEAN : SendDatagram(s, taken)
  \/ \E m \in net : Receive(m)
  \/ ReceiverRekeys \/ SenderRekeys \/ ControlCutover \/ RootsCleaned \/ Tick
  \/ \E e \in 0..NoNeed : StreamNeeds(e)

Spec == Init /\ [][Next]_unreliableVars

-----------------------------------------------------------------------------
(* Properties.                                                              *)

TypeOK ==
  /\ tx \in [epoch : Epochs, next : 1..MaxSequence, exhausted : BOOLEAN, slots : 0..SendBudget]
  /\ \A s \in Senders : send[s].at \in {"idle", "slot", "epoch", "sealed"} /\ send[s].epoch \in Epochs
  /\ rx.roots \subseteq Epochs /\ DOMAIN rx.replay \subseteq Epochs /\ rx.ctl \in Epochs /\ rx.need \in 0..NoNeed
  /\ \A e \in DOMAIN rx.replay : rx.replay[e].bits \subseteq 0..WindowBits - 1

\* The window of an epoch is dropped by the first datagram two epochs newer.
Superseded(e) == \E d \in Datagrams : d.epoch > e + 1 /\ delivered[d] > 0

\* No datagram is returned by Receive twice, however often and in whatever
\* order the network delivers it, unless its window was dropped while a stream
\* still kept the root of its epoch (acceptSequence, cleanupEpochRoots).  So
\* none of the current receive epoch or of the one before it ever is.
AtMostOnce ==
  \A d \in Datagrams : delivered[d] > 1 => Superseded(d.epoch) /\ d.epoch < rx.epoch - 1

\* What is sent in the sender's epoch can be read: its root stays until the
\* sender has left it, whatever streams end and clean up meanwhile.
SenderReadable == Readable(tx.epoch)

\* The replay window says exactly which numbers were accepted: a datagram that
\* was not seen and is inside the window is never refused.  A window created a
\* second time has forgotten what the dropped one knew.
WindowExact ==
  \A e \in DOMAIN rx.replay :
    LET w == rx.replay[e]
    IN  w.initialized /\ ~Superseded(e) =>
          w.bits = {b \in 0..WindowBits - 1 : /\ w.highest - b \in 1..MaxSequence
                                              /\ delivered[[epoch |-> e, sequence |-> w.highest - b]] > 0}

\* No two messages carry the same sequence number, up to the last one there is.
SequencesUnique ==
  /\ \A m, n \in net : m.sequence = n.sequence => m = n
  /\ \A s \in Senders : send[s].at = "sealed" => \A m \in net : m.sequence # send[s].sequence
  /\ \A s, t \in Senders : s # t /\ send[s].at = "sealed" /\ send[t].at = "sealed"
                           => send[s].sequence # send[t].sequence

\* A slot is taken by every Send under way and by nothing else, so that dropped
\* messages do not use up the budget.
SlotsExact == tx.slots = Cardinality({s \in Senders : send[s].at # "idle"})
=============================================================================
