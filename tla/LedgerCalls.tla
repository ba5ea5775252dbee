----------------------------- MODULE LedgerCalls -----------------------------
(***************************************************************************)
(* One stream ledger under every sequence of calls.  The accept path, the  *)
(* control loop and the reset path of a session call the ledger in an      *)
(* order that depends on how carrier streams and control records overtake  *)
(* each other, so nothing is assumed of the order here.  IDs of the wrong  *)
(* parity, zero and IDs past the cap are part of the input.                *)
(***************************************************************************)
EXTENDS StreamLedger

VARIABLES
  ledger,    \* the StreamLedger
  opened,    \* history: how often ValidOpen succeeded, per slot
  reset      \* history: the slots for which PeerReset succeeded

vars == <<ledger, opened, reset>>

\* Every ID of the role, zero, wrong-parity IDs, and IDs past the cap.
InputIDs == 0..(2 * MaxSlots + 2)

TypeOK ==
  /\ ledger \in Ledgers
  /\ opened \in [Slots -> Nat]
  /\ reset \subseteq Slots

Init ==
  /\ \E role \in Roles : ledger = NewStreamLedger(role)
  /\ opened = [n \in Slots |-> 0]
  /\ reset = {}

SlotOf(id) == ordinal(ledger.role, id)

CallPeerReset(id) ==
  /\ ledger' = PeerReset(ledger, id).ledger
  /\ reset' = IF PeerReset(ledger, id).err = "nil" THEN reset \cup {SlotOf(id)}
                                                   ELSE reset
  /\ UNCHANGED opened

CallValidFSS2(id) ==
  /\ ledger' = ValidFSS2(ledger, id).ledger
  /\ UNCHANGED <<opened, reset>>

CallValidFSS2ForAbandoned(id) ==
  /\ ledger' = ValidFSS2ForAbandoned(ledger, id).ledger
  /\ UNCHANGED <<opened, reset>>

CallValidOpen(id) ==
  /\ ledger' = ValidOpen(ledger, id).ledger
  /\ opened' = IF ValidOpen(ledger, id).err = "nil"
               THEN [opened EXCEPT ![SlotOf(id)] = @ + 1]
               ELSE opened
  /\ UNCHANGED reset

CallLocalResetCommitted(id) ==
  /\ ledger' = LocalResetCommitted(ledger, id).ledger
  /\ UNCHANGED <<opened, reset>>

Next ==
  \E id \in InputIDs :
    \/ CallPeerReset(id)
    \/ CallValidFSS2(id)
    \/ CallValidFSS2ForAbandoned(id)
    \/ CallValidOpen(id)
    \/ CallLocalResetCommitted(id)

Spec == Init /\ [][Next]_vars

-----------------------------------------------------------------------------
(* The frontier a rekey compares with the peer's watermark is exact: every  *)
(* ID up to it is resolved, and the next ID is not (advanceFrontier is      *)
(* called after every transition that resolves an ID, in any order of IDs). *)
FrontierExact ==
  LET f == FrontierSlot(ledger)
  IN  /\ ledger.frontier = IdOf(ledger.role, f)
      /\ f \in 0..MaxSlots
      /\ \A n \in 1..f : Resolved(ledger.states[n])
      /\ f < MaxSlots => ~Resolved(ledger.states[f + 1])

(* OPEN is accepted at most once per logical ID, whatever the order in      *)
(* which setups, resets and duplicates of either reach the ledger.          *)
OpenAcceptedOnce == \A n \in Slots : opened[n] <= 1

(* The ledger is safe: its slots are typed, its frontier is exact and OPEN   *)
(* is accepted at most once per ID (StreamLedger, every method).            *)
LedgerSafe == TypeOK /\ FrontierExact /\ OpenAcceptedOnce

\* A step that keeps resolved IDs resolved, terminal IDs terminal, and accepts
\* no OPEN for an ID whose reset was processed.
KeepsResolved ==
  \A n \in Slots :
    /\ Resolved(ledger.states[n]) => Resolved(ledger'.states[n])
    /\ ledger.states[n] = "usedOrTerminal" => ledger'.states[n] = "usedOrTerminal"
    /\ n \in reset => opened'[n] = opened[n]

(* Late or duplicate setup cannot revive an ID: once an ID is resolved it   *)
(* stays resolved, a terminal ID stays terminal, and no OPEN is accepted    *)
(* for an ID whose authenticated reset has been processed.                  *)
NoRevival == [][KeepsResolved]_vars
=============================================================================
