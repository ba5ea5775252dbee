---------------------------- MODULE PackedLedger ----------------------------
(***************************************************************************)
(* The representation of the stream ledger: two bits per slot, four slots  *)
(* to a byte, and the loop that advances the frontier.  Each method runs   *)
(* under the session's ledger mutex, so it is one action.  The module is   *)
(* checked to implement LedgerCalls.                                       *)
(***************************************************************************)
EXTENDS Integers

CONSTANT maxSlots

VARIABLES
  role,       \* opener role of the ledger
  states,     \* []byte: the packed states
  frontier,
  opened,     \* history, as in LedgerCalls
  reset

vars == <<role, states, frontier, opened, reset>>

Unseen == 0
AbandonedNoFSS2 == 1
OpenSeen == 2
UsedOrTerminal == 3

ByteCount == (maxSlots + 3) \div 4

Init ==
  /\ role \in {"client", "server"}
  /\ states = [b \in 0..(ByteCount - 1) |-> 0]
  /\ frontier = 0
  /\ opened = [n \in 1..maxSlots |-> 0]
  /\ reset = {}

validLogicalID(id) ==
  IF role = "client" THEN id % 2 = 1 ELSE id # 0 /\ id % 2 = 0

\* The zero-based index of an ID, or -1 when it has no slot.
slotIndex(id) ==
  LET o == IF role = "client" THEN id \div 2 + 1 ELSE id \div 2
  IN  IF validLogicalID(id) /\ o # 0 /\ o <= maxSlots THEN o - 1 ELSE -1

\* One shifted left by (index % 4) * 2.
unit(index) == 4 ^ (index % 4)

stateAt(bytes, index) == (bytes[index \div 4] \div unit(index)) % 4

\* Mutant: the slot is or-ed over its old value instead of being masked first.
setStateUnmasked(bytes, index, s) ==
  [bytes EXCEPT ![index \div 4] = (@ + s * unit(index)) % 256]

\* Clear the two bits of the slot, then or in the new ones, in eight bits.
setState(bytes, index, s) ==
  [bytes EXCEPT ![index \div 4] =
     (@ - stateAt(bytes, index) * unit(index) + s * unit(index)) % 256]

\* The loop of advanceFrontier from candidate ID next, with frontier f.
RECURSIVE scan(_, _, _)
scan(bytes, f, next) ==
  IF slotIndex(next) = -1 THEN f
  ELSE IF stateAt(bytes, slotIndex(next)) \notin {AbandonedNoFSS2, UsedOrTerminal} THEN f
  ELSE scan(bytes, next, next + 2)

advanceFrontier(bytes) ==
  scan(bytes, frontier,
       IF frontier = 0 /\ role = "client" THEN 1 ELSE frontier + 2)

State(id) == stateAt(states, slotIndex(id))

\* Write s into the slot of id and advance the frontier.
Resolve(id, s) ==
  /\ states' = setState(states, slotIndex(id), s)
  /\ frontier' = advanceFrontier(states')

PeerReset(id) ==
  /\ slotIndex(id) # -1
  /\ \/ State(id) = Unseen /\ Resolve(id, AbandonedNoFSS2)
     \/ State(id) = OpenSeen /\ Resolve(id, UsedOrTerminal)
     \/ State(id) \in {AbandonedNoFSS2, UsedOrTerminal} /\ Resolve(id, State(id))
  /\ reset' = reset \cup {slotIndex(id) + 1}
  /\ UNCHANGED <<role, opened>>

ValidFSS2(id) ==
  /\ slotIndex(id) # -1
  /\ State(id) = Unseen
  /\ states' = setState(states, slotIndex(id), OpenSeen)
  /\ UNCHANGED <<role, frontier, opened, reset>>

ValidFSS2ForAbandoned(id) ==
  /\ slotIndex(id) # -1
  /\ State(id) = AbandonedNoFSS2
  /\ Resolve(id, UsedOrTerminal)
  /\ UNCHANGED <<role, opened, reset>>

ValidOpen(id) ==
  /\ slotIndex(id) # -1
  /\ State(id) = OpenSeen
  /\ Resolve(id, UsedOrTerminal)
  /\ opened' = [opened EXCEPT ![slotIndex(id) + 1] = @ + 1]
  /\ UNCHANGED <<role, reset>>

LocalResetCommitted(id) ==
  /\ slotIndex(id) # -1
  /\ State(id) = OpenSeen
  /\ Resolve(id, UsedOrTerminal)
  /\ UNCHANGED <<role, opened, reset>>

\* Calls that return an error, or nil without effect, leave the ledger alone
\* and are stuttering steps.
Next ==
  \E id \in 0..(2 * maxSlots + 2) :
    \/ PeerReset(id)
    \/ ValidFSS2(id)
    \/ ValidFSS2ForAbandoned(id)
    \/ ValidOpen(id)
    \/ LocalResetCommitted(id)

Spec == Init /\ [][Next]_vars

-----------------------------------------------------------------------------
StateName(s) ==
  CASE s = Unseen -> "unseen"            [] s = AbandonedNoFSS2 -> "abandonedNoFSS2"
    [] s = OpenSeen -> "openSeen"        [] s = UsedOrTerminal -> "usedOrTerminal"

Abstract == INSTANCE LedgerCalls WITH
  MaxSlots <- maxSlots,
  ledger   <- [role     |-> role,
               states   |-> [n \in 1..maxSlots |-> StateName(stateAt(states, n - 1))],
               frontier |-> frontier]

(* The packed bytes and the frontier loop implement the abstract ledger:    *)
(* writing one slot disturbs no neighbour in its byte, and the loop stops   *)
(* exactly where the abstract frontier does.                                *)
ImplementsLedger == Abstract!Spec
=============================================================================
