---------------------------- MODULE StreamLedger ----------------------------
(***************************************************************************)
(* The sparse stream ledger of internal/protocolv2/state.go.  One ledger   *)
(* records, for every logical stream ID of one opener role, how far the    *)
(* setup of that stream got, and a frontier: the highest ID up to which    *)
(* every stream is resolved.  The session keeps two of them, one for the   *)
(* IDs its peer opens and one for the IDs it opens itself.                 *)
(*                                                                         *)
(* The code packs four two-bit states into a byte; here a ledger is a      *)
(* record with a function from slot ordinals to states.  PackedLedger      *)
(* models the packed representation and refines this one.                  *)
(***************************************************************************)
EXTENDS Integers

CONSTANT MaxSlots    \* lifetime cap of IDs per opener role (code: 1048576)

ASSUME MaxSlotsAssumption == MaxSlots \in Nat \ {0}

Roles == {"client", "server"}

Slots == 1..MaxSlots

\* LedgerState: the four values of the two-bit field.
LedgerStates == {"unseen", "abandonedNoFSS2", "openSeen", "usedOrTerminal"}

Ledgers == [role : Roles, states : [Slots -> LedgerStates], frontier : Nat]

NewStreamLedger(role) ==
  [role |-> role, states |-> [n \in Slots |-> "unseen"], frontier |-> 0]

\* Client IDs are odd, server IDs are even and non-zero.
validLogicalID(role, id) ==
  IF role = "client" THEN id % 2 = 1 ELSE id # 0 /\ id % 2 = 0

\* The ordinal of an ID (slotIndex returns it less one).
ordinal(role, id) == IF role = "client" THEN (id \div 2) + 1 ELSE id \div 2

\* validateID / slotIndex: the ID belongs to the role and is within the cap.
validateID(l, id) ==
  /\ validLogicalID(l.role, id)
  /\ ordinal(l.role, id) \in Slots

\* The ID in slot n; zero stands for "no ID yet".
IdOf(role, n) ==
  IF n = 0 THEN 0 ELSE IF role = "client" THEN 2 * n - 1 ELSE 2 * n

MaxLogicalStreamID(role) == IdOf(role, MaxSlots)

State(l, id) ==
  IF validateID(l, id) THEN l.states[ordinal(l.role, id)] ELSE "unseen"

Resolved(s) == s \in {"abandonedNoFSS2", "usedOrTerminal"}

setState(l, id, s) == [l EXCEPT !.states[ordinal(l.role, id)] = s]

\* The slot of the frontier, zero before any ID is resolved.
FrontierSlot(l) == IF l.frontier = 0 THEN 0 ELSE ordinal(l.role, l.frontier)

\* n is the slot at which the loop of advanceFrontier stops: every slot after
\* the frontier and before n is resolved, n itself is not or is past the cap.
StopsAt(l, n) ==
  /\ n \in (FrontierSlot(l) + 1)..(MaxSlots + 1)
  /\ n \in Slots => ~Resolved(l.states[n])
  /\ \A m \in (FrontierSlot(l) + 1)..(n - 1) : Resolved(l.states[m])

advanceFrontier(l) ==
  LET stop == CHOOSE n \in 1..(MaxSlots + 1) : StopsAt(l, n)
  IN  [l EXCEPT !.frontier = IdOf(l.role, stop - 1)]

(***************************************************************************)
(* The operations.  Each returns the ledger it leaves and its error.       *)
(***************************************************************************)
Ok(l) == [ledger |-> l, err |-> "nil"]
Err(l, e) == [ledger |-> l, err |-> e]

\* Mutant: the reset of an ID resolves it but the frontier is left behind.
PeerResetWithoutAdvance(l, id) ==
  IF ~validateID(l, id) THEN Err(l, "ErrLedgerCapacity")
  ELSE Ok(setState(l, id, IF State(l, id) \in {"unseen", "abandonedNoFSS2"}
                          THEN "abandonedNoFSS2" ELSE "usedOrTerminal"))

PeerReset(l, id) ==
  CASE ~validateID(l, id)           -> Err(l, "ErrLedgerCapacity")
    [] validateID(l, id) /\ State(l, id) = "unseen"
         -> Ok(advanceFrontier(setState(l, id, "abandonedNoFSS2")))
    [] validateID(l, id) /\ State(l, id) = "openSeen"
         -> Ok(advanceFrontier(setState(l, id, "usedOrTerminal")))
    [] validateID(l, id) /\ Resolved(State(l, id))
         -> Ok(advanceFrontier(l))

ValidFSS2(l, id) ==
  CASE ~validateID(l, id) -> Err(l, "ErrLedgerCapacity")
    [] validateID(l, id) /\ State(l, id) # "unseen" -> Err(l, "ErrDuplicateStreamID")
    [] validateID(l, id) /\ State(l, id) = "unseen" -> Ok(setState(l, id, "openSeen"))

ValidFSS2ForAbandoned(l, id) ==
  CASE ~validateID(l, id) -> Err(l, "ErrLedgerCapacity")
    [] validateID(l, id) /\ State(l, id) \in {"openSeen", "usedOrTerminal"}
         -> Err(l, "ErrDuplicateStreamID")
    [] validateID(l, id) /\ State(l, id) = "unseen" -> Err(l, "ErrInvalidLedgerState")
    [] validateID(l, id) /\ State(l, id) = "abandonedNoFSS2"
         -> Ok(advanceFrontier(setState(l, id, "usedOrTerminal")))

\* Mutant: only terminal IDs are refused, so an OPEN that arrives after the
\* reset of its ID is accepted.
ValidOpenAfterReset(l, id) ==
  IF validateID(l, id) /\ State(l, id) \in {"openSeen", "abandonedNoFSS2"}
  THEN Ok(advanceFrontier(setState(l, id, "usedOrTerminal")))
  ELSE Err(l, "ErrInvalidLedgerState")

ValidOpen(l, id) ==
  CASE ~validateID(l, id) -> Err(l, "ErrLedgerCapacity")
    [] validateID(l, id) /\ State(l, id) # "openSeen" -> Err(l, "ErrInvalidLedgerState")
    [] validateID(l, id) /\ State(l, id) = "openSeen"
         -> Ok(advanceFrontier(setState(l, id, "usedOrTerminal")))

LocalResetCommitted(l, id) ==
  CASE ~validateID(l, id) -> Err(l, "ErrLedgerCapacity")
    [] validateID(l, id) /\ State(l, id) = "openSeen"
         -> Ok(advanceFrontier(setState(l, id, "usedOrTerminal")))
    [] validateID(l, id) /\ State(l, id) = "usedOrTerminal" -> Ok(l)
    [] validateID(l, id) /\ State(l, id) \in {"unseen", "abandonedNoFSS2"}
         -> Err(l, "ErrInvalidLedgerState")
=============================================================================
