---------------------------- MODULE LedgerProofs ----------------------------
(***************************************************************************)
(* Proofs about the stream ledger for every cap MaxSlots: the frontier is  *)
(* exact, OPEN is accepted at most once per ID and resolved IDs are never  *)
(* revived.                                                                *)
(***************************************************************************)
EXTENDS LedgerCalls, WellFoundedInduction, TLAPS

\* FrontierExact as a predicate of any ledger.
Exact(l) ==
  LET f == FrontierSlot(l)
  IN  /\ l.frontier = IdOf(l.role, f)
      /\ f \in 0..MaxSlots
      /\ \A n \in 1..f : Resolved(l.states[n])
      /\ f < MaxSlots => ~Resolved(l.states[f + 1])

\* What holds of a ledger just before advanceFrontier restores Exact.
Contiguous(l) ==
  LET f == FrontierSlot(l)
  IN  /\ l.frontier = IdOf(l.role, f)
      /\ f \in 0..MaxSlots
      /\ \A n \in 1..f : Resolved(l.states[n])

(* Slot ordinals and logical IDs (slotIndex) are inverse to each other.    *)
LEMMA OrdinalOfId ==
  ASSUME NEW role \in Roles, NEW n \in Nat \ {0}
  PROVE  /\ IdOf(role, n) \in Nat \ {0}
         /\ ordinal(role, IdOf(role, n)) = n
<1>1. CASE role = "client"
  <2>1. IdOf(role, n) = 2 * n - 1
    BY <1>1 DEF IdOf
  <2>2. (2 * n - 1) \div 2 = n - 1
    BY SMT
  <2>3. ordinal(role, IdOf(role, n)) = (2 * n - 1) \div 2 + 1
    BY <1>1, <2>1 DEF ordinal
  <2> QED BY <2>1, <2>2, <2>3, SMT
<1>2. CASE role = "server"
  <2>1. IdOf(role, n) = 2 * n
    BY <1>2 DEF IdOf
  <2>2. (2 * n) \div 2 = n
    BY SMT
  <2>3. ordinal(role, IdOf(role, n)) = (2 * n) \div 2
    BY <1>2, <2>1 DEF ordinal
  <2> QED BY <2>1, <2>2, <2>3, SMT
<1> QED BY <1>1, <1>2 DEF Roles

(* The loop of advanceFrontier stops: among the slots after the frontier,  *)
(* the first unresolved one, or the one past the cap, exists.              *)
LEMMA StopExists ==
  ASSUME NEW l \in Ledgers, FrontierSlot(l) \in 0..MaxSlots
  PROVE  \E n \in 1..(MaxSlots + 1) : StopsAt(l, n)
<1> DEFINE f == FrontierSlot(l)
           T == {n \in (f + 1)..(MaxSlots + 1) : n \in Slots => ~Resolved(l.states[n])}
           R == OpToRel(<, Nat)
<1>1. MaxSlots + 1 \in T
  BY MaxSlotsAssumption DEF Slots
<1>2. T \subseteq Nat
  BY MaxSlotsAssumption
<1>3. PICK n \in T : \A y \in T : ~(<<y, n>> \in R)
  <2> HIDE DEF T
  <2> QED BY <1>1, <1>2, NatLessThanWellFounded, WFMin, Zenon
<1>4. \A y \in T : ~(y < n)
  BY <1>2, <1>3, Zenon DEF OpToRel
<1>5. \A m \in (f + 1)..(n - 1) : Resolved(l.states[m])
  <2> TAKE m \in (f + 1)..(n - 1)
  <2>1. m \in (f + 1)..(MaxSlots + 1) /\ m < n /\ m \in Slots
    BY MaxSlotsAssumption DEF Slots
  <2>2. m \notin T
    BY <1>4, <2>1
  <2> QED BY <2>1, <2>2
<1>6. n \in 1..(MaxSlots + 1)
  BY MaxSlotsAssumption
<1> QED BY <1>5, <1>6 DEF StopsAt

(* advanceFrontier keeps role and states, and leaves an exact frontier.    *)
LEMMA AdvanceExact ==
  ASSUME NEW l \in Ledgers, Contiguous(l)
  PROVE  /\ advanceFrontier(l) \in Ledgers
         /\ advanceFrontier(l).role = l.role
         /\ advanceFrontier(l).states = l.states
         /\ Exact(advanceFrontier(l))
<1> DEFINE f    == FrontierSlot(l)
           stop == CHOOSE n \in 1..(MaxSlots + 1) : StopsAt(l, n)
           a    == advanceFrontier(l)
<1>1. stop \in 1..(MaxSlots + 1) /\ StopsAt(l, stop)
  BY StopExists DEF Contiguous
<1>2. a = [l EXCEPT !.frontier = IdOf(l.role, stop - 1)]
  BY DEF advanceFrontier
<1> HIDE DEF stop, a
<1>3. stop - 1 \in 0..MaxSlots /\ stop - 1 \in Nat
  BY <1>1, MaxSlotsAssumption
<1>4. IdOf(l.role, stop - 1) \in Nat
  BY <1>3, OrdinalOfId, Zenon DEF IdOf, Ledgers
<1>5. a \in Ledgers /\ a.role = l.role /\ a.states = l.states
      /\ a.frontier = IdOf(l.role, stop - 1)
  BY <1>2, <1>4 DEF Ledgers
<1>6. FrontierSlot(a) = stop - 1
  <2>1. CASE stop = 1
    BY <2>1, <1>5 DEF FrontierSlot, IdOf
  <2>2. CASE stop # 1
    <3>1. stop - 1 \in Nat \ {0} /\ l.role \in Roles
      BY <2>2, <1>1, <1>3 DEF Ledgers
    <3>2. a.frontier # 0 /\ ordinal(a.role, a.frontier) = stop - 1
      BY <3>1, <1>5, OrdinalOfId, Zenon
    <3> QED BY <3>2 DEF FrontierSlot
  <2> QED BY <2>1, <2>2
<1>7. \A n \in 1..(stop - 1) : Resolved(a.states[n])
  <2> TAKE n \in 1..(stop - 1)
  <2>1. n \in 1..f \/ n \in (f + 1)..(stop - 1)
    BY <1>1, MaxSlotsAssumption DEF Contiguous
  <2> QED BY <2>1, <1>1, <1>5 DEF Contiguous, StopsAt
<1>8. stop - 1 < MaxSlots => ~Resolved(a.states[(stop - 1) + 1])
  <2> HAVE stop - 1 < MaxSlots
  <2>1. stop \in Slots /\ (stop - 1) + 1 = stop
    BY <1>1, MaxSlotsAssumption DEF Slots
  <2> QED BY <2>1, <1>1, <1>5 DEF StopsAt
<1>9. Exact(a)
  BY <1>3, <1>5, <1>6, <1>7, <1>8 DEF Exact
<1> QED BY <1>5, <1>9 DEF a

(* Writing a resolving state into a slot keeps the resolved prefix.         *)
LEMMA ResolveContiguous ==
  ASSUME NEW l \in Ledgers, Exact(l), NEW id \in InputIDs, validateID(l, id),
         NEW s \in LedgerStates, Resolved(s)
  PROVE  /\ setState(l, id, s) \in Ledgers
         /\ setState(l, id, s).role = l.role
         /\ setState(l, id, s).states = [l.states EXCEPT ![ordinal(l.role, id)] = s]
         /\ Contiguous(setState(l, id, s))
<1> DEFINE k == ordinal(l.role, id)
           b == setState(l, id, s)
<1>1. k \in Slots
  BY DEF validateID
<1>2. b \in Ledgers /\ b.role = l.role /\ b.frontier = l.frontier
      /\ b.states = [l.states EXCEPT ![k] = s]
  BY <1>1 DEF setState, Ledgers
<1>3. FrontierSlot(b) = FrontierSlot(l)
  BY <1>2 DEF FrontierSlot
<1>4. ASSUME NEW n \in 1..FrontierSlot(l)
      PROVE  Resolved(b.states[n])
  <2>1. n \in Slots /\ Resolved(l.states[n])
    BY MaxSlotsAssumption DEF Exact, Slots
  <2>2. l.states \in [Slots -> LedgerStates]
    BY DEF Ledgers
  <2> QED BY <1>1, <1>2, <2>1, <2>2
<1> QED BY <1>2, <1>3, <1>4 DEF Contiguous, Exact

(* What every ledger operation guarantees: the result is a ledger of the   *)
(* same role with an exact frontier; only the slot of the ID can change,   *)
(* and a resolved slot stays resolved, a terminal one terminal.            *)
Step(l, m) ==
  /\ m \in Ledgers
  /\ m.role = l.role
  /\ Exact(m)
  /\ \A n \in Slots :
       /\ Resolved(l.states[n]) => Resolved(m.states[n])
       /\ l.states[n] = "usedOrTerminal" => m.states[n] = "usedOrTerminal"

(* Leaving the ledger alone is such a step.                                *)
LEMMA StutterStep ==
  ASSUME NEW l \in Ledgers, Exact(l)
  PROVE  Step(l, l)
BY DEF Step

(* Resolving one slot and advancing the frontier is such a step, and the   *)
(* slot then holds the state written.                                      *)
LEMMA ResolveStep ==
  ASSUME NEW l \in Ledgers, Exact(l), NEW id \in InputIDs, validateID(l, id),
         NEW s \in LedgerStates, Resolved(s),
         State(l, id) = "usedOrTerminal" => s = "usedOrTerminal"
  PROVE  LET m == advanceFrontier(setState(l, id, s))
         IN  /\ Step(l, m)
             /\ m.states[ordinal(l.role, id)] = s
<1> DEFINE k == ordinal(l.role, id)
           b == setState(l, id, s)
           m == advanceFrontier(b)
<1>1. b \in Ledgers /\ b.role = l.role /\ Contiguous(b)
      /\ b.states = [l.states EXCEPT ![k] = s]
  BY ResolveContiguous
<1>2. m \in Ledgers /\ m.role = b.role /\ m.states = b.states /\ Exact(m)
  <2> HIDE DEF b
  <2> QED BY <1>1, AdvanceExact
<1> HIDE DEF b, m
<1>3. k \in Slots /\ l.states \in [Slots -> LedgerStates] /\ State(l, id) = l.states[k]
  BY DEF validateID, Ledgers, State
<1>4. m.states[k] = s
  BY <1>1, <1>2, <1>3
<1>5. \A n \in Slots : n # k => m.states[n] = l.states[n]
  BY <1>1, <1>2, <1>3
<1>6. Step(l, m)
  BY <1>1, <1>2, <1>3, <1>4, <1>5 DEF Step
<1> QED BY <1>4, <1>6 DEF m, b

(* Advancing the frontier of an exact ledger is such a step that changes    *)
(* no slot.                                                                 *)
LEMMA IdleAdvanceStep ==
  ASSUME NEW l \in Ledgers, Exact(l)
  PROVE  Step(l, advanceFrontier(l)) /\ advanceFrontier(l).states = l.states
<1>1. Contiguous(l)
  BY DEF Exact, Contiguous
<1> QED BY <1>1, AdvanceExact DEF Step

(* PeerReset: a step after which, when it succeeds, the ID is resolved.     *)
LEMMA PeerResetStep ==
  ASSUME NEW l \in Ledgers, Exact(l), NEW id \in InputIDs
  PROVE  /\ Step(l, PeerReset(l, id).ledger)
         /\ PeerReset(l, id).err = "nil" =>
              /\ ordinal(l.role, id) \in Slots
              /\ Resolved(PeerReset(l, id).ledger.states[ordinal(l.role, id)])
<1>1. CASE ~validateID(l, id)
  BY <1>1, StutterStep DEF PeerReset, Err
<1>2. CASE validateID(l, id)
  <2>0. /\ State(l, id) \in LedgerStates
        /\ State(l, id) = l.states[ordinal(l.role, id)]
        /\ ordinal(l.role, id) \in Slots
    BY <1>2 DEF State, validateID, Ledgers
  <2>1. CASE State(l, id) = "unseen"
    <3>1. PeerReset(l, id) = Ok(advanceFrontier(setState(l, id, "abandonedNoFSS2")))
      BY <1>2, <2>1 DEF PeerReset, Resolved
    <3> QED BY <1>2, <2>0, <2>1, <3>1, ResolveStep DEF Ok, Resolved, LedgerStates
  <2>2. CASE State(l, id) = "openSeen"
    <3>1. PeerReset(l, id) = Ok(advanceFrontier(setState(l, id, "usedOrTerminal")))
      BY <1>2, <2>2 DEF PeerReset, Resolved
    <3> QED BY <1>2, <2>0, <2>2, <3>1, ResolveStep DEF Ok, Resolved, LedgerStates
  <2>3. CASE Resolved(State(l, id))
    <3>1. PeerReset(l, id) = Ok(advanceFrontier(l))
      BY <1>2, <2>3 DEF PeerReset, Resolved
    <3> QED BY <2>0, <2>3, <3>1, IdleAdvanceStep DEF Ok
  <2> QED BY <2>0, <2>1, <2>2, <2>3 DEF LedgerStates, Resolved
<1> QED BY <1>1, <1>2

(* ValidFSS2 only turns an unseen slot into an open one: it moves neither   *)
(* the frontier nor a resolved slot.                                        *)
LEMMA ValidFSS2Step ==
  ASSUME NEW l \in Ledgers, Exact(l), NEW id \in InputIDs
  PROVE  Step(l, ValidFSS2(l, id).ledger)
<1>1. CASE ~validateID(l, id)
  BY <1>1, StutterStep DEF ValidFSS2, Err
<1>2. CASE validateID(l, id) /\ State(l, id) # "unseen"
  BY <1>2, StutterStep DEF ValidFSS2, Err
<1>3. CASE validateID(l, id) /\ State(l, id) = "unseen"
  <2> DEFINE k == ordinal(l.role, id)
             b == setState(l, id, "openSeen")
  <2>1. ValidFSS2(l, id) = Ok(b)
    BY <1>3 DEF ValidFSS2
  <2>2. k \in Slots /\ l.states[k] = "unseen" /\ l.states \in [Slots -> LedgerStates]
    BY <1>3 DEF State, validateID, Ledgers
  <2>3. b \in Ledgers /\ b.role = l.role /\ b.frontier = l.frontier
        /\ b.states = [l.states EXCEPT ![k] = "openSeen"]
    BY <2>2 DEF setState, Ledgers, LedgerStates
  <2>4. \A n \in Slots : Resolved(b.states[n]) <=> Resolved(l.states[n])
    BY <2>2, <2>3 DEF Resolved
  <2>5. FrontierSlot(b) = FrontierSlot(l)
    BY <2>3 DEF FrontierSlot
  <2>6. \A n \in 1..MaxSlots : n \in Slots
    BY DEF Slots
  <2>7. Exact(b)
    <3> DEFINE f == FrontierSlot(l)
    <3>1. \A n \in 1..f : n \in Slots
      BY MaxSlotsAssumption DEF Exact, Slots
    <3>2. f < MaxSlots => f + 1 \in Slots
      BY MaxSlotsAssumption DEF Exact, Slots
    <3> QED BY <2>3, <2>4, <2>5, <3>1, <3>2 DEF Exact
  <2>8. \A n \in Slots : l.states[n] = "usedOrTerminal" => b.states[n] = "usedOrTerminal"
    BY <2>2, <2>3
  <2>9. Step(l, b)
    <3> HIDE DEF b
    <3> QED BY <2>3, <2>4, <2>7, <2>8 DEF Step
  <2> QED BY <2>1, <2>9 DEF Ok
<1> QED BY <1>1, <1>2, <1>3

(* The three operations that turn a slot terminal or leave the ledger alone. *)
LEMMA TerminalStep ==
  ASSUME NEW l \in Ledgers, Exact(l), NEW id \in InputIDs
  PROVE  /\ Step(l, ValidFSS2ForAbandoned(l, id).ledger)
         /\ Step(l, ValidOpen(l, id).ledger)
         /\ Step(l, LocalResetCommitted(l, id).ledger)
         /\ ValidOpen(l, id).err = "nil" =>
              /\ ordinal(l.role, id) \in Slots
              /\ l.states[ordinal(l.role, id)] = "openSeen"
              /\ ValidOpen(l, id).ledger.states[ordinal(l.role, id)] = "usedOrTerminal"
<1>1. CASE ~validateID(l, id)
  BY <1>1, StutterStep DEF ValidFSS2ForAbandoned, ValidOpen, LocalResetCommitted, Err
<1>2. CASE validateID(l, id)
  <2> DEFINE m == advanceFrontier(setState(l, id, "usedOrTerminal"))
  <2>1. /\ State(l, id) \in LedgerStates
        /\ State(l, id) = l.states[ordinal(l.role, id)]
        /\ ordinal(l.role, id) \in Slots
    BY <1>2 DEF State, validateID, Ledgers
  <2>2. Step(l, m) /\ m.states[ordinal(l.role, id)] = "usedOrTerminal"
    BY <1>2, ResolveStep DEF Resolved, LedgerStates
  <2>3. Step(l, l)
    BY StutterStep
  <2> HIDE DEF m
  <2>4. ValidFSS2ForAbandoned(l, id).ledger \in {l, m}
    BY <1>2, <2>1 DEF ValidFSS2ForAbandoned, LedgerStates, Ok, Err, m
  <2>5. LocalResetCommitted(l, id).ledger \in {l, m}
    BY <1>2, <2>1 DEF LocalResetCommitted, LedgerStates, Ok, Err, m
  <2>6. \/ ValidOpen(l, id) = Err(l, "ErrInvalidLedgerState")
        \/ State(l, id) = "openSeen" /\ ValidOpen(l, id) = Ok(m)
    BY <1>2 DEF ValidOpen, m
  <2> QED BY <2>1, <2>2, <2>3, <2>4, <2>5, <2>6 DEF Ok, Err
<1> QED BY <1>1, <1>2

(***************************************************************************)
(* The inductive invariant.  OpenAcceptedOnce is not inductive alone: it   *)
(* needs to know that an ID whose OPEN was accepted is terminal, and       *)
(* NoRevival needs to know that an ID whose reset was processed is         *)
(* resolved.                                                               *)
(***************************************************************************)
Inv ==
  /\ TypeOK
  /\ Exact(ledger)
  /\ \A n \in Slots : /\ opened[n] <= 1
                      /\ opened[n] = 1 => ledger.states[n] = "usedOrTerminal"
  /\ \A n \in reset : Resolved(ledger.states[n])

(* The new ledger is empty: frontier zero and no slot resolved.             *)
LEMMA InitInv == Init => Inv
<1> SUFFICES ASSUME Init PROVE Inv
  OBVIOUS
<1> PICK role \in Roles : ledger = NewStreamLedger(role)
  BY DEF Init
<1>1. ledger.role = role /\ ledger.frontier = 0
      /\ ledger.states = [n \in Slots |-> "unseen"] /\ ledger \in Ledgers
  BY DEF NewStreamLedger, Ledgers, LedgerStates
<1>2. TypeOK
  BY <1>1 DEF Init, TypeOK
<1>3. FrontierSlot(ledger) = 0
  BY <1>1 DEF FrontierSlot
<1>4. Exact(ledger)
  <2>1. 1 \in Slots
    BY MaxSlotsAssumption DEF Slots
  <2> QED BY <1>1, <1>3, <2>1, MaxSlotsAssumption DEF Exact, IdOf, Resolved
<1> QED BY <1>2, <1>4 DEF Init, Inv

(* Every call keeps the invariant, and revives no resolved ID.              *)
LEMMA NextInv ==
  ASSUME Inv, [Next]_vars
  PROVE  Inv' /\ KeepsResolved
<1> USE DEF Inv, TypeOK, KeepsResolved
<1>0. ASSUME Step(ledger, ledger'), UNCHANGED <<opened, reset>>
      PROVE  Inv' /\ KeepsResolved
  <2>1. Exact(ledger)' <=> Exact(ledger')
    BY DEF Exact, FrontierSlot
  <2> QED BY <1>0, <2>1 DEF Step
<1>1. CASE UNCHANGED vars
  BY <1>1 DEF vars, Exact, FrontierSlot
<1>2. ASSUME NEW id \in InputIDs, CallPeerReset(id)
      PROVE  Inv' /\ KeepsResolved
  <2> DEFINE k == ordinal(ledger.role, id)
  <2>1. Step(ledger, ledger')
    BY <1>2, PeerResetStep DEF CallPeerReset
  <2>2. \/ reset' = reset
        \/ reset' = reset \cup {k} /\ k \in Slots /\ Resolved(ledger'.states[k])
    BY <1>2, PeerResetStep DEF CallPeerReset, SlotOf
  <2>3. opened' = opened
    BY <1>2 DEF CallPeerReset
  <2>4. Exact(ledger)' <=> Exact(ledger')
    BY DEF Exact, FrontierSlot
  <2> HIDE DEF k
  <2> QED BY <2>1, <2>2, <2>3, <2>4 DEF Step
<1>3. ASSUME NEW id \in InputIDs, CallValidOpen(id)
      PROVE  Inv' /\ KeepsResolved
  <2> DEFINE k == ordinal(ledger.role, id)
  <2>1. Step(ledger, ledger') /\ reset' = reset
    BY <1>3, TerminalStep DEF CallValidOpen
  <2>2. CASE ValidOpen(ledger, id).err # "nil"
    <3>1. opened' = opened
      BY <1>3, <2>2 DEF CallValidOpen
    <3> QED BY <1>0, <2>1, <3>1
  <2>3. CASE ValidOpen(ledger, id).err = "nil"
    <3>1. /\ k \in Slots
          /\ ledger.states[k] = "openSeen"
          /\ ledger'.states[k] = "usedOrTerminal"
      BY <1>3, <2>3, TerminalStep DEF CallValidOpen
    <3>2. opened' = [opened EXCEPT ![k] = @ + 1]
      BY <1>3, <2>3 DEF CallValidOpen, SlotOf
    <3> HIDE DEF k
    <3>3. opened[k] = 0 /\ k \notin reset
      BY <3>1 DEF Resolved
    <3>4. opened' \in [Slots -> Nat] /\ opened'[k] = 1
          /\ \A n \in Slots : n # k => opened'[n] = opened[n]
      BY <3>1, <3>2, <3>3
    <3>5. Exact(ledger)' <=> Exact(ledger')
      BY DEF Exact, FrontierSlot
    <3> QED BY <2>1, <3>1, <3>3, <3>4, <3>5 DEF Step
  <2> QED BY <2>2, <2>3
<1>4. ASSUME NEW id \in InputIDs,
             CallValidFSS2(id) \/ CallValidFSS2ForAbandoned(id) \/ CallLocalResetCommitted(id)
      PROVE  Step(ledger, ledger') /\ UNCHANGED <<opened, reset>>
  BY <1>4, ValidFSS2Step, TerminalStep
     DEF CallValidFSS2, CallValidFSS2ForAbandoned, CallLocalResetCommitted
<1> QED BY <1>0, <1>1, <1>2, <1>3, <1>4 DEF Next

(* The ledger keeps its type, its frontier is exact and OPEN is accepted at *)
(* most once per logical ID, for every cap and every sequence of calls.     *)
THEOREM LedgerSafety == Spec => []LedgerSafe
<1>1. Init => Inv
  BY InitInv
<1>2. Inv /\ [Next]_vars => Inv'
  BY NextInv
<1>3. Inv => LedgerSafe
  BY DEF Inv, Exact, FrontierExact, OpenAcceptedOnce, LedgerSafe
<1> QED BY <1>1, <1>2, <1>3, PTL DEF Spec

(* Late and duplicate setups, OPENs and resets never revive a resolved ID.  *)
THEOREM LedgerNoRevival == Spec => NoRevival
<1>1. Init => Inv
  BY InitInv
<1>2. Inv /\ [Next]_vars => Inv'
  BY NextInv
<1>3. Inv /\ [Next]_vars => [KeepsResolved]_vars
  BY NextInv
<1> QED BY <1>1, <1>2, <1>3, PTL DEF Spec, NoRevival
=============================================================================
