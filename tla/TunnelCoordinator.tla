-------------------------- MODULE TunnelCoordinator --------------------------
(***************************************************************************)
(* Pairing of tunnel legs: internal/tunnelv2/coordinator.go.  A leg is one *)
(* Serve call.  A generation is the pairGeneration that a leg creates, and *)
(* is named by that leg.  Every critical section of coordinator.mu is one  *)
(* step; timers, context callbacks, waiting guards, the activation and the *)
(* teardown of a generation are goroutines of their own.                   *)
(*                                                                         *)
(* Claims are what the authorizer verified.  Writing an admission response *)
(* and activating a leg may fail or time out.                              *)
(***************************************************************************)
EXTENDS Integers, FiniteSets

CONSTANTS
  Legs,            \* Serve calls
  NoLeg,           \* nil
  Claims,          \* VerifiedClaims of every leg
  Guarded,         \* legs that implement WaitingStreamRejector
  MaxPendingLegs, MaxActivePairs,
  MayFail,         \* bounds: legs whose admission request may fail or be refused,
  MayCancel,       \* legs whose context may be canceled
  MayExpire        \* and credentials that may expire

ASSUME LimitsAssumption == MaxPendingLegs \in Nat \ {0} /\ MaxActivePairs \in Nat \ {0}
ASSUME NoLegAssumption == NoLeg \notin Legs
ASSUME LegsAssumption == IsFiniteSet(Legs)
ASSUME ClaimsAssumption == \A l \in Legs : Claims[l].role \in {1, 2}

VARIABLES
  pc,           \* where the Serve call of a leg is
  claimed,      \* the leg put its credential into the used table
  old,          \* the generation a replacing leg ends
  ctxDone,      \* legs whose Serve context was canceled
  lease,        \* "none", "held", or how often it was released
  verdict,      \* admission responses the coordinator sent to the leg
  used,         \* credentials in the used table
  expired,      \* credentials whose ExpiresAt has passed
  groups,       \* authorityKey -> generation
  gen,          \* pairGeneration, and its goroutines
  pendingLegs, activePairs

serve == <<pc, claimed, old, ctxDone, lease, verdict>>
table == <<used, expired>>
quota == <<groups, gen, pendingLegs, activePairs>>
vars == <<pc, claimed, old, ctxDone, lease, verdict, used, expired, groups, gen,
          pendingLegs, activePairs>>

Keys == {Claims[l].key : l \in Legs}

Credentials == {Claims[l].cred : l \in Legs}

Generations ==
  [ roles : [1..2 -> Legs \cup {NoLeg}],
    timer : {"none", "armed", "fired", "stopped"},
    active : BOOLEAN, pendingCount : 0..1, overCapacity : BOOLEAN,
    act : {"none", "guards", "activating", "bridging", "over"},
    down : {"no", "responding", "releasing", "done"} ]

\* A new pairGeneration.  timer: none, armed, fired, stopped.  act: the
\* activation goroutine.  down: the teardown, "no" while not finished.
NewGeneration ==
  [ roles |-> [r \in 1..2 |-> NoLeg], timer |-> "none", active |-> FALSE, pendingCount |-> 0,
    overCapacity |-> FALSE,                  \* a rejectGeneration goroutine was started
    act |-> "none", down |-> "no" ]

Init ==
  /\ pc = [l \in Legs |-> "start"]
  /\ claimed = [l \in Legs |-> FALSE]
  /\ old = [l \in Legs |-> NoLeg]
  /\ ctxDone = {}
  /\ lease = [l \in Legs |-> "none"]
  /\ verdict = [l \in Legs |-> {}]
  /\ used = {} /\ expired = {}
  /\ groups = [k \in Keys |-> NoLeg]
  /\ gen = [l \in Legs |-> NewGeneration]
  /\ pendingLegs = 0 /\ activePairs = 0

finished(g) == gen[g].down # "no"

Members(g) == {gen[g].roles[1], gen[g].roles[2]} \ {NoLeg}

mirrored(left, right) ==
  /\ left.key = right.key /\ left.contract = right.contract
  /\ left.role # right.role
  /\ left.peer = right.endpoint /\ right.peer = left.endpoint

-----------------------------------------------------------------------------
(* Ending a generation.  detach has one winner, whose teardown then runs.   *)

\* The record of a generation detached with a cause; teardown starts at down.
Detached(g, cause, down) ==
  [gen[g] EXCEPT !.down = down, !.pendingCount = 0,
                 !.timer = IF @ = "armed" THEN "stopped" ELSE @,
                 !.act = IF cause = "activation" THEN "over" ELSE @]  \* activate returns

\* Mutant: a generation that never became active keeps its pending slot.
detachLeaksPending(g, cause, down) ==
  /\ gen' = [gen EXCEPT ![g] = Detached(g, cause, down)]
  /\ groups' = [k \in Keys |-> IF groups[k] = g THEN NoLeg ELSE groups[k]]
  /\ activePairs' = IF gen[g].active THEN activePairs - 1 ELSE activePairs
  /\ UNCHANGED pendingLegs

detach(g, cause, down) ==
  /\ gen' = [gen EXCEPT ![g] = Detached(g, cause, down)]
  /\ groups' = [k \in Keys |-> IF groups[k] = g THEN NoLeg ELSE groups[k]]
  /\ IF gen[g].active
     THEN activePairs' = activePairs - 1 /\ UNCHANGED pendingLegs
     ELSE pendingLegs' = pendingLegs - gen[g].pendingCount /\ UNCHANGED activePairs

\* Mutant: an active pair is answered as well.
rejectAnswersActive(g, cause) == detach(g, cause, "responding")

rejectGeneration(g, cause) == detach(g, cause, IF gen[g].active THEN "releasing" ELSE "responding")

finish(g, cause) == detach(g, cause, "releasing")

release(ls) ==
  lease' = [l \in Legs |-> CASE l \notin ls -> lease[l]
                             [] l \in ls /\ lease[l] = "held" -> "once"
                             [] l \in ls /\ lease[l] # "held" -> "again"]

\* rejectGeneration answers the legs; an active pair is not answered, because
\* activate sends it success.
RespondReject(g) ==
  /\ gen[g].down = "responding"
  /\ verdict' = [l \in Legs |-> IF l \in Members(g) THEN verdict[l] \cup {"reject"} ELSE verdict[l]]
  /\ gen' = [gen EXCEPT ![g].down = "releasing"]
  /\ UNCHANGED <<pc, claimed, old, ctxDone, lease, used, expired, groups, pendingLegs, activePairs>>

\* The leases are released and the legs closed, then done: every Serve call of
\* the generation returns.
CloseLegs(g) ==
  /\ gen[g].down = "releasing"
  /\ release(Members(g))
  /\ gen' = [gen EXCEPT ![g].down = "done"]
  /\ UNCHANGED <<pc, claimed, old, ctxDone, verdict, used, expired, groups, pendingLegs, activePairs>>

-----------------------------------------------------------------------------
(* Serve.                                                                   *)

\* rejectUnregistered answers the leg and closes it.
Reject(l) ==
  /\ pc[l] = "rejecting"
  /\ verdict' = [verdict EXCEPT ![l] = @ \cup {"reject"}]
  /\ pc' = [pc EXCEPT ![l] = "returned"]
  /\ UNCHANGED <<claimed, old, ctxDone, lease, table, quota>>

\* ReceiveAdmission fails; the leg is closed without an answer.
ReceiveFails(l) ==
  /\ pc[l] = "start" /\ l \in MayFail
  /\ pc' = [pc EXCEPT ![l] = "returned"]
  /\ UNCHANGED <<claimed, old, ctxDone, lease, verdict, table, quota>>

\* Mutant: the lease of an authorization that does not bind the request stays held.
UnauthorizedKeepsLease(l) ==
  /\ pc[l] = "start" /\ l \in MayFail
  /\ pc' = [pc EXCEPT ![l] = "rejecting"]
  /\ \E acquired \in BOOLEAN : lease' = [lease EXCEPT ![l] = IF acquired THEN "held" ELSE @]
  /\ UNCHANGED <<claimed, old, ctxDone, verdict, table, quota>>

\* The chosen candidate is not this carrier, or authorize fails, possibly after
\* it acquired a lease, or the claims do not bind the request.
Unauthorized(l) ==
  /\ pc[l] = "start" /\ l \in MayFail
  /\ pc' = [pc EXCEPT ![l] = "rejecting"]
  /\ \E acquired \in BOOLEAN : lease' = [lease EXCEPT ![l] = IF acquired THEN "once" ELSE @]
  /\ UNCHANGED <<claimed, old, ctxDone, verdict, table, quota>>

\* authorize and validateAuthorization succeed.
Authorized(l) ==
  /\ pc[l] = "start"
  /\ Claims[l].cred \notin expired
  /\ pc' = [pc EXCEPT ![l] = "register"]
  /\ lease' = [lease EXCEPT ![l] = "held"]
  /\ UNCHANGED <<claimed, old, ctxDone, verdict, table, quota>>

\* register returned an error: Serve releases the lease and rejects the leg.
Refuse(l) ==
  /\ pc' = [pc EXCEPT ![l] = "rejecting"]
  /\ release({l})
  /\ UNCHANGED <<old, ctxDone, verdict>>

\* The generation of the key: the registered one, or a new one named l.
Target(l) == IF groups[Claims[l].key] = NoLeg THEN l ELSE groups[Claims[l].key]

Occupied(l) ==
  LET g == groups[Claims[l].key]
  IN  /\ g # NoLeg /\ ~finished(g)
      /\ gen[g].active \/ gen[g].roles[Claims[l].role] # NoLeg

\* A finished generation has left groups; registerClaimed would start over.
Stale(l) == groups[Claims[l].key] # NoLeg /\ finished(groups[Claims[l].key])

PeerLeg(l) == gen[Target(l)].roles[3 - Claims[l].role]

Mismatched(l) == PeerLeg(l) # NoLeg /\ ~mirrored(Claims[PeerLeg(l)], Claims[l])

NoPendingSlot(l) == Members(Target(l)) = {} /\ pendingLegs >= MaxPendingLegs

\* The critical section of registerClaimed begins: expired credentials leave
\* the used table, and the leg claims its own unless it already did.
Replayed(l) == ~claimed[l] /\ Claims[l].cred \in used \ expired

Claim(l) ==
  /\ ~Replayed(l)
  /\ used' = (used \ expired) \cup (IF claimed[l] THEN {} ELSE {Claims[l].cred})
  /\ claimed' = [claimed EXCEPT ![l] = TRUE]
  /\ UNCHANGED expired

RegisterReplayed(l) ==
  /\ pc[l] = "register" /\ Replayed(l)
  /\ used' = used \ expired
  /\ Refuse(l)
  /\ UNCHANGED <<claimed, expired, quota>>

RegisterDenied(l) ==
  /\ pc[l] = "register" /\ Claim(l)
  /\ \/ Occupied(l) /\ ~Claims[l].replace
     \/ ~Occupied(l) /\ ~Stale(l) /\ Mismatched(l)
     \/ ~Occupied(l) /\ ~Stale(l) /\ ~Mismatched(l) /\ NoPendingSlot(l)
  /\ Refuse(l)
  /\ UNCHANGED quota

\* The key is taken and the leg may replace: rejectGeneration runs unlocked.
RegisterReplaces(l) ==
  /\ pc[l] = "register" /\ Claim(l)
  /\ Occupied(l) /\ Claims[l].replace
  /\ pc' = [pc EXCEPT ![l] = "replacing"]
  /\ old' = [old EXCEPT ![l] = groups[Claims[l].key]]
  /\ UNCHANGED <<ctxDone, lease, verdict, quota>>

\* The leg takes its role.  The first one waits, the second one makes the
\* generation active if the active quota allows it.
Joined(l) ==
  LET g == gen[Target(l)]
      both == [g EXCEPT !.roles[Claims[l].role] = l]
      stop(t) == IF t = "armed" THEN "stopped" ELSE t
  IN  IF Members(Target(l)) = {}
      THEN [both EXCEPT !.pendingCount = 1, !.timer = "armed"]
      ELSE IF activePairs >= MaxActivePairs
      THEN [both EXCEPT !.timer = stop(@), !.overCapacity = TRUE]
      ELSE [both EXCEPT !.timer = stop(@), !.pendingCount = 0, !.active = TRUE, !.act = "guards"]

RegisterJoins(l) ==
  /\ pc[l] = "register" /\ Claim(l)
  /\ ~Occupied(l) /\ ~Stale(l) /\ ~Mismatched(l) /\ ~NoPendingSlot(l)
  /\ gen' = [gen EXCEPT ![Target(l)] = Joined(l)]
  /\ groups' = [groups EXCEPT ![Claims[l].key] = Target(l)]
  /\ pendingLegs' = pendingLegs + Joined(l).pendingCount - gen[Target(l)].pendingCount
  /\ activePairs' = IF Joined(l).active THEN activePairs + 1 ELSE activePairs
  /\ pc' = [pc EXCEPT ![l] = "registered"]
  /\ UNCHANGED <<old, ctxDone, lease, verdict>>

\* rejectGeneration by the replacing leg: it runs the teardown if it detaches
\* the generation, and goes on at once if somebody else did.
Replace(l) ==
  /\ pc[l] = "replacing"
  /\ IF finished(old[l])
     THEN pc' = [pc EXCEPT ![l] = "replaced"] /\ UNCHANGED quota
     ELSE pc' = [pc EXCEPT ![l] = "awaitOld"] /\ rejectGeneration(old[l], "ErrReplaced")
  /\ UNCHANGED <<claimed, old, ctxDone, lease, verdict, table>>

AwaitOld(l) ==
  /\ pc[l] = "awaitOld" /\ gen[old[l]].down = "done"
  /\ pc' = [pc EXCEPT ![l] = "replaced"]
  /\ UNCHANGED <<claimed, old, ctxDone, lease, verdict, table, quota>>

\* A canceled leg does not register after the replacement.
RegisterAgain(l) ==
  /\ pc[l] = "replaced"
  /\ IF l \in ctxDone THEN Refuse(l)
     ELSE pc' = [pc EXCEPT ![l] = "register"] /\ UNCHANGED <<old, ctxDone, lease, verdict>>
  /\ UNCHANGED <<claimed, table, quota>>

\* Serve waits for the generation it joined.
ServeReturns(l) ==
  /\ pc[l] = "registered"
  /\ \E g \in Legs : l \in Members(g) /\ gen[g].down = "done"
  /\ pc' = [pc EXCEPT ![l] = "returned"]
  /\ UNCHANGED <<claimed, old, ctxDone, lease, verdict, table, quota>>
-----------------------------------------------------------------------------
(* Timers, callbacks and the activation goroutine of a generation.          *)

\* The pair timer fires: its callback is a goroutine that Stop cannot recall.
TimerFires(g) ==
  /\ gen[g].timer = "armed"
  /\ gen' = [gen EXCEPT ![g].timer = "fired"]
  /\ UNCHANGED <<serve, table, groups, pendingLegs, activePairs>>

\* The callback detaches whatever the generation has become by now.
PairTimeout(g) ==
  /\ gen[g].timer = "fired" /\ ~finished(g)
  /\ rejectGeneration(g, "ErrPairTimeout")
  /\ UNCHANGED <<serve, table>>

OverCapacity(g) ==
  /\ gen[g].overCapacity /\ ~finished(g)
  /\ rejectGeneration(g, "ErrCapacity")
  /\ UNCHANGED <<serve, table>>

CancelContext(l) ==
  /\ l \in MayCancel \ ctxDone /\ pc[l] # "returned"
  /\ ctxDone' = ctxDone \cup {l}
  /\ UNCHANGED <<pc, claimed, old, lease, verdict, table, quota>>

\* The AfterFunc of a registered leg.
ContextDone(g, l) ==
  /\ l \in Members(g) \cap ctxDone /\ ~finished(g)
  /\ finish(g, "canceled")
  /\ UNCHANGED <<serve, table>>

\* RejectWaitingStreams of a waiting leg returns although nobody stopped it.
GuardFails(g, l) ==
  /\ l \in Members(g) \cap Guarded /\ ~finished(g) /\ gen[g].act \in {"none", "guards"}
  /\ finish(g, "guard")
  /\ UNCHANGED <<serve, table>>

\* activate: the guards are stopped and success is sent to both legs ...
SendSuccess(g) ==
  /\ gen[g].act = "guards"
  /\ gen' = [gen EXCEPT ![g].act = "activating"]
  /\ verdict' = [l \in Legs |-> IF l \in Members(g) THEN verdict[l] \cup {"success"} ELSE verdict[l]]
  /\ UNCHANGED <<pc, claimed, old, ctxDone, lease, table, groups, pendingLegs, activePairs>>

\* ... and both are activated and handed to OnPair or the Bridge.
StartBridge(g) ==
  /\ gen[g].act = "activating"
  /\ gen' = [gen EXCEPT ![g].act = "bridging"]
  /\ UNCHANGED <<serve, table, groups, pendingLegs, activePairs>>

\* Any of these steps may fail or time out, and a bridge ends: finish.
ActivationOver(g) ==
  /\ gen[g].act \in {"guards", "activating", "bridging"}
  /\ IF finished(g)
     THEN gen' = [gen EXCEPT ![g].act = "over"] /\ UNCHANGED <<groups, pendingLegs, activePairs>>
     ELSE finish(g, "activation")
  /\ UNCHANGED <<serve, table>>

Expire(c) ==
  /\ c \in MayExpire \ expired
  /\ expired' = expired \cup {c}
  /\ UNCHANGED <<serve, used, quota>>

-----------------------------------------------------------------------------
Register(l) ==
  \/ RegisterReplayed(l)
  \/ RegisterDenied(l)
  \/ RegisterReplaces(l)
  \/ RegisterJoins(l)
  \/ Replace(l)
  \/ AwaitOld(l)
  \/ RegisterAgain(l)

Teardown(g) == RespondReject(g) \/ CloseLegs(g)

\* What a generation runs by itself until it is bridging.
Progress(g) ==
  \/ TimerFires(g)
  \/ PairTimeout(g)
  \/ OverCapacity(g)
  \/ SendSuccess(g)
  \/ StartBridge(g)

Next ==
  \/ \E l \in Legs :
       \/ ReceiveFails(l)
       \/ Unauthorized(l)
       \/ Authorized(l)
       \/ Register(l)
       \/ Reject(l)
       \/ ServeReturns(l)
       \/ CancelContext(l)
       \/ Teardown(l)
       \/ Progress(l)
       \/ ActivationOver(l)
       \/ \E m \in Legs : ContextDone(l, m) \/ GuardFails(l, m)
  \/ \E c \in Credentials : Expire(c)

Spec == Init /\ [][Next]_vars

\* Goroutines that can run do run, timers fire, writes and closes are bounded
\* by their timeouts.  Nothing obliges a bridge to end.
Fairness ==
  /\ \A l \in Legs : WF_vars(Register(l)) /\ WF_vars(Reject(l)) /\ WF_vars(ServeReturns(l))
  /\ \A g \in Legs : WF_vars(Teardown(g)) /\ WF_vars(Progress(g))

FairSpec == Spec /\ Fairness
-----------------------------------------------------------------------------
\* Serve calls, leases, tables and generations are what the code's types allow.
TypeOK ==
  /\ pc \in [Legs -> {"start", "register", "replacing", "awaitOld", "replaced", "registered",
                      "rejecting", "returned"}]
  /\ claimed \in [Legs -> BOOLEAN]
  /\ old \in [Legs -> Legs \cup {NoLeg}]
  /\ ctxDone \subseteq Legs
  /\ lease \in [Legs -> {"none", "held", "once", "again"}]
  /\ verdict \in [Legs -> SUBSET {"success", "reject"}]
  /\ used \subseteq Credentials /\ expired \subseteq Credentials
  /\ groups \in [Keys -> Legs \cup {NoLeg}]
  /\ gen \in [Legs -> Generations]
  /\ pendingLegs \in Int /\ activePairs \in Int

Live == {g \in Legs : Members(g) # {} /\ ~finished(g)}

(* The two quota counters are exact whatever ends a generation: activePairs *)
(* counts the live active pairs, pendingLegs the live generations that are  *)
(* not active, and neither exceeds its limit (releaseActivePairLocked never *)
(* panics, and no slot is leaked by a timeout, a cancel or a replacement).  *)
QuotaExact ==
  /\ activePairs = Cardinality({g \in Live : gen[g].active})
  /\ pendingLegs = Cardinality({g \in Live : ~gen[g].active})
  /\ activePairs <= MaxActivePairs /\ pendingLegs <= MaxPendingLegs

(* A key has one authoritative generation: the live generations are exactly *)
(* those that groups names, each under the key of all of its legs, and no   *)
(* leg is in two generations.                                               *)
OneAuthority ==
  /\ \A g \in Live : \A l \in Members(g) : groups[Claims[l].key] = g
  /\ \A k \in Keys : groups[k] # NoLeg => groups[k] \in Live
  /\ \A g, h \in Legs : g # h => Members(g) \cap Members(h) = {}

(* Both legs are admitted together and only to each other: a pair that      *)
(* became active has two legs that name each other as peers and agree on    *)
(* the key and the session contract, and a leg told of success is in one.   *)
PairsMirrored ==
  /\ \A g \in Legs : gen[g].active =>
       /\ NoLeg \notin {gen[g].roles[1], gen[g].roles[2]}
       /\ LET left == Claims[gen[g].roles[1]]
              right == Claims[gen[g].roles[2]]
          IN  /\ left.role = 1 /\ right.role = 2
              /\ left.peer = right.endpoint /\ right.peer = left.endpoint
              /\ left.key = right.key /\ left.contract = right.contract
  /\ \A l \in Legs : "success" \in verdict[l] => \E g \in Legs : gen[g].active /\ l \in Members(g)

(* An authorizer's lease is released exactly once, when the leg is rejected *)
(* or its generation ends, and not before: no live pair runs on a released  *)
(* lease, and Serve never returns with a lease still held.                  *)
LeaseReleasedOnce ==
  \A l \in Legs :
    /\ lease[l] # "again"
    /\ pc[l] = "returned" => lease[l] # "held"
    /\ (\E g \in Live : l \in Members(g)) => lease[l] = "held"

(* A leg is never told both success and rejection, although the timeout, a  *)
(* replacement or a cancel may race the activation that sends success.      *)
SingleVerdict == \A l \in Legs : ~({"success", "reject"} \subseteq verdict[l])

(* While a credential has not expired, at most one leg has claimed it, even *)
(* when that leg was refused afterwards or waits for a replacement.         *)
CredentialClaimedOnce ==
  \A l, m \in Legs : claimed[l] /\ claimed[m] /\ Claims[l].cred = Claims[m].cred
                       /\ Claims[l].cred \notin expired => l = m

(* Who is paired: the tables keep their types, a key has one authoritative  *)
(* generation, only mirrored legs are paired, no credential is claimed      *)
(* twice and the quotas are exact, whatever registrations, replacements,    *)
(* timeouts and cancels do.                                                 *)
PairingSafe == TypeOK /\ OneAuthority /\ PairsMirrored /\ CredentialClaimedOnce /\ QuotaExact

(* What becomes of a leg: its lease is released exactly once, and it is     *)
(* told one outcome (activate, rejectGeneration, teardown).                 *)
OutcomeOnce == LeaseReleasedOnce /\ SingleVerdict

ServeOwed ==
  \E l \in Legs : /\ pc[l] \notin {"start", "returned"}
                  /\ ~\E g \in Legs : l \in Members(g) /\ gen[g].act = "bridging"

(* A Serve call never hangs: it returns, or its pair is being bridged.      *)
ServeEnds == ServeOwed ~> ~ServeOwed

(* A new pair becomes authoritative only after the active pair it follows   *)
(* under the same key was closed.                                           *)
ClosedBeforeSuccessor ==
  \A g, h \in Legs :
    /\ g \in Live /\ gen[g].active /\ gen[h].active /\ finished(h)
    /\ Claims[gen[g].roles[1]].key = Claims[gen[h].roles[1]].key
    => gen[h].down = "done"
=============================================================================
