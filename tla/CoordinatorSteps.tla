------------------------ MODULE CoordinatorSteps -------------------------
(***************************************************************************)
(* The inductive invariant of TunnelCoordinator, and the steps that do not *)
(* register a leg: they keep its types, its claims and its generations.    *)
(***************************************************************************)
EXTENDS TunnelCoordinator, TLAPS

-----------------------------------------------------------------------------
(* The inductive invariant, and the proof that every step keeps the types.  *)

(* Where the legs of a generation are: a leg joins one generation, in its   *)
(* own role, and from then on its Serve call only waits for it.  The leg    *)
(* that names a generation is its first member, and a generation without    *)
(* members was never touched.                                               *)
Membership ==
  /\ \A g \in Legs : \A r \in 1..2 : gen[g].roles[r] # NoLeg =>
       /\ Claims[gen[g].roles[r]].role = r
       /\ Claims[gen[g].roles[r]].key = Claims[g].key
       /\ pc[gen[g].roles[r]] \in {"registered", "returned"}
       /\ g \in Members(g)
  /\ \A g, h \in Legs : \A r, q \in 1..2 :
       gen[g].roles[r] # NoLeg /\ gen[g].roles[r] = gen[h].roles[q] => g = h
  /\ \A g \in Legs : Members(g) = {} => gen[g] = NewGeneration
  /\ \A l \in Legs : pc[l] \in {"replacing", "awaitOld"} =>
       old[l] \in Legs /\ Members(old[l]) # {}

(* groups names live generations only, each under its own key.              *)
Authority ==
  /\ \A g \in Legs : Members(g) # {} /\ gen[g].down = "no" => groups[Claims[g].key] = g
  /\ \A k \in Keys : groups[k] # NoLeg =>
       Claims[groups[k]].key = k /\ Members(groups[k]) # {} /\ gen[groups[k]].down = "no"

(* The two legs of a full generation are mirrored, and only a full one is   *)
(* active or activated.                                                     *)
Pairing ==
  \A g \in Legs :
    /\ gen[g].act # "none" => gen[g].active
    /\ gen[g].active => gen[g].roles[1] # NoLeg /\ gen[g].roles[2] # NoLeg
    /\ gen[g].roles[1] # NoLeg /\ gen[g].roles[2] # NoLeg =>
         mirrored(Claims[gen[g].roles[1]], Claims[gen[g].roles[2]])

(* A lease is held until the generation is closed, or Serve refuses.        *)
Leases ==
  /\ \A l \in Legs :
       /\ pc[l] = "start" => lease[l] = "none"
       /\ pc[l] \in {"register", "replacing", "awaitOld", "replaced"} => lease[l] = "held"
       /\ pc[l] = "rejecting" => lease[l] \in {"none", "once"}
       /\ lease[l] # "again"
       /\ pc[l] = "registered" => \E g \in Legs : l \in Members(g)
       /\ pc[l] = "returned" => lease[l] # "held"
  /\ \A g \in Legs : \A l \in Members(g) :
       /\ gen[g].down # "done" => lease[l] = "held"
       /\ gen[g].down = "done" => lease[l] = "once"

(* What a leg was told agrees with the fate of its generation.              *)
Verdicts ==
  \A l \in Legs :
    /\ "success" \in verdict[l] => \E g \in Legs : l \in Members(g) /\ gen[g].active
    /\ "reject" \in verdict[l] =>
         \A g \in Legs : l \in Members(g) => ~gen[g].active /\ gen[g].down # "no"
    /\ pc[l] \notin {"registered", "returned"} => verdict[l] = {}
  /\ \A g \in Legs : gen[g].down = "responding" => ~gen[g].active

(* Every claim of an unexpired credential is in the used table.             *)
ClaimsUsed ==
  /\ \A l \in Legs : claimed[l] /\ Claims[l].cred \notin expired => Claims[l].cred \in used
  /\ CredentialClaimedOnce

Inv == TypeOK /\ Membership /\ Authority /\ Pairing /\ Leases /\ Verdicts /\ ClaimsUsed
-----------------------------------------------------------------------------
(* Serve calls, leases, tables and generations keep the types the code      *)
(* gives them in every step of the coordinator.                             *)
LEMMA TypeInit == Init => TypeOK
  BY ClaimsAssumption DEF Init, TypeOK, NewGeneration, Generations, Keys, Credentials

\* Each field of a generation may be set to any value of its type.
LEMMA FieldTypes ==
  ASSUME NEW x \in Generations
  PROVE  /\ \A v \in {"no", "responding", "releasing", "done"} : [x EXCEPT !.down = v] \in Generations
         /\ [x EXCEPT !.pendingCount = 0] \in Generations
         /\ [x EXCEPT !.pendingCount = 1] \in Generations
         /\ \A v \in {"none", "armed", "fired", "stopped"} : [x EXCEPT !.timer = v] \in Generations
         /\ \A v \in {"none", "guards", "activating", "bridging", "over"} :
              [x EXCEPT !.act = v] \in Generations
         /\ [x EXCEPT !.active = TRUE] \in Generations
         /\ [x EXCEPT !.overCapacity = TRUE] \in Generations
         /\ \A r \in 1..2 : \A l \in Legs : [x EXCEPT !.roles[r] = l] \in Generations
<1>1. /\ \A v \in {"no", "responding", "releasing", "done"} : [x EXCEPT !.down = v] \in Generations
      /\ \A v \in {"none", "armed", "fired", "stopped"} : [x EXCEPT !.timer = v] \in Generations
  BY DEF Generations
<1>2. \A v \in {"none", "guards", "activating", "bridging", "over"} :
        [x EXCEPT !.act = v] \in Generations
  BY DEF Generations
<1>3. /\ [x EXCEPT !.pendingCount = 0] \in Generations
      /\ [x EXCEPT !.pendingCount = 1] \in Generations
  BY DEF Generations
<1>4. /\ [x EXCEPT !.active = TRUE] \in Generations
      /\ [x EXCEPT !.overCapacity = TRUE] \in Generations
  BY Zenon DEF Generations
<1>5. \A r \in 1..2 : \A l \in Legs : [x EXCEPT !.roles[r] = l] \in Generations
  BY DEF Generations
<1> QED BY <1>1, <1>2, <1>3, <1>4, <1>5

\* detach leaves a well-formed record behind.
LEMMA DetachedType ==
  ASSUME TypeOK, NEW g \in Legs, NEW cause, NEW down \in {"responding", "releasing"}
  PROVE  Detached(g, cause, down) \in Generations
<1> DEFINE x == gen[g]
           x1 == [x EXCEPT !.down = down]
           x2 == [x1 EXCEPT !.pendingCount = 0]
           t == IF x.timer = "armed" THEN "stopped" ELSE x.timer
           x3 == [x2 EXCEPT !.timer = t]
           a == IF cause = "activation" THEN "over" ELSE x.act
           x4 == [x3 EXCEPT !.act = a]
<1>1. x \in Generations
  BY DEF TypeOK
<1>2. /\ t \in {"none", "armed", "fired", "stopped"}
      /\ a \in {"none", "guards", "activating", "bridging", "over"}
  BY <1>1 DEF Generations
<1>3. Detached(g, cause, down) = x4
  BY DEF Detached
<1> HIDE DEF x, t, a
<1>4. x1 \in Generations
  BY <1>1, FieldTypes, Zenon
<1> HIDE DEF x1
<1>5. x2 \in Generations
  BY <1>4, FieldTypes, Zenon
<1> HIDE DEF x2
<1>6. x3 \in Generations
  BY <1>5, <1>2, FieldTypes, Zenon
<1> HIDE DEF x3
<1>7. x4 \in Generations
  BY <1>6, <1>2, FieldTypes, Zenon
<1> QED BY <1>3, <1>7

\* detach keeps the generations, the groups and the counters well-typed.
LEMMA DetachType ==
  ASSUME TypeOK, NEW g \in Legs, NEW cause, NEW down \in {"responding", "releasing"},
         detach(g, cause, down)
  PROVE  /\ gen' \in [Legs -> Generations]
         /\ groups' \in [Keys -> Legs \cup {NoLeg}]
         /\ pendingLegs' \in Int /\ activePairs' \in Int
<1>1. gen' \in [Legs -> Generations]
  BY DetachedType DEF TypeOK, detach
<1>2. groups' \in [Keys -> Legs \cup {NoLeg}]
  BY DEF TypeOK, detach
<1>3. gen[g].pendingCount \in Int
  BY DEF TypeOK, Generations
<1>4. pendingLegs' \in Int /\ activePairs' \in Int
  BY <1>3 DEF TypeOK, detach
<1> QED BY <1>1, <1>2, <1>4

\* release keeps the leases well-typed.
LEMMA ReleaseType ==
  ASSUME TypeOK, NEW ls \in SUBSET Legs, release(ls)
  PROVE  lease' \in [Legs -> {"none", "held", "once", "again"}]
  BY DEF TypeOK, release

\* registerClaimed joins a generation and leaves a well-formed record.
LEMMA JoinedType ==
  ASSUME TypeOK, NEW l \in Legs
  PROVE  /\ Target(l) \in Legs
         /\ Joined(l) \in Generations
<1> DEFINE x == gen[Target(l)]
           b == [x EXCEPT !.roles[Claims[l].role] = l]
           t == IF x.timer = "armed" THEN "stopped" ELSE x.timer
<1>1. Target(l) \in Legs /\ Claims[l].role \in 1..2
  BY ClaimsAssumption DEF TypeOK, Target, Keys
<1>2. x \in Generations
  BY <1>1 DEF TypeOK
<1>3. t \in {"none", "armed", "fired", "stopped"}
  BY <1>2 DEF Generations
<1>4. b \in Generations
  BY <1>1, <1>2, FieldTypes, Zenon
<1>5. Joined(l) \in { [b EXCEPT !.pendingCount = 1, !.timer = "armed"],
                      [b EXCEPT !.timer = t, !.overCapacity = TRUE],
                      [b EXCEPT !.timer = t, !.pendingCount = 0, !.active = TRUE, !.act = "guards"] }
  BY <1>2, <1>4 DEF Joined, Generations
<1> HIDE DEF x, b, t
<1>6. [b EXCEPT !.pendingCount = 1, !.timer = "armed"] \in Generations
  <2> DEFINE b1 == [b EXCEPT !.pendingCount = 1]
             b2 == [b1 EXCEPT !.timer = "armed"]
  <2>1. [b EXCEPT !.pendingCount = 1, !.timer = "armed"] = b2
    OBVIOUS
  <2>2. b1 \in Generations
    BY <1>4, FieldTypes, Zenon
  <2> HIDE DEF b1
  <2>3. b2 \in Generations
    BY <2>2, FieldTypes, Zenon
  <2> QED BY <2>1, <2>3
<1>7. [b EXCEPT !.timer = t, !.overCapacity = TRUE] \in Generations
  BY <1>3, <1>4, Zenon DEF Generations
<1>8. [b EXCEPT !.timer = t, !.pendingCount = 0, !.active = TRUE, !.act = "guards"] \in Generations
  <2> DEFINE b1 == [b EXCEPT !.timer = t]
             b2 == [b1 EXCEPT !.pendingCount = 0]
             b3 == [b2 EXCEPT !.active = TRUE]
             b4 == [b3 EXCEPT !.act = "guards"]
  <2>1. [b EXCEPT !.timer = t, !.pendingCount = 0, !.active = TRUE, !.act = "guards"] = b4
    OBVIOUS
  <2>2. b1 \in Generations
    BY <1>3, <1>4, FieldTypes, Zenon
  <2> HIDE DEF b1
  <2>3. b2 \in Generations
    BY <2>2, FieldTypes, Zenon
  <2> HIDE DEF b2
  <2>4. b3 \in Generations
    BY <2>3, FieldTypes, Zenon
  <2> HIDE DEF b3
  <2>5. b4 \in Generations
    BY <2>4, FieldTypes, Zenon
  <2> QED BY <2>1, <2>5
<1> QED BY <1>1, <1>5, <1>6, <1>7, <1>8

\* Every step keeps the types; Replace needs old to name a generation.
LEMMA TypeStep == TypeOK /\ Membership /\ [Next]_vars => TypeOK'
<1> SUFFICES ASSUME TypeOK, Membership, [Next]_vars PROVE TypeOK'
  OBVIOUS
<1> USE DEF serve, table, quota
<1>1. ASSUME NEW l \in Legs, ReceiveFails(l) \/ Unauthorized(l) \/ Authorized(l) \/ Reject(l)
                             \/ ServeReturns(l) \/ CancelContext(l) \/ AwaitOld(l)
      PROVE  TypeOK'
  BY <1>1 DEF TypeOK, ReceiveFails, Unauthorized, Authorized, Reject, ServeReturns, CancelContext,
              AwaitOld
<1>2. ASSUME NEW l \in Legs, Refuse(l)
      PROVE  /\ pc' \in [Legs -> {"start", "register", "replacing", "awaitOld", "replaced",
                                  "registered", "rejecting", "returned"}]
             /\ lease' \in [Legs -> {"none", "held", "once", "again"}]
             /\ old' = old /\ ctxDone' = ctxDone /\ verdict' = verdict
  BY <1>2, ReleaseType DEF TypeOK, Refuse
<1>3. ASSUME NEW l \in Legs, RegisterReplayed(l)
      PROVE  TypeOK'
  BY <1>2, <1>3 DEF TypeOK, RegisterReplayed
<1>4. ASSUME NEW l \in Legs, Claim(l)
      PROVE  used' \subseteq Credentials /\ expired' = expired /\ claimed' \in [Legs -> BOOLEAN]
  BY <1>4 DEF TypeOK, Claim, Credentials
<1>5. ASSUME NEW l \in Legs, RegisterDenied(l)
      PROVE  TypeOK'
  BY <1>2, <1>4, <1>5 DEF TypeOK, RegisterDenied
<1>6. ASSUME NEW l \in Legs, RegisterReplaces(l)
      PROVE  TypeOK'
  <2>1. Claims[l].key \in Keys
    BY DEF Keys
  <2> QED BY <1>4, <1>6, <2>1 DEF TypeOK, RegisterReplaces
<1>7. ASSUME NEW l \in Legs, RegisterJoins(l)
      PROVE  TypeOK'
  <2>1. Claims[l].key \in Keys
    BY DEF Keys
  <2>2. gen' \in [Legs -> Generations] /\ groups' \in [Keys -> Legs \cup {NoLeg}]
    BY <1>7, <2>1, JoinedType DEF TypeOK, RegisterJoins
  <2>3. Joined(l).pendingCount \in Int /\ gen[Target(l)].pendingCount \in Int
    BY JoinedType DEF TypeOK, Generations
  <2>4. pendingLegs' \in Int /\ activePairs' \in Int
    BY <1>7, <2>3 DEF TypeOK, RegisterJoins
  <2> QED BY <1>4, <1>7, <2>2, <2>4 DEF TypeOK, RegisterJoins
<1>8. ASSUME NEW l \in Legs, Replace(l)
      PROVE  TypeOK'
  <2>1. CASE finished(old[l])
    BY <1>8, <2>1 DEF TypeOK, Replace
  <2>2. CASE ~finished(old[l])
    <3>1. old[l] \in Legs
      BY <1>8 DEF Membership, Replace
    <3> QED BY <1>8, <2>2, <3>1, DetachType DEF TypeOK, Replace, rejectGeneration
  <2> QED BY <2>1, <2>2
<1>9. ASSUME NEW l \in Legs, RegisterAgain(l)
      PROVE  TypeOK'
  BY <1>2, <1>9 DEF TypeOK, RegisterAgain
<1>10. ASSUME NEW g \in Legs, RespondReject(g) \/ TimerFires(g) \/ SendSuccess(g) \/ StartBridge(g)
       PROVE  TypeOK'
  <2>1. gen' \in [Legs -> Generations]
    <3>1. gen[g] \in Generations
      BY DEF TypeOK
    <3>2. /\ [gen[g] EXCEPT !.down = "releasing"] \in Generations
          /\ [gen[g] EXCEPT !.timer = "fired"] \in Generations
          /\ [gen[g] EXCEPT !.act = "activating"] \in Generations
          /\ [gen[g] EXCEPT !.act = "bridging"] \in Generations
      BY <3>1, FieldTypes, Zenon
    <3> QED BY <1>10, <3>2 DEF TypeOK, RespondReject, TimerFires, SendSuccess, StartBridge
  <2> QED BY <1>10, <2>1 DEF TypeOK, RespondReject, TimerFires, SendSuccess, StartBridge
<1>11. ASSUME NEW g \in Legs, CloseLegs(g)
       PROVE  TypeOK'
  <2>1. gen' \in [Legs -> Generations]
    BY <1>11, FieldTypes, Zenon DEF TypeOK, CloseLegs
  <2>2. Members(g) \in SUBSET Legs
    BY DEF TypeOK, Members, Generations
  <2> QED BY <1>11, <2>1, <2>2, ReleaseType DEF TypeOK, CloseLegs
<1>12. ASSUME NEW g \in Legs, PairTimeout(g) \/ OverCapacity(g)
       PROVE  TypeOK'
  BY <1>12, DetachType DEF TypeOK, PairTimeout, OverCapacity, rejectGeneration
<1>13. ASSUME NEW g \in Legs, NEW l \in Legs, ContextDone(g, l) \/ GuardFails(g, l)
       PROVE  TypeOK'
  BY <1>13, DetachType DEF TypeOK, ContextDone, GuardFails, finish
<1>14. ASSUME NEW g \in Legs, ActivationOver(g)
       PROVE  TypeOK'
  <2>1. CASE finished(g)
    <3>1. gen' \in [Legs -> Generations]
      <4>1. [gen[g] EXCEPT !.act = "over"] \in Generations
        BY FieldTypes, Zenon DEF TypeOK
      <4> QED BY <1>14, <2>1, <4>1 DEF TypeOK, ActivationOver
    <3> QED BY <1>14, <2>1, <3>1 DEF TypeOK, ActivationOver
  <2>2. CASE ~finished(g)
    BY <1>14, <2>2, DetachType DEF TypeOK, ActivationOver, finish
  <2> QED BY <2>1, <2>2
<1>15. ASSUME NEW c \in Credentials, Expire(c)
       PROVE  TypeOK'
  BY <1>15 DEF TypeOK, Expire
<1>16. CASE UNCHANGED vars
  BY <1>16 DEF TypeOK, vars
<1> QED
  BY <1>1, <1>3, <1>5, <1>6, <1>7, <1>8, <1>9, <1>10, <1>11, <1>12, <1>13, <1>14, <1>15, <1>16
     DEF Next, Register, Teardown, Progress

-----------------------------------------------------------------------------
(***************************************************************************)
(* The steps of a Serve call that leave the generations alone preserve the *)
(* inductive invariant.                                                    *)
(***************************************************************************)
(* A leg claims its credential under the lock, so two legs hold the same    *)
(* one only after it expired, and no other step touches the used table.     *)
LEMMA ClaimsStep ==
  ASSUME Inv, [Next]_vars
  PROVE  ClaimsUsed'
<1> USE DEF serve, table, quota
<1>1. ASSUME NEW l \in Legs, Claim(l)
      PROVE  ClaimsUsed'
  BY <1>1 DEF Inv, TypeOK, ClaimsUsed, CredentialClaimedOnce, Claim, Replayed
<1>2. ASSUME NEW l \in Legs, RegisterReplayed(l)
      PROVE  ClaimsUsed'
  BY <1>2 DEF Inv, ClaimsUsed, CredentialClaimedOnce, RegisterReplayed
<1>3. ASSUME NEW c \in Credentials, Expire(c)
      PROVE  ClaimsUsed'
  BY <1>3 DEF Inv, ClaimsUsed, CredentialClaimedOnce, Expire
<1>4. ASSUME UNCHANGED <<claimed, used, expired>>
      PROVE  ClaimsUsed'
  BY <1>4 DEF Inv, ClaimsUsed, CredentialClaimedOnce
<1>5. ASSUME NEW l \in Legs, Register(l)
      PROVE  ClaimsUsed'
  BY <1>1, <1>2, <1>4, <1>5
     DEF Register, RegisterDenied, RegisterReplaces, RegisterJoins, Replace, AwaitOld, RegisterAgain
<1>6. ASSUME NEW l \in Legs, ReceiveFails(l) \/ Unauthorized(l) \/ Authorized(l) \/ Reject(l)
                             \/ ServeReturns(l) \/ CancelContext(l) \/ Teardown(l) \/ Progress(l)
                             \/ ActivationOver(l)
      PROVE  ClaimsUsed'
  BY <1>4, <1>6 DEF ReceiveFails, Unauthorized, Authorized, Reject, ServeReturns, CancelContext,
     Teardown, RespondReject, CloseLegs, Progress, TimerFires, PairTimeout, OverCapacity,
     SendSuccess, StartBridge, ActivationOver
<1>7. ASSUME NEW g \in Legs, NEW l \in Legs, ContextDone(g, l) \/ GuardFails(g, l)
      PROVE  ClaimsUsed'
  BY <1>4, <1>7 DEF ContextDone, GuardFails
<1> QED BY <1>3, <1>4, <1>5, <1>6, <1>7 DEF Next, vars

\* What is left of the inductive invariant.
Pairs == Membership /\ Authority /\ Pairing /\ Leases /\ Verdicts

\* A leg that has not registered is in no generation.
LEMMA NotMember ==
  ASSUME Inv, NEW l \in Legs, pc[l] \notin {"registered", "returned"}
  PROVE  \A g \in Legs : l \notin Members(g)
  BY NoLegAssumption DEF Inv, Membership, Members

\* Members of a generation are legs.
LEMMA MembersAreLegs ==
  ASSUME TypeOK, NEW g \in Legs
  PROVE  Members(g) \subseteq Legs
  BY DEF TypeOK, Generations, Members

\* What mirrored checks does not depend on the order of the legs.
LEMMA MirroredSymmetric ==
  ASSUME NEW left, NEW right, mirrored(left, right)
  PROVE  mirrored(right, left)
BY DEF mirrored

\* No leg is in two generations.
LEMMA Disjoint ==
  ASSUME Inv, NEW g \in Legs, NEW h \in Legs, g # h
  PROVE  Members(g) \cap Members(h) = {}
<1> SUFFICES ASSUME NEW l \in Members(g), l \in Members(h) PROVE FALSE
  OBVIOUS
<1>1. PICK r \in 1..2 : l = gen[g].roles[r] /\ l # NoLeg
  BY DEF Members
<1>2. PICK q \in 1..2 : l = gen[h].roles[q]
  BY DEF Members
<1>3. gen[g].roles[r] # NoLeg /\ gen[g].roles[r] = gen[h].roles[q] => g = h
  <2>1. Membership
    BY DEF Inv
  <2> QED BY <2>1, Zenon DEF Membership
<1> QED BY <1>1, <1>2, <1>3

(* A step of one Serve call that leaves the generations alone: it is enough *)
(* to look at the leg itself, which keeps its lease and what it was told    *)
(* once it is in a generation.                                              *)
LegStep(l) ==
  /\ UNCHANGED <<groups, gen>>
  /\ \A m \in Legs \ {l} : /\ pc'[m] = pc[m] /\ lease'[m] = lease[m]
                           /\ verdict'[m] = verdict[m] /\ old'[m] = old[m]
  /\ pc'[l] \in {"replacing", "awaitOld"} => old'[l] \in Legs /\ Members(old'[l]) # {}
  /\ pc[l] \in {"registered", "returned"} =>
       pc'[l] \in {"registered", "returned"} /\ lease'[l] = lease[l] /\ verdict'[l] = verdict[l]
  /\ pc'[l] = "start" => lease'[l] = "none"
  /\ pc'[l] \in {"register", "replacing", "awaitOld", "replaced"} => lease'[l] = "held"
  /\ pc'[l] = "rejecting" => lease'[l] \in {"none", "once"}
  /\ lease'[l] # "again"
  /\ pc'[l] = "registered" => pc[l] = "registered"
  /\ pc'[l] = "returned" => lease'[l] # "held"
  /\ pc[l] \notin {"registered", "returned"} =>
       \/ verdict'[l] = {}
       \/ pc'[l] = "returned" /\ verdict'[l] = {"reject"}

\* A leg step preserves everything but the used table, which has its own lemma.
LEMMA LegFrame ==
  ASSUME Inv, NEW l \in Legs, LegStep(l)
  PROVE  Pairs'
<1>1. \A g \in Legs : Members(g)' = Members(g) /\ Members(g) \subseteq Legs
  BY MembersAreLegs DEF Inv, Members, LegStep
<1>2. pc[l] \notin {"registered", "returned"} => \A g \in Legs : l \notin Members(g)
  BY NotMember
<1>3. Authority' /\ Pairing'
  BY Zenon DEF Inv, Authority, Pairing, Members, mirrored, LegStep
<1>4. Membership'
  <2>1. ASSUME NEW g \in Legs, NEW r \in 1..2, gen[g].roles[r] # NoLeg
        PROVE  pc'[gen[g].roles[r]] \in {"registered", "returned"}
    <3>1. gen[g].roles[r] \in Members(g) /\ gen[g].roles[r] \in Legs
      BY <1>1, <2>1 DEF Members
    <3>2. pc[gen[g].roles[r]] \in {"registered", "returned"}
      BY <2>1 DEF Inv, Membership
    <3> QED BY <3>1, <3>2 DEF LegStep
  <2>2. ASSUME NEW m \in Legs, pc'[m] \in {"replacing", "awaitOld"}
        PROVE  old'[m] \in Legs /\ Members(old'[m]) # {}
    <3>1. CASE m = l
      BY <2>2, <3>1 DEF LegStep
    <3>2. CASE m # l
      <4>1. pc[m] \in {"replacing", "awaitOld"} /\ old'[m] = old[m]
        BY <2>2, <3>2 DEF LegStep
      <4> QED BY <4>1 DEF Inv, Membership
    <3> QED BY <3>1, <3>2
  <2>3. gen' = gen
    BY DEF LegStep
  <2>4. (\A m \in Legs : pc[m] \in {"replacing", "awaitOld"} =>
           old[m] \in Legs /\ Members(old[m]) # {})'
    BY <2>2, <2>3, Zenon DEF Members
  <2>5. \A g \in Legs : \A r \in 1..2 : gen[g].roles[r] # NoLeg =>
       /\ Claims[gen[g].roles[r]].role = r
       /\ Claims[gen[g].roles[r]].key = Claims[g].key
       /\ pc'[gen[g].roles[r]] \in {"registered", "returned"}
       /\ g \in Members(g)
    <3> SUFFICES ASSUME NEW g \in Legs, NEW r \in 1..2, gen[g].roles[r] # NoLeg
                 PROVE  /\ Claims[gen[g].roles[r]].role = r
                        /\ Claims[gen[g].roles[r]].key = Claims[g].key
                        /\ pc'[gen[g].roles[r]] \in {"registered", "returned"}
                        /\ g \in Members(g)
      OBVIOUS
    <3>1. Membership
      BY DEF Inv
    <3>2. /\ Claims[gen[g].roles[r]].role = r
          /\ Claims[gen[g].roles[r]].key = Claims[g].key
          /\ g \in Members(g)
      BY <3>1, Zenon DEF Membership
    <3>3. pc'[gen[g].roles[r]] \in {"registered", "returned"}
      BY <2>1
    <3> QED BY <3>2, <3>3
  <2>6. /\ \A g, h \in Legs : \A r, q \in 1..2 :
             gen[g].roles[r] # NoLeg /\ gen[g].roles[r] = gen[h].roles[q] => g = h
        /\ \A g \in Legs : Members(g) = {} => gen[g] = NewGeneration
    BY DEF Inv, Membership
  <2>7. (\A g \in Legs : \A r \in 1..2 : gen[g].roles[r] # NoLeg =>
           /\ Claims[gen[g].roles[r]].role = r
           /\ Claims[gen[g].roles[r]].key = Claims[g].key
           /\ pc[gen[g].roles[r]] \in {"registered", "returned"}
           /\ g \in Members(g))'
    BY <2>3, <2>5, Zenon DEF Members
  <2>8. (\A g, h \in Legs : \A r, q \in 1..2 :
           gen[g].roles[r] # NoLeg /\ gen[g].roles[r] = gen[h].roles[q] => g = h)'
    BY <2>3, <2>6
  <2>9. (\A g \in Legs : Members(g) = {} => gen[g] = NewGeneration)'
    BY <1>1, <2>3, <2>6
  <2> QED BY <2>4, <2>7, <2>8, <2>9 DEF Membership
<1>5. Leases'
  <2>1. \A g \in Legs : \A m \in Members(g) : lease'[m] = lease[m]
    BY <1>1, <1>2 DEF LegStep
  <2> QED BY <1>1, <2>1 DEF Inv, Leases, LegStep
<1>6. Verdicts'
  <2>1. ASSUME NEW m \in Legs
        PROVE  /\ "success" \in verdict'[m] => \E g \in Legs : m \in Members(g) /\ gen[g].active
               /\ "reject" \in verdict'[m] =>
                    \A g \in Legs : m \in Members(g) => ~gen[g].active /\ gen[g].down # "no"
               /\ pc'[m] \notin {"registered", "returned"} => verdict'[m] = {}
    <3>1. CASE m # l \/ pc[l] \in {"registered", "returned"}
      BY <3>1 DEF Inv, Verdicts, LegStep
    <3>2. CASE m = l /\ pc[l] \notin {"registered", "returned"}
      BY <1>2, <3>2 DEF LegStep
    <3> QED BY <3>1, <3>2
  <2> QED BY <1>1, <2>1 DEF Inv, Verdicts, LegStep
<1> QED BY <1>3, <1>4, <1>5, <1>6 DEF Pairs

(* Serve before it registers, while it replaces, and after its generation.  *)
LEMMA ServeStep ==
  ASSUME Inv, TypeOK', NEW l \in Legs,
         \/ ReceiveFails(l)
         \/ Unauthorized(l)
         \/ Authorized(l)
         \/ Reject(l)
         \/ ServeReturns(l)
         \/ CancelContext(l)
         \/ AwaitOld(l)
         \/ (Replace(l) /\ finished(old[l]))
  PROVE  Pairs'
<1> SUFFICES LegStep(l)
  BY LegFrame
<1> USE DEF serve, table, quota
<1>0. TypeOK /\ Membership /\ Leases /\ Verdicts
  BY DEF Inv
<1>1. CASE ReceiveFails(l) \/ Unauthorized(l) \/ Authorized(l) \/ Reject(l)
  <2>1. CASE ReceiveFails(l)
    BY <1>0, <2>1 DEF LegStep, TypeOK, Leases, Verdicts, ReceiveFails
  <2>2. CASE Unauthorized(l)
    BY <1>0, <2>2 DEF LegStep, TypeOK, Leases, Verdicts, Unauthorized
  <2>3. CASE Authorized(l)
    BY <1>0, <2>3 DEF LegStep, TypeOK, Leases, Verdicts, Authorized
  <2>4. CASE Reject(l)
    BY <1>0, <2>4 DEF LegStep, TypeOK, Leases, Verdicts, Reject
  <2> QED BY <1>1, <2>1, <2>2, <2>3, <2>4
<1>2. CASE ServeReturns(l)
  <2>1. lease[l] # "held"
    BY <1>0, <1>2, Zenon DEF ServeReturns, Leases
  <2> QED BY <1>0, <1>2, <2>1 DEF LegStep, TypeOK, Leases, ServeReturns
<1>3. CASE CancelContext(l)
  BY <1>0, <1>3, Zenon DEF LegStep, TypeOK, Leases, Verdicts, Membership, CancelContext
<1>4. CASE AwaitOld(l) \/ (Replace(l) /\ finished(old[l]))
  BY <1>0, <1>4 DEF LegStep, TypeOK, Leases, Verdicts, AwaitOld, Replace
<1> QED BY <1>1, <1>2, <1>3, <1>4

(* A refused leg gives its lease back, and a replacing one keeps it.        *)
LEMMA RefuseStep ==
  ASSUME Inv, TypeOK', NEW l \in Legs,
         RegisterReplayed(l) \/ RegisterDenied(l) \/ RegisterReplaces(l) \/ RegisterAgain(l)
  PROVE  Pairs'
<1> SUFFICES LegStep(l)
  BY LegFrame
<1> USE DEF serve, table, quota
<1>0. TypeOK /\ Membership /\ Authority /\ Leases /\ Verdicts
  BY DEF Inv
<1>1. ASSUME Refuse(l), pc[l] \in {"register", "replaced"}, UNCHANGED <<groups, gen>>
      PROVE  LegStep(l)
  <2>1. lease[l] = "held" /\ verdict[l] = {}
    BY <1>0, <1>1, Zenon DEF Leases, Verdicts
  <2>2. /\ pc'[l] = "rejecting" /\ lease'[l] = "once" /\ verdict'[l] = {}
        /\ \A m \in Legs \ {l} : /\ pc'[m] = pc[m] /\ lease'[m] = lease[m]
                                 /\ verdict'[m] = verdict[m] /\ old'[m] = old[m]
    BY <1>0, <1>1, <2>1 DEF TypeOK, Refuse, release
  <2> QED BY <1>1, <2>2, Zenon DEF LegStep
<1>2. CASE RegisterReplayed(l) \/ RegisterDenied(l)
  BY <1>1, <1>2, Zenon DEF RegisterReplayed, RegisterDenied
<1>3. CASE RegisterReplaces(l)
  <2>1. Claims[l].key \in Keys
    BY DEF Keys
  <2>2. groups[Claims[l].key] \in Legs /\ Members(groups[Claims[l].key]) # {}
    <3>1. groups[Claims[l].key] # NoLeg
      BY <1>3 DEF RegisterReplaces, Occupied
    <3>2. groups[Claims[l].key] \in Legs
      BY <1>0, <2>1, <3>1 DEF TypeOK
    <3>3. Members(groups[Claims[l].key]) # {}
      BY <1>0, <2>1, <3>1, Zenon DEF Authority
    <3> QED BY <3>2, <3>3
  <2> QED BY <1>0, <1>3, <2>2 DEF LegStep, TypeOK, Leases, Verdicts, RegisterReplaces
<1>4. CASE RegisterAgain(l)
  <2>1. CASE l \in ctxDone
    BY <1>1, <1>4, <2>1 DEF RegisterAgain
  <2>2. CASE l \notin ctxDone
    BY <1>0, <1>4, <2>2 DEF LegStep, TypeOK, Leases, Verdicts, RegisterAgain
  <2> QED BY <2>1, <2>2
<1> QED BY <1>2, <1>3, <1>4

-----------------------------------------------------------------------------
(* The steps of a generation, its timers, callbacks, activation and         *)
(* teardown, preserve the inductive invariant.                              *)

(* A step of a generation that leaves its legs and its being active alone,  *)
(* and in which at most a replacing leg moves on.                           *)
GenStep(g, x) ==
  /\ Members(g) # {}
  /\ gen' = [gen EXCEPT ![g] = x]
  /\ x.roles = gen[g].roles /\ x.active = gen[g].active
  /\ x.act # "none" => gen[g].act # "none" \/ gen[g].active
  /\ \A m \in Legs : \/ pc'[m] = pc[m]
                     \/ pc[m] = "replacing" /\ pc'[m] = "awaitOld"
  /\ old' = old

\* The legs of every generation stay, and so does all but g's own record.
LEMMA GenStepFields ==
  ASSUME Inv, NEW g \in Legs, NEW x, GenStep(g, x)
  PROVE  /\ \A h \in Legs : /\ gen'[h].roles = gen[h].roles /\ gen'[h].active = gen[h].active
                            /\ h # g => gen'[h] = gen[h]
                            /\ Members(h)' = Members(h) /\ Members(h) \subseteq Legs
         /\ gen'[g] = x
<1>1. \A h \in Legs : /\ gen'[h].roles = gen[h].roles /\ gen'[h].active = gen[h].active
                      /\ h # g => gen'[h] = gen[h]
  BY DEF Inv, TypeOK, GenStep
<1>2. \A h \in Legs : Members(h)' = Members(h)
  BY <1>1 DEF Members
<1>3. gen'[g] = x
  BY DEF Inv, TypeOK, GenStep
<1> QED BY <1>1, <1>2, <1>3, MembersAreLegs DEF Inv

\* A generation step keeps the legs where they are and pairs nobody.
LEMMA GenStepMembership ==
  ASSUME Inv, NEW g \in Legs, NEW x, GenStep(g, x)
  PROVE  Membership' /\ Pairing'
<1>1. \A h \in Legs : /\ gen'[h].roles = gen[h].roles /\ gen'[h].active = gen[h].active
                      /\ h # g => gen'[h] = gen[h]
                      /\ Members(h)' = Members(h) /\ Members(h) \subseteq Legs
  BY GenStepFields
<1>2. gen'[g] = x
  BY GenStepFields
<1>3. Membership'
  <2>1. ASSUME NEW h \in Legs, NEW r \in 1..2, gen[h].roles[r] # NoLeg
        PROVE  /\ Claims[gen[h].roles[r]].role = r
               /\ Claims[gen[h].roles[r]].key = Claims[h].key
               /\ pc'[gen[h].roles[r]] \in {"registered", "returned"}
               /\ h \in Members(h)
    <3>1. gen[h].roles[r] \in Legs
      BY <2>1 DEF Inv, TypeOK, Generations
    <3>2. /\ Claims[gen[h].roles[r]].role = r
          /\ Claims[gen[h].roles[r]].key = Claims[h].key
          /\ pc[gen[h].roles[r]] \in {"registered", "returned"}
          /\ h \in Members(h)
      BY <2>1 DEF Inv, Membership
    <3> QED BY <3>1, <3>2 DEF GenStep
  <2>2. \A f, h \in Legs : \A r, q \in 1..2 :
          gen'[f].roles[r] # NoLeg /\ gen'[f].roles[r] = gen'[h].roles[q] => f = h
    BY <1>1, SMTT(30) DEF Inv, Membership
  <2>3. \A h \in Legs : Members(h)' = {} => gen'[h] = NewGeneration
    <3>1. \A h \in Legs : Members(h) = {} => gen[h] = NewGeneration
      BY DEF Inv, Membership
    <3> QED BY <1>1, <3>1 DEF GenStep
  <2>4. ASSUME NEW m \in Legs, pc'[m] \in {"replacing", "awaitOld"}
        PROVE  (old[m] \in Legs /\ Members(old[m]) # {})'
    <3>1. pc[m] \in {"replacing", "awaitOld"} /\ old'[m] = old[m]
      BY <2>4 DEF GenStep
    <3>2. old[m] \in Legs /\ Members(old[m]) # {}
      BY <3>1 DEF Inv, Membership
    <3>3. gen'[old[m]].roles = gen[old[m]].roles
      BY <1>1, <3>2
    <3> QED BY <3>1, <3>2, <3>3 DEF Members
  <2>5. \A h \in Legs : \A r \in 1..2 : gen'[h].roles[r] # NoLeg =>
               /\ Claims[gen'[h].roles[r]].role = r
               /\ Claims[gen'[h].roles[r]].key = Claims[h].key
               /\ pc'[gen'[h].roles[r]] \in {"registered", "returned"}
               /\ h \in Members(h)'
    BY <1>1, <2>1
  <2> QED BY <2>2, <2>3, <2>4, <2>5 DEF Membership
<1>4. Pairing'
  <2>1. \A h \in Legs : gen'[h].act # "none" => gen'[h].active
    BY <1>1, <1>2 DEF Inv, Pairing, GenStep
  <2>2. ASSUME NEW h \in Legs, gen'[h].roles = gen[h].roles, gen'[h].active = gen[h].active
        PROVE  (/\ gen[h].active => gen[h].roles[1] # NoLeg /\ gen[h].roles[2] # NoLeg
                /\ gen[h].roles[1] # NoLeg /\ gen[h].roles[2] # NoLeg =>
                     mirrored(Claims[gen[h].roles[1]], Claims[gen[h].roles[2]]))'
    <3>1. /\ gen[h].active => gen[h].roles[1] # NoLeg /\ gen[h].roles[2] # NoLeg
          /\ gen[h].roles[1] # NoLeg /\ gen[h].roles[2] # NoLeg =>
               mirrored(Claims[gen[h].roles[1]], Claims[gen[h].roles[2]])
      BY DEF Inv, Pairing
    <3> QED BY <2>2, <3>1
  <2> QED BY <1>1, <2>1, <2>2 DEF Pairing
<1> QED BY <1>3, <1>4

\* groups follows the generations: a generation that ends leaves its key.
LEMMA GenStepAuthority ==
  ASSUME Inv, NEW g \in Legs, NEW x, GenStep(g, x),
         \/ UNCHANGED groups /\ gen[g].down # "no" /\ x.down # "no"
         \/ UNCHANGED groups /\ x.down = gen[g].down
         \/ /\ groups' = [k \in Keys |-> IF groups[k] = g THEN NoLeg ELSE groups[k]]
            /\ gen[g].down = "no" /\ x.down # "no"
  PROVE  Authority'
<1>1. \A h \in Legs : (h # g => gen'[h] = gen[h]) /\ Members(h)' = Members(h)
  BY GenStepFields
<1>2. gen'[g] = x
  BY GenStepFields
<1>3. \A k \in Keys : groups[k] # NoLeg =>
        groups[k] \in Legs /\ Claims[groups[k]].key = k /\ Members(groups[k]) # {}
        /\ gen[groups[k]].down = "no"
  BY DEF Inv, TypeOK, Authority
<1>4. \A h \in Legs : Members(h) # {} /\ gen[h].down = "no" => groups[Claims[h].key] = h
  BY DEF Inv, Authority
<1>5. \A h \in Legs : Claims[h].key \in Keys
  BY DEF Keys
<1>6. ASSUME NEW h \in Legs, Members(h)' # {}, gen'[h].down = "no"
      PROVE  groups'[Claims[h].key] = h
  BY <1>1, <1>2, <1>4, <1>5, <1>6, NoLegAssumption
<1>7. ASSUME NEW k \in Keys, groups'[k] # NoLeg
      PROVE  (Claims[groups[k]].key = k /\ Members(groups[k]) # {} /\ gen[groups[k]].down = "no")'
  <2>1. groups'[k] = groups[k]
    BY <1>7
  <2>2. /\ groups[k] \in Legs /\ Claims[groups[k]].key = k /\ Members(groups[k]) # {}
        /\ gen[groups[k]].down = "no"
    BY <1>3, <1>7, <2>1
  <2>3. gen'[groups[k]].down = "no"
    BY <1>1, <1>2, <1>7, <2>1, <2>2
  <2>4. gen'[groups[k]].roles = gen[groups[k]].roles
    BY <2>2, GenStepFields
  <2> QED BY <2>1, <2>2, <2>3, <2>4 DEF Members
<1> QED BY <1>6, <1>7 DEF Authority

\* Leases change only when the legs are closed.
LEMMA GenStepLeases ==
  ASSUME Inv, NEW g \in Legs, NEW x, GenStep(g, x),
         \/ UNCHANGED lease /\ gen[g].down # "done" /\ x.down # "done"
         \/ UNCHANGED lease /\ x.down = gen[g].down
         \/ release(Members(g)) /\ gen[g].down # "done" /\ x.down = "done"
  PROVE  Leases'
<1>1. \A h \in Legs : /\ (h # g => gen'[h] = gen[h])
                      /\ Members(h)' = Members(h) /\ Members(h) \subseteq Legs
  BY GenStepFields
<1>2. gen'[g] = x
  BY GenStepFields
<1>3. Leases /\ TypeOK
  BY DEF Inv
<1>4. \A h \in Legs : h # g => Members(h) \cap Members(g) = {}
  BY Disjoint
<1>5. \A l \in Legs : l \notin Members(g) => lease'[l] = lease[l]
  BY DEF release
<1>6. \A h \in Legs : \A l \in Members(h) :
        /\ gen'[h].down # "done" => lease'[l] = "held"
        /\ gen'[h].down = "done" => lease'[l] = "once"
  <2>1. ASSUME NEW h \in Legs, NEW l \in Members(h)
        PROVE  /\ gen'[h].down # "done" => lease'[l] = "held"
               /\ gen'[h].down = "done" => lease'[l] = "once"
    <3>1. /\ gen[h].down # "done" => lease[l] = "held"
          /\ gen[h].down = "done" => lease[l] = "once"
      BY <1>3 DEF Leases
    <3>2. CASE h # g
      BY <1>1, <1>4, <1>5, <3>1, <3>2
    <3>3. CASE h = g
      BY <1>1, <1>2, <3>1, <3>3 DEF release
    <3> QED BY <3>2, <3>3
  <2> QED BY <2>1
<1>7. ASSUME NEW l \in Legs
      PROVE  (/\ pc[l] = "start" => lease[l] = "none"
              /\ pc[l] \in {"register", "replacing", "awaitOld", "replaced"} => lease[l] = "held"
              /\ pc[l] = "rejecting" => lease[l] \in {"none", "once"}
              /\ lease[l] # "again"
              /\ pc[l] = "registered" => \E h \in Legs : l \in Members(h)
              /\ pc[l] = "returned" => lease[l] # "held")'
  <2>1. /\ pc[l] = "start" => lease[l] = "none"
        /\ pc[l] \in {"register", "replacing", "awaitOld", "replaced"} => lease[l] = "held"
        /\ pc[l] = "rejecting" => lease[l] \in {"none", "once"}
        /\ lease[l] # "again"
        /\ pc[l] = "registered" => \E h \in Legs : l \in Members(h)
        /\ pc[l] = "returned" => lease[l] # "held"
    BY <1>3 DEF Leases
  <2>2. \/ pc'[l] = pc[l]
        \/ pc[l] = "replacing" /\ pc'[l] = "awaitOld"
    BY DEF GenStep
  <2>3. l \in Members(g) => pc[l] \in {"registered", "returned"}
    BY NotMember
  <2>4. CASE l \notin Members(g)
    BY <1>1, <1>5, <2>1, <2>2, <2>4
  <2>5. CASE l \in Members(g)
    <3>1. pc'[l] = pc[l]
      BY <2>2, <2>3, <2>5
    <3>2. lease'[l] \in {lease[l], "once"}
      BY <1>6, <2>5, <1>2 DEF release
    <3> QED BY <1>1, <2>1, <2>3, <2>5, <3>1, <3>2
  <2> QED BY <2>4, <2>5
<1> QED BY <1>1, <1>6, <1>7 DEF Leases

\* The legs are told of success while the generation is active, and of
\* rejection when it ended without having been active.
Told(g, what) ==
  verdict' = [l \in Legs |-> IF l \in Members(g) THEN verdict[l] \cup {what} ELSE verdict[l]]

\* A generation step tells a leg only what agrees with its fate.
LEMMA GenStepVerdicts ==
  ASSUME Inv, NEW g \in Legs, NEW x, GenStep(g, x),
         gen[g].down # "no" => x.down # "no",
         x.down = "responding" => ~gen[g].active,
         \/ UNCHANGED verdict
         \/ Told(g, "success") /\ gen[g].active
         \/ Told(g, "reject") /\ gen[g].down = "responding"
  PROVE  Verdicts'
<1>1. \A h \in Legs : /\ (h # g => gen'[h] = gen[h]) /\ gen'[h].active = gen[h].active
                      /\ Members(h)' = Members(h) /\ Members(h) \subseteq Legs
  BY GenStepFields
<1>2. gen'[g] = x
  BY GenStepFields
<1>3. \A h \in Legs : gen[h].down # "no" => gen'[h].down # "no"
  BY <1>1, <1>2
<1>4. \A h \in Legs : h # g => Members(h) \cap Members(g) = {}
  BY Disjoint
<1>5. Verdicts
  BY DEF Inv
<1>6. ASSUME NEW l \in Legs
      PROVE  (/\ "success" \in verdict[l] => \E h \in Legs : l \in Members(h) /\ gen[h].active
              /\ "reject" \in verdict[l] =>
                   \A h \in Legs : l \in Members(h) => ~gen[h].active /\ gen[h].down # "no"
              /\ pc[l] \notin {"registered", "returned"} => verdict[l] = {})'
  <2>1. /\ "success" \in verdict[l] => \E h \in Legs : l \in Members(h) /\ gen[h].active
        /\ "reject" \in verdict[l] =>
             \A h \in Legs : l \in Members(h) => ~gen[h].active /\ gen[h].down # "no"
        /\ pc[l] \notin {"registered", "returned"} => verdict[l] = {}
    BY <1>5 DEF Verdicts
  <2>2. pc'[l] \notin {"registered", "returned"} => pc[l] \notin {"registered", "returned"}
    BY DEF GenStep
  <2>3. CASE verdict'[l] = verdict[l]
    BY <1>1, <1>3, <2>1, <2>2, <2>3
  <2>4. CASE verdict'[l] # verdict[l]
    <3>1. l \in Members(g)
      BY <2>4 DEF Told
    <3>2. pc[l] \in {"registered", "returned"}
      BY <3>1, NotMember
    <3>3. CASE Told(g, "success") /\ gen[g].active
      <4>1. verdict'[l] = verdict[l] \cup {"success"}
        BY <3>1, <3>3 DEF Told
      <4>2. "reject" \notin verdict[l]
        BY <2>1, <3>1, <3>3
      <4> QED BY <1>1, <2>1, <2>2, <3>1, <3>2, <3>3, <4>1, <4>2
    <3>4. CASE Told(g, "reject") /\ gen[g].down = "responding"
      <4>1. verdict'[l] = verdict[l] \cup {"reject"}
        BY <3>1, <3>4 DEF Told
      <4>2. ~gen[g].active
        BY <1>5, <3>4 DEF Verdicts
      <4>3. \A h \in Legs : l \in Members(h) => h = g
        BY <1>4, <3>1
      <4>4. \A h \in Legs : l \in Members(h)' => ~gen'[h].active /\ gen'[h].down # "no"
        BY <1>1, <1>3, <3>4, <4>2, <4>3
      <4>5. "success" \notin verdict[l]
        BY <2>1, <4>2, <4>3
      <4>6. pc'[l] \in {"registered", "returned"}
        BY <2>2, <3>2
      <4> QED BY <4>1, <4>4, <4>5, <4>6
    <3> QED BY <2>4, <3>3, <3>4
  <2> QED BY <2>3, <2>4
<1>7. \A h \in Legs : gen'[h].down = "responding" => ~gen'[h].active
  BY <1>1, <1>2, <1>5 DEF Verdicts
<1> QED BY <1>6, <1>7 DEF Verdicts

\* A generation that was ever touched has members.
LEMMA Touched ==
  ASSUME Inv, NEW g \in Legs,
         \/ gen[g].timer # "none"
         \/ gen[g].overCapacity
         \/ gen[g].act # "none"
         \/ gen[g].down # "no"
  PROVE  Members(g) # {}
<1>1. Members(g) = {} => gen[g] = NewGeneration
  BY DEF Inv, Membership
<1> QED BY <1>1, SMTT(30) DEF NewGeneration

(* The teardown, the timer and the activation of a generation.              *)
LEMMA GoroutineStep ==
  ASSUME Inv, NEW g \in Legs,
         \/ RespondReject(g)
         \/ CloseLegs(g)
         \/ TimerFires(g)
         \/ SendSuccess(g)
         \/ StartBridge(g)
         \/ (ActivationOver(g) /\ finished(g))
  PROVE  Pairs'
<1> USE DEF serve, table, quota
<1>0. gen \in [Legs -> Generations] /\ gen[g] \in Generations
  BY DEF Inv, TypeOK
<1>1. CASE RespondReject(g)
  <2> DEFINE x == [gen[g] EXCEPT !.down = "releasing"]
  <2>1. /\ x.roles = gen[g].roles /\ x.active = gen[g].active /\ x.act = gen[g].act
        /\ x.down = "releasing"
    BY <1>0 DEF Generations
  <2>2. gen' = [gen EXCEPT ![g] = x] /\ Members(g) # {}
    BY <1>0, <1>1, Touched DEF RespondReject
  <2> HIDE DEF x
  <2>3. GenStep(g, x)
    BY <1>1, <2>1, <2>2, Zenon DEF GenStep, RespondReject
  <2>4. Authority' /\ Leases'
    BY <1>1, <2>1, <2>3, GenStepAuthority, GenStepLeases DEF RespondReject
  <2>5. Verdicts'
    BY <1>1, <2>1, <2>3, GenStepVerdicts DEF RespondReject, Told
  <2> QED BY <2>3, <2>4, <2>5, GenStepMembership DEF Pairs
<1>2. CASE CloseLegs(g)
  <2> DEFINE x == [gen[g] EXCEPT !.down = "done"]
  <2>1. /\ x.roles = gen[g].roles /\ x.active = gen[g].active /\ x.act = gen[g].act
        /\ x.down = "done"
    BY <1>0 DEF Generations
  <2>2. gen' = [gen EXCEPT ![g] = x] /\ Members(g) # {}
    BY <1>0, <1>2, Touched DEF CloseLegs
  <2> HIDE DEF x
  <2>3. GenStep(g, x)
    BY <1>2, <2>1, <2>2, Zenon DEF GenStep, CloseLegs
  <2>4. Authority' /\ Leases' /\ Verdicts'
    BY <1>2, <2>1, <2>3, GenStepAuthority, GenStepLeases, GenStepVerdicts DEF CloseLegs
  <2> QED BY <2>3, <2>4, GenStepMembership DEF Pairs
<1>3. CASE TimerFires(g) \/ StartBridge(g) \/ (ActivationOver(g) /\ finished(g)) \/ SendSuccess(g)
  <2>1. PICK x : /\ gen' = [gen EXCEPT ![g] = x] /\ x.roles = gen[g].roles
                 /\ x.active = gen[g].active /\ x.down = gen[g].down
                 /\ x.act # "none" => gen[g].act # "none"
    <3>1. CASE TimerFires(g)
      <4> DEFINE y == [gen[g] EXCEPT !.timer = "fired"]
      <4>1. /\ y.roles = gen[g].roles /\ y.active = gen[g].active /\ y.down = gen[g].down
            /\ y.act = gen[g].act
        BY <1>0 DEF Generations
      <4>2. gen' = [gen EXCEPT ![g] = y]
        BY <1>0, <3>1 DEF TimerFires
      <4> QED BY <4>1, <4>2, Zenon
    <3>2. CASE StartBridge(g)
      BY <1>0, <3>2, Zenon DEF Generations, StartBridge
    <3>3. CASE ActivationOver(g) /\ finished(g)
      <4> DEFINE y == [gen[g] EXCEPT !.act = "over"]
      <4>1. /\ y.roles = gen[g].roles /\ y.active = gen[g].active /\ y.down = gen[g].down
            /\ gen[g].act # "none"
        BY <1>0, <3>3 DEF Generations, ActivationOver
      <4>2. gen' = [gen EXCEPT ![g] = y]
        BY <1>0, <3>3 DEF ActivationOver
      <4> QED BY <4>1, <4>2, Zenon
    <3>4. CASE SendSuccess(g)
      BY <1>0, <3>4, Zenon DEF Generations, SendSuccess
    <3> QED BY <1>3, <3>1, <3>2, <3>3, <3>4
  <2>2. Members(g) # {}
    BY <1>3, Touched DEF TimerFires, StartBridge, ActivationOver, SendSuccess
  <2>3. /\ UNCHANGED <<pc, old, groups, lease>>
        /\ UNCHANGED verdict \/ (Told(g, "success") /\ gen[g].act # "none")
    BY <1>3 DEF TimerFires, StartBridge, ActivationOver, SendSuccess, Told
  <2>4. gen[g].act # "none" => gen[g].active
    BY DEF Inv, Pairing
  <2>5. GenStep(g, x)
    BY <2>1, <2>2, <2>3 DEF GenStep
  <2>6. x.down = "responding" => ~gen[g].active
    BY <2>1, Zenon DEF Inv, Verdicts
  <2> QED BY <2>1, <2>3, <2>4, <2>5, <2>6, GenStepMembership, GenStepAuthority, GenStepLeases,
             GenStepVerdicts, Zenon DEF Pairs
<1> QED BY <1>1, <1>2, <1>3

(* Whoever detaches a generation that is not finished.                      *)
LEMMA DetachStep ==
  ASSUME Inv, NEW g \in Legs, Members(g) # {}, ~finished(g),
         NEW cause, NEW down \in {"responding", "releasing"},
         detach(g, cause, down), down = "responding" => ~gen[g].active,
         cause = "activation" => gen[g].act # "none",
         UNCHANGED <<old, lease, verdict>>,
         \A m \in Legs : \/ pc'[m] = pc[m]
                         \/ pc[m] = "replacing" /\ pc'[m] = "awaitOld"
  PROVE  Pairs'
<1> DEFINE x == Detached(g, cause, down)
<1>1. gen \in [Legs -> Generations] /\ gen[g] \in Generations
  BY DEF Inv, TypeOK
<1>2. /\ x.roles = gen[g].roles /\ x.active = gen[g].active /\ x.down = down
      /\ x.act # "none" => gen[g].act # "none"
  BY <1>1 DEF Generations, Detached
<1>3. /\ gen' = [gen EXCEPT ![g] = x]
      /\ groups' = [k \in Keys |-> IF groups[k] = g THEN NoLeg ELSE groups[k]]
      /\ gen[g].down = "no"
  BY DEF detach, finished
<1> HIDE DEF x
<1>4. GenStep(g, x)
  BY <1>2, <1>3 DEF GenStep
<1>5. Authority'
  BY <1>2, <1>3, <1>4, GenStepAuthority
<1>6. Leases'
  BY <1>2, <1>3, <1>4, GenStepLeases
<1>7. Verdicts'
  BY <1>2, <1>3, <1>4, GenStepVerdicts
<1> QED BY <1>4, <1>5, <1>6, <1>7, GenStepMembership, Zenon DEF Pairs

(* A replacement, a timeout, a full quota, a cancel, a guard or the end of  *)
(* the activation detaches a generation.                                    *)
LEMMA EndStep ==
  ASSUME Inv, NEW g \in Legs,
         \/ PairTimeout(g) \/ OverCapacity(g)
         \/ \E l \in Legs : ContextDone(g, l) \/ GuardFails(g, l)
         \/ (ActivationOver(g) /\ ~finished(g))
         \/ \E l \in Legs : Replace(l) /\ ~finished(old[l]) /\ g = old[l]
  PROVE  Pairs'
<1> USE DEF serve, table, quota
<1>1. CASE PairTimeout(g) \/ OverCapacity(g)
  <2>1. Members(g) # {} /\ ~finished(g)
    BY <1>1, Touched DEF PairTimeout, OverCapacity
  <2> DEFINE down == IF gen[g].active THEN "releasing" ELSE "responding"
  <2>2. down \in {"responding", "releasing"} /\ (down = "responding" => ~gen[g].active)
    OBVIOUS
  <2>3. \/ detach(g, "ErrPairTimeout", down)
        \/ detach(g, "ErrCapacity", down)
    BY <1>1 DEF PairTimeout, OverCapacity, rejectGeneration
  <2>4. UNCHANGED <<pc, old, lease, verdict>>
    BY <1>1, Zenon DEF PairTimeout, OverCapacity
  <2> HIDE DEF down
  <2> QED BY <2>1, <2>2, <2>3, <2>4, DetachStep
<1>2. CASE \E l \in Legs : ContextDone(g, l) \/ GuardFails(g, l)
  <2>1. Members(g) # {} /\ ~finished(g)
    BY <1>2 DEF ContextDone, GuardFails
  <2>2. detach(g, "canceled", "releasing") \/ detach(g, "guard", "releasing")
    BY <1>2 DEF ContextDone, GuardFails, finish
  <2>3. UNCHANGED <<pc, old, lease, verdict>>
    BY <1>2 DEF ContextDone, GuardFails
  <2> QED BY <2>1, <2>2, <2>3, DetachStep
<1>3. CASE ActivationOver(g) /\ ~finished(g)
  <2>1. Members(g) # {} /\ gen[g].act # "none"
    BY <1>3, Touched DEF ActivationOver
  <2>2. detach(g, "activation", "releasing") /\ UNCHANGED <<pc, old, lease, verdict>>
    BY <1>3 DEF ActivationOver, finish
  <2> QED BY <1>3, <2>1, <2>2, DetachStep, Zenon
<1>4. CASE \E l \in Legs : Replace(l) /\ ~finished(old[l]) /\ g = old[l]
  <2>1. PICK l \in Legs : Replace(l) /\ ~finished(old[l]) /\ g = old[l]
    BY <1>4
  <2>2. Members(g) # {}
    BY <2>1, Zenon DEF Inv, Membership, Replace
  <2> DEFINE down == IF gen[g].active THEN "releasing" ELSE "responding"
  <2>3. down \in {"responding", "releasing"} /\ (down = "responding" => ~gen[g].active)
    OBVIOUS
  <2>4. detach(g, "ErrReplaced", down) /\ UNCHANGED <<old, lease, verdict>>
    BY <2>1 DEF Replace, rejectGeneration
  <2>5. \A m \in Legs : \/ pc'[m] = pc[m]
                        \/ pc[m] = "replacing" /\ pc'[m] = "awaitOld"
    BY <2>1 DEF Inv, TypeOK, Replace
  <2> HIDE DEF down
  <2> QED BY <2>1, <2>2, <2>3, <2>4, <2>5, DetachStep
<1> QED BY <1>1, <1>2, <1>3, <1>4
=============================================================================
