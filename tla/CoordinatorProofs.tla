------------------------ MODULE CoordinatorProofs -------------------------
(***************************************************************************)
(* What holds of TunnelCoordinator for any set of legs, any claims and any *)
(* limits: one authoritative generation per key, pairs of mirrored legs,   *)
(* leases released exactly once, one verdict per leg, no second claim of   *)
(* an unexpired credential, and exact quotas.                              *)
(***************************************************************************)
EXTENDS CoordinatorSteps, FiniteSetTheorems
-----------------------------------------------------------------------------
(***************************************************************************)
(* registerClaimed preserves the inductive invariant when a leg joins a    *)
(* generation.                                                             *)
(***************************************************************************)
\* What registerClaimed makes of the generation that a leg joins: a new one
\* with the leg alone, or one that now holds the leg and its mirrored peer.
LEMMA JoinedFields ==
  ASSUME Inv, NEW l \in Legs, RegisterJoins(l)
  PROVE  /\ Target(l) \in Legs /\ Claims[Target(l)].key = Claims[l].key
         /\ gen[Target(l)].down = "no" /\ ~gen[Target(l)].active /\ gen[Target(l)].act = "none"
         /\ gen[Target(l)].roles[Claims[l].role] = NoLeg
         /\ Joined(l).roles = [gen[Target(l)].roles EXCEPT ![Claims[l].role] = l]
         /\ Joined(l).down = "no"
         /\ Joined(l).act # "none" => Joined(l).active
         /\ Joined(l).active => Members(Target(l)) # {}
         /\ Target(l) = l \/ Members(Target(l)) # {}
         /\ Members(Target(l)) = {} => Target(l) = l
<1> DEFINE t == Target(l)
<1>1. t \in Legs /\ Claims[l].role \in 1..2 /\ Claims[l].key \in Keys
  BY JoinedType, ClaimsAssumption DEF Inv, Keys
<1>2. gen[t] \in Generations
  BY <1>1 DEF Inv, TypeOK
<1>3. /\ Claims[t].key = Claims[l].key /\ gen[t].down = "no"
      /\ t = l \/ Members(t) # {}
      /\ ~gen[t].active /\ gen[t].roles[Claims[l].role] = NoLeg
      /\ Members(t) = {} => t = l
  <2>1. CASE groups[Claims[l].key] = NoLeg
    <3>1. t = l
      BY <2>1 DEF Target
    <3>2. l \notin Members(l)
      BY NotMember DEF RegisterJoins
    <3>3. gen[l].roles[1] = NoLeg /\ gen[l].roles[2] = NoLeg
      BY <3>2, SMTT(20) DEF Inv, Membership
    <3>4. gen[l] = NewGeneration
      BY <3>3 DEF Inv, Membership, Members
    <3> QED BY <1>1, <3>1, <3>4 DEF NewGeneration
  <2>2. CASE groups[Claims[l].key] # NoLeg
    <3>1. t = groups[Claims[l].key]
      BY <2>2 DEF Target
    <3>2. Claims[t].key = Claims[l].key /\ Members(t) # {} /\ gen[t].down = "no"
      <4>1. Authority
        BY DEF Inv
      <4>2. \A k \in Keys : groups[k] # NoLeg =>
              Claims[groups[k]].key = k /\ Members(groups[k]) # {} /\ gen[groups[k]].down = "no"
        BY <4>1 DEF Authority
      <4> QED BY <1>1, <2>2, <3>1, <4>2
    <3>3. ~gen[t].active /\ gen[t].roles[Claims[l].role] = NoLeg
      BY <1>2, <2>2, <3>1, <3>2, Zenon DEF RegisterJoins, Occupied, finished
    <3> QED BY <3>2, <3>3
  <2> QED BY <2>1, <2>2
<1>4. gen[t].act = "none"
  BY <1>1, <1>3 DEF Inv, Pairing
<1>5. /\ Joined(l).roles = [gen[t].roles EXCEPT ![Claims[l].role] = l]
      /\ Joined(l).down = gen[t].down
      /\ Joined(l).act # "none" => Joined(l).active
      /\ Joined(l).active => Members(t) # {}
  <2> DEFINE b == [gen[t] EXCEPT !.roles[Claims[l].role] = l]
  <2>1. /\ b.roles = [gen[t].roles EXCEPT ![Claims[l].role] = l] /\ b.down = gen[t].down
        /\ b.act = "none" /\ ~b.active /\ b \in Generations
    <3>1. b \in Generations
      BY <1>1, <1>2, FieldTypes, Zenon
    <3>2. b.roles = [gen[t].roles EXCEPT ![Claims[l].role] = l] /\ b.down = gen[t].down
      BY <1>1, <1>2 DEF Generations
    <3>3. b.act = gen[t].act /\ b.active = gen[t].active
      BY <1>1, <1>2 DEF Generations
    <3> QED BY <1>3, <1>4, <3>1, <3>2, <3>3
  <2>2. \/ Joined(l) = [b EXCEPT !.pendingCount = 1, !.timer = "armed"]
        \/ \E v : Joined(l) = [b EXCEPT !.timer = v, !.overCapacity = TRUE]
        \/ /\ Members(t) # {}
           /\ \E v : Joined(l) = [b EXCEPT !.timer = v, !.pendingCount = 0, !.active = TRUE,
                                           !.act = "guards"]
    BY Zenon DEF Joined
  <2> HIDE DEF b, t
  <2> QED BY <2>1, <2>2, Zenon DEF Generations
<1> QED BY <1>1, <1>3, <1>4, <1>5

(* registerClaimed adds the leg to the generation of its key.               *)
LEMMA JoinStep ==
  ASSUME Inv, NEW l \in Legs, RegisterJoins(l)
  PROVE  Pairs'
<1> USE DEF serve, table, quota
<1>0. Target(l) \in Legs
  BY JoinedFields, Zenon
<1> PICK t \in Legs : t = Target(l)
  BY <1>0
<1> DEFINE r0 == Claims[l].role
<1>1. /\ t \in Legs /\ Claims[t].key = Claims[l].key /\ gen[t].down = "no" /\ ~gen[t].active
      /\ gen[t].roles[r0] = NoLeg /\ (t = l \/ Members(t) # {})
      /\ Members(t) = {} => t = l
  BY JoinedFields, Zenon
<1>2. r0 \in 1..2 /\ Claims[l].key \in Keys /\ l # NoLeg
  BY ClaimsAssumption, NoLegAssumption DEF Keys
<1>3. /\ \A h \in Legs : h # t => gen'[h] = gen[h]
      /\ gen'[t] = Joined(l)
  BY <1>1, Zenon DEF Inv, TypeOK, RegisterJoins
<1>4. /\ gen'[t].roles = [gen[t].roles EXCEPT ![r0] = l] /\ gen'[t].down = "no"
      /\ gen'[t].act # "none" => gen'[t].active
      /\ gen'[t].active => Members(t) # {}
  BY <1>3, JoinedFields, Zenon
<1>5. /\ pc' = [pc EXCEPT ![l] = "registered"] /\ pc[l] = "register"
      /\ UNCHANGED <<old, lease, verdict>>
      /\ groups' = [groups EXCEPT ![Claims[l].key] = t]
      /\ ~Mismatched(l)
  BY DEF RegisterJoins
<1>6. gen[t].roles \in [1..2 -> Legs \cup {NoLeg}] /\ groups \in [Keys -> Legs \cup {NoLeg}]
  BY <1>1 DEF Inv, TypeOK, Generations
<1>7. /\ gen'[t].roles[r0] = l
      /\ \A r \in 1..2 : r # r0 => gen'[t].roles[r] = gen[t].roles[r]
      /\ pc'[l] = "registered" /\ \A m \in Legs : m # l => pc'[m] = pc[m]
  BY <1>2, <1>4, <1>5, <1>6 DEF Inv, TypeOK
<1> HIDE DEF r0
<1>8. /\ Members(t)' = Members(t) \cup {l}
      /\ \A h \in Legs : h # t => Members(h)' = Members(h)
      /\ \A h \in Legs : l \notin Members(h) /\ Members(h) \subseteq Legs
  <2>1. \A h \in Legs : l \notin Members(h) /\ Members(h) \subseteq Legs
    BY <1>5, NotMember, MembersAreLegs DEF Inv
  <2>2. \A h \in Legs : h # t => Members(h)' = Members(h)
    BY <1>3 DEF Members
  <2>3. r0 = 1 \/ r0 = 2
    BY <1>2
  <2>4. Members(t)' = Members(t) \cup {l}
    BY <1>1, <1>2, <1>7, <2>3 DEF Members
  <2> QED BY <2>1, <2>2, <2>4
<1>9. Membership'
  <2>1. ASSUME NEW h \in Legs, NEW r \in 1..2, gen'[h].roles[r] # NoLeg
        PROVE  /\ Claims[gen'[h].roles[r]].role = r
               /\ Claims[gen'[h].roles[r]].key = Claims[h].key
               /\ pc'[gen'[h].roles[r]] \in {"registered", "returned"}
               /\ h \in Members(h)'
    <3>1. CASE h = t /\ r = r0
      <4>1. t \in Members(t) \cup {l}
        BY <1>1, SMTT(20) DEF Inv, Membership, Members
      <4> QED BY <1>1, <1>7, <1>8, <3>1, <4>1 DEF r0
    <3>2. CASE ~(h = t /\ r = r0)
      <4>1. gen'[h].roles[r] = gen[h].roles[r]
        BY <1>3, <1>7, <3>2
      <4>2. gen[h].roles[r] \in Members(h)
        BY <2>1, <4>1 DEF Members
      <4>3. gen[h].roles[r] # l /\ gen[h].roles[r] \in Legs
        BY <1>8, <4>2
      <4>4. /\ Claims[gen[h].roles[r]].role = r
            /\ Claims[gen[h].roles[r]].key = Claims[h].key
            /\ pc[gen[h].roles[r]] \in {"registered", "returned"}
            /\ h \in Members(h)
        BY <2>1, <4>1 DEF Inv, Membership
      <4> QED BY <1>7, <1>8, <4>1, <4>3, <4>4
    <3> QED BY <3>1, <3>2
  <2>2. ASSUME NEW f \in Legs, NEW h \in Legs, NEW r \in 1..2, NEW q \in 1..2,
               gen'[f].roles[r] # NoLeg, gen'[f].roles[r] = gen'[h].roles[q]
        PROVE  f = h
    <3>1. ASSUME NEW d \in Legs, NEW p \in 1..2, gen'[d].roles[p] # NoLeg
          PROVE  \/ gen'[d].roles[p] = l /\ d = t
                 \/ /\ gen'[d].roles[p] = gen[d].roles[p] /\ gen[d].roles[p] # l
      <4>1. CASE d = t /\ p = r0
        BY <1>7, <4>1
      <4>2. CASE ~(d = t /\ p = r0)
        <5>1. gen'[d].roles[p] = gen[d].roles[p]
          BY <1>3, <1>7, <4>2
        <5>2. gen[d].roles[p] \in Members(d)
          BY <3>1, <5>1 DEF Members
        <5> QED BY <1>8, <5>1, <5>2
      <4> QED BY <4>1, <4>2
    <3>2. CASE gen'[f].roles[r] = l
      <4>1. \A d \in Legs : \A p \in 1..2 : gen'[d].roles[p] = l => d = t
        BY <1>2, <3>1
      <4> QED BY <2>2, <3>2, <4>1, Zenon
    <3>3. CASE gen'[f].roles[r] # l
      <4>1. gen[f].roles[r] # NoLeg /\ gen[f].roles[r] = gen[h].roles[q]
        BY <2>2, <3>1, <3>3
      <4> QED BY <4>1 DEF Inv, Membership
    <3> QED BY <3>2, <3>3
  <2>3. \A h \in Legs : Members(h)' = {} => gen'[h] = NewGeneration
    BY <1>3, <1>8 DEF Inv, Membership
  <2>4. ASSUME NEW m \in Legs, pc'[m] \in {"replacing", "awaitOld"}
        PROVE  (old[m] \in Legs /\ Members(old[m]) # {})'
    <3>1. old[m] \in Legs /\ Members(old[m]) # {} /\ old' = old
      BY <1>5, <1>7, <2>4 DEF Inv, Membership
    <3>2. ASSUME NEW h \in Legs, Members(h) # {} PROVE Members(h)' # {}
      BY <1>8, <3>2
    <3>3. (Members(old[m]) # {})'
      BY <3>1, <1>3, <1>7, <1>2, <1>1 DEF Members
    <3> QED BY <3>1, <3>3
  <2> QED BY <2>1, <2>2, <2>3, <2>4 DEF Membership
<1>10. Authority'
  <2>1. ASSUME NEW h \in Legs, Members(h)' # {}, gen'[h].down = "no"
        PROVE  groups'[Claims[h].key] = h
    <3>1. Claims[h].key \in Keys
      BY DEF Keys
    <3>2. CASE h = t
      BY <1>1, <1>2, <1>5, <1>6, <3>2
    <3>3. CASE h # t
      <4>1. groups[Claims[h].key] = h /\ h # NoLeg
        BY <1>3, <1>8, <2>1, <3>3, NoLegAssumption DEF Inv, Authority
      <4>2. Claims[h].key # Claims[l].key
        BY <3>3, <4>1 DEF Target
      <4> QED BY <1>5, <1>6, <3>1, <4>1, <4>2
    <3> QED BY <3>2, <3>3
  <2>2. ASSUME NEW k \in Keys, groups'[k] # NoLeg
        PROVE  (Claims[groups[k]].key = k /\ Members(groups[k]) # {} /\ gen[groups[k]].down = "no")'
    <3>1. \E h \in Legs : /\ groups'[k] = h /\ Claims[h].key = k
                          /\ Members(h)' # {} /\ gen'[h].down = "no"
      <4>1. CASE k = Claims[l].key
        BY <1>1, <1>2, <1>4, <1>5, <1>6, <1>8, <4>1
      <4>2. CASE k # Claims[l].key
        <5>1. groups'[k] = groups[k] /\ groups[k] \in Legs
          BY <1>5, <1>6, <2>2, <4>2
        <5>2. Claims[groups[k]].key = k /\ Members(groups[k]) # {} /\ gen[groups[k]].down = "no"
          BY <2>2, <5>1, Zenon DEF Inv, Authority
        <5>3. groups[k] # t
          BY <1>1, <4>2, <5>2
        <5> QED BY <1>3, <1>8, <5>1, <5>2, <5>3
      <4> QED BY <4>1, <4>2
    <3>2. PICK h \in Legs : /\ groups'[k] = h /\ Claims[h].key = k
                            /\ Members(h)' # {} /\ gen'[h].down = "no"
      BY <3>1
    <3> QED BY <3>2 DEF Members
  <2> QED BY <2>1, <2>2 DEF Authority
<1>11. Pairing'
  <2>1. ASSUME NEW h \in Legs, h # t
        PROVE  gen'[h] = gen[h]
    BY <1>3, <2>1
  <2>2. PeerLeg(l) = gen[t].roles[3 - r0]
    BY DEF PeerLeg, r0
  <2>3. gen[t].roles[3 - r0] # NoLeg => mirrored(Claims[gen[t].roles[3 - r0]], Claims[l])
    BY <1>5, <2>2 DEF Mismatched
  <2>4. gen'[t].roles[3 - r0] = gen[t].roles[3 - r0] /\ (r0 = 1 \/ r0 = 2)
    BY <1>2, <1>7
  <2>5. gen'[t].roles[1] # NoLeg /\ gen'[t].roles[2] # NoLeg =>
          mirrored(Claims[gen'[t].roles[1]], Claims[gen'[t].roles[2]])
    <3>1. CASE r0 = 1
      <4>1. gen'[t].roles[1] = l /\ gen'[t].roles[2] = gen[t].roles[2]
        BY <1>7, <2>4, <3>1
      <4>2. gen[t].roles[2] # NoLeg => mirrored(Claims[gen[t].roles[2]], Claims[l])
        BY <2>3, <3>1
      <4> QED BY <4>1, <4>2, MirroredSymmetric
    <3>2. CASE r0 = 2
      <4>1. gen'[t].roles[2] = l /\ gen'[t].roles[1] = gen[t].roles[1]
        BY <1>7, <2>4, <3>2
      <4>2. gen[t].roles[1] # NoLeg => mirrored(Claims[gen[t].roles[1]], Claims[l])
        BY <2>3, <3>2
      <4> QED BY <4>1, <4>2
    <3> QED BY <2>4, <3>1, <3>2
  <2>6. gen'[t].active => gen'[t].roles[1] # NoLeg /\ gen'[t].roles[2] # NoLeg
    BY <1>1, <1>2, <1>4, <1>7, <2>4, SMTT(20) DEF Members
  <2>7. \A h \in Legs : h # t =>
          /\ gen'[h].act # "none" => gen'[h].active
          /\ gen'[h].active => gen'[h].roles[1] # NoLeg /\ gen'[h].roles[2] # NoLeg
          /\ gen'[h].roles[1] # NoLeg /\ gen'[h].roles[2] # NoLeg =>
               mirrored(Claims[gen'[h].roles[1]], Claims[gen'[h].roles[2]])
    BY <2>1 DEF Inv, Pairing
  <2>8. \A h \in Legs :
          /\ gen'[h].act # "none" => gen'[h].active
          /\ gen'[h].active => gen'[h].roles[1] # NoLeg /\ gen'[h].roles[2] # NoLeg
          /\ gen'[h].roles[1] # NoLeg /\ gen'[h].roles[2] # NoLeg =>
               mirrored(Claims[gen'[h].roles[1]], Claims[gen'[h].roles[2]])
    BY <1>4, <2>5, <2>6, <2>7, Zenon
  <2> QED BY <2>8 DEF Pairing, mirrored
<1>12. Leases'
  <2>1. Leases /\ lease[l] = "held" /\ lease' = lease
    BY <1>5 DEF Inv, Leases
  <2>2. \A h \in Legs : \A m \in Members(h)' :
          /\ gen'[h].down # "done" => lease'[m] = "held"
          /\ gen'[h].down = "done" => lease'[m] = "once"
    BY <1>1, <1>3, <1>4, <1>8, <2>1, SMTT(20) DEF Leases
  <2>3. \A m \in Legs : pc'[m] = "registered" => \E h \in Legs : m \in Members(h)'
    BY <1>1, <1>7, <1>8, <2>1 DEF Leases
  <2>4. \A m \in Legs :
          /\ pc'[m] = "start" => lease'[m] = "none"
          /\ pc'[m] \in {"register", "replacing", "awaitOld", "replaced"} => lease'[m] = "held"
          /\ pc'[m] = "rejecting" => lease'[m] \in {"none", "once"}
          /\ lease'[m] # "again"
          /\ pc'[m] = "returned" => lease'[m] # "held"
    BY <1>7, <2>1 DEF Leases
  <2> QED BY <2>2, <2>3, <2>4 DEF Leases
<1>13. Verdicts'
  <2>1. Verdicts /\ verdict' = verdict /\ verdict[l] = {}
    BY <1>5 DEF Inv, Verdicts
  <2>2. \A m \in Legs : "success" \in verdict'[m] => \E h \in Legs : m \in Members(h)' /\ gen'[h].active
    BY <1>1, <1>3, <1>8, <2>1 DEF Verdicts
  <2>3. ASSUME NEW m \in Legs, "reject" \in verdict'[m], NEW h \in Legs, m \in Members(h)'
        PROVE  ~gen'[h].active /\ gen'[h].down # "no"
    <3>1. m # l /\ "reject" \in verdict[m]
      BY <2>1, <2>3
    <3>2. m \in Members(h)
      BY <1>8, <2>3, <3>1
    <3>3. ~gen[h].active /\ gen[h].down # "no"
      BY <2>1, <3>1, <3>2 DEF Verdicts
    <3> QED BY <1>1, <1>3, <3>3
  <2>4. \A m \in Legs : pc'[m] \notin {"registered", "returned"} => verdict'[m] = {}
    BY <1>7, <2>1 DEF Verdicts
  <2>5. \A h \in Legs : gen'[h].down = "responding" => ~gen'[h].active
    BY <1>3, <1>4, <2>1 DEF Verdicts
  <2> QED BY <2>2, <2>3, <2>4, <2>5 DEF Verdicts
<1> QED BY <1>9, <1>10, <1>11, <1>12, <1>13 DEF Pairs

-----------------------------------------------------------------------------
\* The coordinator starts with no generation and no claim.
LEMMA InvInit == Init => Inv
<1> SUFFICES ASSUME Init PROVE Inv
  OBVIOUS
<1>1. \A g \in Legs : gen[g] = NewGeneration
  BY DEF Init
<1>2. \A g \in Legs : Members(g) = {}
  BY <1>1 DEF Members, NewGeneration
<1>3. Membership /\ Authority /\ Pairing
  BY <1>1, <1>2, SMTT(30) DEF Init, Membership, Authority, Pairing, NewGeneration
<1>4. Leases /\ Verdicts
  BY <1>1, <1>2 DEF Init, Leases, Verdicts, NewGeneration
<1>5. ClaimsUsed
  BY DEF Init, ClaimsUsed, CredentialClaimedOnce
<1> QED BY <1>3, <1>4, <1>5, TypeInit DEF Inv

\* Every step of Serve, a timer, a callback or a goroutine keeps the invariant.
LEMMA InvStep == Inv /\ [Next]_vars => Inv'
<1> SUFFICES ASSUME Inv, [Next]_vars PROVE Inv'
  OBVIOUS
<1>1. TypeOK'
  BY TypeStep DEF Inv
<1>2. ClaimsUsed'
  BY ClaimsStep
<1>3. ASSUME NEW l \in Legs, Register(l)
      PROVE  Pairs'
  <2>1. CASE Replace(l) /\ ~finished(old[l])
    <3>1. old[l] \in Legs
      BY <2>1 DEF Inv, Membership, Replace
    <3> QED BY <2>1, <3>1, EndStep
  <2> QED BY <1>1, <1>3, <2>1, ServeStep, RefuseStep, JoinStep DEF Register
<1>4. ASSUME NEW g \in Legs,
             Teardown(g) \/ Progress(g) \/ ActivationOver(g)
             \/ \E l \in Legs : ContextDone(g, l) \/ GuardFails(g, l)
      PROVE  Pairs'
  BY <1>4, EndStep, GoroutineStep DEF Teardown, Progress
<1>5. ASSUME UNCHANGED <<pc, old, lease, verdict, groups, gen>>
      PROVE  Pairs'
  <2>0. \A g : Members(g)' = Members(g)
    BY <1>5 DEF Members
  <2>1. Membership' /\ Authority'
    <3>1. Authority'
      BY <1>5, <2>0 DEF Inv, Authority
    <3>2. Membership'
      <4>1. Membership
        BY DEF Inv
      <4>2. (\A g \in Legs : \A r \in 1..2 : gen[g].roles[r] # NoLeg =>
               /\ Claims[gen[g].roles[r]].role = r
               /\ Claims[gen[g].roles[r]].key = Claims[g].key
               /\ pc[gen[g].roles[r]] \in {"registered", "returned"}
               /\ g \in Members(g))'
        BY <1>5, <2>0, <4>1, Zenon DEF Membership
      <4>3. (\A g, h \in Legs : \A r, q \in 1..2 :
               gen[g].roles[r] # NoLeg /\ gen[g].roles[r] = gen[h].roles[q] => g = h)'
        BY <1>5, <4>1 DEF Membership
      <4>4. (\A g \in Legs : Members(g) = {} => gen[g] = NewGeneration)'
        BY <1>5, <2>0, <4>1 DEF Membership
      <4>5. (\A l \in Legs : pc[l] \in {"replacing", "awaitOld"} =>
               old[l] \in Legs /\ Members(old[l]) # {})'
        BY <1>5, <2>0, <4>1 DEF Membership
      <4> QED BY <4>2, <4>3, <4>4, <4>5 DEF Membership
    <3> QED BY <3>1, <3>2
  <2>2. Pairing' /\ Leases'
    <3>1. Pairing'
      BY <1>5 DEF Inv, Pairing
    <3>2. Leases'
      BY <1>5, <2>0 DEF Inv, Leases
    <3> QED BY <3>1, <3>2
  <2>3. Verdicts'
    BY <1>5 DEF Inv, Verdicts, Members
  <2> QED BY <2>1, <2>2, <2>3 DEF Pairs
<1>6. ASSUME UNCHANGED vars \/ \E c \in Credentials : Expire(c)
      PROVE  Pairs'
  BY <1>5, <1>6 DEF vars, Expire, serve, quota
<1>7. Pairs'
  BY <1>1, <1>3, <1>4, <1>6, ServeStep DEF Next
<1> QED BY <1>1, <1>2, <1>7 DEF Inv, Pairs

(* The invariant implies what Serve's callers are promised.                 *)
LEMMA InvSafe ==
  ASSUME Inv
  PROVE  OneAuthority /\ PairsMirrored /\ LeaseReleasedOnce /\ SingleVerdict /\ CredentialClaimedOnce
<1>1. \A g \in Legs : Members(g) \subseteq Legs
  BY MembersAreLegs DEF Inv
<1>2. \A g, h \in Legs : g # h => Members(g) \cap Members(h) = {}
  BY Disjoint
<1>3. \A g \in Legs : \A l \in Members(g) : Claims[l].key = Claims[g].key
  BY SMTT(20) DEF Inv, Membership, Members
<1>4. OneAuthority
  <2>1. \A g \in Live : \A l \in Members(g) : groups[Claims[l].key] = g
    BY <1>3 DEF Inv, Authority, Live, finished
  <2>2. \A k \in Keys : groups[k] # NoLeg => groups[k] \in Live
    BY SMTT(20) DEF Inv, TypeOK, Authority, Live, finished
  <2> QED BY <1>2, <2>1, <2>2 DEF OneAuthority
<1>5. PairsMirrored
  <2>1. ASSUME NEW g \in Legs, gen[g].active
        PROVE  /\ gen[g].roles[1] # NoLeg /\ gen[g].roles[2] # NoLeg
               /\ mirrored(Claims[gen[g].roles[1]], Claims[gen[g].roles[2]])
               /\ Claims[gen[g].roles[1]].role = 1 /\ Claims[gen[g].roles[2]].role = 2
    <3>1. Pairing /\ Membership
      BY DEF Inv
    <3>2. /\ gen[g].roles[1] # NoLeg /\ gen[g].roles[2] # NoLeg
          /\ mirrored(Claims[gen[g].roles[1]], Claims[gen[g].roles[2]])
      BY <2>1, <3>1 DEF Pairing
    <3>3. Claims[gen[g].roles[1]].role = 1 /\ Claims[gen[g].roles[2]].role = 2
      <4>1. 1 \in 1..2 /\ 2 \in 1..2
        OBVIOUS
      <4> QED BY <3>1, <3>2, <4>1, Zenon DEF Membership
    <3> QED BY <3>2, <3>3
  <2>2. \A l \in Legs : "success" \in verdict[l] => \E g \in Legs : gen[g].active /\ l \in Members(g)
    BY DEF Inv, Verdicts
  <2> QED BY <2>1, <2>2 DEF PairsMirrored, mirrored
<1>6. LeaseReleasedOnce
  BY <1>1 DEF Inv, Leases, LeaseReleasedOnce, Live, finished
<1>7. SingleVerdict
  BY DEF Inv, Verdicts, SingleVerdict
<1>8. CredentialClaimedOnce
  BY DEF Inv, ClaimsUsed
<1> QED BY <1>4, <1>5, <1>6, <1>7, <1>8
-----------------------------------------------------------------------------
(* The inductive invariant holds in every reachable state of a coordinator  *)
(* with any legs, any claims and any limits.                                *)
THEOREM CoordinatorInvariant == Spec => []Inv
  BY InvInit, InvStep, PTL DEF Spec

(* Serve calls, leases, tables and generations keep their types.            *)
THEOREM CoordinatorTypes == Spec => []TypeOK
<1>1. Inv => TypeOK
  BY DEF Inv
<1> QED BY <1>1, CoordinatorInvariant, PTL

(* Whatever order registrations, replacements, timeouts, cancels and        *)
(* teardowns take, the live generations are exactly those that groups names *)
(* and no leg is in two of them.                                            *)
THEOREM OneAuthorityPerKey == Spec => []OneAuthority
<1>1. Inv => OneAuthority
  BY InvSafe
<1> QED BY <1>1, CoordinatorInvariant, PTL

(* registerClaimed pairs mirrored legs only, and success is sent to no      *)
(* other leg.                                                               *)
THEOREM OnlyMirroredPairs == Spec => []PairsMirrored
<1>1. Inv => PairsMirrored
  BY InvSafe
<1> QED BY <1>1, CoordinatorInvariant, PTL

(* Every lease is released once, by rejectUnregistered's path or by the one *)
(* teardown of its generation, and never under a live pair.                 *)
THEOREM LeasesReleasedOnce == Spec => []LeaseReleasedOnce
<1>1. Inv => LeaseReleasedOnce
  BY InvSafe
<1> QED BY <1>1, CoordinatorInvariant, PTL

(* activate and rejectGeneration never answer the same leg differently.     *)
THEOREM OneVerdictPerLeg == Spec => []SingleVerdict
<1>1. Inv => SingleVerdict
  BY InvSafe
<1> QED BY <1>1, CoordinatorInvariant, PTL

(* No two legs claimed the same credential before it expired.               *)
THEOREM OneClaimPerCredential == Spec => []CredentialClaimedOnce
<1>1. Inv => CredentialClaimedOnce
  BY InvSafe
<1> QED BY <1>1, CoordinatorInvariant, PTL

(* Each leg has one outcome and gives its lease back once.                  *)
THEOREM OneOutcomePerLeg == Spec => []OutcomeOnce
<1>1. Inv => OutcomeOnce
  BY InvSafe DEF OutcomeOnce
<1> QED BY <1>1, CoordinatorInvariant, PTL

-----------------------------------------------------------------------------
(***************************************************************************)
(* The quotas.  A generation counts in one of the two counters while it is *)
(* live: in pendingLegs until it is active, in activePairs from then on.   *)
(* Together with the above this gives the safety of the pairing.           *)
(***************************************************************************)
Waits(g) == Members(g) # {} /\ gen[g].down = "no" /\ ~gen[g].active

Runs(g) == Members(g) # {} /\ gen[g].down = "no" /\ gen[g].active

Waiting == {g \in Legs : Waits(g)}

Running == {g \in Legs : Runs(g)}

(* Each generation knows what it holds of the pending quota, so that detach *)
(* gives back exactly that.                                                 *)
Quota ==
  /\ \A g \in Legs : gen[g].pendingCount = IF Waits(g) THEN 1 ELSE 0
  /\ activePairs = Cardinality(Running) /\ activePairs <= MaxActivePairs
  /\ pendingLegs = Cardinality(Waiting) /\ pendingLegs <= MaxPendingLegs

\* The counted sets are finite, and so are their sizes.
LEMMA CountedFinite ==
  /\ IsFiniteSet(Waiting) /\ Cardinality(Waiting) \in Nat
  /\ IsFiniteSet(Running) /\ Cardinality(Running) \in Nat
<1>1. Waiting \in SUBSET Legs /\ Running \in SUBSET Legs
  BY DEF Waiting, Running
<1> QED BY <1>1, LegsAssumption, FS_Subset, FS_CardinalityType

\* The coordinator starts with both counters at zero.
LEMMA QuotaInit == Init => Quota
<1> SUFFICES ASSUME Init PROVE Quota
  OBVIOUS
<1>1. \A g \in Legs : Members(g) = {} /\ gen[g].pendingCount = 0
  BY DEF Init, Members, NewGeneration
<1>2. Waiting = {} /\ Running = {}
  BY <1>1 DEF Waiting, Running, Waits, Runs
<1>3. Cardinality(Waiting) = 0 /\ Cardinality(Running) = 0
  BY <1>2, FS_EmptySet
<1> QED BY <1>1, <1>3, LimitsAssumption DEF Quota, Waits, Init

\* A step that moves no generation between the counters keeps them exact.
LEMMA QuotaKept ==
  ASSUME Quota, UNCHANGED <<pendingLegs, activePairs>>,
         \A h \in Legs : /\ gen'[h].pendingCount = gen[h].pendingCount
                         /\ gen'[h].active = gen[h].active /\ Members(h)' = Members(h)
                         /\ gen'[h].down = "no" <=> gen[h].down = "no"
  PROVE  Quota'
<1>1. \A h \in Legs : (Waits(h)' <=> Waits(h)) /\ (Runs(h)' <=> Runs(h))
  BY DEF Waits, Runs
<1>2. Waiting' = Waiting /\ Running' = Running
  BY <1>1 DEF Waiting, Running
<1> QED BY <1>1, <1>2 DEF Quota

(* detach takes a live generation out of the one counter it is in.          *)
LEMMA QuotaDetach ==
  ASSUME Inv, Quota, NEW g \in Legs, Members(g) # {}, ~finished(g),
         NEW cause, NEW down \in {"responding", "releasing"}, detach(g, cause, down)
  PROVE  Quota'
<1>1. gen'[g] = Detached(g, cause, down) /\ \A h \in Legs : h # g => gen'[h] = gen[h]
  BY DEF Inv, TypeOK, detach
<1>2. /\ gen'[g].roles = gen[g].roles /\ gen'[g].active = gen[g].active
      /\ gen'[g].pendingCount = 0 /\ gen'[g].down = down /\ gen[g].down = "no"
  BY <1>1 DEF Inv, TypeOK, Detached, Generations, finished
<1>3. \A h \in Legs : h # g => (Waits(h)' <=> Waits(h)) /\ (Runs(h)' <=> Runs(h))
  BY <1>1, Zenon DEF Waits, Runs, Members
<1>4. ~Waits(g)' /\ ~Runs(g)'
  BY <1>2, Zenon DEF Waits, Runs
<1>5. Waiting' = Waiting \ {g} /\ Running' = Running \ {g}
  BY <1>3, <1>4 DEF Waiting, Running
<1>6. /\ Cardinality(Waiting') = IF g \in Waiting THEN Cardinality(Waiting) - 1 ELSE Cardinality(Waiting)
      /\ Cardinality(Running') = IF g \in Running THEN Cardinality(Running) - 1 ELSE Cardinality(Running)
  BY <1>5, CountedFinite, FS_RemoveElement, Zenon
<1>7. /\ g \in Waiting <=> ~gen[g].active
      /\ g \in Running <=> gen[g].active
      /\ gen[g].pendingCount = IF gen[g].active THEN 0 ELSE 1
  BY <1>2, Zenon DEF Waiting, Running, Waits, Runs, Quota
<1>8. \A h \in Legs : gen'[h].pendingCount = IF Waits(h)' THEN 1 ELSE 0
  BY <1>1, <1>2, <1>3, <1>4, Zenon DEF Quota
<1>9. /\ activePairs' = Cardinality(Running') /\ activePairs' <= MaxActivePairs
      /\ pendingLegs' = Cardinality(Waiting') /\ pendingLegs' <= MaxPendingLegs
  BY <1>6, <1>7, CountedFinite, LimitsAssumption, SMTT(30) DEF Quota, detach
<1> QED BY <1>8, <1>9, Zenon DEF Quota

(* registerClaimed counts a leg that waits alone as pending, and moves the  *)
(* generation from one counter to the other when its pair becomes active.   *)
LEMMA QuotaJoin ==
  ASSUME Inv, Quota, NEW l \in Legs, RegisterJoins(l)
  PROVE  Quota'
<1> PICK t \in Legs : t = Target(l)
  BY JoinedFields, Zenon
<1>1. gen'[t] = Joined(l) /\ \A h \in Legs : h # t => gen'[h] = gen[h]
  BY DEF Inv, TypeOK, RegisterJoins
<1>2. gen[t].down = "no" /\ ~gen[t].active /\ gen'[t].down = "no"
  BY <1>1, JoinedFields, Zenon
<1>3. Members(t)' # {}
  <2>1. Claims[l].role \in 1..2 /\ l # NoLeg
    BY ClaimsAssumption, NoLegAssumption
  <2>2. gen[t].roles \in [1..2 -> Legs \cup {NoLeg}]
    BY DEF Inv, TypeOK, Generations
  <2>3. gen'[t].roles[Claims[l].role] = l
    <3>1. gen'[t].roles = [gen[t].roles EXCEPT ![Claims[l].role] = l]
      BY <1>1, JoinedFields, Zenon
    <3> QED BY <2>1, <2>2, <3>1
  <2>4. CASE Claims[l].role = 1
    BY <2>1, <2>3, <2>4 DEF Members
  <2>5. CASE Claims[l].role = 2
    BY <2>1, <2>3, <2>5 DEF Members
  <2> QED BY <2>1, <2>4, <2>5
<1>4. gen[t] \in Generations /\ gen[t].pendingCount = IF Members(t) = {} THEN 0 ELSE 1
  BY <1>2 DEF Inv, TypeOK, Quota, Waits
<1>5. \/ /\ Members(t) = {} /\ Joined(l).pendingCount = 1 /\ ~Joined(l).active
         /\ pendingLegs < MaxPendingLegs
      \/ Members(t) # {} /\ Joined(l).pendingCount = 1 /\ ~Joined(l).active
      \/ /\ Members(t) # {} /\ Joined(l).pendingCount = 0 /\ Joined(l).active
         /\ activePairs < MaxActivePairs
  <2> DEFINE b == [gen[t] EXCEPT !.roles[Claims[l].role] = l]
  <2>1. b \in Generations
    <3>1. Claims[l].role \in 1..2
      BY ClaimsAssumption
    <3> QED BY <1>4, <3>1, FieldTypes, Zenon
  <2>2. b.pendingCount = gen[t].pendingCount /\ b.active = gen[t].active
    BY <1>4 DEF Generations
  <2>3. \/ /\ Members(t) = {} /\ Joined(l) = [b EXCEPT !.pendingCount = 1, !.timer = "armed"]
        \/ /\ Members(t) # {}
           /\ \E v : Joined(l) = [b EXCEPT !.timer = v, !.overCapacity = TRUE]
        \/ /\ Members(t) # {} /\ ~(activePairs >= MaxActivePairs)
           /\ \E v : Joined(l) = [b EXCEPT !.timer = v, !.pendingCount = 0, !.active = TRUE,
                                           !.act = "guards"]
    BY Zenon DEF Joined
  <2>4. Members(t) = {} => pendingLegs < MaxPendingLegs
    BY LimitsAssumption DEF RegisterJoins, NoPendingSlot, Inv, TypeOK
  <2>5. ~(activePairs >= MaxActivePairs) => activePairs < MaxActivePairs
    BY LimitsAssumption DEF Inv, TypeOK
  <2> HIDE DEF b
  <2>6. CASE Members(t) = {} /\ Joined(l) = [b EXCEPT !.pendingCount = 1, !.timer = "armed"]
    BY <1>2, <2>1, <2>2, <2>4, <2>6 DEF Generations
  <2>7. CASE Members(t) # {} /\ \E v : Joined(l) = [b EXCEPT !.timer = v, !.overCapacity = TRUE]
    BY <1>2, <1>4, <2>1, <2>2, <2>7 DEF Generations
  <2>8. CASE /\ Members(t) # {} /\ ~(activePairs >= MaxActivePairs)
             /\ \E v : Joined(l) = [b EXCEPT !.timer = v, !.pendingCount = 0, !.active = TRUE,
                                             !.act = "guards"]
    BY <2>1, <2>5, <2>8 DEF Generations
  <2> QED BY <2>3, <2>6, <2>7, <2>8, Zenon
<1>6. \A h \in Legs : h # t => (Waits(h)' <=> Waits(h)) /\ (Runs(h)' <=> Runs(h))
  BY <1>1 DEF Waits, Runs, Members
<1>7. /\ Waits(t) <=> Members(t) # {}
      /\ ~Runs(t)
      /\ Waits(t)' <=> ~Joined(l).active
      /\ Runs(t)' <=> Joined(l).active
  BY <1>1, <1>2, <1>3 DEF Waits, Runs
<1>8. \A h \in Legs : gen'[h].pendingCount = IF Waits(h)' THEN 1 ELSE 0
  BY <1>1, <1>5, <1>6, <1>7, Zenon DEF Quota
<1>9. /\ pendingLegs' = pendingLegs + Joined(l).pendingCount - gen[t].pendingCount
      /\ activePairs' = IF Joined(l).active THEN activePairs + 1 ELSE activePairs
  BY DEF RegisterJoins
<1>10. CASE ~Joined(l).active
  <2>1. Waiting' = Waiting \cup {t} /\ Running' = Running
    BY <1>6, <1>7, <1>10 DEF Waiting, Running
  <2>2. Cardinality(Waiting') = IF t \in Waiting THEN Cardinality(Waiting) ELSE Cardinality(Waiting) + 1
    BY <2>1, CountedFinite, FS_AddElement, Zenon
  <2>3. t \in Waiting <=> Members(t) # {}
    BY <1>7 DEF Waiting
  <2> QED BY <1>4, <1>5, <1>8, <1>9, <1>10, <2>1, <2>2, <2>3, CountedFinite, LimitsAssumption DEF Quota
<1>11. CASE Joined(l).active
  <2>1. Waiting' = Waiting \ {t} /\ Running' = Running \cup {t}
    BY <1>6, <1>7, <1>11 DEF Waiting, Running
  <2>2. t \in Waiting /\ t \notin Running
    BY <1>5, <1>7, <1>11 DEF Waiting, Running
  <2>3. Cardinality(Waiting') = Cardinality(Waiting) - 1
    BY <2>1, <2>2, CountedFinite, FS_RemoveElement, Zenon
  <2>4. Cardinality(Running') = Cardinality(Running) + 1
    BY <2>1, <2>2, CountedFinite, FS_AddElement, Zenon
  <2> QED BY <1>4, <1>5, <1>8, <1>9, <1>11, <2>3, <2>4, CountedFinite, LimitsAssumption DEF Quota
<1> QED BY <1>10, <1>11

(* Every step keeps the counters exact: only registrations and detach move  *)
(* a generation between them.                                               *)
LEMMA QuotaStep == Inv /\ Quota /\ [Next]_vars => Quota'
<1> SUFFICES ASSUME Inv, Quota, [Next]_vars PROVE Quota'
  OBVIOUS
<1> USE DEF serve, table, quota
<1>1. ASSUME UNCHANGED <<gen, pendingLegs, activePairs>> PROVE Quota'
  <2>1. \A h \in Legs : Members(h)' = Members(h)
    BY <1>1 DEF Members
  <2> QED BY <1>1, <2>1, QuotaKept
<1>2. ASSUME NEW g \in Legs, UNCHANGED <<pendingLegs, activePairs>>,
             NEW x, gen' = [gen EXCEPT ![g] = x], x.roles = gen[g].roles, x.active = gen[g].active,
             x.pendingCount = gen[g].pendingCount, x.down = "no" <=> gen[g].down = "no"
      PROVE  Quota'
  <2>1. gen'[g] = x /\ \A h \in Legs : h # g => gen'[h] = gen[h]
    BY <1>2 DEF Inv, TypeOK
  <2>2. \A h \in Legs : Members(h)' = Members(h)
    BY <1>2, <2>1 DEF Members
  <2> QED BY <1>2, <2>1, <2>2, QuotaKept
<1>3. ASSUME NEW l \in Legs, Register(l)
      PROVE  Quota'
  <2>1. CASE RegisterJoins(l)
    BY <2>1, QuotaJoin
  <2>2. CASE Replace(l)
    <3>1. CASE finished(old[l])
      BY <1>1, <2>2, <3>1 DEF Replace
    <3>2. CASE ~finished(old[l])
      <4>1. old[l] \in Legs /\ Members(old[l]) # {}
        BY <2>2, Zenon DEF Inv, Membership, Replace
      <4>2. \E down \in {"responding", "releasing"} : detach(old[l], "ErrReplaced", down)
        BY <2>2, <3>2, Zenon DEF Replace, rejectGeneration
      <4> QED BY <3>2, <4>1, <4>2, QuotaDetach
    <3> QED BY <3>1, <3>2
  <2>3. CASE RegisterReplayed(l) \/ RegisterDenied(l) \/ RegisterReplaces(l) \/ AwaitOld(l) \/ RegisterAgain(l)
    BY <1>1, <2>3, Zenon DEF RegisterReplayed, RegisterDenied, RegisterReplaces, AwaitOld, RegisterAgain
  <2> QED BY <1>3, <2>1, <2>2, <2>3 DEF Register
<1>4. ASSUME NEW g \in Legs,
             \/ RespondReject(g) \/ CloseLegs(g) \/ TimerFires(g) \/ SendSuccess(g) \/ StartBridge(g)
             \/ ActivationOver(g) /\ finished(g)
      PROVE  Quota'
  <2>1. gen[g] \in Generations
    BY DEF Inv, TypeOK
  <2>2. PICK x : /\ gen' = [gen EXCEPT ![g] = x] /\ UNCHANGED <<pendingLegs, activePairs>>
                 /\ \/ \E v : x = [gen[g] EXCEPT !.act = v]
                    \/ \E v : x = [gen[g] EXCEPT !.timer = v]
                    \/ gen[g].down # "no" /\ \E v : v # "no" /\ x = [gen[g] EXCEPT !.down = v]
    <3>1. CASE RespondReject(g) \/ CloseLegs(g)
      <4>1. gen[g].down # "no" /\ \E v : v # "no" /\ gen' = [gen EXCEPT ![g] = [gen[g] EXCEPT !.down = v]]
        BY <3>1 DEF RespondReject, CloseLegs
      <4> QED BY <3>1, <4>1, Zenon DEF RespondReject, CloseLegs
    <3>2. CASE TimerFires(g)
      BY <3>2, Zenon DEF TimerFires
    <3>3. CASE SendSuccess(g) \/ StartBridge(g) \/ (ActivationOver(g) /\ finished(g))
      BY <3>3, Zenon DEF SendSuccess, StartBridge, ActivationOver
    <3> QED BY <1>4, <3>1, <3>2, <3>3
  <2>3. /\ x.roles = gen[g].roles /\ x.active = gen[g].active /\ x.pendingCount = gen[g].pendingCount
        /\ x.down = "no" <=> gen[g].down = "no"
    BY <2>1, <2>2 DEF Generations
  <2> QED BY <1>2, <2>2, <2>3, Zenon
<1>5. ASSUME NEW g \in Legs,
             \/ PairTimeout(g) \/ OverCapacity(g)
             \/ \E l \in Legs : ContextDone(g, l) \/ GuardFails(g, l)
             \/ ActivationOver(g) /\ ~finished(g)
      PROVE  Quota'
  <2>1. ~finished(g) /\ \E cause, down : down \in {"responding", "releasing"} /\ detach(g, cause, down)
    BY <1>5 DEF PairTimeout, OverCapacity, ContextDone, GuardFails, ActivationOver, rejectGeneration, finish
  <2>2. Members(g) # {}
    BY <1>5, Touched DEF PairTimeout, OverCapacity, ContextDone, GuardFails, ActivationOver
  <2> QED BY <2>1, <2>2, QuotaDetach
<1>6. ASSUME NEW l \in Legs,
             \/ ReceiveFails(l) \/ Unauthorized(l) \/ Authorized(l) \/ Reject(l) \/ ServeReturns(l)
             \/ CancelContext(l)
      PROVE  Quota'
  BY <1>1, <1>6, Zenon DEF ReceiveFails, Unauthorized, Authorized, Reject, ServeReturns, CancelContext
<1>7. ASSUME UNCHANGED vars \/ \E c \in Credentials : Expire(c)
      PROVE  Quota'
  BY <1>1, <1>7 DEF vars, Expire
<1> QED BY <1>3, <1>4, <1>5, <1>6, <1>7 DEF Next, Teardown, Progress

(* No timeout, cancel, replacement or failed activation leaks a slot of     *)
(* either quota or gives one back twice, and releaseActivePairLocked never  *)
(* finds the counter at zero.                                               *)
THEOREM QuotaIsExact == Spec => []QuotaExact
<1>1. Spec => []Quota
  BY QuotaInit, QuotaStep, CoordinatorInvariant, PTL DEF Spec
<1>2. Quota => QuotaExact
  <2>1. {g \in Live : gen[g].active} = Running /\ {g \in Live : ~gen[g].active} = Waiting
    BY DEF Live, finished, Running, Waiting, Runs, Waits
  <2> QED BY <2>1, Zenon DEF Quota, QuotaExact
<1> QED BY <1>1, <1>2, PTL

(* registerClaimed, detach and the purge of the used table keep the pairing *)
(* safe: types, authority, mirrored pairs, single claims and exact quotas.  *)
THEOREM PairingIsSafe == Spec => []PairingSafe
<1>1. Inv /\ QuotaExact => PairingSafe
  BY InvSafe DEF Inv, PairingSafe
<1> QED BY <1>1, CoordinatorInvariant, QuotaIsExact, PTL
=============================================================================
