------------------------------ MODULE MCTunnel ------------------------------
(***************************************************************************)
(* The tunnel on small instances: the coordinator on five sets of legs     *)
(* and the bridge. Every behaviour runs one of them, "part"; the others    *)
(* stay in their initial states. The legs of part "coordinator" are the    *)
(* ones the configuration names.                                           *)
(***************************************************************************)
EXTENDS TunnelCoordinator

CONSTANTS c1, s1, c2, s2

Leg(key, role, endpoint, peer, cred, replace) ==
  [key |-> key, contract |-> "h", role |-> role, endpoint |-> endpoint, peer |-> peer,
   cred |-> cred, replace |-> replace]

\* A pair, and a second pair for the same key that may replace it.
Replacement ==
  [l \in Legs |-> CASE l = c1 -> Leg("k", 1, "C", "S", "c1", FALSE)
                    [] l = s1 -> Leg("k", 2, "S", "C", "s1", FALSE)
                    [] l = c2 -> Leg("k", 1, "C", "S", "c2", TRUE)
                    [] l = s2 -> Leg("k", 2, "S", "C", "s2", TRUE)]

\* Two pairs with keys of their own, which compete for the quotas.
TwoKeys ==
  [l \in Legs |-> CASE l = c1 -> Leg("k", 1, "C", "S", "c1", FALSE)
                    [] l = s1 -> Leg("k", 2, "S", "C", "s1", FALSE)
                    [] l = c2 -> Leg("j", 1, "D", "T", "c2", FALSE)
                    [] l = s2 -> Leg("j", 2, "T", "D", "s2", FALSE)]

\* A pair, a replay of its client credential, and a server for another client.
Strangers ==
  [l \in Legs |-> CASE l = c1 -> Leg("k", 1, "C", "S", "c1", FALSE)
                    [] l = s1 -> Leg("k", 2, "S", "C", "s1", FALSE)
                    [] l = c2 -> Leg("k", 1, "C", "S", "c1", TRUE)
                    [] l = s2 -> Leg("k", 2, "T", "C", "s2", FALSE)]

VARIABLES
  part,
  pc2, claimed2, old2, ctxDone2, lease2, verdict2, used2, expired2, groups2, gen2, pendingLegs2, activePairs2,
  leg, arrive, bridge, loop, pair

\* A pair that a further client may replace, and a waiting client that a pair may replace.
Paired == {c1, s1, c2}
R == INSTANCE TunnelCoordinator WITH
       Legs <- Paired, Claims <- [l \in Paired |-> Replacement[l]], Guarded <- {},
       MaxPendingLegs <- 1, MaxActivePairs <- 1, MayFail <- {}, MayCancel <- {}, MayExpire <- {},
       pc <- pc2, claimed <- claimed2, old <- old2, ctxDone <- ctxDone2, lease <- lease2, verdict <- verdict2,
       used <- used2, expired <- expired2, groups <- groups2, gen <- gen2,
       pendingLegs <- pendingLegs2, activePairs <- activePairs2

Waiting == {c1, c2, s2}
W == INSTANCE TunnelCoordinator WITH
       Legs <- Waiting, Claims <- [l \in Waiting |-> Replacement[l]], Guarded <- {},
       MaxPendingLegs <- 1, MaxActivePairs <- 1, MayFail <- {}, MayCancel <- {}, MayExpire <- {},
       pc <- pc2, claimed <- claimed2, old <- old2, ctxDone <- ctxDone2, lease <- lease2, verdict <- verdict2,
       used <- used2, expired <- expired2, groups <- groups2, gen <- gen2,
       pendingLegs <- pendingLegs2, activePairs <- activePairs2

\* Two pairs that compete for the quotas, with fair goroutines.
Q == INSTANCE TunnelCoordinator WITH
       Claims <- TwoKeys, Guarded <- {}, MaxPendingLegs <- 1, MaxActivePairs <- 1,
       MayFail <- {}, MayCancel <- {}, MayExpire <- {},
       pc <- pc2, claimed <- claimed2, old <- old2, ctxDone <- ctxDone2, lease <- lease2, verdict <- verdict2,
       used <- used2, expired <- expired2, groups <- groups2, gen <- gen2,
       pendingLegs <- pendingLegs2, activePairs <- activePairs2

\* The pair and the replay of its client credential, which may expire.
Replay == {c1, s1, c2}
E == INSTANCE TunnelCoordinator WITH
       Legs <- Replay, Claims <- [l \in Replay |-> Strangers[l]], Guarded <- {},
       MaxPendingLegs <- 2, MaxActivePairs <- 1, MayFail <- {}, MayCancel <- {}, MayExpire <- {"c1"},
       pc <- pc2, claimed <- claimed2, old <- old2, ctxDone <- ctxDone2, lease <- lease2, verdict <- verdict2,
       used <- used2, expired <- expired2, groups <- groups2, gen <- gen2,
       pendingLegs <- pendingLegs2, activePairs <- activePairs2

B == INSTANCE TunnelBridge WITH Streams <- {1, 2}, MaxConcurrentStreams <- 1, Legs <- {"client", "server"}

coordVars == <<pc2, claimed2, old2, ctxDone2, lease2, verdict2, used2, expired2, groups2, gen2, pendingLegs2, activePairs2>>
bridgeVars == <<leg, arrive, bridge, loop, pair>>

-----------------------------------------------------------------------------
TunnelInit ==
  /\ part \in {"coordinator", "replacement", "takeover", "expiry", "quota", "bridge"}
  /\ Init /\ B!Init
  /\ CASE part = "quota" -> Q!Init [] part = "expiry" -> E!Init [] part = "takeover" -> W!Init [] OTHER -> R!Init

TunnelNext ==
  /\ UNCHANGED part
  /\ IF part = "coordinator" THEN Next ELSE UNCHANGED vars
  /\ \/ part = "replacement" /\ R!Next
     \/ part = "takeover" /\ W!Next
     \/ part = "expiry" /\ E!Next
     \/ part = "quota" /\ Q!Next
     \/ part \in {"coordinator", "bridge"} /\ UNCHANGED coordVars
  /\ IF part = "bridge" THEN B!Next ELSE UNCHANGED bridgeVars

\* Legs and the tasks of the bridge are goroutines that keep running. A behaviour runs one part, so that one condition
\* serves a task of either of them.
QuotaLeg(l) ==
  /\ part = "quota" /\ UNCHANGED bridgeVars
  /\ Q!Register(l) \/ Q!Reject(l) \/ Q!ServeReturns(l) \/ Q!Teardown(l) \/ Q!Progress(l)
Bridged(A) == part = "bridge" /\ UNCHANGED coordVars /\ A

tasks == <<coordVars, bridgeVars>>
TunnelFairness ==
  /\ WF_tasks(QuotaLeg(c1) \/ Bridged(B!SpliceSteps(1))) /\ WF_tasks(QuotaLeg(s1) \/ Bridged(B!SpliceSteps(2)))
  /\ WF_tasks(QuotaLeg(c2) \/ Bridged(B!LoopSteps("client")))
  /\ WF_tasks(QuotaLeg(s2) \/ Bridged(B!LoopSteps("server")))
  /\ WF_tasks(Bridged(B!BridgeSteps))

TunnelSpec ==
  /\ TunnelInit /\ [][TunnelNext]_<<part, vars, coordVars, bridgeVars>>
  /\ TunnelFairness

-----------------------------------------------------------------------------
\* The coordinator keeps its promises on the other sets of legs too. A replacement leaves one authoritative
\* generation, releases every lease once and never answers a leg twice (registerClaimed, rejectGeneration). An expired
\* credential opens the way neither for a replay of another one nor for a second pair of the key (registerClaimed
\* sweeps the used table first). The quotas stay exact while two pairs compete for the last slot (detach).
VariantsSafe ==
  /\ part = "replacement" => R!PairingSafe /\ R!OutcomeOnce
  /\ part = "takeover" => W!PairingSafe /\ W!OutcomeOnce
  /\ part = "expiry" => E!PairingSafe /\ E!OutcomeOnce
  /\ part = "quota" => Q!PairingSafe /\ Q!OutcomeOnce

\* The bridge gives back what it takes. Every spliced data stream and every loop about to open one holds a slot of
\* the semaphore, so that failed opens and resets never shrink it (every path of acceptLoop); a stream that reaches
\* the native leg after its guard was told to stop is handed over, not reset, for it is the control stream (leg.go);
\* and when Bridge returns because its tasks are done none runs. One case is excepted, and no other: the control pair
\* was over before tasks.Add(2) counted the accept loops, so that their end closes the done channel a second time,
\* and the process crashes (taskGroup.Done).
BridgeSafe ==
  part = "bridge" => B!TypeOK /\ B!SemaphoreExact /\ B!LateStreamKept /\ B!TasksOver /\ B!CrashOnlyEarly

\* The failure of a data stream, or of opening its counterpart, never ends the bridge: its context ends with the
\* caller, the control pair, or at the start.
DataFailuresScoped == B!DataFailuresScoped

\* A Serve call that neither returned nor has its pair bridged, and a bridge that was told to end and has not.
TunnelOwed == \/ part = "quota" /\ Q!ServeOwed
              \/ part = "bridge" /\ B!BridgeOwed

\* Nothing is owed for ever: every Serve call returns or has its pair bridged, also for the pair that finds the quota
\* exhausted; once the caller cancels, the control pair fails or a leg is lost, every task ends and Bridge returns,
\* or the process has crashed in the one case BridgeSafe admits.
TunnelEnds == TunnelOwed ~> ~TunnelOwed
=============================================================================
