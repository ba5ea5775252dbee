--------------------------- MODULE ConnectorProofs ---------------------------
(***************************************************************************)
(* Proofs about one-shot Connect calls, for every number of calls that     *)
(* share a lease, of candidates and of crashes: an artifact is spent once. *)
(***************************************************************************)
EXTENDS Connector, FiniteSetTheorems, TLAPS

Running == {"barrier", "begun", "dialing", "dialed", "report"}
Won == {"winner", "spend", "spending", "recorded", "admit", "admitting", "handshake"}
Spending == {"spending", "recorded"}
Admitted == {"admit", "admitting", "handshake"}

CallStates ==
  [pc : Won \cup {"out", "race", "aborting", "failed", "returned"},
   ctx : {"live", "done"}, race : {"live", "canceled"},
   cleanup : {"live", "deadline", "canceled"}, winner : Candidates \cup {None}, left : Int,
   results : Seq(Candidates), closeErr : BOOLEAN, outcome : {"none", "session", "failed"}]

Attempts ==
  [ready : Running \cup {"none", "over"}, abort : {"none", "start", "await", "close", "ok", "failed"},
   used : BOOLEAN, done : BOOLEAN, aborted : BOOLEAN, wire : {"none", "open", "closed", "stuck"},
   prepared : BOOLEAN, dropped : BOOLEAN]

(* The types of the locals of Connect, of its attempts, of the lease and of *)
(* the durable state; only usable candidates are tried.                     *)
Types ==
  /\ scenario \in Scenarios
  /\ conn \in [Calls -> CallStates]
  /\ cand \in [Calls -> [Candidates -> Attempts]]
  /\ lease \in [spending : Calls \cup {None}, consumed : BOOLEAN]
  /\ durable \in [spent : BOOLEAN, written : Nat, expired : BOOLEAN, crashes : Nat]
  /\ \A k \in Calls, c \in Candidates : cand[k][c].ready # "none" => c \in scenario.usable[k]

(* Ready and Abort of one attempt: which of the two closes the carrier.     *)
AttemptOK(a) ==
  /\ a.ready \in {"none", "barrier", "begun", "dialing"} => a.wire = "none"
  /\ a.ready = "none" => a.abort = "none"
  /\ a.ready = "dialed" => a.wire = "open"
  /\ a.ready \in {"begun", "dialing", "dialed"} \/ a.prepared => a.used
  /\ a.prepared => a.ready \in {"report", "over"} /\ a.wire # "none"
  /\ a.ready \in {"report", "over"} /\ ~a.prepared => Closed(a)
  /\ a.abort \in {"await", "close", "ok"} => a.aborted
  /\ a.abort = "close" => a.prepared
  /\ a.abort = "ok" /\ a.prepared => a.wire = "closed"

(* The attempts that left still counts.                                     *)
Unreported(x, y) ==
  {c \in Candidates : y[c].ready \in Running \/ \E i \in DOMAIN x.results : x.results[i] = c}

(* Nobody but the winner has a dial or a carrier that was not closed, or    *)
(* will have one.                                                           *)
Settled(x, y) ==
  \A c \in Candidates : c # x.winner =>
    y[c].ready \in {"none", "over"} /\ Closed(y[c]) /\ y[c].abort \in {"none", "ok"}

(* One call x with its attempts y.                                          *)
ResultsOK(x, y) ==
  /\ \A i \in DOMAIN x.results : y[x.results[i]].ready = "over"
  /\ \A i, j \in DOMAIN x.results : x.results[i] = x.results[j] => i = j
  /\ x.left \in 0..Cardinality(Candidates)
  /\ x.pc = "race" => x.left = Cardinality(Unreported(x, y))

RaceOK(x, y) ==
  /\ x.pc = "out" => x = NewCall /\ y = [c \in Candidates |-> NewAttempt]
  /\ x.pc = "race" => x.winner = None /\ \A c \in Candidates : y[c].abort = "none"
  /\ x.pc \in {"out", "race", "aborting"} => x.cleanup # "canceled"
  /\ x.winner # None =>
       y[x.winner].ready = "over" /\ y[x.winner].prepared /\ y[x.winner].abort = "none"
  /\ x.pc \in Won => x.winner # None /\ ~x.closeErr
  /\ x.pc = "returned" => x.winner = None
  /\ x.pc # "returned" => x.outcome = "none"
  /\ x.pc \in Won \cup {"failed", "returned"} /\ ~x.closeErr /\ x.outcome # "session" => Settled(x, y)

CallOK(x, y) == ResultsOK(x, y) /\ RaceOK(x, y) /\ \A c \in Candidates : AttemptOK(y[c])

(* The lease and the durable record.  A lease that is being spent is not    *)
(* consumed and knows its spender; a consumed one has at most one call that *)
(* may still write the credential; and when it was written, either the      *)
(* lease is consumed or the process crashed and no call has begun since.    *)
SpendOK ==
  /\ \A k \in Calls : lease.spending = k <=> conn[k].pc \in Spending
  /\ lease.spending # None => ~lease.consumed
  /\ \A k \in Calls : conn[k].pc \in Admitted => lease.consumed
  /\ \A k \in Calls : conn[k].pc \in Admitted \cup {"recorded"} => durable.spent
  /\ lease.consumed => durable.spent
  /\ \A j, k \in Calls : conn[j].pc = "admit" /\ conn[k].pc = "admit" => j = k
  /\ \A k \in Calls : conn[k].pc = "admit" => durable.written = 0
  /\ durable.written \in {0, 1}
  /\ durable.written = 1 => durable.spent /\ (lease.consumed \/ \A k \in Calls : conn[k].pc = "out")

ConnectorInv == Types /\ (\A k \in Calls : CallOK(conn[k], cand[k])) /\ SpendOK
-----------------------------------------------------------------------------
\* The constants, as the lemmas use them.
LEMMA Constants ==
  /\ IsFiniteSet(Calls) /\ IsFiniteSet(Candidates)
  /\ None \notin Calls /\ None \notin Candidates
  /\ \A x \in Scenarios : x.usable \in [Calls -> SUBSET Candidates]
  BY ConnectorAssumption

\* An assignment to the locals of one call.
LEMMA CallSet ==
  ASSUME Types, NEW k \in Calls, NEW r \in CallStates, SetCall(k, r)
  PROVE  /\ conn' \in [Calls -> CallStates] /\ conn'[k] = r
         /\ \A j \in Calls \ {k} : conn'[j] = conn[j]
  BY DEF Types, SetCall

\* An assignment to one attempt.
LEMMA AttemptSet ==
  ASSUME Types, NEW k \in Calls, NEW c \in Candidates, NEW a \in Attempts, SetAttempt(k, c, a)
  PROVE  /\ cand' \in [Calls -> [Candidates -> Attempts]]
         /\ cand'[k] = [cand[k] EXCEPT ![c] = a]
         /\ \A j \in Calls \ {k} : cand'[j] = cand[j]
  BY DEF Types, SetAttempt

\* A step of Ready or Abort of one attempt that is not over.
LEMMA AttemptStep ==
  ASSUME NEW x \in CallStates, NEW y \in [Candidates -> Attempts], CallOK(x, y),
         NEW c \in Candidates, NEW a \in Attempts, AttemptOK(a),
         y[c].ready \in Running \/ y[c].abort \in {"start", "await", "close"},
         y[c].ready \in Running <=> a.ready \in Running,
         y[c].ready \notin Running => a.ready = y[c].ready,
         y[c].abort = "none" => a.abort = "none"
  PROVE  CallOK(x, [y EXCEPT ![c] = a])
<1> DEFINE z == [y EXCEPT ![c] = a]
<1>1. z \in [Candidates -> Attempts] /\ z[c] = a /\ \A d \in Candidates \ {c} : z[d] = y[d]
  OBVIOUS
<1>2. y[c].ready # "none" /\ x.pc # "out"
  BY DEF CallOK, RaceOK, AttemptOK, NewAttempt, Running
<1> HIDE DEF z
<1>3. \A d \in Candidates : AttemptOK(z[d])
  BY <1>1 DEF CallOK
<1>4. Unreported(x, z) = Unreported(x, y)
  BY <1>1 DEF Unreported
<1>5. ResultsOK(x, z)
  <2>1. \A i \in DOMAIN x.results : x.results[i] \in Candidates
    BY DEF CallStates
  <2>2. \A i \in DOMAIN x.results : z[x.results[i]].ready = "over"
    BY <1>1, <2>1 DEF CallOK, ResultsOK, Running
  <2> QED BY <2>2, <1>4 DEF CallOK, ResultsOK
<1>6. RaceOK(x, z)
  <2>1. x.winner # None => c # x.winner
    BY DEF CallOK, RaceOK, Running
  <2>2. x.winner # None => z[x.winner] = y[x.winner]
    BY <1>1, <2>1 DEF CallStates
  <2>3. x.pc \in Won \cup {"failed", "returned"} /\ ~x.closeErr /\ x.outcome # "session" => FALSE
    BY <2>1, Constants DEF CallOK, RaceOK, Settled, Running
  <2>4. x.pc = "race" => \A d \in Candidates : z[d].abort = "none"
    BY <1>1 DEF CallOK, RaceOK
  <2>5. x.pc = "race" => x.winner = None
    BY DEF CallOK, RaceOK
  <2> QED BY <1>2, <2>2, <2>3, <2>4, <2>5 DEF CallOK, RaceOK
<1> QED BY <1>3, <1>5, <1>6 DEF CallOK, z

\* The inductive invariant only looks at the program counters for the lease.
LEMMA SamePcs ==
  ASSUME SpendOK, \A j \in Calls : conn'[j].pc = conn[j].pc, UNCHANGED <<lease, durable>>
  PROVE  SpendOK'
  BY DEF SpendOK

LEMMA AttemptOnly ==
  ASSUME ConnectorInv, NEW k \in Calls, NEW c \in Candidates, NEW a \in Attempts, AttemptOK(a),
         SetAttempt(k, c, a), UNCHANGED <<scenario, conn, lease, durable>>,
         cand[k][c].ready \in Running \/ cand[k][c].abort \in {"start", "await", "close"},
         cand[k][c].ready \in Running <=> a.ready \in Running,
         cand[k][c].ready \notin Running => a.ready = cand[k][c].ready,
         cand[k][c].abort = "none" => a.abort = "none"
  PROVE  ConnectorInv'
<1>1. Types /\ conn[k] \in CallStates /\ cand[k] \in [Candidates -> Attempts] /\ CallOK(conn[k], cand[k])
  BY DEF ConnectorInv, Types
<1>2. /\ cand' \in [Calls -> [Candidates -> Attempts]]
      /\ cand'[k] = [cand[k] EXCEPT ![c] = a]
      /\ \A j \in Calls \ {k} : cand'[j] = cand[j]
  BY <1>1, AttemptSet
<1>3. CallOK(conn[k], cand'[k])
  BY <1>1, <1>2, AttemptStep
<1>4. \A j \in Calls : CallOK(conn'[j], cand'[j])
  BY <1>2, <1>3 DEF ConnectorInv
<1>5. cand[k][c].ready # "none"
  BY <1>1 DEF CallOK, AttemptOK, Running
<1>6. Types'
  <2>1. \A j \in Calls, d \in Candidates : cand'[j][d].ready # "none" => cand[j][d].ready # "none"
    BY <1>1, <1>2, <1>5 DEF Types
  <2> QED BY <1>1, <1>2, <2>1 DEF Types
<1>7. SpendOK'
  BY SamePcs DEF ConnectorInv
<1> QED BY <1>4, <1>6, <1>7 DEF ConnectorInv

LEMMA AttemptTyped ==
  ASSUME ConnectorInv, NEW k \in Calls, NEW c \in Candidates
  PROVE  cand[k][c] \in Attempts /\ AttemptOK(cand[k][c])
  BY DEF ConnectorInv, Types, CallOK

(* Ready, up to its result: dialing, and the carrier that arrives late.     *)
LEMMA ReadyKeeps ==
  ASSUME ConnectorInv, NEW k \in Calls, NEW c \in Candidates,
         ReadyStarts(k, c) \/ ReadyChecks(k, c) \/ DialReturns(k, c) \/ ReadyReturns(k, c)
  PROVE  ConnectorInv'
<1> DEFINE a == cand[k][c]
<1>1. a \in Attempts /\ AttemptOK(a)
  BY AttemptTyped
<1>2. CASE ReadyStarts(k, c)
  <2>1. PICK b \in {[a EXCEPT !.ready = "begun", !.used = TRUE], [a EXCEPT !.ready = "report"]} :
          SetAttempt(k, c, b)
    BY <1>2 DEF ReadyStarts
  <2>2. b \in Attempts /\ AttemptOK(b) /\ b.ready \in Running /\ b.abort = a.abort /\ a.ready \in Running
    BY <1>1, <1>2, Zenon DEF ReadyStarts, Attempts, AttemptOK, Closed, Running
  <2> QED BY <1>2, <2>1, <2>2, AttemptOnly DEF ReadyStarts
<1>3. CASE ReadyChecks(k, c)
  <2>1. PICK b \in {[a EXCEPT !.ready = "report", !.done = TRUE], [a EXCEPT !.ready = "dialing"]} :
          SetAttempt(k, c, b)
    BY <1>3 DEF ReadyChecks
  <2>2. b \in Attempts /\ AttemptOK(b) /\ b.ready \in Running /\ b.abort = a.abort /\ a.ready \in Running
    BY <1>1, <1>3, Zenon DEF ReadyChecks, Attempts, AttemptOK, Closed, Running
  <2> QED BY <1>3, <2>1, <2>2, AttemptOnly DEF ReadyChecks
<1>4. CASE DialReturns(k, c)
  <2>1. PICK b \in {[a EXCEPT !.ready = "report", !.done = TRUE], [a EXCEPT !.ready = "dialed", !.wire = "open"]} :
          SetAttempt(k, c, b)
    BY <1>4 DEF DialReturns
  <2>2. b \in Attempts /\ AttemptOK(b) /\ b.ready \in Running /\ b.abort = a.abort /\ a.ready \in Running
    BY <1>1, <1>4, ZenonT(60) DEF DialReturns, Attempts, AttemptOK, Closed, Running
  <2> QED BY <1>4, <2>1, <2>2, AttemptOnly DEF DialReturns
<1>5. CASE ReadyReturns(k, c)
  <2>0. PICK l \in lateCarrier(a) : SetAttempt(k, c, [l EXCEPT !.ready = "report", !.done = TRUE])
    BY <1>5, Zenon DEF ReadyReturns
  <2> DEFINE b == [l EXCEPT !.ready = "report", !.done = TRUE]
  <2>1. b \in Attempts /\ AttemptOK(b) /\ b.ready \in Running /\ b.abort = a.abort /\ a.ready \in Running
    <3>1. a.ready = "dialed"
      BY <1>5, Zenon DEF ReadyReturns
    <3>2. CASE a.aborted /\ l = [a EXCEPT !.wire = "closed"]
      BY <1>1, <3>1, <3>2, Zenon DEF Attempts, AttemptOK, Running, Closed
    <3>3. CASE a.aborted /\ l = [a EXCEPT !.wire = "stuck", !.dropped = TRUE]
      BY <1>1, <3>1, <3>3, Zenon DEF Attempts, AttemptOK, Running, Closed
    <3>4. CASE ~a.aborted /\ l = [a EXCEPT !.prepared = TRUE]
      BY <1>1, <3>1, <3>4, Zenon DEF Attempts, AttemptOK, Running, Closed
    <3> QED BY <2>0, <3>2, <3>3, <3>4, Zenon DEF lateCarrier
  <2> QED BY <1>5, <2>0, <2>1, AttemptOnly, Zenon DEF ReadyReturns
<1> QED BY <1>2, <1>3, <1>4, <1>5

(* Abort marks the attempt, waits for Ready and closes what it prepared.    *)
LEMMA AbortKeeps ==
  ASSUME ConnectorInv, NEW k \in Calls, NEW c \in Candidates,
         AbortMarks(k, c) \/ AbortAwaits(k, c) \/ AbortCloses(k, c)
  PROVE  ConnectorInv'
<1> DEFINE a == cand[k][c]
<1>1. a \in Attempts /\ AttemptOK(a)
  BY AttemptTyped
<1>2. CASE AbortMarks(k, c)
  <2> DEFINE b == [a EXCEPT !.aborted = TRUE, !.abort = afterAborted(a)]
  <2>1. b \in Attempts /\ AttemptOK(b) /\ b.ready = a.ready
    BY <1>1, <1>2, Zenon DEF AbortMarks, Attempts, AttemptOK, Closed, afterAborted
  <2> QED BY <1>2, <2>1, AttemptOnly, Zenon DEF AbortMarks
<1>3. CASE AbortAwaits(k, c)
  <2>1. PICK b \in {[a EXCEPT !.abort = IF a.prepared THEN "close" ELSE "ok"], [a EXCEPT !.abort = "failed"]} :
          SetAttempt(k, c, b)
    BY <1>3 DEF AbortAwaits
  <2>2. b \in Attempts /\ AttemptOK(b) /\ b.ready = a.ready
    BY <1>1, <1>3 DEF AbortAwaits, Attempts, AttemptOK, Closed
  <2> QED BY <1>3, <2>1, <2>2, AttemptOnly DEF AbortAwaits
<1>4. CASE AbortCloses(k, c)
  <2>1. PICK b \in {[a EXCEPT !.wire = "closed", !.abort = "ok"], [a EXCEPT !.wire = "stuck", !.abort = "failed"]} :
          SetAttempt(k, c, b)
    BY <1>4 DEF AbortCloses
  <2>2. b \in Attempts /\ AttemptOK(b) /\ b.ready = a.ready
    BY <1>1, <1>4, Zenon DEF AbortCloses, Attempts, AttemptOK, Closed
  <2> QED BY <1>4, <2>1, <2>2, AttemptOnly DEF AbortCloses
<1> QED BY <1>2, <1>3, <1>4

-----------------------------------------------------------------------------
\* A step of one call: the other calls keep what they have.
LEMMA OneCall ==
  ASSUME ConnectorInv, NEW k \in Calls, scenario' = scenario,
         conn' \in [Calls -> CallStates], \A j \in Calls \ {k} : conn'[j] = conn[j],
         cand' \in [Calls -> [Candidates -> Attempts]], \A j \in Calls \ {k} : cand'[j] = cand[j],
         \A c \in Candidates : cand'[k][c].ready # "none" => c \in scenario.usable[k],
         lease' \in [spending : Calls \cup {None}, consumed : BOOLEAN],
         durable' \in [spent : BOOLEAN, written : Nat, expired : BOOLEAN, crashes : Nat],
         CallOK(conn'[k], cand'[k]), SpendOK'
  PROVE  ConnectorInv'
<1>1. \A j \in Calls : CallOK(conn'[j], cand'[j])
  BY DEF ConnectorInv
<1>2. \A j \in Calls, c \in Candidates : cand'[j][c].ready # "none" => c \in scenario.usable[j]
  BY DEF ConnectorInv, Types
<1>3. Types'
  BY <1>2 DEF ConnectorInv, Types
<1> QED BY <1>1, <1>3 DEF ConnectorInv

\* The same for a call that leaves its attempts alone.
LEMMA CallOnly ==
  ASSUME ConnectorInv, NEW k \in Calls, NEW r \in CallStates, SetCall(k, r), UNCHANGED <<scenario, cand>>,
         lease' \in [spending : Calls \cup {None}, consumed : BOOLEAN],
         durable' \in [spent : BOOLEAN, written : Nat, expired : BOOLEAN, crashes : Nat],
         CallOK(r, cand[k]), SpendOK'
  PROVE  ConnectorInv'
<1>1. Types
  BY DEF ConnectorInv
<1>2. conn' \in [Calls -> CallStates] /\ conn'[k] = r /\ \A j \in Calls \ {k} : conn'[j] = conn[j]
  BY <1>1, CallSet
<1> QED BY <1>1, <1>2, OneCall DEF Types

\* A call that neither spends nor admits before or after its step.
LEMMA PcMoves ==
  ASSUME SpendOK, NEW k \in Calls, \A j \in Calls \ {k} : conn'[j] = conn[j], UNCHANGED <<lease, durable>>,
         conn[k].pc \notin Spending, conn'[k].pc \notin Spending,
         conn'[k].pc \in Admitted => conn[k].pc \in Admitted,
         conn'[k].pc = "admit" => conn[k].pc = "admit",
         conn[k].pc = "out" => (durable.spent => lease.consumed \/ lease.spending # None),
         None \notin Calls, lease.spending \in Calls \cup {None}
  PROVE  SpendOK'
<1>1. \A j \in Calls : /\ conn'[j].pc \in Spending <=> conn[j].pc \in Spending
                       /\ conn'[j].pc \in Admitted => conn[j].pc \in Admitted
                       /\ conn'[j].pc = "admit" => conn[j].pc = "admit"
                       /\ conn'[j].pc = "recorded" => conn[j].pc = "recorded"
  BY DEF Spending
<1>2. durable.written = 1 => lease.consumed \/ \A j \in Calls : conn'[j].pc = "out"
  <2>1. CASE conn[k].pc = "out"
    BY <2>1 DEF SpendOK, Spending
  <2>2. CASE conn[k].pc # "out"
    BY <2>2 DEF SpendOK
  <2> QED BY <2>1, <2>2
<1>3. \A j \in Calls : conn'[j].pc \in Admitted \cup {"recorded"} => durable.spent
  BY <1>1 DEF SpendOK
<1> QED BY <1>1, <1>2, <1>3 DEF SpendOK

\* What the code knows of a call before its next step.
LEMMA CallTyped ==
  ASSUME ConnectorInv, NEW k \in Calls
  PROVE  /\ Types /\ SpendOK /\ conn[k] \in CallStates /\ cand[k] \in [Candidates -> Attempts]
         /\ CallOK(conn[k], cand[k])
         /\ lease \in [spending : Calls \cup {None}, consumed : BOOLEAN]
         /\ durable \in [spent : BOOLEAN, written : Nat, expired : BOOLEAN, crashes : Nat]
         /\ \A c \in Candidates : cand[k][c].ready # "none" => c \in scenario.usable[k]
         /\ None \notin Calls /\ None \notin Candidates
  BY Constants DEF ConnectorInv, Types

(* The result of Ready enters the channel, once per attempt.                *)
LEMMA ReadyReportsKeeps ==
  ASSUME ConnectorInv, NEW k \in Calls, NEW c \in Candidates, ReadyReports(k, c)
  PROVE  ConnectorInv'
<1> DEFINE x == conn[k]
           y == cand[k]
           r == [x EXCEPT !.results = Append(@, c)]
           a == [y[c] EXCEPT !.ready = "over"]
           z == [y EXCEPT ![c] = a]
<1>1. /\ Types /\ SpendOK /\ x \in CallStates /\ y \in [Candidates -> Attempts] /\ CallOK(x, y)
      /\ None \notin Candidates /\ y[c].ready = "report"
      /\ UNCHANGED <<scenario, lease, durable>>
  BY CallTyped DEF ReadyReports
<1>2. a \in Attempts /\ AttemptOK(a)
  BY <1>1 DEF CallOK, AttemptOK, Closed, Attempts, Running
<1>3. cand' \in [Calls -> [Candidates -> Attempts]] /\ cand'[k] = z /\ \A j \in Calls \ {k} : cand'[j] = cand[j]
  BY <1>1, <1>2, AttemptSet DEF ReadyReports
<1>4. z[c] = a /\ \A d \in Candidates \ {c} : z[d] = y[d]
  BY <1>1, <1>2
<1>5. x.results \in Seq(Candidates) /\ r.results = Append(x.results, c) /\ r \in CallStates
  <2>1. x.results \in Seq(Candidates) /\ Append(x.results, c) \in Seq(Candidates)
    BY <1>1 DEF CallStates
  <2> HIDE DEF x
  <2> QED BY <1>1, <2>1 DEF CallStates
<1>6. conn' = [conn EXCEPT ![k] = r]
  BY DEF ReadyReports
<1>7. conn' \in [Calls -> CallStates] /\ conn'[k] = r /\ \A j \in Calls \ {k} : conn'[j] = conn[j]
  BY <1>1, <1>5, <1>6, CallSet, Zenon DEF SetCall
<1>8. /\ r.pc = x.pc /\ r.winner = x.winner /\ r.left = x.left /\ r.outcome = x.outcome /\ r.cleanup = x.cleanup
      /\ r.closeErr = x.closeErr /\ r.ctx = x.ctx
  BY <1>1 DEF CallStates
<1> HIDE DEF r, z
<1>9. DOMAIN r.results = 1..Len(x.results) + 1 /\ r.results[Len(x.results) + 1] = c
      /\ \A i \in 1..Len(x.results) : r.results[i] = x.results[i]
  BY <1>5
<1>10. DOMAIN x.results = 1..Len(x.results) /\ Len(x.results) \in Nat /\ \A i \in DOMAIN x.results : x.results[i] \in Candidates
  BY <1>5
<1>11. \A i \in DOMAIN x.results : x.results[i] # c
  BY <1>1 DEF CallOK, ResultsOK
<1>12. Unreported(r, z) = Unreported(x, y)
  <2>1. c \in Unreported(x, y) /\ c \in Unreported(r, z)
    <3>1. Len(x.results) + 1 \in DOMAIN r.results
      BY <1>9, <1>10
    <3> QED BY <1>1, <1>9, <3>1 DEF Unreported, Running
  <2>2. ASSUME NEW d \in Candidates \ {c}
        PROVE  d \in Unreported(x, y) <=> d \in Unreported(r, z)
    <3>1. z[d] = y[d]
      BY <1>4
    <3>2. \A i \in DOMAIN x.results : i \in DOMAIN r.results /\ r.results[i] = x.results[i]
      BY <1>9, <1>10
    <3>3. \A i \in DOMAIN r.results : r.results[i] = d => i \in DOMAIN x.results
      BY <1>9, <1>10, <2>2
    <3> QED BY <3>1, <3>2, <3>3 DEF Unreported
  <2>3. Unreported(x, y) \subseteq Candidates /\ Unreported(r, z) \subseteq Candidates
    BY DEF Unreported
  <2> QED BY <2>1, <2>2, <2>3
<1>13. ResultsOK(r, z)
  <2> DEFINE n == Len(x.results) + 1
  <2>0. \A i \in DOMAIN r.results :
          \/ i = n /\ r.results[i] = c
          \/ i \in DOMAIN x.results /\ r.results[i] = x.results[i]
    BY <1>9, <1>10
  <2> HIDE DEF n
  <2>1. \A i \in DOMAIN r.results : z[r.results[i]].ready = "over"
    <3>1. z[c].ready = "over"
      BY <1>1, <1>4 DEF Attempts
    <3>2. \A i \in DOMAIN x.results : z[x.results[i]] = y[x.results[i]]
      BY <1>4, <1>10, <1>11
    <3>3. \A i \in DOMAIN x.results : z[x.results[i]].ready = "over"
      BY <1>1, <3>2 DEF CallOK, ResultsOK
    <3> QED BY <2>0, <3>1, <3>3
  <2>2. \A i, j \in DOMAIN r.results : r.results[i] = r.results[j] => i = j
    BY <1>1, <1>11, <2>0 DEF CallOK, ResultsOK
  <2> QED BY <1>1, <1>8, <1>12, <2>1, <2>2 DEF CallOK, ResultsOK
<1>14. RaceOK(r, z)
  <2>1. x.pc # "out"
    BY <1>1 DEF CallOK, RaceOK, NewAttempt
  <2>2. x.winner # None => x.winner \in Candidates /\ x.winner # c
    BY <1>1 DEF CallOK, RaceOK, CallStates
  <2>3. ~(x.pc \in Won \cup {"failed", "returned"} /\ ~x.closeErr /\ x.outcome # "session")
    BY <1>1, <2>2 DEF CallOK, RaceOK, Settled
  <2>4. x.pc = "race" => \A d \in Candidates : z[d].abort = "none"
    BY <1>1, <1>4 DEF CallOK, RaceOK, Attempts
  <2>5. x.pc = "race" => x.winner = None
    BY <1>1 DEF CallOK, RaceOK
  <2>6. x.winner # None => z[x.winner] = y[x.winner]
    BY <1>4, <2>2
  <2> QED BY <1>1, <1>8, <2>1, <2>3, <2>4, <2>5, <2>6 DEF CallOK, RaceOK
<1>15. CallOK(r, z)
  BY <1>1, <1>2, <1>4, <1>13, <1>14 DEF CallOK
<1>16. SpendOK'
  BY <1>1, <1>7, <1>8, SamePcs
<1>17. \A d \in Candidates : z[d].ready # "none" => d \in scenario.usable[k]
  BY <1>1, <1>4 DEF Types
<1> QED BY <1>1, <1>3, <1>7, <1>15, <1>16, <1>17, OneCall DEF Types

\* The locals of a call that has not begun, and of one that returned.
LEMMA NewCallTyped ==
  /\ NewCall \in CallStates /\ NewCall.pc = "out" /\ NewCall.ctx = "live" /\ NewCall.cleanup = "live"
  /\ NewCall.winner = None /\ NewCall.left = 0 /\ NewCall.results = <<>>
  /\ NewCall.closeErr = FALSE /\ NewCall.outcome = "none"
  BY DEF NewCall, CallStates

LEMMA ReturnTyped ==
  ASSUME NEW k \in Calls, conn[k] \in CallStates,
         NEW outcome \in {"session", "failed"}, NEW r, r = Return(k, outcome)
  PROVE  /\ r \in CallStates /\ r.pc = "returned" /\ r.ctx = conn[k].ctx /\ r.winner = None /\ r.left = 0
         /\ r.results = <<>> /\ r.closeErr = conn[k].closeErr /\ r.outcome = outcome
  BY NewCallTyped, Zenon DEF Return, CallStates

\* A call that ends before it has made an attempt.
LEMMA ReturnsAtOnce ==
  ASSUME ConnectorInv, NEW k \in Calls, conn[k].pc = "out",
         durable.spent => lease.consumed \/ lease.spending # None,
         SetCall(k, Return(k, "failed")),
         UNCHANGED <<scenario, cand, lease, durable>>
  PROVE  ConnectorInv'
<1> DEFINE r == Return(k, "failed")
<1>1. /\ Types /\ SpendOK /\ CallOK(conn[k], cand[k]) /\ conn[k] = NewCall
      /\ cand[k] = [c \in Candidates |-> NewAttempt] /\ None \notin Calls
      /\ lease \in [spending : Calls \cup {None}, consumed : BOOLEAN]
      /\ durable \in [spent : BOOLEAN, written : Nat, expired : BOOLEAN, crashes : Nat]
  BY CallTyped DEF CallOK, RaceOK
<1>2. /\ r \in CallStates /\ r.pc = "returned" /\ r.winner = None /\ r.left = 0 /\ r.results = <<>>
      /\ r.outcome = "failed"
  BY <1>1, NewCallTyped, ReturnTyped
<1> HIDE DEF r
<1>4. CallOK(r, cand[k])
  <2>1. Cardinality(Candidates) \in Nat
    BY Constants, FS_CardinalityType
  <2>2. ResultsOK(r, cand[k])
    BY <1>2, <2>1 DEF ResultsOK
  <2>3. Settled(r, cand[k])
    BY <1>1 DEF Settled, NewAttempt, Closed
  <2>4. RaceOK(r, cand[k])
    BY <1>2, <2>3 DEF RaceOK, Won
  <2> QED BY <1>1, <2>2, <2>4 DEF CallOK
<1>5. conn'[k] = r /\ \A j \in Calls \ {k} : conn'[j] = conn[j]
  BY <1>1, <1>2, CallSet DEF r
<1>6. SpendOK'
  BY <1>1, <1>2, <1>5, PcMoves DEF Spending, Admitted
<1> QED BY <1>1, <1>2, <1>4, <1>6, CallOnly DEF r

(* Connect starts: a new attempt behind the barrier for each entry.         *)
LEMMA BeginKeeps ==
  ASSUME ConnectorInv, NEW k \in Calls, Begin(k)
  PROVE  ConnectorInv'
<1>1. /\ Types /\ SpendOK /\ conn[k] = NewCall /\ None \notin Calls
      /\ lease \in [spending : Calls \cup {None}, consumed : BOOLEAN]
      /\ durable \in [spent : BOOLEAN, written : Nat, expired : BOOLEAN, crashes : Nat]
      /\ conn[k].pc = "out" /\ (durable.spent => lease.consumed \/ lease.spending # None)
      /\ UNCHANGED <<scenario, lease, durable>>
  BY CallTyped, Zenon DEF CallOK, RaceOK, Begin
<1>2. CASE durable.expired
  BY <1>1, <1>2, ReturnsAtOnce DEF Begin
<1>3. ASSUME NEW entries \in SUBSET scenario.usable[k], entries = {},
             SetCall(k, Return(k, "failed")) /\ UNCHANGED cand
      PROVE  ConnectorInv'
  BY <1>1, <1>3, ReturnsAtOnce
<1>4. ASSUME NEW entries \in SUBSET scenario.usable[k], entries # {},
             SetCall(k, [conn[k] EXCEPT !.pc = "race", !.left = Cardinality(entries)]),
             cand' = [cand EXCEPT ![k] =
               [c \in Candidates |-> IF c \in entries THEN [NewAttempt EXCEPT !.ready = "barrier"]
                                                      ELSE NewAttempt]]
      PROVE  ConnectorInv'
  <2> DEFINE r == [conn[k] EXCEPT !.pc = "race", !.left = Cardinality(entries)]
             y == [c \in Candidates |-> IF c \in entries THEN [NewAttempt EXCEPT !.ready = "barrier"]
                                                        ELSE NewAttempt]
  <2>1. entries \subseteq Candidates
    BY <1>1, Constants DEF Types
  <2>2. Cardinality(entries) \in 0..Cardinality(Candidates)
    BY <2>1, Constants, FS_Subset, FS_CardinalityType
  <2>3. /\ r \in CallStates /\ r.pc = "race" /\ r.winner = None /\ r.left = Cardinality(entries)
        /\ r.results = <<>> /\ r.cleanup = "live" /\ r.outcome = "none"
    <3>1. conn[k] \in CallStates /\ Cardinality(entries) \in Int
      BY <1>1, <2>2, NewCallTyped
    <3>2. /\ r \in CallStates /\ r.pc = "race" /\ r.left = Cardinality(entries)
          /\ r.winner = conn[k].winner /\ r.results = conn[k].results
          /\ r.cleanup = conn[k].cleanup /\ r.outcome = conn[k].outcome
      BY <3>1, Zenon DEF CallStates, Won
    <3> QED BY <1>1, <3>2, NewCallTyped
  <2>4. \A c \in Candidates :
          /\ y[c] \in Attempts /\ AttemptOK(y[c]) /\ y[c].abort = "none"
          /\ y[c].ready \in Running <=> c \in entries
          /\ y[c].ready # "none" => c \in entries
    BY Zenon DEF NewAttempt, Attempts, AttemptOK, Running
  <2>5. y \in [Candidates -> Attempts]
    BY <2>4
  <2>6. /\ cand' \in [Calls -> [Candidates -> Attempts]] /\ cand'[k] = y
        /\ \A j \in Calls \ {k} : cand'[j] = cand[j]
    BY <1>1, <1>4, <2>5, Zenon DEF Types
  <2> HIDE DEF r, y
  <2>8. conn' \in [Calls -> CallStates] /\ conn'[k] = r /\ \A j \in Calls \ {k} : conn'[j] = conn[j]
    BY <1>1, <1>4, <2>3, CallSet DEF r
  <2>9. Unreported(r, y) = entries
    BY <2>1, <2>3, <2>4 DEF Unreported
  <2>10. ResultsOK(r, y)
    BY <2>2, <2>3, <2>9 DEF ResultsOK
  <2>11. RaceOK(r, y)
    BY <2>3, <2>4 DEF RaceOK, Won
  <2>12. CallOK(r, y)
    BY <2>4, <2>10, <2>11 DEF CallOK
  <2>13. SpendOK'
    BY <1>1, <2>3, <2>8, PcMoves DEF Spending, Admitted
  <2> QED BY <1>1, <2>4, <2>6, <2>8, <2>12, <2>13, OneCall
<1> QED BY <1>1, <1>2, <1>3, <1>4, Zenon DEF Begin

\* cancelRace and the start of closeLosers, with a winner or without one.
LEMMA closeLosersKeeps ==
  ASSUME ConnectorInv, NEW k \in Calls, NEW r \in CallStates, conn[k].pc = "race",
         ResultsOK(r, cand[k]), r.pc = "race", r.cleanup = conn[k].cleanup, r.outcome = "none",
         r.winner # None => cand[k][r.winner].ready = "over" /\ cand[k][r.winner].prepared,
         closeLosers(k, r), UNCHANGED <<scenario, lease, durable>>
  PROVE  ConnectorInv'
<1> DEFINE q == [r EXCEPT !.pc = "aborting", !.race = "canceled"]
           y == cand[k]
           z == [c \in Candidates |-> IF c \in Entries(k) \ {r.winner} THEN [y[c] EXCEPT !.abort = "start"] ELSE y[c]]
<1>1. /\ Types /\ SpendOK /\ CallOK(conn[k], y) /\ y \in [Candidates -> Attempts] /\ None \notin Calls
      /\ lease \in [spending : Calls \cup {None}, consumed : BOOLEAN]
      /\ durable \in [spent : BOOLEAN, written : Nat, expired : BOOLEAN, crashes : Nat]
      /\ \A c \in Candidates : y[c].ready # "none" => c \in scenario.usable[k]
  BY CallTyped
<1>2. /\ q \in CallStates /\ q.pc = "aborting" /\ q.winner = r.winner /\ q.cleanup = r.cleanup
      /\ q.outcome = r.outcome /\ q.ctx = r.ctx /\ q.left = r.left /\ q.results = r.results
  BY Zenon DEF CallStates
<1>3. \A c \in Candidates :
        /\ z[c] \in Attempts /\ AttemptOK(z[c])
        /\ z[c].ready = y[c].ready /\ z[c].prepared = y[c].prepared
        /\ c = r.winner => z[c] = y[c]
  BY <1>1, SMTT(30) DEF CallOK, AttemptOK, Closed, Attempts, Entries
<1>4. cand' = [cand EXCEPT ![k] = z]
  BY DEF closeLosers
<1>5. cand' \in [Calls -> [Candidates -> Attempts]] /\ cand'[k] = z /\ \A j \in Calls \ {k} : cand'[j] = cand[j]
  BY <1>1, <1>3, <1>4 DEF Types
<1>6. conn' \in [Calls -> CallStates] /\ conn'[k] = q /\ \A j \in Calls \ {k} : conn'[j] = conn[j]
  BY <1>1, <1>2, CallSet DEF closeLosers
<1> HIDE DEF q, z
<1>7. ResultsOK(q, z)
  <2>1. \A i \in DOMAIN r.results : r.results[i] \in Candidates
    BY DEF CallStates
  <2> QED BY <1>2, <1>3, <2>1 DEF ResultsOK
<1>8. RaceOK(q, z)
  <2>1. r.winner # None => r.winner \in Candidates /\ y[r.winner].abort = "none"
    BY <1>1 DEF CallStates, CallOK, RaceOK
  <2>2. r.cleanup # "canceled"
    BY <1>1 DEF CallOK, RaceOK
  <2> QED BY <1>2, <1>3, <2>1, <2>2 DEF RaceOK, Won
<1>9. CallOK(q, z)
  BY <1>3, <1>7, <1>8 DEF CallOK
<1>10. SpendOK'
  BY <1>1, <1>2, <1>6, PcMoves DEF Spending, Admitted
<1> QED BY <1>1, <1>3, <1>5, <1>6, <1>9, <1>10, OneCall, Zenon

\* Taking a result out of the channel: one attempt less to wait for.
LEMMA ResultTaken ==
  ASSUME NEW x \in CallStates, NEW y \in [Candidates -> Attempts], ResultsOK(x, y), x.pc = "race",
         x.results # <<>>
  PROVE  LET r == [x EXCEPT !.results = Tail(@), !.left = @ - 1] IN
         /\ r \in CallStates /\ ResultsOK(r, y) /\ r.pc = "race"
         /\ r.winner = x.winner /\ r.cleanup = x.cleanup /\ r.outcome = x.outcome
         /\ r.ctx = x.ctx /\ r.closeErr = x.closeErr
         /\ Head(x.results) \in Candidates /\ y[Head(x.results)].ready = "over"
<1> DEFINE s == x.results
           c == Head(s)
           r == [x EXCEPT !.results = Tail(@), !.left = @ - 1]
<1>1. s \in Seq(Candidates) /\ x.left \in Int
  BY DEF CallStates
<1>2. Len(s) \in Nat \ {0} /\ c = s[1] /\ c \in Candidates /\ DOMAIN s = 1..Len(s)
  BY <1>1
<1>3. /\ Tail(s) \in Seq(Candidates) /\ DOMAIN Tail(s) = 1..Len(s) - 1
      /\ \A i \in 1..Len(s) - 1 : Tail(s)[i] = s[i + 1]
  BY <1>1, <1>2
<1>4. /\ r \in CallStates /\ r.pc = x.pc /\ r.winner = x.winner /\ r.cleanup = x.cleanup
      /\ r.outcome = x.outcome /\ r.ctx = x.ctx /\ r.closeErr = x.closeErr
      /\ r.results = Tail(s) /\ r.left = x.left - 1
  <2> DEFINE t == Tail(s)
             n == x.left - 1
  <2>1. t \in Seq(Candidates) /\ n \in Int
    BY <1>1, <1>3
  <2>2. r = [x EXCEPT !.results = t, !.left = n]
    OBVIOUS
  <2> HIDE DEF t, n, r
  <2>3. /\ r \in CallStates /\ r.pc = x.pc /\ r.winner = x.winner /\ r.cleanup = x.cleanup
        /\ r.outcome = x.outcome /\ r.ctx = x.ctx /\ r.closeErr = x.closeErr
        /\ r.results = t /\ r.left = n
    BY <2>1, <2>2, Zenon DEF CallStates
  <2> QED BY <2>3 DEF t, n
<1> HIDE DEF r
<1>5. y[c].ready = "over"
  BY <1>2 DEF ResultsOK
<1>6. \A i \in DOMAIN Tail(s) : i + 1 \in DOMAIN s /\ Tail(s)[i] = s[i + 1] /\ s[i + 1] # c
  <2>1. \A i \in 1..Len(s) - 1 : i + 1 \in 1..Len(s) /\ i + 1 # 1 /\ 1 \in 1..Len(s)
    BY <1>2
  <2> QED BY <1>2, <1>3, <2>1 DEF ResultsOK
<1>7. Unreported(r, y) = Unreported(x, y) \ {c}
  <2>1. ASSUME NEW d \in Candidates, NEW i \in DOMAIN s, s[i] = d, d # c
        PROVE  \E j \in DOMAIN Tail(s) : Tail(s)[j] = d
    <3>1. i - 1 \in DOMAIN Tail(s) /\ (i - 1) + 1 = i
      BY <1>2, <1>3, <2>1
    <3> QED BY <1>3, <2>1, <3>1
  <2>2. \A d \in Unreported(r, y) : d \in Unreported(x, y) /\ d # c
    BY <1>2, <1>4, <1>5, <1>6 DEF Unreported, Running
  <2>3. \A d \in Unreported(x, y) : d # c => d \in Unreported(r, y)
    BY <1>4, <2>1 DEF Unreported
  <2> QED BY <2>2, <2>3
<1>8. c \in Unreported(x, y) /\ IsFiniteSet(Unreported(x, y)) /\ Unreported(x, y) \subseteq Candidates
  <2>1. c \in Unreported(x, y) /\ Unreported(x, y) \subseteq Candidates
    BY <1>2 DEF Unreported
  <2> QED BY <2>1, Constants, FS_Subset
<1>9. /\ Cardinality(Unreported(r, y)) = Cardinality(Unreported(x, y)) - 1
      /\ Cardinality(Unreported(r, y)) \in Nat
  <2>1. IsFiniteSet(Unreported(r, y)) /\ Cardinality(Unreported(r, y)) = Cardinality(Unreported(x, y)) - 1
    BY <1>7, <1>8, FS_RemoveElement
  <2> QED BY <2>1, FS_CardinalityType
<1>10. ResultsOK(r, y)
  <2>1. \A i \in DOMAIN Tail(s) : y[Tail(s)[i]].ready = "over"
    BY <1>6 DEF ResultsOK
  <2>2. \A i, j \in DOMAIN Tail(s) : Tail(s)[i] = Tail(s)[j] => i = j
    <3>1. ASSUME NEW i \in DOMAIN Tail(s), NEW j \in DOMAIN Tail(s), Tail(s)[i] = Tail(s)[j]
          PROVE  i = j
      <4>1. i + 1 = j + 1
        BY <1>6, <3>1 DEF ResultsOK
      <4> QED BY <1>3, <4>1
    <3> QED BY <3>1
  <2>3. Cardinality(Candidates) \in Nat
    BY Constants, FS_CardinalityType
  <2>4. r.left = Cardinality(Unreported(r, y)) /\ r.left \in 0..Cardinality(Candidates)
    BY <1>1, <1>4, <1>9, <2>3 DEF ResultsOK
  <2> QED BY <1>4, <2>1, <2>2, <2>4 DEF ResultsOK
<1> QED BY <1>2, <1>4, <1>5, <1>10 DEF r

(* A result, or the end of the context, ends the race or shrinks it.        *)
LEMMA RaceKeeps ==
  ASSUME ConnectorInv, NEW k \in Calls, RaceReceives(k) \/ RaceCanceled(k)
  PROVE  ConnectorInv'
<1> DEFINE x == conn[k]
           y == cand[k]
<1>1. /\ Types /\ SpendOK /\ x \in CallStates /\ y \in [Candidates -> Attempts] /\ CallOK(x, y) /\ x.pc = "race"
      /\ ResultsOK(x, y) /\ None \notin Calls /\ UNCHANGED <<scenario, lease, durable>>
      /\ lease \in [spending : Calls \cup {None}, consumed : BOOLEAN]
      /\ durable \in [spent : BOOLEAN, written : Nat, expired : BOOLEAN, crashes : Nat]
  BY CallTyped DEF CallOK, RaceReceives, RaceCanceled
<1>2. x.winner = None /\ x.cleanup # "canceled" /\ x.outcome = "none"
  BY <1>1 DEF CallOK, RaceOK
<1>3. CASE RaceReceives(k)
  <2> DEFINE c == Head(x.results)
             r == [x EXCEPT !.results = Tail(@), !.left = @ - 1]
  <2>1. x.results # <<>>
    BY <1>3 DEF RaceReceives
  <2>2. /\ r \in CallStates /\ ResultsOK(r, y) /\ r.pc = "race"
        /\ r.winner = x.winner /\ r.cleanup = x.cleanup /\ r.outcome = x.outcome
        /\ r.ctx = x.ctx /\ r.closeErr = x.closeErr
        /\ c \in Candidates /\ y[c].ready = "over"
    BY <1>1, <2>1, ResultTaken, Zenon
  <2>3. IF y[c].prepared THEN closeLosers(k, [r EXCEPT !.winner = c])
        ELSE IF r.left = 0 THEN closeLosers(k, r)
        ELSE SetCall(k, r) /\ UNCHANGED cand
    BY <1>3 DEF RaceReceives
  <2> HIDE DEF c, r
  <2>4. CASE y[c].prepared
    <3> DEFINE q == [r EXCEPT !.winner = c]
    <3>1. /\ q \in CallStates /\ q.pc = r.pc /\ q.cleanup = r.cleanup /\ q.outcome = r.outcome /\ q.winner = c
          /\ q.ctx = r.ctx /\ q.results = r.results /\ q.left = r.left
      BY <2>2 DEF CallStates
    <3> HIDE DEF q
    <3>2. Unreported(q, y) = Unreported(r, y)
      BY <3>1 DEF Unreported
    <3>3. ResultsOK(q, y)
      BY <2>2, <3>1, <3>2 DEF ResultsOK
    <3>4. closeLosers(k, q)
      BY <2>3, <2>4 DEF q
    <3> QED BY <1>1, <1>2, <2>2, <2>4, <3>1, <3>3, <3>4, closeLosersKeeps
  <2>5. CASE ~y[c].prepared /\ r.left = 0
    BY <1>1, <1>2, <2>2, <2>3, <2>5, closeLosersKeeps
  <2>6. CASE ~y[c].prepared /\ r.left # 0
    <3>1. SetCall(k, r) /\ UNCHANGED cand
      BY <2>3, <2>6
    <3>2. RaceOK(r, y)
      BY <1>1, <1>2, <2>2 DEF CallOK, RaceOK, Won
    <3>3. CallOK(r, y)
      BY <1>1, <2>2, <3>2 DEF CallOK
    <3>4. conn'[k] = r /\ \A j \in Calls \ {k} : conn'[j] = conn[j]
      BY <1>1, <2>2, <3>1, CallSet
    <3>5. SpendOK'
      BY <1>1, <2>2, <3>4, PcMoves DEF Spending, Admitted
    <3> QED BY <1>1, <2>2, <3>1, <3>3, <3>5, CallOnly
  <2> QED BY <2>4, <2>5, <2>6
<1>4. CASE RaceCanceled(k)
  BY <1>1, <1>2, <1>4, closeLosersKeeps DEF RaceCanceled
<1> QED BY <1>3, <1>4

(* closeLosers returns: only a call whose losers are all closed goes on.    *)
LEMMA LosersKeeps ==
  ASSUME ConnectorInv, NEW k \in Calls, LosersDone(k) \/ LosersTimeout(k)
  PROVE  ConnectorInv'
<1> DEFINE x == conn[k]
           y == cand[k]
<1>1. /\ Types /\ SpendOK /\ x \in CallStates /\ y \in [Candidates -> Attempts] /\ CallOK(x, y)
      /\ x.pc = "aborting" /\ None \notin Calls /\ UNCHANGED <<scenario, cand, lease, durable>>
      /\ lease \in [spending : Calls \cup {None}, consumed : BOOLEAN]
      /\ durable \in [spent : BOOLEAN, written : Nat, expired : BOOLEAN, crashes : Nat]
      /\ \A c \in Candidates : y[c].ready # "none" => c \in scenario.usable[k]
  BY CallTyped, Zenon DEF LosersDone, LosersTimeout
<1>2. ASSUME NEW pc \in {"failed", "winner"}, NEW late \in BOOLEAN,
             LosersOver(k, pc, late), pc = "winner" => x.winner # None /\ ~late,
             ~late => Settled(x, y)
      PROVE  ConnectorInv'
  <2> DEFINE r == [x EXCEPT !.pc = pc, !.closeErr = late, !.results = <<>>, !.left = 0, !.cleanup = "canceled"]
  <2>2. /\ r \in CallStates /\ r.pc = pc /\ r.winner = x.winner /\ r.closeErr = late /\ r.results = <<>>
        /\ r.left = 0 /\ r.ctx = x.ctx /\ r.outcome = x.outcome
    <3> DEFINE t == <<>>
               n == 0
    <3>1. t \in Seq(Candidates) /\ n \in Int
      OBVIOUS
    <3>2. r = [x EXCEPT !.pc = pc, !.closeErr = late, !.results = t, !.left = n, !.cleanup = "canceled"]
      OBVIOUS
    <3> HIDE DEF t, n, r
    <3>3. /\ r \in CallStates /\ r.pc = pc /\ r.winner = x.winner /\ r.closeErr = late /\ r.results = t
          /\ r.left = n /\ r.ctx = x.ctx /\ r.outcome = x.outcome
      BY <1>1, <3>1, <3>2, Zenon DEF CallStates, Won
    <3> QED BY <3>3 DEF t, n
  <2>3. SetCall(k, r)
    BY <1>2 DEF LosersOver
  <2> HIDE DEF r
  <2>4. Cardinality(Candidates) \in Nat
    BY Constants, FS_CardinalityType
  <2>5. ResultsOK(r, y)
    BY <2>2, <2>4 DEF ResultsOK
  <2>6. ~late => Settled(r, y)
    BY <1>2, <2>2 DEF Settled
  <2>7. RaceOK(r, y)
    BY <1>1, <1>2, <2>2, <2>6, Zenon DEF CallOK, RaceOK, Won
  <2>8. CallOK(r, y)
    BY <1>1, <2>5, <2>7 DEF CallOK
  <2>9. conn'[k] = r /\ \A j \in Calls \ {k} : conn'[j] = conn[j]
    BY <1>1, <2>2, <2>3, CallSet
  <2>10. SpendOK'
    BY <1>1, <2>2, <2>9, PcMoves DEF Spending, Admitted
  <2> QED BY <1>1, <2>2, <2>3, <2>8, <2>10, CallOnly
<1>3. CASE LosersDone(k)
  <2> DEFINE late == loserFailed(k)
  <2>2. late \in BOOLEAN /\ afterLosers(k) \in {"failed", "winner"}
    BY DEF loserFailed, afterLosers
  <2>3. LosersOver(k, afterLosers(k), late)
    BY <1>3 DEF LosersDone
  <2>4. afterLosers(k) = "winner" => x.winner # None /\ ~late
    BY DEF afterLosers
  <2>5. ~late => Settled(x, y)
    <3>1. SUFFICES ASSUME ~late, NEW c \in Candidates, c # x.winner
                   PROVE  y[c].ready \in {"none", "over"} /\ Closed(y[c])
                          /\ y[c].abort \in {"none", "ok"}
      BY DEF Settled
    <3>2. CASE c \in Entries(k)
      BY <1>1, <1>3, <3>1, <3>2, Zenon DEF LosersDone, losersClosed, loserFailed, Losers, CallOK, AttemptOK, Closed
    <3>3. CASE c \notin Entries(k)
      BY <1>1, <3>3 DEF Entries, CallOK, AttemptOK, Closed
    <3> QED BY <3>2, <3>3
  <2> HIDE DEF late
  <2> QED BY <1>2, <2>2, <2>3, <2>4, <2>5
<1>4. CASE LosersTimeout(k)
  BY <1>2, <1>4, Zenon DEF LosersTimeout
<1> QED BY <1>3, <1>4

\* The rest of a Connect that fails: the winner is closed, or the caller is told.
LEMMA terminateKeeps ==
  ASSUME ConnectorInv, NEW k \in Calls, conn[k].pc \in Won \cup {"failed"},
         terminate(k), scenario' = scenario,
         lease' \in [spending : Calls \cup {None}, consumed : BOOLEAN],
         durable' \in [spent : BOOLEAN, written : Nat, expired : BOOLEAN, crashes : Nat],
         conn'[k].pc = "returned" /\ (\A j \in Calls \ {k} : conn'[j] = conn[j]) => SpendOK'
  PROVE  ConnectorInv'
<1> DEFINE x == conn[k]
           y == cand[k]
           w == x.winner
           r(late) == [Return(k, "failed") EXCEPT !.closeErr = @ \/ late]
<1>1. /\ Types /\ SpendOK /\ x \in CallStates /\ y \in [Candidates -> Attempts] /\ CallOK(x, y)
      /\ None \notin Calls /\ None \notin Candidates /\ durable.expired \in BOOLEAN
      /\ \A c \in Candidates : y[c].ready # "none" => c \in scenario.usable[k]
  BY CallTyped
<1>3. ASSUME NEW late \in BOOLEAN
      PROVE  /\ r(late) \in CallStates /\ r(late).pc = "returned" /\ r(late).ctx = x.ctx /\ r(late).winner = None
             /\ r(late).left = 0 /\ r(late).results = <<>>
             /\ r(late).closeErr = (x.closeErr \/ late) /\ r(late).outcome = "failed"
  <2> DEFINE q == Return(k, "failed")
  <2>1. /\ q \in CallStates /\ q.pc = "returned" /\ q.ctx = x.ctx /\ q.winner = None /\ q.left = 0
        /\ q.results = <<>> /\ q.closeErr = x.closeErr /\ q.outcome = "failed"
    BY <1>1, ReturnTyped
  <2> HIDE DEF q
  <2>2. q.closeErr \/ late \in BOOLEAN
    BY <1>3, <2>1 DEF CallStates
  <2>3. r(late) = [q EXCEPT !.closeErr = q.closeErr \/ late]
    BY DEF q
  <2> QED BY <2>1, <2>2, <2>3 DEF CallStates
<1>4. ASSUME NEW late \in BOOLEAN, NEW z \in [Candidates -> Attempts], SetCall(k, r(late)),
             cand' = [cand EXCEPT ![k] = z],
             \A c \in Candidates : z[c].ready = y[c].ready /\ AttemptOK(z[c]),
             ~x.closeErr /\ ~late => Settled(r(late), z)
      PROVE  ConnectorInv'
  <2> DEFINE q == r(late)
  <2>1. /\ q \in CallStates /\ q.pc = "returned" /\ q.ctx = x.ctx /\ q.winner = None /\ q.left = 0 /\ q.results = <<>>
        /\ q.closeErr = (x.closeErr \/ late) /\ q.outcome = "failed"
    BY <1>3
  <2>2. SetCall(k, q) /\ (~q.closeErr => Settled(q, z))
    BY <1>4, <2>1, Zenon
  <2> HIDE DEF q, r
  <2>3. conn' \in [Calls -> CallStates] /\ conn'[k] = q /\ \A j \in Calls \ {k} : conn'[j] = conn[j]
    BY <1>1, <2>1, <2>2, CallSet
  <2>4. cand' \in [Calls -> [Candidates -> Attempts]] /\ cand'[k] = z /\ \A j \in Calls \ {k} : cand'[j] = cand[j]
    BY <1>1, <1>4 DEF Types
  <2>5. Cardinality(Candidates) \in Nat
    BY Constants, FS_CardinalityType
  <2>6. ResultsOK(q, z)
    BY <2>1, <2>5 DEF ResultsOK
  <2>7. RaceOK(q, z)
    BY <2>1, <2>2 DEF RaceOK, Won
  <2>8. CallOK(q, z)
    BY <1>4, <2>6, <2>7 DEF CallOK
  <2>9. SpendOK'
    BY <2>1, <2>3
  <2> QED BY <1>1, <1>4, <2>3, <2>4, <2>8, <2>9, OneCall
<1>5. ~x.closeErr => Settled(x, y)
  BY <1>1 DEF CallOK, RaceOK, Won
<1>6. CASE w = None
  <2>1. SetCall(k, r(FALSE)) /\ cand' = cand
    BY <1>6 DEF terminate
  <2>2. cand' = [cand EXCEPT ![k] = y]
    BY <1>1, <2>1 DEF Types
  <2>3. ~x.closeErr => Settled(r(FALSE), y)
    BY <1>3, <1>5, <1>6, Zenon DEF Settled
  <2>4. \A c \in Candidates : AttemptOK(y[c])
    BY <1>1 DEF CallOK
  <2> HIDE DEF r
  <2> QED BY <1>1, <1>4, <2>1, <2>2, <2>3, <2>4, Zenon
<1>7. CASE w # None
  <2>1. /\ w \in Candidates /\ y[w].ready = "over" /\ y[w].prepared /\ y[w].abort = "none"
        /\ y[w] \in Attempts /\ AttemptOK(y[w])
    BY <1>1, <1>7, Zenon DEF CallOK, RaceOK, CallStates
  <2>2. PICK v \in {"closed", "stuck", y[w].wire} :
          cand' = [cand EXCEPT ![k][w].wire = v, ![k][w].aborted = TRUE]
    <3>1. closePrepared(k, w)
      BY <1>7 DEF terminate
    <3> QED BY <3>1, Zenon DEF closePrepared
  <2> DEFINE z == [y EXCEPT ![w] = [y[w] EXCEPT !.wire = v, !.aborted = TRUE]]
  <2>3. v \in {"open", "closed", "stuck"}
    BY <2>1, Zenon DEF AttemptOK, Attempts
  <2>4. cand' = [cand EXCEPT ![k] = z]
    BY <1>1, <2>1, <2>2, ZenonT(60) DEF Types, Attempts
  <2>5. /\ z \in [Candidates -> Attempts]
        /\ \A c \in Candidates \ {w} : z[c] = y[c]
        /\ z[w].ready = "over" /\ z[w].abort = "none" /\ z[w].wire = v /\ AttemptOK(z[w])
    BY <1>1, <2>1, <2>3, Zenon DEF Attempts, AttemptOK
  <2> HIDE DEF z
  <2>6. SetCall(k, r(v # "closed"))
    <3>1. cand'[k][w].wire = v
      BY <1>1, <2>4, <2>5 DEF Types
    <3> QED BY <1>7, <3>1 DEF terminate
  <2>7. ~x.closeErr /\ v = "closed" => Settled(r(v # "closed"), z)
    <3>1. r(v # "closed").winner = None
      BY <1>3, Zenon
    <3> QED BY <1>1, <1>5, <2>5, <3>1 DEF Settled, Closed
  <2>8. \A c \in Candidates : z[c].ready = y[c].ready /\ AttemptOK(z[c])
    BY <1>1, <2>1, <2>5 DEF CallOK
  <2> HIDE DEF r
  <2> QED BY <1>4, <2>4, <2>5, <2>6, <2>7, <2>8, Zenon
<1> QED BY <1>6, <1>7

-----------------------------------------------------------------------------
\* A call with a winner that only moves on.
LEMMA MovesOn ==
  ASSUME NEW x \in CallStates, NEW y \in [Candidates -> Attempts], CallOK(x, y), x.pc \in Won, NEW pc \in Won
  PROVE  LET r == [x EXCEPT !.pc = pc] IN r \in CallStates /\ r.pc = pc /\ CallOK(r, y)
<1> DEFINE r == [x EXCEPT !.pc = pc]
<1>1. /\ r \in CallStates /\ r.pc = pc /\ r.winner = x.winner /\ r.cleanup = x.cleanup /\ r.closeErr = x.closeErr
      /\ r.outcome = x.outcome /\ r.ctx = x.ctx /\ r.results = x.results /\ r.left = x.left
  BY DEF CallStates
<1> HIDE DEF r
<1>2. ResultsOK(r, y)
  BY <1>1 DEF CallOK, ResultsOK, Won
<1>3. Settled(r, y)
  BY <1>1 DEF CallOK, RaceOK, Settled, Won
<1>4. RaceOK(r, y)
  BY <1>1, <1>3 DEF CallOK, RaceOK, Won
<1> QED BY <1>1, <1>2, <1>4 DEF CallOK, r

(* Steps that fail without holding the lease, and the checks of the winner. *)
LEMMA FailsKeeps ==
  ASSUME ConnectorInv, NEW k \in Calls, Fails(k) \/ WinnerChecks(k) \/ AdmissionFails(k)
  PROVE  ConnectorInv'
<1> DEFINE x == conn[k]
<1>1. /\ Types /\ SpendOK /\ x \in CallStates /\ cand[k] \in [Candidates -> Attempts] /\ CallOK(x, cand[k])
      /\ None \notin Calls
      /\ lease \in [spending : Calls \cup {None}, consumed : BOOLEAN]
      /\ durable \in [spent : BOOLEAN, written : Nat, expired : BOOLEAN, crashes : Nat]
      /\ UNCHANGED <<scenario, lease, durable>> /\ x.pc \in {"failed", "winner", "admitting"}
  BY CallTyped DEF Fails, WinnerChecks, AdmissionFails
<1>2. ASSUME terminate(k)
      PROVE  ConnectorInv'
  <2>1. conn'[k].pc = "returned" /\ (\A j \in Calls \ {k} : conn'[j] = conn[j]) => SpendOK'
    BY <1>1, PcMoves DEF Spending, Admitted
  <2> QED BY <1>1, <1>2, <2>1, terminateKeeps DEF Won
<1>3. CASE Fails(k)
  BY <1>2, <1>3 DEF Fails
<1>4. CASE AdmissionFails(k)
  BY <1>2, <1>4 DEF AdmissionFails
<1>5. CASE WinnerChecks(k)
  <2>1. CASE ~stillValid(k)
    BY <1>2, <1>5, <2>1 DEF WinnerChecks
  <2>2. CASE stillValid(k)
    <3> DEFINE r == [x EXCEPT !.pc = "spend"]
    <3>1. SetCall(k, r) /\ UNCHANGED cand /\ x.pc = "winner"
      BY <1>5, <2>2 DEF WinnerChecks
    <3>2. r \in CallStates /\ r.pc = "spend" /\ CallOK(r, cand[k])
      BY <1>1, <3>1, MovesOn, Zenon DEF Won
    <3> HIDE DEF r
    <3>3. conn'[k] = r /\ \A j \in Calls \ {k} : conn'[j] = conn[j]
      BY <1>1, <3>1, <3>2, CallSet
    <3>4. SpendOK'
      BY <1>1, <3>1, <3>2, <3>3, PcMoves DEF Spending, Admitted
    <3> QED BY <1>1, <3>1, <3>2, <3>4, CallOnly
  <2> QED BY <2>1, <2>2
<1> QED BY <1>3, <1>4, <1>5

(* ArtifactLease.commitSpend: one spender at a time, and none afterwards.   *)
LEMMA SpendKeeps ==
  ASSUME ConnectorInv, NEW k \in Calls,
         SpendBegins(k) \/ SpendRecords(k) \/ SpendFails(k) \/ SpendSucceeds(k)
  PROVE  ConnectorInv'
<1> DEFINE x == conn[k]
           Leases == [spending : Calls \cup {None}, consumed : BOOLEAN]
           Durables == [spent : BOOLEAN, written : Nat, expired : BOOLEAN, crashes : Nat]
<1>1. /\ Types /\ SpendOK /\ x \in CallStates /\ cand[k] \in [Candidates -> Attempts] /\ CallOK(x, cand[k])
      /\ None \notin Calls /\ lease \in Leases /\ durable \in Durables
      /\ scenario' = scenario /\ x.pc \in {"spend", "spending", "recorded"}
  BY CallTyped DEF SpendBegins, SpendRecords, SpendFails, SpendSucceeds
<1>2. ASSUME terminate(k), lease' \in Leases, durable' \in Durables,
             conn'[k].pc = "returned" /\ (\A j \in Calls \ {k} : conn'[j] = conn[j]) => SpendOK'
      PROVE  ConnectorInv'
  BY <1>1, <1>2, terminateKeeps DEF Won
<1>3. ASSUME NEW pc \in Won, SetCall(k, [x EXCEPT !.pc = pc]), UNCHANGED cand, lease' \in Leases, durable' \in Durables,
             conn'[k].pc = pc /\ (\A j \in Calls \ {k} : conn'[j] = conn[j]) => SpendOK'
      PROVE  ConnectorInv'
  <2> DEFINE r == [x EXCEPT !.pc = pc]
  <2>0. x.pc \in Won
    BY <1>1 DEF Won
  <2>1. r \in CallStates /\ r.pc = pc /\ CallOK(r, cand[k])
    BY <1>1, <2>0, MovesOn
  <2> HIDE DEF r
  <2>2. conn'[k] = r /\ \A j \in Calls \ {k} : conn'[j] = conn[j]
    BY <1>1, <1>3, <2>1, CallSet DEF r
  <2> QED BY <1>1, <1>3, <2>1, <2>2, CallOnly DEF r
<1>4. CASE SpendBegins(k)
  <2>0. x.pc = "spend" /\ durable' = durable
    BY <1>4 DEF SpendBegins
  <2>1. CASE maySpend
    <3>1. /\ lease' = [lease EXCEPT !.spending = k] /\ SetCall(k, [x EXCEPT !.pc = "spending"]) /\ UNCHANGED cand
          /\ lease.spending = None /\ ~lease.consumed
      BY <1>4, <2>1 DEF SpendBegins, maySpend
    <3>2. lease' \in Leases /\ lease'.spending = k /\ ~lease'.consumed
      BY <1>1, <3>1
    <3>3. conn'[k].pc = "spending" /\ (\A j \in Calls \ {k} : conn'[j] = conn[j]) => SpendOK'
      BY <1>1, <2>0, <3>1, <3>2 DEF SpendOK, Spending, Admitted
    <3> QED BY <1>1, <1>3, <2>0, <3>1, <3>2, <3>3 DEF Won
  <2>2. CASE ~maySpend
    <3>1. terminate(k) /\ lease' = lease
      BY <1>4, <2>2 DEF SpendBegins
    <3>2. conn'[k].pc = "returned" /\ (\A j \in Calls \ {k} : conn'[j] = conn[j]) => SpendOK'
      BY <1>1, <2>0, <3>1, PcMoves DEF Spending, Admitted
    <3> QED BY <1>1, <1>2, <2>0, <3>1, <3>2
  <2> QED BY <2>1, <2>2
<1>5. CASE SpendRecords(k)
  <2>1. /\ x.pc = "spending" /\ durable' = [durable EXCEPT !.spent = TRUE] /\ lease' = lease
        /\ SetCall(k, [x EXCEPT !.pc = "recorded"]) /\ UNCHANGED cand
    BY <1>5 DEF SpendRecords
  <2>2. durable' \in Durables /\ durable'.spent /\ durable'.written = durable.written
    BY <1>1, <2>1, Zenon
  <2>3. conn'[k].pc = "recorded" /\ (\A j \in Calls \ {k} : conn'[j] = conn[j]) => SpendOK'
    BY <1>1, <2>1, <2>2 DEF SpendOK, Spending, Admitted
  <2> QED BY <1>1, <1>3, <2>1, <2>2, <2>3 DEF Won
<1>6. CASE SpendFails(k)
  <2>1. /\ x.pc \in Spending /\ terminate(k) /\ lease' = [lease EXCEPT !.spending = None]
        /\ durable' = durable
    BY <1>6 DEF SpendFails, Spending
  <2>2. lease' \in Leases /\ lease'.spending = None /\ lease'.consumed = lease.consumed
    BY <1>1, <2>1
  <2>3. conn'[k].pc = "returned" /\ (\A j \in Calls \ {k} : conn'[j] = conn[j]) => SpendOK'
    BY <1>1, <2>1, <2>2 DEF SpendOK, Spending, Admitted
  <2> QED BY <1>1, <1>2, <2>1, <2>2, <2>3
<1>7. CASE SpendSucceeds(k)
  <2>1. /\ x.pc = "recorded" /\ lease' = [lease EXCEPT !.spending = None, !.consumed = TRUE]
        /\ durable' = durable
        /\ IF stillValid(k) THEN SetCall(k, [x EXCEPT !.pc = "admit"]) /\ UNCHANGED cand
                            ELSE terminate(k)
    BY <1>7 DEF SpendSucceeds
  <2>2. lease' \in Leases /\ lease'.spending = None /\ lease'.consumed
    BY <1>1, <2>1, Zenon
  <2>3. ASSUME NEW pc \in {"admit", "returned"}
        PROVE  conn'[k].pc = pc /\ (\A j \in Calls \ {k} : conn'[j] = conn[j]) => SpendOK'
    BY <1>1, <2>1, <2>2 DEF SpendOK, Spending, Admitted
  <2>4. CASE stillValid(k)
    BY <1>1, <1>3, <2>1, <2>2, <2>3, <2>4 DEF Won
  <2>5. CASE ~stillValid(k)
    BY <1>1, <1>2, <2>1, <2>2, <2>3, <2>5
  <2> QED BY <2>4, <2>5
<1> QED BY <1>4, <1>5, <1>6, <1>7

(* exchange.Commit writes the credential: the only call in "admit" leaves.  *)
LEMMA AdmissionKeeps ==
  ASSUME ConnectorInv, NEW k \in Calls, AdmissionWrites(k) \/ AdmissionReturns(k)
  PROVE  ConnectorInv'
<1> DEFINE x == conn[k]
           Durables == [spent : BOOLEAN, written : Nat, expired : BOOLEAN, crashes : Nat]
<1>1. /\ Types /\ SpendOK /\ x \in CallStates /\ cand[k] \in [Candidates -> Attempts] /\ CallOK(x, cand[k])
      /\ None \notin Calls /\ lease \in [spending : Calls \cup {None}, consumed : BOOLEAN] /\ durable \in Durables
      /\ UNCHANGED <<scenario, cand, lease>> /\ x.pc \in Won
  BY CallTyped DEF AdmissionWrites, AdmissionReturns, Won
<1>2. ASSUME NEW pc \in Won, SetCall(k, [x EXCEPT !.pc = pc]), durable' \in Durables,
             conn'[k].pc = pc /\ (\A j \in Calls \ {k} : conn'[j] = conn[j]) => SpendOK'
      PROVE  ConnectorInv'
  <2> DEFINE r == [x EXCEPT !.pc = pc]
  <2>1. r \in CallStates /\ r.pc = pc /\ CallOK(r, cand[k])
    BY <1>1, MovesOn
  <2> HIDE DEF r
  <2>2. conn'[k] = r /\ \A j \in Calls \ {k} : conn'[j] = conn[j]
    BY <1>1, <1>2, <2>1, CallSet DEF r
  <2> QED BY <1>1, <1>2, <2>1, <2>2, CallOnly DEF r
<1>3. CASE AdmissionWrites(k)
  <2>1. /\ x.pc = "admit" /\ SetCall(k, [x EXCEPT !.pc = "admitting"])
        /\ durable' = [durable EXCEPT !.written = @ + 1] /\ durable.written = 0
    BY <1>1, <1>3 DEF AdmissionWrites, SpendOK
  <2>2. durable' \in Durables /\ durable'.written = 1 /\ durable'.spent = durable.spent
    BY <1>1, <2>1
  <2>3. conn'[k].pc = "admitting" /\ (\A j \in Calls \ {k} : conn'[j] = conn[j]) => SpendOK'
    BY <1>1, <2>1, <2>2 DEF SpendOK, Spending, Admitted
  <2> QED BY <1>2, <2>1, <2>2, <2>3 DEF Won
<1>4. CASE AdmissionReturns(k)
  <2>1. x.pc = "admitting" /\ SetCall(k, [x EXCEPT !.pc = "handshake"]) /\ durable' = durable
    BY <1>4 DEF AdmissionReturns
  <2>2. conn'[k].pc = "handshake" /\ (\A j \in Calls \ {k} : conn'[j] = conn[j]) => SpendOK'
    BY <1>1, <2>1, PcMoves DEF Spending, Admitted
  <2> QED BY <1>1, <1>2, <2>1, <2>2 DEF Won
<1> QED BY <1>3, <1>4

(* The session handshake succeeds, or the winner is aborted.                *)
LEMMA EstablishKeeps ==
  ASSUME ConnectorInv, NEW k \in Calls, Establishes(k) \/ EstablishFails(k)
  PROVE  ConnectorInv'
<1> DEFINE x == conn[k]
           y == cand[k]
           w == x.winner
<1>1. /\ Types /\ SpendOK /\ x \in CallStates /\ y \in [Candidates -> Attempts] /\ CallOK(x, y) /\ x.pc = "handshake"
      /\ None \notin Calls /\ None \notin Candidates /\ UNCHANGED <<scenario, lease, durable>>
      /\ lease \in [spending : Calls \cup {None}, consumed : BOOLEAN]
      /\ durable \in [spent : BOOLEAN, written : Nat, expired : BOOLEAN, crashes : Nat]
      /\ \A c \in Candidates : y[c].ready # "none" => c \in scenario.usable[k]
  BY CallTyped, Zenon DEF Establishes, EstablishFails
<1>2. /\ w \in Candidates /\ y[w].ready = "over" /\ y[w].prepared /\ y[w].abort = "none" /\ y[w] \in Attempts
      /\ AttemptOK(y[w]) /\ ~x.closeErr /\ Settled(x, y)
  BY <1>1, Zenon DEF CallOK, RaceOK, CallStates, Won
<1>3. ASSUME NEW o \in {"session", "failed"}, SetCall(k, Return(k, o)),
             NEW z \in [Candidates -> Attempts], cand' = [cand EXCEPT ![k] = z],
             \A c \in Candidates : z[c].ready = y[c].ready /\ AttemptOK(z[c]),
             o # "session" => \A c \in Candidates : Closed(z[c]) /\ z[c].ready \in {"none", "over"}
                                                    /\ z[c].abort \in {"none", "ok"}
      PROVE  ConnectorInv'
  <2> DEFINE r == Return(k, o)
  <2>1. /\ r \in CallStates /\ r.pc = "returned" /\ r.ctx = x.ctx /\ r.winner = None /\ r.left = 0
        /\ r.results = <<>> /\ r.closeErr = x.closeErr /\ r.outcome = o
    <3>1. o \in {"session", "failed"} /\ conn[k] \in CallStates
      BY <1>1
    <3>2. r = Return(k, o)
      OBVIOUS
    <3> HIDE DEF r
    <3> QED BY <3>1, <3>2, ReturnTyped
  <2> HIDE DEF r
  <2>2. conn' \in [Calls -> CallStates] /\ conn'[k] = r /\ \A j \in Calls \ {k} : conn'[j] = conn[j]
    BY <1>1, <1>3, <2>1, CallSet DEF r
  <2>3. cand' \in [Calls -> [Candidates -> Attempts]] /\ cand'[k] = z /\ \A j \in Calls \ {k} : cand'[j] = cand[j]
    BY <1>1, <1>3 DEF Types
  <2>4. Cardinality(Candidates) \in Nat
    BY Constants, FS_CardinalityType
  <2>5. ResultsOK(r, z)
    BY <2>1, <2>4 DEF ResultsOK
  <2>6. o # "session" => Settled(r, z)
    BY <1>3 DEF Settled
  <2>7. RaceOK(r, z)
    BY <1>3, <2>1, <2>6 DEF RaceOK, Won
  <2>8. CallOK(r, z)
    BY <1>3, <2>5, <2>7 DEF CallOK
  <2>9. SpendOK'
    BY <1>1, <2>1, <2>2, PcMoves DEF Spending, Admitted
  <2> QED BY <1>1, <1>3, <2>2, <2>3, <2>8, <2>9, OneCall, Zenon
<1>4. CASE Establishes(k)
  <2>1. SetCall(k, Return(k, "session")) /\ cand' = cand
    BY <1>4 DEF Establishes
  <2>2. cand' = [cand EXCEPT ![k] = y] /\ \A c \in Candidates : AttemptOK(y[c])
    BY <1>1, <2>1 DEF Types, CallOK
  <2> QED BY <1>1, <1>3, <2>1, <2>2, Zenon
<1>5. CASE EstablishFails(k)
  <2>1. PICK failed \in BOOLEAN :
          SetAttempt(k, w, [y[w] EXCEPT !.wire = IF failed THEN "stuck" ELSE "closed", !.dropped = failed])
    BY <1>5, Zenon DEF EstablishFails
  <2> DEFINE v == IF failed THEN "stuck" ELSE "closed"
             z == [y EXCEPT ![w] = [y[w] EXCEPT !.wire = v, !.dropped = failed]]
  <2>2. v \in {"stuck", "closed"} /\ (v = "stuck" => failed)
    OBVIOUS
  <2>3. SetCall(k, Return(k, "failed")) /\ cand' = [cand EXCEPT ![k] = z]
    BY <1>5, <2>1, Zenon DEF EstablishFails, SetAttempt
  <2> HIDE DEF v
  <2>4. /\ z \in [Candidates -> Attempts]
        /\ \A c \in Candidates \ {w} : z[c] = y[c]
        /\ z[w].ready = "over" /\ z[w].abort = "none" /\ z[w].wire = v /\ z[w].dropped = failed /\ AttemptOK(z[w])
    BY <1>1, <1>2, <2>2, Zenon DEF Attempts, AttemptOK
  <2> HIDE DEF z
  <2>5. \A c \in Candidates : z[c].ready = y[c].ready /\ AttemptOK(z[c])
    BY <1>1, <1>2, <2>4, Zenon DEF CallOK
  <2>6. \A c \in Candidates : Closed(z[c]) /\ z[c].ready \in {"none", "over"} /\ z[c].abort \in {"none", "ok"}
    BY <1>2, <2>2, <2>4, SMTT(30) DEF Settled, Closed
  <2> QED BY <1>3, <2>3, <2>4, <2>5, <2>6, Zenon
<1> QED BY <1>4, <1>5

-----------------------------------------------------------------------------
\* The context of a call ends.
LEMMA ContextEnds ==
  ASSUME NEW x \in CallStates, NEW y \in [Candidates -> Attempts], CallOK(x, y), x.ctx = "live",
         x.pc \notin {"out", "returned"}
  PROVE  LET r == [x EXCEPT !.ctx = "done", !.race = "canceled"] IN
         r \in CallStates /\ r.pc = x.pc /\ CallOK(r, y)
<1> DEFINE r == [x EXCEPT !.ctx = "done", !.race = "canceled"]
<1>1. /\ r \in CallStates /\ r.pc = x.pc /\ r.winner = x.winner /\ r.cleanup = x.cleanup /\ r.closeErr = x.closeErr
      /\ r.outcome = x.outcome /\ r.ctx = "done" /\ r.results = x.results /\ r.left = x.left
  BY Zenon DEF CallStates
<1> HIDE DEF r
<1>2. Unreported(r, y) = Unreported(x, y)
  BY <1>1 DEF Unreported
<1>3. ResultsOK(r, y)
  BY <1>1, <1>2 DEF CallOK, ResultsOK
<1>4. Settled(x, y) => Settled(r, y)
  BY <1>1 DEF Settled
<1>5. RaceOK(r, y)
  BY <1>1, <1>4 DEF CallOK, RaceOK
<1> QED BY <1>1, <1>3, <1>5 DEF CallOK, r

(* The end of a context changes what a call will do, not what it owns.      *)
LEMMA TimeKeeps ==
  ASSUME ConnectorInv, NEW k \in Calls, ContextDone(k) \/ CleanupDeadline(k)
  PROVE  ConnectorInv'
<1> DEFINE x == conn[k]
<1>1. /\ Types /\ SpendOK /\ x \in CallStates /\ cand[k] \in [Candidates -> Attempts] /\ CallOK(x, cand[k])
      /\ lease \in [spending : Calls \cup {None}, consumed : BOOLEAN]
      /\ durable \in [spent : BOOLEAN, written : Nat, expired : BOOLEAN, crashes : Nat]
      /\ UNCHANGED <<scenario, cand, lease, durable>>
  BY CallTyped DEF ContextDone, CleanupDeadline
<1>2. ASSUME NEW r \in CallStates, SetCall(k, r), r.pc = x.pc, CallOK(r, cand[k])
      PROVE  ConnectorInv'
  <2>1. conn'[k] = r /\ \A j \in Calls \ {k} : conn'[j] = conn[j]
    BY <1>1, <1>2, CallSet
  <2>2. SpendOK'
    BY <1>1, <1>2, <2>1, SamePcs
  <2> QED BY <1>1, <1>2, <2>2, CallOnly
<1>3. CASE ContextDone(k)
  <2> DEFINE r == [x EXCEPT !.ctx = "done", !.race = "canceled"]
  <2>1. SetCall(k, r) /\ x.ctx = "live" /\ x.pc \notin {"out", "returned"}
    BY <1>3 DEF ContextDone
  <2>2. r \in CallStates /\ r.pc = x.pc /\ CallOK(r, cand[k])
    BY <1>1, <2>1, ContextEnds, Zenon
  <2> HIDE DEF r
  <2> QED BY <1>2, <2>1, <2>2, Zenon
<1>4. CASE CleanupDeadline(k)
  <2> DEFINE r == [x EXCEPT !.cleanup = "deadline"]
  <2>1. SetCall(k, r) /\ x.pc = "aborting"
    BY <1>4 DEF CleanupDeadline
  <2>2. /\ r \in CallStates /\ r.pc = x.pc /\ r.winner = x.winner /\ r.cleanup = "deadline" /\ r.closeErr = x.closeErr
        /\ r.outcome = x.outcome /\ r.ctx = x.ctx /\ r.results = x.results /\ r.left = x.left
    BY <1>1 DEF CallStates
  <2> HIDE DEF r
  <2>3. ResultsOK(r, cand[k])
    BY <1>1, <2>1, <2>2, Zenon DEF CallOK, ResultsOK
  <2>4. RaceOK(r, cand[k])
    BY <1>1, <2>1, <2>2, Zenon DEF CallOK, RaceOK, Won
  <2> QED BY <1>1, <1>2, <2>1, <2>2, <2>3, <2>4 DEF CallOK
<1> QED BY <1>3, <1>4

(* The artifact expires: the contexts of all calls that run end with it.    *)
LEMMA ExpiresKeeps ==
  ASSUME ConnectorInv, Expires
  PROVE  ConnectorInv'
<1>1. Types /\ SpendOK /\ UNCHANGED <<scenario, cand, lease>> /\ durable' = [durable EXCEPT !.expired = TRUE]
  BY Zenon DEF ConnectorInv, Expires
<1>2. ASSUME NEW k \in Calls
      PROVE  conn'[k] \in CallStates /\ conn'[k].pc = conn[k].pc /\ CallOK(conn'[k], cand[k])
  <2>1. conn[k] \in CallStates /\ cand[k] \in [Candidates -> Attempts] /\ CallOK(conn[k], cand[k])
    BY CallTyped
  <2>2. CASE conn[k].pc \in {"out", "returned"} \/ conn[k].ctx # "live"
    BY <2>1, <2>2, Zenon DEF Expires
  <2>3. CASE conn[k].pc \notin {"out", "returned"} /\ conn[k].ctx = "live"
    <3>1. conn'[k] = [conn[k] EXCEPT !.ctx = "done", !.race = "canceled"]
      BY <2>3, Zenon DEF Expires
    <3> QED BY <2>1, <2>3, <3>1, ContextEnds, Zenon
  <2> QED BY <2>2, <2>3
<1>3. conn' \in [Calls -> CallStates]
  BY <1>2, Zenon DEF Expires
<1>4. /\ durable' \in [spent : BOOLEAN, written : Nat, expired : BOOLEAN, crashes : Nat]
      /\ durable'.spent = durable.spent /\ durable'.written = durable.written
  BY <1>1, Zenon DEF Types
<1>5. Types'
  BY <1>1, <1>3, <1>4 DEF Types
<1>6. SpendOK'
  BY <1>1, <1>2, <1>4 DEF SpendOK
<1> QED BY <1>1, <1>2, <1>5, <1>6 DEF ConnectorInv

\* A process that has just started.
LEMMA FreshProcess ==
  ASSUME NEW x \in CallStates, x = NewCall, NEW y \in [Candidates -> Attempts],
         \A c \in Candidates : y[c] = NewAttempt
  PROVE  CallOK(x, y)
<1>1. \A c \in Candidates : AttemptOK(y[c]) /\ y[c].abort = "none"
  BY DEF NewAttempt, AttemptOK
<1>2. y = [c \in Candidates |-> NewAttempt]
  OBVIOUS
<1>3. Cardinality(Candidates) \in Nat
  BY Constants, FS_CardinalityType
<1>4. ResultsOK(x, y)
  BY <1>3, NewCallTyped DEF ResultsOK
<1>5. RaceOK(x, y)
  BY <1>2, NewCallTyped DEF RaceOK, Won
<1> QED BY <1>1, <1>4, <1>5 DEF CallOK

LEMMA NewAttemptTyped == NewAttempt \in Attempts /\ NewAttempt.ready = "none"
  BY DEF NewAttempt, Attempts

LEMMA InitConnector == ConnectorInit => ConnectorInv
<1> SUFFICES ASSUME ConnectorInit PROVE ConnectorInv
  OBVIOUS
<1>1. \A k \in Calls : conn[k] = NewCall /\ conn[k] \in CallStates /\ cand[k] \in [Candidates -> Attempts]
                       /\ \A c \in Candidates : cand[k][c] = NewAttempt
  BY NewCallTyped, NewAttemptTyped DEF ConnectorInit
<1>2. Types
  BY <1>1, NewAttemptTyped DEF ConnectorInit, Types
<1>3. \A k \in Calls : CallOK(conn[k], cand[k])
  BY <1>1, FreshProcess
<1>4. SpendOK
  BY <1>1, NewCallTyped, Constants DEF ConnectorInit, SpendOK, Spending, Admitted
<1> QED BY <1>2, <1>3, <1>4 DEF ConnectorInv

(* A crash leaves the SPENT record and what was written; no call that holds *)
(* a new lease begins if the artifact was spent.                            *)
LEMMA CrashKeeps ==
  ASSUME ConnectorInv, Crash
  PROVE  ConnectorInv'
<1>1. \A k \in Calls : conn'[k] = NewCall /\ conn'[k] \in CallStates /\ cand'[k] \in [Candidates -> Attempts]
                       /\ \A c \in Candidates : cand'[k][c] = NewAttempt
  BY NewCallTyped, NewAttemptTyped DEF Crash, NewProcess
<1>2. /\ durable' \in [spent : BOOLEAN, written : Nat, expired : BOOLEAN, crashes : Nat]
      /\ durable'.spent = durable.spent /\ durable'.written = durable.written
  BY DEF ConnectorInv, Types, Crash
<1>3. lease' = [spending |-> None, consumed |-> FALSE] /\ scenario' = scenario
  BY DEF Crash, NewProcess
<1>4. Types'
  <2>1. conn' \in [Calls -> CallStates] /\ cand' \in [Calls -> [Candidates -> Attempts]]
    BY <1>1 DEF Crash, NewProcess
  <2> QED BY <1>1, <1>2, <1>3, <2>1, NewAttemptTyped DEF ConnectorInv, Types
<1>5. \A k \in Calls : CallOK(conn'[k], cand'[k])
  BY <1>1, FreshProcess
<1>6. SpendOK'
  <2>1. \A k \in Calls : conn'[k].pc = "out"
    BY <1>1, NewCallTyped
  <2> QED BY <1>2, <1>3, <2>1, Constants, Zenon DEF ConnectorInv, SpendOK, Spending, Admitted
<1> QED BY <1>4, <1>5, <1>6 DEF ConnectorInv

-----------------------------------------------------------------------------
LEMMA NextConnector == ConnectorInv /\ [ConnectorNext]_connectorVars => ConnectorInv'
<1> SUFFICES ASSUME ConnectorInv, [ConnectorNext]_connectorVars PROVE ConnectorInv'
  OBVIOUS
<1>1. CASE UNCHANGED connectorVars
  BY <1>1 DEF connectorVars, ConnectorInv, Types, SpendOK
<1>2. ASSUME NEW k \in Calls, Begin(k) \/ Call(k) \/ ContextDone(k) \/ CleanupDeadline(k)
      PROVE  ConnectorInv'
  BY <1>2, BeginKeeps, RaceKeeps, LosersKeeps, FailsKeeps, SpendKeeps, AdmissionKeeps, EstablishKeeps, TimeKeeps
     DEF Call
<1>3. ASSUME NEW k \in Calls, NEW c \in Candidates, Attempt(k, c) \/ DialReturns(k, c)
      PROVE  ConnectorInv'
  BY <1>3, ReadyKeeps, ReadyReportsKeeps, AbortKeeps DEF Attempt
<1> QED BY <1>1, <1>2, <1>3, ExpiresKeeps, CrashKeeps DEF ConnectorNext

LEMMA ConnectorInvSafe == ConnectorInv => SpentOnce
<1> SUFFICES ASSUME ConnectorInv PROVE SpentOnce
  OBVIOUS
<1>1. ConnectorTypeOK
  <2>1. \A k \in Calls : conn[k].ctx \in {"live", "done"} /\ conn[k].left \in 0..Cardinality(Candidates)
    BY DEF ConnectorInv, Types, CallStates, CallOK, ResultsOK
  <2>2. \A k \in Calls, c \in Candidates : cand[k][c].wire \in {"none", "open", "closed", "stuck"}
    BY DEF ConnectorInv, Types, Attempts
  <2> QED BY <2>1, <2>2 DEF ConnectorInv, Types, ConnectorTypeOK
<1>2. CredentialOnce
  BY DEF ConnectorInv, SpendOK, CredentialOnce
<1>3. LosersClosedBeforeSpend
  <2>1. ASSUME NEW k \in Calls, conn[k].pc \in {"spend", "spending", "recorded", "admit", "admitting"}
        PROVE  Settled(conn[k], cand[k])
    BY <2>1, Zenon DEF ConnectorInv, CallOK, RaceOK, Won
  <2>2. \A k \in Calls : Losers(k) \subseteq Candidates \ {conn[k].winner}
    BY Constants DEF ConnectorInv, Types, Losers, Entries
  <2> QED BY <2>1, <2>2 DEF LosersClosedBeforeSpend, Settled
<1>4. NothingLeftOpen
  <2>1. ASSUME NEW k \in Calls, conn[k].pc = "returned", conn[k].outcome # "session", ~conn[k].closeErr
        PROVE  Settled(conn[k], cand[k]) /\ conn[k].winner = None
    BY <2>1 DEF ConnectorInv, CallOK, RaceOK
  <2> QED BY <2>1, Constants DEF NothingLeftOpen, Settled
<1> QED BY <1>1, <1>2, <1>3, <1>4 DEF SpentOnce

(* However many calls share the lease, however the dials, the Aborts, the   *)
(* application's callback and the deadlines interleave, and wherever the    *)
(* process crashes: the credential is written at most once and only after   *)
(* the SPENT record is durable; no loser dials and each one's carrier was   *)
(* closed when the artifact is spent; and a failed Connect has closed every *)
(* carrier.  A Close or an Abort may fail, though.  Then Connect fails with *)
(* its error, except in the two places where the code drops it, which       *)
(* Closed names: such a carrier may stay open and nobody is told.           *)
THEOREM ArtifactSpentOnce == ConnectorSpec => []SpentOnce
<1>1. ConnectorInit => ConnectorInv
  BY InitConnector
<1>2. ConnectorInv /\ [ConnectorNext]_connectorVars => ConnectorInv'
  BY NextConnector
<1>3. ConnectorInv => SpentOnce
  BY ConnectorInvSafe
<1> QED BY <1>1, <1>2, <1>3, PTL DEF ConnectorSpec
=============================================================================
