------------------------------- MODULE MCRekey -------------------------------
(***************************************************************************)
(* Rekey on small instances: both ends at once, twice during data, two     *)
(* streams, faults with deadlines; and the packed ledger both ends keep.   *)
(* Every behaviour runs one instance, "part"; the ledger stays in an       *)
(* initial state while a rekey runs, and the session while the ledger does. *)
(***************************************************************************)
EXTENDS SessionRekey

CONSTANTS
  Parts,     \* the instances to run
  s1, s2

VARIABLES
  part,
  role, states, frontier, opened, reset

\* Calls per endpoint.
Calls(client, server) == [e \in Endpoint |-> IF e = "client" THEN client ELSE server]
NoCalls == Calls(0, 0)
ClientOnly == Calls(1, 0)
ServerOnly == Calls(0, 1)
BothOnce == Calls(1, 1)

\* Part "both" is the specification under the constants of the configuration.

\* One end rekeys twice in a row while both send data and the rekeying end may finish the stream.
T == INSTANCE SessionRekey WITH
       Streams <- {s1}, MaxRekeys <- Calls(2, 0), MaxData <- BothOnce, MaxFINs <- ClientOnly,
       MaxResets <- NoCalls, Deadlines <- FALSE

\* A rekey over two streams, one of which the client may finish.
H == INSTANCE SessionRekey WITH
       Streams <- {s1, s2}, MaxRekeys <- ClientOnly, MaxData <- NoCalls, MaxFINs <- ClientOnly,
       MaxResets <- NoCalls, Deadlines <- FALSE

\* The peer finishes or resets the stream during a rekey, and the deadlines may pass.
F == INSTANCE SessionRekey WITH
       Streams <- {s1}, MaxRekeys <- ClientOnly, MaxData <- NoCalls, MaxFINs <- ServerOnly,
       MaxResets <- ServerOnly, Deadlines <- TRUE

P == INSTANCE PackedLedger WITH maxSlots <- 4

packedVars == <<role, states, frontier, opened, reset>>

-----------------------------------------------------------------------------
PartsInit ==
  /\ part \in Parts
  /\ \/ part \in {"both", "packed"} /\ Init
     \/ part = "streams" /\ T!Init
     \/ part = "finished" /\ H!Init
     \/ part = "faults" /\ F!Init
  /\ P!Init /\ (part = "packed" \/ role = "client")

PartsNext ==
  /\ UNCHANGED part
  /\ \/ part = "both" /\ Next
     \/ part = "streams" /\ T!Next
     \/ part = "finished" /\ H!Next
     \/ part = "faults" /\ F!Next
     \/ part = "packed" /\ UNCHANGED vars
  /\ IF part = "packed" THEN P!Next ELSE UNCHANGED packedVars

\* The goroutines of the repeated update run; no application and no timer owes a step.
GoroutinesRun ==
  \A e \in Endpoint : /\ WF_vars(part = "streams" /\ T!SessionStep(e))
                      /\ WF_vars(part = "streams" /\ T!StreamStep(e, s1))

PartsSpec == PartsInit /\ [][PartsNext]_<<part, vars, packedVars>> /\ GoroutinesRun

\* The specification of the configuration alone, with its own fairness.
QuietSpec == PartsInit /\ [][PartsNext]_<<part, vars, packedVars>> /\ Fairness

-----------------------------------------------------------------------------
\* With one initiator, two rekeys in a row or two streams: after Rekey returned no stream is left behind on the old keys, a failure of one
\* stream ends that stream and not the session, and root cleanup removes what is obsolete: at most the current and the
\* next epoch are held for sending, and one more for receiving while the control stream has not cut over.
StreamsFollow ==
  /\ part = "streams" => T!RekeyAgrees /\ T!NoStreamLeftBehind /\ T!FailuresStayStreamScoped /\ T!RootsBounded
  /\ part = "finished" => H!RekeyAgrees /\ H!NoStreamLeftBehind /\ H!FailuresStayStreamScoped /\ H!RootsBounded

\* A key update of one endpoint, with data, a half-close and a second update behind it, completes without help of an
\* application or a timer and fails neither session, unless awaitReceiveRekey captured its wakeup channel too late.
UpdatesEnd == part = "streams" => T!UpdatesComplete

\* The packed bytes and the frontier loop implement the abstract ledger: writing one slot disturbs no neighbour in its
\* byte, and the loop stops exactly where the abstract frontier does.
ImplementsLedger == P!ImplementsLedger
=============================================================================
