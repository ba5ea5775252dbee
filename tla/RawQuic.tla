------------------------------- MODULE RawQuic -------------------------------
(***************************************************************************)
(* The sockets of a raw QUIC client session                                *)
(* (internal/carrier/rawquic/rawquic.go and the dial of                    *)
(* internal/candidatev2/dialers.go): dialing, migration to a new socket    *)
(* while the session is closed by others, and the teardown.                *)
(***************************************************************************)
EXTENDS Integers, Sequences, FiniteSets, SequencesExt

CONSTANTS
  Migrations,   \* sockets handed to Migrate, in any order
  Closers       \* callers of Close, CloseWithError or Abort

VARIABLES
  sock,       \* per socket: "none", "open" or "closed"
  conn,       \* the QUIC connection: "none", "live" or "over"
  dial,       \* where the dial is, or how it ended
  session,    \* migrationTransports, the active migration and migrationMu's holder
  migrate,    \* per socket: where its Migrate call is
  closing     \* closeOnce: not begun, its steps, done; and the callers

quicVars == <<sock, conn, dial, session, migrate, closing>>

Sockets == Migrations \cup {"main"}
none == "none"

Init ==
  /\ sock = [s \in Sockets |-> "none"] /\ conn = "none" /\ dial = "start"
  /\ session = [transports |-> {}, migration |-> none, mutex |-> none]
  /\ migrate = [m \in Migrations |-> "idle"]
  /\ closing = [at |-> "no", called |-> {}]

-----------------------------------------------------------------------------
(* Dial, dialPacketConn and the candidate's dial.                           *)

\* prepareTLS, newConfig, the address or ListenUDP refuse before a socket exists.
DialRefused == dial = "start" /\ dial' = "failed" /\ UNCHANGED <<sock, conn, session, migrate, closing>>

ListenUDP ==
  /\ dial = "start" /\ dial' = "dialing" /\ sock' = [sock EXCEPT !["main"] = "open"]
  /\ UNCHANGED <<conn, session, migrate, closing>>

\* transport.Dial fails or ctx ends: the transport and the socket are closed.
HandshakeFails ==
  /\ dial = "dialing" /\ dial' = "failed" /\ sock' = [sock EXCEPT !["main"] = "closed"]
  /\ UNCHANGED <<conn, session, migrate, closing>>

HandshakeDone ==
  /\ dial = "dialing" /\ dial' = "checking" /\ conn' = "live" /\ UNCHANGED <<sock, session, migrate, closing>>

refusedSocket(s) == [s EXCEPT !["main"] = "closed"]

\* newSession refuses early data, a foreign ALPN or missing datagrams.
SessionRefused ==
  /\ dial = "checking" /\ dial' = "failed" /\ conn' = "over" /\ sock' = refusedSocket(sock)
  /\ UNCHANGED <<session, migrate, closing>>

SessionMade == dial = "checking" /\ dial' = "opening" /\ UNCHANGED <<sock, conn, session, migrate, closing>>

\* OpenAdmissionStream; without it the dial closes the session and fails.
AdmissionStream ==
  /\ dial = "opening" /\ conn = "live" /\ dial' = "ready" /\ UNCHANGED <<sock, conn, session, migrate, closing>>
AdmissionStreamFails ==
  /\ dial = "opening" /\ dial' = "failed" /\ conn' = "over" /\ sock' = [sock EXCEPT !["main"] = "closed"]
  /\ closing' = [closing EXCEPT !.at = "done"] /\ UNCHANGED <<session, migrate>>

PeerCloses ==
  /\ dial \in {"opening", "ready"} /\ conn = "live" /\ conn' = "over"
  /\ UNCHANGED <<sock, dial, session, migrate, closing>>

-----------------------------------------------------------------------------
(* Session.Migrate, which owns the socket from its entry on.                *)

MigrateCalled(m) ==
  /\ dial = "ready" /\ migrate[m] = "idle" /\ migrate' = [migrate EXCEPT ![m] = "locking"]
  /\ sock' = [sock EXCEPT ![m] = "open"] /\ UNCHANGED <<conn, dial, session, closing>>

stillLive == conn = "live"

\* Under migrationMu: a connection that is over, or AddPath, refuses the socket.
MigrateRefused(m) ==
  /\ migrate[m] = "locking" /\ session.mutex = none
  /\ sock' = [sock EXCEPT ![m] = "closed"] /\ migrate' = [migrate EXCEPT ![m] = "over"]
  /\ UNCHANGED <<conn, dial, session, closing>>

AddPath(m) ==
  /\ migrate[m] = "locking" /\ session.mutex = none /\ stillLive
  /\ session' = [session EXCEPT !.transports = @ \cup {m}, !.mutex = m]
  /\ migrate' = [migrate EXCEPT ![m] = "probing"] /\ UNCHANGED <<sock, conn, dial, closing>>

unlocked(s) == [s EXCEPT !.mutex = none]

\* Probe fails, its ctx ends or Switch refuses: the path is closed, its
\* transport stays with the session.
ProbeFails(m) ==
  /\ migrate[m] = "probing" /\ migrate' = [migrate EXCEPT ![m] = "over"]
  /\ session' = unlocked(session) /\ UNCHANGED <<sock, conn, dial, closing>>

Switched(m) ==
  /\ migrate[m] = "probing" /\ conn = "live" /\ migrate' = [migrate EXCEPT ![m] = "over"]
  /\ session' = [session EXCEPT !.migration = m, !.mutex = none] /\ UNCHANGED <<sock, conn, dial, closing>>

-----------------------------------------------------------------------------
(* CloseWithErrorContext; the callers share one Once.                       *)

CloseCalled(c) ==
  /\ dial = "ready" /\ c \notin closing.called
  /\ closing' = [closing EXCEPT !.called = @ \cup {c}, !.at = IF @ = "no" THEN "conn" ELSE @]
  /\ conn' = IF closing.at = "no" THEN "over" ELSE conn
  /\ UNCHANGED <<sock, dial, session, migrate>>

\* Under migrationMu: every migration's transport and socket.
CloseMigrations ==
  /\ closing.at = "conn" /\ session.mutex = none
  /\ sock' = [s \in Sockets |-> IF s \in session.transports THEN "closed" ELSE sock[s]]
  /\ session' = [session EXCEPT !.migration = none, !.transports = {}]
  /\ closing' = [closing EXCEPT !.at = "main"] /\ UNCHANGED <<conn, dial, migrate>>

CloseMain ==
  /\ closing.at = "main" /\ closing' = [closing EXCEPT !.at = "done"]
  /\ sock' = [sock EXCEPT !["main"] = "closed"] /\ UNCHANGED <<conn, dial, session, migrate>>

-----------------------------------------------------------------------------
Next ==
  \/ DialRefused \/ ListenUDP \/ HandshakeFails \/ HandshakeDone \/ SessionRefused \/ SessionMade
  \/ AdmissionStream \/ AdmissionStreamFails \/ PeerCloses
  \/ \E m \in Migrations : MigrateCalled(m) \/ MigrateRefused(m) \/ AddPath(m) \/ ProbeFails(m) \/ Switched(m)
  \/ \E c \in Closers : CloseCalled(c)
  \/ CloseMigrations \/ CloseMain

\* Code that is running goes on.  A probe ends with an answer or its ctx, and may have neither.
Fairness ==
  /\ WF_quicVars(CloseMigrations) /\ WF_quicVars(CloseMain)
  /\ \A m \in Migrations : WF_quicVars(MigrateRefused(m) \/ AddPath(m))

Spec == Init /\ [][Next]_quicVars /\ Fairness

-----------------------------------------------------------------------------
TypeOK ==
  /\ sock \in [Sockets -> {"none", "open", "closed"}] /\ conn \in {"none", "live", "over"}
  /\ session.migration \in session.transports \cup {none} /\ session.mutex \in Migrations \cup {none}

\* A live connection has the socket of every transport it was ever bound to:
\* closing one of them would end the connection (the comment on
\* migrationTransports).
BoundSocketsStay == conn = "live" => \A s \in session.transports \cup {"main"} : sock[s] = "open"

\* When Close has returned and no Migrate is under way, no socket is left
\* open, whichever of the two came first.
SocketsReleased ==
  /\ closing.at = "done" /\ (\A m \in Migrations : migrate[m] \in {"idle", "over"})
       => \A s \in Sockets : sock[s] # "open"
  /\ dial = "failed" => sock["main"] # "open"

CloseOwed == closing.called # {} /\ closing.at # "done" /\ session.mutex = none

\* A Close that was called returns once no migration is probing, however many are queued:
\* it waits for migrationMu whatever its own ctx, and Migrate holds that through Probe.
CloseReturns == CloseOwed ~> ~CloseOwed
=============================================================================
