------------------------ MODULE ConnectionLifecycle ------------------------
(***************************************************************************)
(* What a ConnectionController promises to whoever watches its snapshots:  *)
(* the order of the states, and which of them name a session.              *)
(***************************************************************************)
EXTENDS Naturals

VARIABLES state,    \* ConnectionState of the snapshot
          session   \* CurrentSession, 0 for nil

vars == <<state, session>>

Init == state = "idle" /\ session = 0

Start == state = "idle" /\ state' = "connecting" /\ UNCHANGED session

Connected == state = "connecting" /\ state' = "connected" /\ session = 0 /\ session' # 0

\* A failed attempt or a session that ended: the session leaves the snapshot.
Failed ==
  /\ state \in {"connecting", "connected"} /\ state' \in {"waiting", "failed"} /\ session' = 0

Retry == state = "waiting" /\ state' = "connecting" /\ UNCHANGED session

Closed == state # "closed" /\ state' = "closed" /\ session' = 0

Next == Start \/ Connected \/ Failed \/ Retry \/ Closed

Spec == Init /\ [][Next]_vars
=============================================================================
