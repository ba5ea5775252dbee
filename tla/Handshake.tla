----------------------------- MODULE Handshake -----------------------------
(* Establish of the two ends of a session: FSC2 and FSH2 over the control      *)
(* stream, under an establish context on each side.  A hash is the tuple it    *)
(* hashes and a derived key the tuple of its inputs, so that two ends hold the *)
(* same key exactly when they saw the same transcript and key material.        *)
EXTENDS HandshakeChecks, Sequences

CONSTANTS Pairs \* [client, server: Config; clientFeatures, serverFeatures]

VARIABLES pair,   \* the configurations of this establishment
          end,    \* per end: [at, init (the one the server read), material, control]
          pipe,   \* per sender: messages on the control stream not yet read
          ctx,    \* ends whose establish context is over
          carrier \* "open", or "closed" by an end whose handshake failed

handshakeVars == <<pair, end, pipe, ctx, carrier>>

Ends == {"client", "server"}
peer(e) == IF e = "client" THEN "server" ELSE "client"
config(e) == IF e = "client" THEN pair.client ELSE pair.server
features(e) == IF e = "client" THEN pair.clientFeatures ELSE pair.serverFeatures

Over == {"returned", "failed"}
NoInit == [none |-> TRUE]
NoMaterial == [h3 |-> <<>>, prk |-> <<>>, features |-> {}]

-----------------------------------------------------------------------------
(* FSH2 frames.  Their payload is canonical JSON: a parser re-encodes what it  *)
(* decoded and refuses bytes that differ, so a frame is its type and fields.   *)
Malformed == [type |-> 0, fields |-> NoInit]
frame(type, fields) == [type |-> type, fields |-> fields]

validateClientInitFields(m) ==
  m.channel # "" /\ m.suite \in {1, 2} /\ m.features \subseteq {"unreliable"} /\ m.maxInbound \in 1..128
validateServerCoreFields(core) ==
  core.features \subseteq {"unreliable"} /\ core.maxInbound \in 1..128

MarshalClientInit(m) == IF validateClientInitFields(m) THEN frame(1, m) ELSE Malformed
isClientInit(f) == f.type = 1 /\ validateClientInitFields(f.fields)
MarshalServerFinished(m) == IF validateServerCoreFields(m.core) THEN frame(2, m) ELSE Malformed
isServerFinished(f) == f.type = 2 /\ validateServerCoreFields(f.fields.core)
MarshalClientFinished(m) == frame(3, m)
isClientFinished(f) == f.type = 3

-----------------------------------------------------------------------------
(* Transcript and keys.                                                        *)
hashTranscript(parts) == parts
h0(init) == hashTranscript(<<"FSC2", frame(1, init)>>)
h1(init, core) == hashTranscript(<<h0(init), frame(2, core)>>)
h2(init, finished) ==
  hashTranscript(<<h1(init, finished.core), frame(2, finished), frame(3, finished.core.id)>>)
h3(init, finished, client) == hashTranscript(<<h2(init, finished), frame(3, client)>>)

handshakePRK(psk, mine, theirs) == <<psk, {mine, theirs}>> \* ECDH is symmetric
serverConfirm(prk, h) == <<"server finished", prk, h>>
clientConfirm(prk, h) == <<"client finished", prk, h>>

\* Mutant: an end keeps its own features instead of the selected ones.
OwnFeatures(core, available) == available

selectedFeatures(core, available) == core.features
material(prk, h, chosen) == [h3 |-> h, prk |-> <<h, prk>>, features |-> chosen]

myInit == ClientInit(pair.client, pair.clientFeatures, "client key")
myCore(init) == ServerCore(pair.server, init, pair.serverFeatures, "server key", "handshake id")
serverPRK(init) == handshakePRK(pair.server.psk, "server key", init.public)
clientPRK(core) == handshakePRK(pair.client.psk, "client key", core.public)
serverFinished(init) ==
  [core |-> myCore(init), confirm |-> serverConfirm(serverPRK(init), h1(init, myCore(init)))]
clientFinished(m) == [id |-> m.core.id, confirm |-> clientConfirm(clientPRK(m.core), h2(myInit, m))]

serverConfirmed(m) == m.confirm = serverConfirm(clientPRK(m.core), h1(myInit, m.core))

-----------------------------------------------------------------------------
Init ==
  /\ pair \in Pairs
  /\ end = [e \in Ends |-> [at |-> "called", init |-> NoInit, material |-> NoMaterial, control |-> "none"]]
  /\ pipe = [e \in Ends |-> <<>>]
  /\ ctx = {} /\ carrier = "open"

\* The control stream serves e while neither end reset it and the carrier is
\* open; after that, what was already delivered may still be read.
usable(e) == carrier = "open" /\ \A x \in Ends : end[x].control # "reset"
at(e, p) == end[e].at = p
move(e, p) == end' = [end EXCEPT ![e].at = p]
sent(e, message) == pipe' = [pipe EXCEPT ![e] = Append(@, message)]
received(e) == pipe' = [pipe EXCEPT ![peer(e)] = Tail(@)]
readable(e) == pipe[peer(e)] # <<>>

\* validateEngineConfig refuses before anything is opened.
Refuse(e) ==
  /\ at(e, "called") /\ ~validConfig(config(e))
  /\ move(e, "failed") /\ UNCHANGED <<pair, pipe, ctx, carrier>>

\* OpenStream, or AcceptStream once the peer's stream has arrived.
OpenControl(e) ==
  /\ at(e, "called") /\ validConfig(config(e)) /\ usable(e)
  /\ e = "server" => pipe["client"] # <<>> \* the preface announces the stream
  /\ end' = [end EXCEPT ![e].at = IF e = "client" THEN "opened" ELSE "accepted",
                        ![e].control = "open"]
  /\ UNCHANGED <<pair, pipe, ctx, carrier>>

WriteInit ==
  /\ at("client", "opened") /\ usable("client")
  /\ IF MarshalClientInit(myInit) = Malformed
     THEN move("client", "failing") /\ UNCHANGED pipe
     ELSE sent("client", MarshalClientInit(myInit)) /\ move("client", "init_sent")
  /\ UNCHANGED <<pair, ctx, carrier>>

\* performServerHandshake up to its ServerFinished.
ReadInit ==
  /\ at("server", "accepted") /\ readable("server") /\ usable("server")
  /\ LET f == Head(pipe["client"])
     IN IF /\ isClientInit(f) /\ ValidateClientInit(f.fields, pair.server)
           /\ MarshalServerFinished(serverFinished(f.fields)) # Malformed
        THEN /\ pipe' = [pipe EXCEPT !["client"] = Tail(@),
                            !["server"] = Append(@, MarshalServerFinished(serverFinished(f.fields)))]
             /\ end' = [end EXCEPT !["server"].at = "finished_sent", !["server"].init = f.fields]
        ELSE received("server") /\ move("server", "failing")
  /\ UNCHANGED <<pair, ctx, carrier>>

\* performClientHandshake from ServerFinished to its return.
ReadServerFinished ==
  /\ at("client", "init_sent") /\ readable("client") /\ usable("client")
  /\ LET f == Head(pipe["server"])
         m == f.fields
         reply == clientFinished(m)
     IN IF /\ isServerFinished(f) /\ ValidateServerFinished(m.core, pair.client, pair.clientFeatures)
           /\ serverConfirmed(m)
        THEN /\ pipe' = [pipe EXCEPT !["server"] = Tail(@),
                                     !["client"] = Append(@, MarshalClientFinished(reply))]
             /\ end' = [end EXCEPT !["client"].at = "done",
                          !["client"].material = material(clientPRK(m.core), h3(myInit, m, reply),
                                                          selectedFeatures(m.core, pair.clientFeatures))]
        ELSE received("client") /\ move("client", "failing")
  /\ UNCHANGED <<pair, ctx, carrier>>

\* performServerHandshake from ClientFinished to its return.
ReadClientFinished ==
  /\ at("server", "finished_sent") /\ readable("server") \* delivered before a reset, or not
  /\ LET f == Head(pipe["client"])
         init == end["server"].init
         mine == serverFinished(init)
     IN /\ IF /\ isClientFinished(f) /\ f.fields.id = mine.core.id
              /\ f.fields.confirm = clientConfirm(serverPRK(init), h2(init, mine))
           THEN end' = [end EXCEPT !["server"].at = "done",
                          !["server"].material = material(serverPRK(init), h3(init, mine, f.fields),
                                                          mine.core.features)]
           ELSE move("server", "failing")
        /\ received("server")
  /\ UNCHANGED <<pair, ctx, carrier>>

\* A read or write of e fails: the stream was reset, the carrier closed, or
\* opening met the end of the context.
IOFails(e) ==
  /\ end[e].at \notin Over \cup {"failing", "done"} /\ validConfig(config(e))
  /\ ~usable(e) \/ (at(e, "called") /\ e \in ctx)
  /\ move(e, "failing") /\ UNCHANGED <<pair, pipe, ctx, carrier>>

\* The caller gives up or the establish timeout fires.
ContextEnds(e) ==
  /\ e \notin ctx /\ end[e].at \notin Over
  /\ ctx' = ctx \cup {e} /\ UNCHANGED <<pair, end, pipe, carrier>>

\* watchStreamContext; stopWatch and the end of the context may race, so the
\* stream can also be reset when the handshake has just succeeded.
WatchResets(e) ==
  /\ e \in ctx /\ end[e].control = "open" /\ end[e].at \notin Over
  /\ end' = [end EXCEPT ![e].control = "reset"]
  /\ UNCHANGED <<pair, pipe, ctx, carrier>>

Return(e) ==
  /\ at(e, "done") /\ move(e, "returned") /\ UNCHANGED <<pair, pipe, ctx, carrier>>

\* A failed handshake closes the carrier with code 6.
carrierAfterFailure(now) == "closed"
CloseCarrier(e) ==
  /\ at(e, "failing") /\ move(e, "failed") /\ carrier' = carrierAfterFailure(carrier)
  /\ UNCHANGED <<pair, pipe, ctx>>

Step(e) ==
  \/ Refuse(e) \/ OpenControl(e) \/ IOFails(e) \/ WatchResets(e)
  \/ Return(e) \/ CloseCarrier(e)
Next ==
  \/ \E e \in Ends : Step(e) \/ ContextEnds(e)
  \/ WriteInit \/ ReadInit \/ ReadServerFinished \/ ReadClientFinished

\* Every goroutine that can run does; no establish timeout is relied on.
Fairness ==
  /\ \A e \in Ends : WF_handshakeVars(Step(e))
  /\ WF_handshakeVars(WriteInit) /\ WF_handshakeVars(ReadInit)
  /\ WF_handshakeVars(ReadServerFinished) /\ WF_handshakeVars(ReadClientFinished)
Spec == Init /\ [][Next]_handshakeVars /\ Fairness

-----------------------------------------------------------------------------
compatible == Compatible(pair.client, pair.server, pair.clientFeatures, pair.serverFeatures)

\* Phases, contexts and the carrier take the values the code gives them.
TypeOK ==
  /\ ctx \subseteq Ends /\ carrier \in {"open", "closed"}
  /\ \A e \in Ends : /\ end[e].control \in {"none", "open", "reset"}
                     /\ end[e].at \in Over \cup {"called", "opened", "accepted", "init_sent",
                                                 "finished_sent", "failing", "done"}
                     /\ Len(pipe[e]) <= 1

\* Two ends that both complete the handshake hold the same session key and
\* transcript, and use the same features: those both carriers offer.
KeysAgree ==
  (\A e \in Ends : end[e].at \in {"done", "returned"}) =>
    /\ end["client"].material = end["server"].material
    /\ end["client"].material.features = pair.clientFeatures \cap pair.serverFeatures

\* Neither end completes the handshake unless the two configurations agree on
\* channel, contract, key, suite, capacity, admission bindings and identities:
\* the server also only after the client has completed it.
OnlyCompatible ==
  /\ \A e \in Ends : end[e].at \in {"done", "returned"} => compatible
  /\ end["server"].at \in {"done", "returned"} => end["client"].at \in {"done", "returned"}

\* Two compatible ends whose contexts live establish: none of the checks
\* refuses what the other end's code sends.
CompatibleSucceeds == compatible /\ ctx = {} => \A e \in Ends : end[e].at \notin {"failing", "failed"}

\* Both calls of Establish return without waiting for a timeout: an end that
\* fails closes the carrier under the other.  (An end whose configuration is
\* refused outright does not, and its peer waits for its own context.)
EstablishOwed == (\A e \in Ends : validConfig(config(e))) /\ \E e \in Ends : end[e].at \notin Over
EstablishEnds == EstablishOwed ~> ~EstablishOwed
=============================================================================
