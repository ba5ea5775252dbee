------------------------------ MODULE Admission ------------------------------
(***************************************************************************)
(* The admission exchange on a native stream (internal/admissionv2): the   *)
(* client writes one FSB2 request and its FIN, the server reads both,      *)
(* authorizes, and answers with one FSA2 response and its FIN.  A context  *)
(* that ends on either side resets the stream (interruptOnCancellation).   *)
(***************************************************************************)
EXTENDS Integers, Sequences

CONSTANTS
  Payloads,    \* what a peer may send for a request: "fsb2", "malformed", "wrong_path", "trailing"
  Decisions    \* what the authorizer answers: "success", "retryable", "reject", "error"

VARIABLES
  client,   \* CommitClient
  server,   \* Serve
  pipe      \* the stream: what is under way in each direction, and its reset

admissionVars == <<client, server, pipe>>

Init ==
  /\ client \in {[at |-> "check", sends |-> p, done |-> FALSE, result |-> "none"] : p \in Payloads}
  /\ server = [at |-> "read", done |-> FALSE, result |-> "none", asked |-> FALSE, answer |-> "none"]
  /\ pipe = [up |-> <<>>, down |-> <<>>, reset |-> FALSE, lost |-> FALSE]

Sent(dir, items) == [pipe EXCEPT ![dir] = @ \o items]
Reset(p) == [p EXCEPT !.reset = TRUE]
Taken(dir) == [pipe EXCEPT ![dir] = Tail(@)]
Ready(dir, item) == ~pipe.reset /\ pipe[dir] # <<>> /\ Head(pipe[dir]) = item

\* The return; what fails after interruptOnCancellation was armed resets the stream too.
ClientReturns(result) ==
  /\ client' = [client EXCEPT !.at = "returned", !.result = result]
  /\ UNCHANGED server
ServerReturns(result) ==
  /\ server' = [server EXCEPT !.at = "returned", !.result = result]
  /\ UNCHANGED client

-----------------------------------------------------------------------------
(* commit.                                                                  *)

\* streamClientExchange.Commit: ParseRequest and the path check come before anything is
\* armed or written, and leave the stream as it is.
ClientChecks ==
  /\ client.at = "check" /\ UNCHANGED pipe
  /\ IF client.sends = "wrong_path" THEN ClientReturns("invalid")
     ELSE client' = [client EXCEPT !.at = "write"] /\ UNCHANGED server

ClientWrites ==
  /\ client.at = "write" /\ ~pipe.reset
  /\ pipe' = Sent("up", IF client.sends = "trailing" THEN <<"fsb2", "byte", "fin">> ELSE <<client.sends, "fin">>)
  /\ client' = [client EXCEPT !.at = "read"] /\ UNCHANGED server

ClientReads(status) ==
  /\ client.at = "read" /\ Ready("down", status)
  /\ client' = [client EXCEPT !.at = "eof", !.result = status] /\ pipe' = Taken("down") /\ UNCHANGED server

\* requireCleanEOF, then the context, then the status.
ClientEOF ==
  /\ client.at = "eof" /\ Ready("down", "fin")
  /\ IF client.done THEN ClientReturns("context") /\ pipe' = Reset(pipe)
     ELSE client' = [client EXCEPT !.at = "leave"] /\ pipe' = Taken("down") /\ UNCHANGED server

\* The deferred stop: until then the end of the context still resets the stream.
ClientLeaves == client.at = "leave" /\ ClientReturns(client.result) /\ UNCHANGED pipe

ClientFails ==
  /\ client.at \in {"write", "read", "eof"} /\ pipe.reset
  /\ ClientReturns(IF client.done THEN "context" ELSE "carrier") /\ UNCHANGED pipe

-----------------------------------------------------------------------------
(* Serve: Receive, the authorizer, Respond.                                 *)

ServerReads ==
  /\ server.at = "read" /\ ~pipe.reset /\ pipe.up # <<>>
  /\ IF Head(pipe.up) = "fsb2"
     THEN server' = [server EXCEPT !.at = "eof"] /\ pipe' = Taken("up") /\ UNCHANGED client
     ELSE ServerReturns("invalid") /\ pipe' = Reset(pipe)

cleanEOF == Head(pipe.up) = "fin"

ServerEOF ==
  /\ server.at = "eof" /\ ~pipe.reset /\ pipe.up # <<>>
  /\ IF cleanEOF /\ ~server.done
     THEN server' = [server EXCEPT !.at = "authorize"] /\ pipe' = Taken("up") /\ UNCHANGED client
     ELSE ServerReturns(IF server.done THEN "context" ELSE "invalid") /\ pipe' = Reset(pipe)

Authorize(decision) ==
  /\ server.at = "authorize"
  /\ IF decision = "error"
     THEN /\ server' = [server EXCEPT !.at = "returned", !.result = "denied", !.asked = TRUE] /\ pipe' = Reset(pipe)
     ELSE /\ server' = [server EXCEPT !.at = "respond", !.answer = decision, !.asked = TRUE] /\ UNCHANGED pipe
  /\ UNCHANGED client

Respond ==
  /\ server.at = "respond" /\ ~pipe.reset
  /\ pipe' = Sent("down", <<server.answer, "fin">>)
  /\ server' = [server EXCEPT !.at = "check"] /\ UNCHANGED client

\* Mutant: the context looked at is one that is canceled by now in any case.
WrongContext == TRUE

contextOver == server.done

\* Respond looks at the context once more after its FIN.
RespondChecks ==
  /\ server.at = "check"
  /\ IF contextOver THEN ServerReturns("context") /\ pipe' = Reset(pipe)
     ELSE server' = [server EXCEPT !.at = "leave"] /\ UNCHANGED <<client, pipe>>

\* The deferred stops of Respond and Serve: until then the end of the context still
\* resets the stream, and Serve succeeds all the same.
ServerLeaves == server.at = "leave" /\ ServerReturns(server.answer) /\ UNCHANGED pipe

ServerFails ==
  /\ server.at \in {"read", "eof", "respond"} /\ pipe.reset
  /\ ServerReturns(IF server.done THEN "context" ELSE "carrier") /\ UNCHANGED pipe

-----------------------------------------------------------------------------
\* A context ends while the exchange runs; the callback that resets the stream
\* runs on its own goroutine, which nobody waits for.
ClientCanceled ==
  /\ client.at \notin {"check", "returned"} /\ ~client.done
  /\ client' = [client EXCEPT !.done = TRUE] /\ UNCHANGED <<server, pipe>>

ServerCanceled ==
  /\ server.at # "returned" /\ ~server.done
  /\ server' = [server EXCEPT !.done = TRUE] /\ UNCHANGED <<client, pipe>>

interruptOnCancellation ==
  /\ client.done \/ server.done
  /\ ~pipe.reset /\ pipe' = Reset(pipe) /\ UNCHANGED <<client, server>>

\* External: the carrier loses the stream.
CarrierLost ==
  /\ ~pipe.reset /\ {client.at, server.at} # {"returned"}
  /\ pipe' = [Reset(pipe) EXCEPT !.lost = TRUE] /\ UNCHANGED <<client, server>>

Exchange ==
  \/ ClientChecks \/ ClientWrites \/ ClientEOF \/ ClientLeaves \/ ClientFails \/ \E s \in Decisions : ClientReads(s)
  \/ ServerReads \/ ServerEOF \/ Respond \/ RespondChecks \/ ServerLeaves \/ ServerFails
  \/ interruptOnCancellation

Next == Exchange \/ (\E d \in Decisions : Authorize(d)) \/ ClientCanceled \/ ServerCanceled \/ CarrierLost

\* Both sides and the callbacks run, and the runtime serves an admission under a timeout.
\* Nothing is assumed of the authorizer.
Fairness == WF_admissionVars(Exchange) /\ WF_admissionVars(ServerCanceled)

Spec == Init /\ [][Next]_admissionVars /\ Fairness

-----------------------------------------------------------------------------
TypeOK ==
  /\ client.at \in {"check", "write", "read", "eof", "leave", "returned"}
  /\ server.at \in {"read", "eof", "authorize", "respond", "check", "leave", "returned"}
  /\ pipe.reset \in BOOLEAN /\ Len(pipe.up) <= 3 /\ Len(pipe.down) <= 2

\* The authorizer, which reserves a one-time credential, sees only a request
\* that was well formed and ended exactly where it should.
AuthorizeOnlyClean == server.asked => client.sends = "fsb2"

\* The client takes itself for admitted only on the authorizer's word, and when
\* the server does not agree, it is its own context that ended.
ClientNeverAlone ==
  client.at = "returned" /\ client.result = "success"
  => /\ server.answer = "success"
     /\ server.at = "returned" => server.result = "success" \/ server.done

\* A response the server reports as sent reaches the client whole: only a context that
\* ended, of the client or of the server before it returned, or the carrier can keep it
\* from being read.
SuccessDelivered ==
  server.at = "returned" /\ server.result = "success" /\ client.at = "returned"
  => client.result = "success" \/ client.done \/ server.done \/ pipe.lost

ExchangeOwed == server.at # "authorize" /\ (client.at # "returned" \/ server.at # "returned")

\* Both sides return once the authorizer has, even when the client leaves without a word.
ExchangeEnds == ExchangeOwed ~> ~ExchangeOwed
=============================================================================
