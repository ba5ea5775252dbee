----------------------------- MODULE ProxyServer -----------------------------
(* The proxy application: streams of a session that carry one HTTP exchange or *)
(* one WebSocket each, relayed to a fixed upstream, under SessionHandlers.      *)
(* Bodies are sequences of chunk sizes; the direction from the proxy to the     *)
(* client is a queue that a reset may overtake.                                 *)
EXTENDS Integers, Sequences, FiniteSets, SequencesExt

CONSTANTS Streams, Workloads, \* what each stream carries: [kind, meta, method, body,
                              \* ending, answer, sized, answerEnds, lost]
          MaxConcurrentStreams, MaxChunk, MaxBody,
          Window              \* items the flow control lets the proxy send unread

VARIABLES ask,     \* per stream: what it carries
          handler, \* per stream: where the handler is
          relay,   \* per stream: [at, next, total] of the goroutine that reads the stream
          pump,    \* per WebSocket stream: [at, next] of the goroutine that reads upstream
          up,      \* per stream: [chunks, body] the upstream has of the request
          down,    \* per stream: [next, total] of the response relayed so far
          wire,    \* per stream: items on their way to the client
          client,  \* per stream: [seen, reset] of the client
          stream   \* per stream, at the proxy: "open", "reset" by the handler, "lost"
                   \* by the client or with the session, "ended" with Serve's context

proxyVars == <<ask, handler, relay, pump, up, down, wire, client, stream>>

Head_(ok) == [type |-> "head", n |-> IF ok THEN 1 ELSE 0]
Chunk(n) == [type |-> "chunk", n |-> n]
Terminator == [type |-> "end", n |-> 0]
Total(parts) == FoldLeft(+, 0, parts)

Init ==
  /\ ask \in Workloads
  /\ handler = [s \in Streams |-> "arrived"]
  /\ relay = [s \in Streams |-> [at |-> "none", next |-> 1, total |-> 0]]
  /\ pump = [s \in Streams |-> [at |-> "none", next |-> 1]]
  /\ up = [s \in Streams |-> [chunks |-> <<>>, body |-> "none"]]
  /\ down = [s \in Streams |-> [next |-> 1, total |-> 0]]
  /\ wire = [s \in Streams |-> <<>>]
  /\ client = [s \in Streams |-> [seen |-> <<>>, reset |-> FALSE]]
  /\ stream = [s \in Streams |-> "open"]

Active == {s \in Streams : handler[s] \notin {"arrived", "over"}}
at(s, p) == handler[s] = p
closed(s) == handler[s] \in {"returned", "over"}
to(s, p) == handler' = [handler EXCEPT ![s] = p]
open(s) == stream[s] = "open"
\* A Write on a stream that is over fails; on an open one it waits for the window.
send(s, items) == wire' = IF open(s) THEN [wire EXCEPT ![s] = @ \o items] ELSE wire
blocked(s) == open(s) /\ Len(wire[s]) >= Window
reset(s) == stream' = [stream EXCEPT ![s] = IF @ = "open" THEN "reset" ELSE @]
errorReply(s) == send(s, <<Head_(FALSE), Terminator>>)

\* limit: without a permit the stream is reset.
Limit(s) ==
  /\ at(s, "arrived")
  /\ IF Cardinality(Active) < MaxConcurrentStreams THEN to(s, "meta") /\ UNCHANGED stream
     ELSE to(s, "over") /\ reset(s)
  /\ UNCHANGED <<ask, relay, pump, up, down, wire, client>>

chunkFits(total, n) == n <= MaxChunk /\ total + n <= MaxBody

\* readProxyChunk of the chunk at position i: what the reader is told.  Behind its last
\* whole chunk a body has the terminator ("end") or nothing ("quiet"), or a FIN: where
\* a read begins, between chunks ("fin") or between a header and its payload ("header"),
\* io.ReadFull returns io.EOF; inside of either ("cut"), io.ErrUnexpectedEOF.
readProxyChunk(x, i, total) ==
  CASE i <= Len(x.body) -> IF chunkFits(total, x.body[i]) THEN "chunk" ELSE "invalid"
    [] OTHER -> x.ending

\* How drainProxyBody ends: at the first chunk that does not fit, or as the body does.
drainProxyBody(s) ==
  LET x == ask[s]
      fits == \A i \in DOMAIN x.body : chunkFits(Total(SubSeq(x.body, 1, i - 1)), x.body[i])
  IN IF ~open(s) THEN "reset" ELSE IF fits THEN x.ending ELSE "invalid"

\* readProxyJSON and the checks on the metadata.
readMeta(s) == IF open(s) THEN ask[s].meta ELSE "invalid"

\* A GET drains its body before the request is made, another method copies it while the
\* request runs.  Neither the metadata nor that body has a deadline: while the client
\* sends nothing the handler waits, with its permit.
HTTPMeta(s) ==
  /\ at(s, "meta") /\ ask[s].kind = "http" /\ readMeta(s) # "silent"
  /\ LET valid == readMeta(s) = "valid"
         get == valid /\ ask[s].method = "GET"
         drained == drainProxyBody(s)
     IN \/ /\ ~valid \/ (get /\ drained \notin {"end", "quiet"})
           /\ errorReply(s) /\ to(s, "returned") /\ UNCHANGED <<relay, up>>
        \/ /\ get /\ drained = "end"
           /\ up' = [up EXCEPT ![s].body = "complete"] /\ to(s, "request")
           /\ UNCHANGED <<wire, relay>>
        \/ /\ valid /\ ~get
           /\ relay' = [relay EXCEPT ![s].at = "copy"] /\ to(s, "request")
           /\ up' = [up EXCEPT ![s].body = "open"] /\ UNCHANGED wire
  /\ UNCHANGED <<ask, pump, down, client, stream>>

\* writer.CloseWithError(err): upstream sees the end of the body for nil and for
\* io.EOF, an aborted one for anything else.
bodyAfter(result) == IF result \in {"end", "fin", "header"} THEN "complete" ELSE "aborted"

\* copyProxyBody.  It stops when the stream fails, the request's context is over,
\* or the handler has returned and closed the pipe.
CopyBody(s) ==
  /\ relay[s].at = "copy"
  /\ LET r == relay[s]
         result == IF ~open(s) THEN "reset" ELSE readProxyChunk(ask[s], r.next, r.total)
     IN /\ result # "quiet" \* blocked
        /\ IF result = "chunk" /\ ~closed(s)
           THEN /\ relay' = [relay EXCEPT ![s].next = @ + 1, ![s].total = @ + ask[s].body[r.next]]
                /\ up' = [up EXCEPT ![s].chunks = Append(@, ask[s].body[r.next])]
           ELSE /\ relay' = [relay EXCEPT ![s].at = "gone"]
                /\ up' = [up EXCEPT ![s].body = IF closed(s) THEN "aborted" ELSE bodyAfter(result)]
  /\ UNCHANGED <<ask, handler, pump, down, wire, client, stream>>
CopyCanceled(s) == \* the request's deadline, seen between two chunks
  /\ relay[s].at = "copy" /\ handler[s] = "request"
  /\ relay' = [relay EXCEPT ![s].at = "gone"] /\ up' = [up EXCEPT ![s].body = "aborted"]
  /\ UNCHANGED <<ask, handler, pump, down, wire, client, stream>>

\* httpClient.Do fails or times out.
RequestFails(s) ==
  /\ at(s, "request") /\ errorReply(s) /\ to(s, "returned")
  /\ UNCHANGED <<ask, relay, pump, up, down, client, stream>>
\* Do returns a response, possibly before the request body is over; a length beyond
\* the limit is refused before anything is relayed.
Responds(s) ==
  /\ at(s, "request")
  /\ IF Total(ask[s].answer) > MaxBody /\ ask[s].sized
       THEN errorReply(s) /\ to(s, "returned")
       ELSE send(s, <<Head_(TRUE)>>) /\ to(s, IF open(s) THEN "respond" ELSE "returned")
  /\ UNCHANGED <<ask, relay, pump, up, down, client, stream>>

\* Mutant: a response that fails midway is ended like a whole one.
ErrorTerminates(s) == send(s, <<Terminator>>) /\ UNCHANGED stream

bodyCut(s) == reset(s) /\ UNCHANGED wire

\* The body is read under the request's deadline, which ends one that stays quiet.
RelayResponse(s) ==
  /\ at(s, "respond") /\ ~blocked(s)
  /\ LET d == down[s]
         x == ask[s]
     IN IF d.next <= Len(x.answer)
        THEN LET n == x.answer[d.next]
             IN IF open(s) /\ chunkFits(d.total, n)
                THEN /\ send(s, <<Chunk(n)>>) /\ UNCHANGED <<handler, stream>>
                     /\ down' = [down EXCEPT ![s] = [next |-> d.next + 1, total |-> d.total + n]]
                ELSE bodyCut(s) /\ to(s, "returned") /\ UNCHANGED down
        ELSE /\ IF x.answerEnds = "eof" THEN send(s, <<Terminator>>) /\ UNCHANGED stream
                                        ELSE bodyCut(s)
             /\ to(s, "returned") /\ UNCHANGED down
  /\ UNCHANGED <<ask, relay, pump, up, client>>

\* serveWebSocket: dial, then one goroutine per direction.
WebSocketOpen(s) ==
  /\ at(s, "meta") /\ ask[s].kind = "ws" /\ readMeta(s) # "silent"
  /\ \/ /\ readMeta(s) = "valid" /\ send(s, <<Head_(TRUE)>>) /\ to(s, "pumping")
        /\ relay' = [relay EXCEPT ![s].at = "frames"] /\ pump' = [pump EXCEPT ![s].at = "frames"]
     \/ send(s, <<Head_(FALSE)>>) /\ to(s, "returned") /\ UNCHANGED <<relay, pump>>
  /\ UNCHANGED <<ask, up, down, client, stream>>

\* WriteMessage has no deadline: an upstream that stopped reading holds it ("stuck")
\* until the connection is closed.
FromClient(s) ==
  /\ relay[s].at \in {"frames", "stuck"}
  /\ LET more == relay[s].next <= Len(ask[s].body)
     IN IF ~closed(s) /\ open(s) /\ more
        THEN /\ relay[s].at = "frames"
             /\ IF ask[s].answerEnds = "stalled" THEN relay' = [relay EXCEPT ![s].at = "stuck"] /\ UNCHANGED up
                ELSE /\ relay' = [relay EXCEPT ![s].next = @ + 1]
                     /\ up' = [up EXCEPT ![s].chunks = Append(@, ask[s].body[relay[s].next])]
        ELSE /\ closed(s) \/ (relay[s].at = "frames" /\ (~open(s) \/ ask[s].ending # "quiet"))
             /\ relay' = [relay EXCEPT ![s].at = "gone"] /\ UNCHANGED up
  /\ UNCHANGED <<ask, handler, pump, down, wire, client, stream>>
FromUpstream(s) ==
  /\ pump[s].at = "frames"
  /\ LET more == pump[s].next <= Len(ask[s].answer)
     IN IF ~closed(s) /\ open(s) /\ more
        THEN /\ ~blocked(s) /\ send(s, <<Chunk(ask[s].answer[pump[s].next])>>)
             /\ pump' = [pump EXCEPT ![s].next = @ + 1]
        ELSE /\ closed(s) \/ more \/ ask[s].answerEnds \notin {"quiet", "stalled"}
             /\ pump' = [pump EXCEPT ![s].at = "gone"] /\ UNCHANGED wire
  /\ UNCHANGED <<ask, handler, relay, up, down, client, stream>>
\* The first of the two to fail, or the end of the context, closes both sides.
CloseBoth(s) ==
  /\ at(s, "pumping") /\ (relay[s].at = "gone" \/ pump[s].at = "gone" \/ stream[s] = "ended")
  /\ reset(s) /\ to(s, "returned")
  /\ UNCHANGED <<ask, relay, pump, up, down, wire, client>>

\* SessionHandlers closes the stream when the handler returns, and Close is Reset.
HandlerOver(s) ==
  /\ at(s, "returned") /\ to(s, "over") /\ reset(s)
  /\ UNCHANGED <<ask, relay, pump, up, down, wire, client>>

ClientReads(s) ==
  /\ wire[s] # <<>> /\ ~client[s].reset
  /\ client' = [client EXCEPT ![s].seen = Append(@, Head(wire[s]))]
  /\ wire' = [wire EXCEPT ![s] = Tail(@)]
  /\ UNCHANGED <<ask, handler, relay, pump, up, down, stream>>
\* The client resets the stream, its session is lost, or the context of Serve is over,
\* which closes the session.
StreamLost(s, how) ==
  /\ how \in ask[s].lost /\ open(s) /\ ~at(s, "over") /\ stream' = [stream EXCEPT ![s] = how]
  /\ UNCHANGED <<ask, handler, relay, pump, up, down, wire, client>>
\* STREAM_RESET or the carrier's reset reaches the client ahead of unread data.
ResetArrives(s) ==
  /\ ~open(s) /\ ~client[s].reset
  /\ client' = [client EXCEPT ![s].reset = TRUE] /\ wire' = [wire EXCEPT ![s] = <<>>]
  /\ UNCHANGED <<ask, handler, relay, pump, up, down, stream>>

Serve(s) ==
  \/ Limit(s) \/ HTTPMeta(s) \/ Responds(s) \/ RelayResponse(s)
  \/ WebSocketOpen(s) \/ CloseBoth(s) \/ HandlerOver(s)
Next ==
  \E s \in Streams :
    \/ Serve(s) \/ RequestFails(s) \/ CopyBody(s) \/ CopyCanceled(s)
    \/ FromClient(s) \/ FromUpstream(s) \/ ClientReads(s) \/ ResetArrives(s)
    \/ \E how \in {"lost", "ended"} : StreamLost(s, how)

\* Goroutines run, and Do returns at the request's deadline.  Nothing is assumed of the
\* client and of an upstream.
Fairness ==
  \A s \in Streams :
    /\ WF_proxyVars(Serve(s) \/ RequestFails(s)) /\ WF_proxyVars(closed(s) /\ CopyBody(s))
    /\ WF_proxyVars(FromClient(s)) /\ WF_proxyVars(FromUpstream(s))
Spec == Init /\ [][Next]_proxyVars /\ Fairness

-----------------------------------------------------------------------------
relayed(items) ==
  LET c == SelectSeq(items, LAMBDA i : i.type = "chunk") IN [i \in DOMAIN c |-> c[i].n]

\* Handlers hold at most the configured permits; the phases are those of the code.
TypeOK ==
  /\ Cardinality(Active) <= MaxConcurrentStreams
  /\ \A s \in Streams :
       /\ handler[s] \in {"arrived", "meta", "request", "respond", "pumping", "returned", "over"}
       /\ relay[s].at \in {"none", "copy", "frames", "stuck", "gone"}
       /\ stream[s] \in {"open", "reset", "lost", "ended"} /\ Len(wire[s]) <= Window + 1

\* The upstream sees a request body as complete only if it has every whole chunk the
\* client sent, within the limits, and the client ended the body or finished the stream
\* where a read begins: a body cut by a reset, a deadline, an oversized chunk or inside
\* a header or a payload is aborted.  A FIN between chunks, or behind the header of a
\* chunk, does pass for the end of the body, without the terminator.
RequestBodyWhole ==
  \A s \in Streams :
    up[s].body = "complete" /\ ask[s].method = "POST" =>
      /\ up[s].chunks = ask[s].body /\ Total(ask[s].body) <= MaxBody
      /\ ask[s].ending \in {"end", "fin", "header"}

\* A client that reads a successful head and the terminator has read the whole body
\* of the upstream's response: a response that fails midway is reset, not ended.
TerminatedIsWhole ==
  \A s \in Streams :
    LET seen == client[s].seen
    IN Len(seen) > 1 /\ seen[1] = Head_(TRUE) /\ Last(seen) = Terminator =>
         relayed(seen) = ask[s].answer /\ ask[s].answerEnds = "eof"

\* A WebSocket whose upstream neither reads nor writes: both goroutines wait for it.
upstreamHolds(s) ==
  at(s, "pumping") /\ relay[s].at = "stuck" /\ pump[s].at = "frames" /\ stream[s] # "ended"

StreamsOwed ==
  \E s \in Streams :
    /\ ~open(s) /\ ~upstreamHolds(s)
    /\ ~at(s, "over") \/ relay[s].at \notin {"none", "gone"} \/ pump[s].at \notin {"none", "gone"}

\* A stream that is over, however it came to that, is served to its end: the permit
\* comes back and no goroutine is left behind, though the client and the upstream stay
\* silent.  Only an upstream that stopped reading can hold a WebSocket longer.
StreamsEnd == StreamsOwed ~> ~StreamsOwed

\* TestProxyServerHTTPRoundTripUsesSessionHandlers: a client that keeps reading gets the
\* response that the proxy wrote to its end.
ResponseDelivered ==
  \A s \in Streams :
    client[s].reset /\ stream[s] = "reset" /\ at(s, "over") /\ down[s].next = Len(ask[s].answer) + 1
      /\ ask[s].kind = "http" /\ down[s].next > 1 /\ ask[s].answerEnds = "eof" =>
        client[s].seen # <<>> /\ Last(client[s].seen) = Terminator
=============================================================================
