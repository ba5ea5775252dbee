-------------------------------- MODULE Yamux --------------------------------
(***************************************************************************)
(* The bounds Flowersec puts around Yamux (internal/mux/yamux/yamux.go).   *)
(* Writing: the write budget of a stream, reserved by Write and released   *)
(* by parsing what the connection has really written, however it is cut.   *)
(* Receiving: the frame limit on what libyamux reads and the memory        *)
(* manager of a session and its streams.  The two sides share no state.    *)
(***************************************************************************)
EXTENDS Integers, Sequences, FiniteSets, FiniteSetsExt, SequencesExt

CONSTANTS
  Streams,       \* stream identifiers
  MaxQueue,      \* MaxStreamWriteQueueBytes
  HeaderBytes,   \* 12 in the code
  WriteSizes,    \* sizes of application writes
  WriteBudget,   \* application writes and window updates
  Wires,         \* what the peer sends: sequences of frames [kind, length]
  MaxFrame,      \* maxFrameBytes
  Managed,       \* streams with a memory manager
  MaxActive,     \* maxStreams
  MaxStream,     \* maxStream
  MaxSession,    \* maxSession
  Sizes          \* sizes reserved and released

VARIABLES
  budget,    \* per stream: streamWriteBudget.pending
  tracker,   \* streams registered with the sessionWriteTracker
  writing,   \* per stream: reservations of Writes that wait for writeMu, the Write that holds it,
             \* and what libyamux has not taken of that one
  conn,      \* the bytes handed to the connection and the parser over those written
  left,      \* writes and window updates left
  wire,      \* the frames received
  reader,    \* frameLimitConn: bytes read and delivered, header offset, body left, error
  memory     \* the session's counters and each stream's bytes, done and active

writeVars == <<budget, tracker, writing, conn, left>>
receiveVars == <<wire, reader, memory>>

\* A frame on the wire: its header bytes, then its body bytes. A window update
\* has a length field but no body.
Byte(kind, s, n) == [kind |-> kind, stream |-> s, length |-> n]
Frame(kind, s, n) ==
  [i \in 1..HeaderBytes |-> Byte(kind, s, n)] \o (IF kind = "data" THEN [i \in 1..n |-> Byte("body", s, 0)] ELSE <<>>)

NotWriting == [at |-> "idle", size |-> 0, waiting |-> <<>>]

WriteInit ==
  /\ budget = [s \in Streams |-> 0] /\ tracker = {} /\ left = WriteBudget
  /\ writing = [s \in Streams |-> NotWriting]
  /\ conn = [queue |-> <<>>, header |-> 0, stream |-> CHOOSE s \in Streams : TRUE, body |-> 0]

-----------------------------------------------------------------------------
(* Stream.Write.                                                            *)

register(s) == IF budget[s] = 0 THEN tracker \cup {s} ELSE tracker

\* reserve, before writeMu: all or nothing, and the first pending byte registers the stream.
Reserve(s, n) ==
  /\ left > 0 /\ left' = left - 1
  /\ n <= MaxQueue - budget[s]
  /\ tracker' = register(s) /\ budget' = [budget EXCEPT ![s] = @ + n]
  /\ writing' = [writing EXCEPT ![s].waiting = Append(@, n)] /\ UNCHANGED conn

\* Any of the waiting Writes gets writeMu.
LockWrite(s) ==
  /\ writing[s].at = "idle"
  /\ \E i \in DOMAIN writing[s].waiting :
       writing' = [writing EXCEPT ![s] = [at |-> "inner", size |-> @.waiting[i], waiting |-> RemoveAt(@.waiting, i)]]
  /\ UNCHANGED <<budget, tracker, conn, left>>

\* External: libyamux queues a part as a frame; the rest is an error.
InnerWrite(s, taken) ==
  /\ writing[s].at = "inner" /\ taken \in 0..writing[s].size
  /\ conn' = IF taken > 0 THEN [conn EXCEPT !.queue = @ \o Frame("data", s, taken)] ELSE conn
  /\ writing' = [writing EXCEPT ![s] = [@ EXCEPT !.at = "return", !.size = @ - taken]]
  /\ UNCHANGED <<budget, tracker, left>>

\* Mutant: what libyamux did not take stays reserved.
UnsentKept(s, n) == 0

unsent(s, n) == n

\* streamWriteBudget.release: the last pending byte unregisters the stream.
release(b, t, s, n) ==
  [budget |-> [b EXCEPT ![s] = @ - n], tracker |-> IF n > 0 /\ b[s] = n THEN t \ {s} ELSE t]

WriteReturns(s) ==
  /\ writing[s].at = "return"
  /\ LET end == release(budget, tracker, s, unsent(s, writing[s].size))
     IN  budget' = end.budget /\ tracker' = end.tracker
  /\ writing' = [writing EXCEPT ![s] = [@ EXCEPT !.at = "idle", !.size = 0]] /\ UNCHANGED <<conn, left>>

\* External: libyamux sends a frame of its own.
WindowUpdate(s) ==
  /\ left > 0 /\ left' = left - 1
  /\ conn' = [conn EXCEPT !.queue = @ \o Frame("window", s, 1)] /\ UNCHANGED <<budget, tracker, writing>>

-----------------------------------------------------------------------------
(* frameLimitConn.Write.                                                    *)

bodyLength(byte) == IF byte.kind = "data" THEN byte.length ELSE 0

\* trackWrittenData over one byte: header bytes are collected; the complete
\* header says how many body bytes follow and for which stream.
trackHeader(c, byte) ==
  IF c.header + 1 < HeaderBytes THEN [c EXCEPT !.header = @ + 1]
  ELSE [c EXCEPT !.header = 0, !.stream = byte.stream, !.body = bodyLength(byte)]

trackWrittenData(acc, byte) ==
  IF acc.conn.body = 0 THEN [acc EXCEPT !.conn = trackHeader(@, byte)]
  ELSE LET s == acc.conn.stream
           end == IF s \in acc.tracker THEN release(acc.budget, acc.tracker, s, 1)
                  ELSE [budget |-> acc.budget, tracker |-> acc.tracker]
       IN  [budget |-> end.budget, tracker |-> end.tracker, conn |-> [acc.conn EXCEPT !.body = @ - 1]]

\* The connection writes any number of the queued bytes.
ConnWrites(n) ==
  LET end == FoldLeft(trackWrittenData, [budget |-> budget, tracker |-> tracker, conn |-> conn],
                      SubSeq(conn.queue, 1, n))
  IN  /\ budget' = end.budget /\ tracker' = end.tracker
      /\ conn' = [end.conn EXCEPT !.queue = SubSeq(@, n + 1, Len(@))]
      /\ UNCHANGED <<writing, left>>

WriteNext ==
  \/ \E s \in Streams : \/ \E n \in WriteSizes : Reserve(s, n) \/ \E taken \in 0..n : InnerWrite(s, taken)
                        \/ LockWrite(s) \/ WriteReturns(s) \/ WindowUpdate(s)
  \/ \E n \in 1..Len(conn.queue) : ConnWrites(n)

-----------------------------------------------------------------------------
ReceiveInit ==
  /\ wire \in Wires
  /\ reader = [read |-> 0, delivered |-> 0, offset |-> 0, body |-> 0, failed |-> FALSE]
  /\ memory = [active |-> 0, bytes |-> 0,
               stream |-> [s \in Managed |-> [bytes |-> 0, done |-> FALSE, active |-> FALSE]]]

body(f) == IF f.kind = "data" THEN f.length ELSE 0
FrameStart(i) == FoldLeft(LAMBDA n, f : n + HeaderBytes + body(f), 0, SubSeq(wire, 1, i - 1))
FrameAt(n) == CHOOSE i \in 1..Len(wire) : FrameStart(i) = n
AtFrame(n) == \E i \in 1..Len(wire) : FrameStart(i) = n

-----------------------------------------------------------------------------
(* frameLimitConn.Read with room for n bytes.                               *)

bodyRead(n, remaining) == IF n > remaining THEN remaining ELSE n

exceeds(n) == n > MaxFrame

\* The length the reader takes from a header: only a data frame has a body.
bodyRemaining(f) == body(f)

ReadHeader(n) ==
  LET fresh == reader.offset = 0
      f == wire[FrameAt(reader.read)]
      copied == IF n > HeaderBytes - reader.offset THEN HeaderBytes - reader.offset ELSE n
  IN  /\ ~(reader.offset = HeaderBytes /\ reader.body > 0)
      /\ IF fresh /\ exceeds(bodyRemaining(f)) THEN reader' = [reader EXCEPT !.read = @ + HeaderBytes, !.failed = TRUE]
         ELSE reader' = [reader EXCEPT !.read = IF fresh THEN @ + HeaderBytes ELSE @,
                                       !.body = IF fresh THEN bodyRemaining(f) ELSE @,
                                       !.delivered = @ + copied,
                                       !.offset = IF @ + copied = HeaderBytes /\ (IF fresh THEN bodyRemaining(f) ELSE reader.body) = 0
                                                  THEN 0 ELSE @ + copied]

\* The connection has any part of the body for it.
ReadBody(n) ==
  /\ reader.offset = HeaderBytes /\ reader.body > 0
  /\ \E got \in 1..bodyRead(n, reader.body) :
       reader' = [reader EXCEPT !.read = @ + got, !.delivered = @ + got, !.body = @ - got,
                                !.offset = IF reader.body - got = 0 THEN 0 ELSE @]

Read(n) ==
  /\ ~reader.failed /\ (reader.offset = 0 => AtFrame(reader.read))
  /\ ReadHeader(n) \/ ReadBody(n)
  /\ UNCHANGED <<wire, memory>>

-----------------------------------------------------------------------------
(* The memory managers.                                                     *)

sessionFits(n) == memory.bytes + n <= MaxSession

mayActivate(s) == memory.stream[s].active \/ memory.active < MaxActive

ReserveMemory(s, n) ==
  /\ ~memory.stream[s].done /\ mayActivate(s) /\ memory.stream[s].bytes + n <= MaxStream /\ sessionFits(n)
  /\ memory' = [memory EXCEPT !.bytes = @ + n, !.stream[s].bytes = @ + n, !.stream[s].active = TRUE,
                              !.active = IF memory.stream[s].active THEN @ ELSE @ + 1]
  /\ UNCHANGED <<wire, reader>>

released(s, n) == IF n > memory.stream[s].bytes THEN memory.stream[s].bytes ELSE n

ReleaseMemory(s, n) ==
  /\ memory' = [memory EXCEPT !.bytes = @ - released(s, n), !.stream[s].bytes = @ - released(s, n)]
  /\ UNCHANGED <<wire, reader>>

Done(s) ==
  /\ ~memory.stream[s].done
  /\ memory' = [memory EXCEPT !.bytes = @ - memory.stream[s].bytes, !.stream[s].bytes = 0, !.stream[s].done = TRUE,
                              !.active = IF memory.stream[s].active THEN @ - 1 ELSE @]
  /\ UNCHANGED <<wire, reader>>

ReceiveNext ==
  \/ \E n \in 1..(HeaderBytes + MaxFrame) : Read(n)
  \/ \E s \in Managed : Done(s) \/ \E n \in Sizes : ReserveMemory(s, n) \/ ReleaseMemory(s, n)

-----------------------------------------------------------------------------
Init == WriteInit /\ ReceiveInit

Next ==
  \/ WriteNext /\ UNCHANGED receiveVars
  \/ ReceiveNext /\ UNCHANGED writeVars

Spec == Init /\ [][Next]_<<writeVars, receiveVars>>

-----------------------------------------------------------------------------
TypeOK ==
  /\ \A s \in Streams : budget[s] \in 0..MaxQueue
  /\ reader.offset \in 0..HeaderBytes
  /\ reader.body \in 0..MaxFrame
  /\ memory.active \in 0..MaxActive

\* The budget is exact: pending is what the connection has still to write of
\* the stream's bodies and what its Writes, those that wait for writeMu
\* included, have not handed over or given back, however the writes are cut.
PendingExact ==
  \A s \in Streams :
    budget[s] = writing[s].size + FoldLeft(LAMBDA a, b : a + b, 0, writing[s].waiting)
                + Len(SelectSeq(conn.queue, LAMBDA b : b.kind = "body" /\ b.stream = s))

\* The tracker holds exactly the streams with pending bytes, so that a written
\* byte always finds the budget it belongs to.
TrackerExact == tracker = {s \in Streams : budget[s] > 0}

\* The parser over the written bytes is where the writer is: it expects a body
\* byte of a stream exactly when that is the next byte.
ParserInStep ==
  conn.queue # <<>> => IF Head(conn.queue).kind = "body"
                       THEN conn.body > 0 /\ conn.stream = Head(conn.queue).stream
                       ELSE conn.body = 0

\* Between two frames the reader stands exactly at a frame of the wire, however
\* libyamux cuts its reads, and what it delivered is what it read less the part
\* of a header it still holds.
ReaderAligned ==
  ~reader.failed => /\ reader.offset = 0 => AtFrame(reader.read) \/ reader.read = FrameStart(Len(wire) + 1)
                    /\ reader.delivered = reader.read - (IF reader.offset > 0 THEN HeaderBytes - reader.offset ELSE 0)

\* No byte of a frame above the limit, its header included, reaches libyamux.
OversizedNeverDelivered ==
  \A i \in 1..Len(wire) : body(wire[i]) > MaxFrame => reader.delivered <= FrameStart(i)

\* The session's counters are the sums over its streams and within the limits,
\* in whatever order streams reserve, release too much, and end.
MemoryExact ==
  /\ memory.bytes = FoldFunction(LAMBDA r, n : r.bytes + n, 0, memory.stream)
  /\ memory.bytes \in 0..MaxSession
  /\ memory.active = Cardinality({s \in Managed : memory.stream[s].active /\ ~memory.stream[s].done})
=============================================================================
