------------------------------- MODULE Socket -------------------------------
(***************************************************************************)
(* cloudflare/sockets: a net.Conn over a JavaScript socket.  Read and      *)
(* Write start a goroutine that talks to the JavaScript stream, and wait   *)
(* for it or for the context of the call.  A call that times out leaves    *)
(* its goroutine behind, waiting for the promise; a later Read then has a  *)
(* second goroutine on the same readableStreamToReadCloser (its buffer,    *)
(* and the FIFO of read() promises of the stream's reader).                *)
(*                                                                         *)
(* A behaviour has one goroutine of the user, which reads or writes: the   *)
(* two halves share only the clock and the socket's context.  The bytes of *)
(* the peer are 1, 2, 3, ...; a Write is one slice, named by its number.   *)
(***************************************************************************)
EXTENDS Naturals, Sequences, SequencesExt

CONSTANTS Chunks,    \* lengths of the chunks the peer may send
          Slices,    \* lengths of the slices given to Read
          Deadlines, \* deadlines the user may set (Zero, a time, Never)
          MaxBytes, MaxReads, MaxWrites, MaxTime \* bounds

Zero == 0              \* the zero time.Time
Never == MaxTime + 1   \* now + defaultDeadline

ASSUME SizesAssumption == Chunks \subseteq Nat /\ Slices \subseteq Nat \ {0}
ASSUME BoundsAssumption == {MaxBytes, MaxReads, MaxWrites} \subseteq Nat /\ MaxTime \in Nat \ {0}
ASSUME DeadlinesAssumption == Deadlines \subseteq Zero..Never

VARIABLES
  side,          \* what the user's goroutine does: "reader" or "writer"
  now,           \* the wall clock
  cancelled,     \* has Close cancelled the socket's context
  readDeadline, writeDeadline,
  deadline,      \* of the context of the call the user waits in
  \* The readable stream, and readableStreamToReadCloser.
  sent,          \* how many bytes the peer has sent
  queue,         \* chunks in the stream's queue
  ended,         \* "open", or how the stream has ended
  waiting,       \* the calls whose read() promise is pending, in order
  streamReader,  \* is sr.streamReader set
  buf,           \* sr.buf
  \* The calls of Read: [len |-> len(b), live |-> does the user still wait].
  reads,         \* how many there have been
  spawned,       \* those whose goroutine has not run yet, in no order
  reading,       \* does the user wait in one
  got,           \* the bytes they have returned
  over,          \* has one returned io.EOF or the stream's error
  timedOut,      \* has one returned os.ErrDeadlineExceeded
  \* The writable stream, and the calls of Write, numbered.
  writable,      \* "open", "closing" or "errored"
  writes,        \* how many there have been
  unwritten,     \* the calls whose goroutine has not called writer.write
  pending,       \* those whose write() promise is pending, in order
  wire,          \* the slices the stream has written, in order
  writing,       \* the call the user waits in, or 0
  wrote          \* the calls that have returned len(b), nil

clockVars  == <<side, now, cancelled, readDeadline, writeDeadline>>
streamVars == <<sent, queue, ended>>
readerVars == <<waiting, streamReader, buf>>
readVars   == <<reads, spawned, reading, got, over, timedOut>>
writeVars  == <<writable, writes, unwritten, pending, wire, writing, wrote>>
vars == <<deadline, clockVars, streamVars, readerVars, readVars, writeVars>>

\* newSocket, as Connect calls it.
Init ==
  /\ side \in {"reader", "writer"}
  /\ now = 1 /\ cancelled = FALSE
  /\ readDeadline = Never /\ writeDeadline = Never /\ deadline = Never
  /\ sent = 0 /\ queue = <<>> /\ ended = "open"
  /\ waiting = <<>> /\ streamReader = FALSE /\ buf = <<>>
  /\ reads = 0 /\ spawned = <<>> /\ reading = FALSE
  /\ got = <<>> /\ over = FALSE /\ timedOut = FALSE
  /\ writable = "open" /\ writes = 0 /\ unwritten = {} /\ pending = <<>>
  /\ wire = <<>> /\ writing = 0 /\ wrote = {}

Tick == /\ now < MaxTime /\ now' = now + 1
        /\ UNCHANGED <<deadline, side, cancelled, readDeadline, writeDeadline, streamVars,
                       readerVars, readVars, writeVars>>

\* Is the context of context.WithDeadline(t.ctx, deadline) done?
CtxDone == cancelled \/ deadline <= now

-----------------------------------------------------------------------------
(* The JavaScript side of the readable stream.                             *)

\* The peer sends a chunk, or the runtime enqueues an empty one.
Arrive == \E c \in Chunks :
  /\ side = "reader" /\ ended = "open" /\ sent + c <= MaxBytes /\ Len(queue) < 2
  /\ sent' = sent + c
  /\ queue' = Append(queue, [k \in 1..c |-> sent + k])
  /\ UNCHANGED <<deadline, ended, clockVars, readerVars, readVars, writeVars>>

\* The peer closes the connection, or it breaks.
End == /\ side = "reader" /\ ended = "open"
       /\ \/ ended' = "closed" /\ UNCHANGED queue
          \/ ended' = "errored" /\ queue' = <<>>
       /\ UNCHANGED <<deadline, sent, clockVars, readerVars, readVars, writeVars>>

-----------------------------------------------------------------------------
(* Read.                                                                   *)

Read == \E n \in Slices :
  /\ side = "reader" /\ ~reading /\ ~over /\ reads < MaxReads
  /\ reads' = reads + 1
  /\ reading' = TRUE /\ deadline' = readDeadline
  /\ spawned' = Append(spawned, [len |-> n, live |-> TRUE])
  /\ UNCHANGED <<got, over, timedOut, clockVars, streamVars, readerVars,
                 writeVars>>

\* t.reader.Read(b) has returned in the goroutine of call c: the call returns
\* too, if the user still waits in it, and else the result is lost.
Finish(c, bytes, isOver) ==
  IF c.live
  THEN /\ reading' = FALSE /\ deadline' = Never
       /\ got' = got \o bytes /\ over' = isOver
  ELSE UNCHANGED <<reading, deadline, got, over>>

\* Faulty variant: the buffer is not advanced.
TakeFromKeeps(b, c) ==
  /\ buf' = b
  /\ Finish(c, SubSeq(b, 1, Min({c.len, Len(b)})), FALSE)

\* sr.buf.Read(p), the buffer holding b.
TakeFrom(b, c) ==
  LET n == Min({c.len, Len(b)}) IN
  /\ buf' = SubSeq(b, n + 1, Len(b))
  /\ Finish(c, SubSeq(b, 1, n), FALSE)

\* The goroutine of a call starts, once the call has blocked in its select or
\* returned: getReader the first time, then the buffer if it has anything,
\* else the promise of a read().
ReadStart == \E k \in DOMAIN spawned :
  /\ ~(spawned[k].live /\ CtxDone)
  /\ spawned' = RemoveAt(spawned, k) /\ streamReader' = TRUE
  /\ IF buf # <<>>
     THEN TakeFrom(buf, spawned[k]) /\ UNCHANGED waiting
     ELSE /\ waiting' = Append(waiting, spawned[k])
          /\ UNCHANGED <<buf, reading, deadline, got, over>>
  /\ UNCHANGED <<reads, timedOut, clockVars, streamVars, writeVars>>

\* The oldest read() promise resolves with the oldest chunk.  With an empty
\* chunk, and nothing in the buffer, the goroutine asks for another one.
ReadChunk ==
  /\ waiting # <<>> /\ queue # <<>>
  /\ queue' = Tail(queue)
  /\ LET c == Head(waiting)
         b == buf \o Head(queue)
     IN IF b # <<>>
        THEN waiting' = Tail(waiting) /\ TakeFrom(b, c)
        ELSE /\ waiting' = Append(Tail(waiting), c)
             /\ UNCHANGED <<buf, reading, deadline, got, over>>
  /\ UNCHANGED <<sent, ended, streamReader, reads, spawned, timedOut,
                 clockVars, writeVars>>

\* The promise resolves with done, or rejects.
ReadOver ==
  /\ waiting # <<>> /\ queue = <<>> /\ ended # "open"
  /\ waiting' = Tail(waiting)
  /\ Finish(Head(waiting), <<>>, TRUE)
  /\ UNCHANGED <<streamReader, buf, reads, spawned, timedOut, streamVars,
                 clockVars, writeVars>>

\* The user waits no longer: only its goroutine is left of the call.
Abandon(calls) == [k \in DOMAIN calls |-> [calls[k] EXCEPT !.live = FALSE]]

\* Faulty variant: the context of the call does not end with the socket's.
ReadExpiresOnTime ==
  /\ reading /\ deadline <= now
  /\ reading' = FALSE /\ deadline' = Never /\ timedOut' = TRUE
  /\ spawned' = Abandon(spawned) /\ waiting' = Abandon(waiting)
  /\ UNCHANGED <<streamReader, buf, reads, got, over, clockVars, streamVars,
                 writeVars>>

\* The context is done first: the call returns, its goroutine stays.
ReadExpires ==
  /\ reading /\ CtxDone
  /\ reading' = FALSE /\ deadline' = Never /\ timedOut' = TRUE
  /\ spawned' = Abandon(spawned) /\ waiting' = Abandon(waiting)
  /\ UNCHANGED <<streamReader, buf, reads, got, over, clockVars, streamVars,
                 writeVars>>

-----------------------------------------------------------------------------
(* Write.                                                                  *)

Write ==
  /\ side = "writer" /\ writing = 0 /\ writes < MaxWrites
  /\ writes' = writes + 1 /\ writing' = writes + 1
  /\ deadline' = writeDeadline
  /\ unwritten' = unwritten \cup {writing'}
  /\ UNCHANGED <<writable, pending, wire, wrote, clockVars, streamVars,
                 readerVars, readVars>>

\* The goroutine of call w has its answer.
Written(w, ok) ==
  IF writing = w
  THEN /\ writing' = 0 /\ deadline' = Never
       /\ wrote' = IF ok THEN wrote \cup {w} ELSE wrote
  ELSE UNCHANGED <<writing, deadline, wrote>>

\* The goroutine of call w runs: a stream that is closing or errored rejects.
WriteStart(w) ==
  /\ w \in unwritten /\ ~(writing = w /\ CtxDone)
  /\ unwritten' = unwritten \ {w}
  /\ IF writable = "open" THEN /\ pending' = Append(pending, w)
                               /\ UNCHANGED <<writing, deadline, wrote>>
                          ELSE UNCHANGED pending /\ Written(w, FALSE)
  /\ UNCHANGED <<writable, writes, wire, clockVars, streamVars, readerVars,
                 readVars>>

\* Faulty variant: n is set whatever AwaitPromise returns.
WriteSettlesUnchecked ==
  /\ pending # <<>>
  /\ pending' = Tail(pending)
  /\ \/ /\ writable # "errored" /\ wire' = Append(wire, Head(pending))
        /\ UNCHANGED writable
     \/ writable' = "errored" /\ UNCHANGED wire
  /\ Written(Head(pending), TRUE)
  /\ UNCHANGED <<writes, unwritten, clockVars, streamVars, readerVars, readVars>>

\* The oldest write() promise settles; a failure errors the stream.
WriteSettles ==
  /\ pending # <<>>
  /\ pending' = Tail(pending)
  /\ \/ /\ writable # "errored" /\ wire' = Append(wire, Head(pending))
        /\ UNCHANGED writable /\ Written(Head(pending), TRUE)
     \/ /\ writable' = "errored" /\ UNCHANGED wire
        /\ Written(Head(pending), FALSE)
  /\ UNCHANGED <<writes, unwritten, clockVars, streamVars, readerVars, readVars>>

WriteExpires ==
  /\ writing # 0 /\ CtxDone
  /\ writing' = 0 /\ deadline' = Never
  /\ UNCHANGED <<writable, writes, unwritten, pending, wire, wrote, clockVars,
                 streamVars, readerVars, readVars>>

-----------------------------------------------------------------------------
(* The other methods.                                                      *)

SetReadDeadline == \E d \in Deadlines :
  /\ side = "reader" /\ d # readDeadline /\ readDeadline' = d
  /\ UNCHANGED <<deadline, side, now, cancelled, writeDeadline, streamVars, readerVars,
                 readVars, writeVars>>

SetWriteDeadline == \E d \in Deadlines :
  /\ side = "writer" /\ d # writeDeadline /\ writeDeadline' = d
  /\ UNCHANGED <<deadline, side, now, cancelled, readDeadline, streamVars, readerVars,
                 readVars, writeVars>>

\* socket.close(), then the context: what the streams still deliver is up to
\* the runtime (End, WriteSettles).
Close ==
  /\ ~cancelled /\ cancelled' = TRUE
  /\ UNCHANGED <<deadline, side, now, readDeadline, writeDeadline, streamVars, readerVars,
                 readVars, writeVars>>

\* readCloser.Close: nothing is cancelled before the first Read.
CloseRead ==
  /\ streamReader /\ ended # "cancelled"
  /\ ended' = "cancelled" /\ queue' = <<>>
  /\ UNCHANGED <<deadline, sent, clockVars, readerVars, readVars, writeVars>>

CloseWrite ==
  /\ side = "writer" /\ writable = "open" /\ writable' = "closing"
  /\ UNCHANGED <<deadline, writes, unwritten, pending, wire, writing, wrote, clockVars,
                 streamVars, readerVars, readVars>>

-----------------------------------------------------------------------------

GoRead  == ReadStart \/ ReadChunk \/ ReadOver
GoWrite == (\E w \in 1..MaxWrites : WriteStart(w)) \/ WriteSettles

Next == \/ Tick \/ Arrive \/ End \/ Read \/ GoRead \/ ReadExpires
        \/ Write \/ GoWrite \/ WriteExpires
        \/ SetReadDeadline \/ SetWriteDeadline \/ Close \/ CloseRead \/ CloseWrite

Spec == Init /\ [][Next]_vars

\* Time passes, promises settle and the Go scheduler runs what it can; the
\* peer need not send anything.
Fairness == /\ WF_vars(Tick) /\ WF_vars(GoRead) /\ WF_vars(GoWrite)
            /\ WF_vars(ReadExpires) /\ WF_vars(WriteExpires)

FairSpec == Spec /\ Fairness

-----------------------------------------------------------------------------
(* Properties.                                                             *)

\* The goroutines of Read that have not returned yet.
Calls == [len : Slices, live : BOOLEAN]

\* The types of the variables; the user waits in Read exactly as long as the
\* goroutine of the call is there to end it.
TypeOK ==
  /\ side \in {"reader", "writer"} /\ now \in 1..MaxTime /\ cancelled \in BOOLEAN
  /\ {readDeadline, writeDeadline, deadline} \subseteq Zero..Never
  /\ sent \in 0..MaxBytes /\ ended \in {"open", "closed", "errored", "cancelled"}
  /\ queue \in Seq(Seq(1..MaxBytes)) /\ buf \in Seq(1..MaxBytes)
  /\ waiting \in Seq(Calls) /\ spawned \in Seq(Calls)
  /\ reads \in 0..MaxReads /\ got \in Seq(1..MaxBytes)
  /\ reading = (\E c \in Range(waiting) \cup Range(spawned) : c.live)
  /\ {streamReader, over, timedOut} \subseteq BOOLEAN
  /\ writable \in {"open", "closing", "errored"} /\ writes \in 0..MaxWrites
  /\ pending \in Seq(1..writes) /\ wire \in Seq(1..writes) /\ writing \in 0..writes
  /\ unwritten \cup wrote \subseteq 1..writes

\* However calls time out, Close and chunks interleave, no byte is returned
\* twice and none before an earlier one (Read over one shared reader).
ReadsAscend == \A j, k \in DOMAIN got : j < k => got[j] < got[k]

\* As long as no Read has timed out, the calls return the peer's bytes without
\* a gap, and the end only after the last of them, whatever the sizes of
\* chunks and slices (readableStreamToReadCloser.Read, empty chunks included).
WholeWithoutTimeout ==
  ~timedOut => /\ got = [k \in 1..Len(got) |-> k]
                  /\ over /\ ended = "closed" => Len(got) = sent

\* A Write that has reported success has put its slice on the wire, once, and
\* after those of the Writes that had succeeded before it (Write).
WroteIsOnWire ==
  /\ wrote \subseteq Range(wire)
  /\ \A j, k \in DOMAIN wire : j < k /\ {wire[j], wire[k]} \subseteq wrote => wire[j] < wire[k]

\* "Any blocked Read or Write operations will be unblocked" (Close).
CloseUnblocks == cancelled /\ (reading \/ writing # 0) ~> ~reading /\ writing = 0

\* A call whose deadline comes returns, although the peer stays silent.
DeadlineUnblocks == deadline <= MaxTime ~> ~reading /\ writing = 0

\* Nobody stays in Read or Write over a socket that was closed or a deadline
\* that has passed, although the promise it waits for may never settle.
Unblocks == CloseUnblocks /\ DeadlineUnblocks

\* What Read returns over the goroutines it leaves behind (whose bookkeeping is
\* TypeOK): bytes in order, and all of them as long as no Read has timed out.
ReadsInOrder == TypeOK /\ ReadsAscend /\ WholeWithoutTimeout

\* The deadline "applies to all future and pending I/O", and "a zero value for
\* t means I/O operations will not time out" (SetDeadline): a Read times out
\* only when the deadline that is set has passed.
TimeoutIsDue ==
  [][ReadExpires =>
       cancelled \/ (readDeadline # Zero /\ readDeadline <= now)]_vars

\* "After a deadline has been exceeded, the connection can be refreshed by
\* setting a deadline in the future" (SetDeadline): the bytes go on where the
\* last successful Read left off.
RefreshLosesNothing == ~cancelled => got = [k \in 1..Len(got) |-> k]
=============================================================================
