---------------------------- MODULE ResponsePipe ----------------------------
(***************************************************************************)
(* One response on its way from an http.Handler to JavaScript:             *)
(* jshttp.ServeRequest runs the handler on its own goroutine, the          *)
(* ResponseWriter commits the headers at the first Write (or at the end),  *)
(* newJSResponse picks the kind of body, and the bytes go through an       *)
(* io.Pipe into a ReadableStream (readerToReadableStream.Pull and Cancel)  *)
(* or a FixedLengthStream (ConvertReaderToFixedLengthStream).  The         *)
(* JavaScript stream's pull protocol is modelled as the Streams standard   *)
(* defines it.  Bytes are numbered in the order the handler writes them.   *)
(***************************************************************************)
EXTENDS Naturals, Sequences, SequencesExt

CONSTANTS Sizes,          \* lengths of the slices given to Write
          BufSize,        \* the reader's buffer (defaultChunkSize)
          MaxOps,         \* bound: calls the handler makes
          Lengths,        \* values of a Content-Length header it may set
          Foreign,        \* bodies it may set instead: "raw", "ws"
          HasFixedLength, \* does the runtime define FixedLengthStream
          MayCancel       \* may the client abandon the body

ASSUME SizesAssumption == Sizes \subseteq Nat /\ Lengths \subseteq Nat
ASSUME BufSizeAssumption == BufSize \in Nat \ {0}
ASSUME MaxOpsAssumption == MaxOps \in Nat
ASSUME ForeignAssumption == Foreign \subseteq {"raw", "ws"}
ASSUME FlagsAssumption == HasFixedLength \in BOOLEAN /\ MayCancel \in BOOLEAN

VARIABLES
  handler, \* the ServeHTTP goroutine: "run", "write", "returned", "panicked"
  ops,     \* calls it may still make
  sent,    \* number of bytes it has given to Write
  pending, \* bytes of the blocked Write that no Read has taken
  w,       \* ResponseWriter: status, Content-Length, RawJSBody, webSocket, ReadyCh
  pipeW,   \* write end of the io.Pipe: "open", "eof" or "err"
  pipeR,   \* read end of the io.Pipe: "open" or "closed"
  closes,  \* how often bodyCloser has run onClosed
  resp,    \* the Response: status, kind of body and FixedLengthStream length
  reader,  \* the Pull goroutine, or the FixedLengthStream copier
  primed,  \* readerToReadableStream.initialized
  s,       \* the JavaScript stream
  got,     \* bytes JavaScript has read from it
  cancel   \* the client's cancellation: "no", "due" in Go, or "done"

vars == <<handler, ops, sent, pending, w, pipeW, pipeR, closes, resp, reader,
          primed, s, got, cancel>>

handlerVars == <<handler, ops, sent, w, pipeW>>
jsVars == <<s, got, cancel>>

NoResponse == [status |-> 0, kind |-> "none", length |-> 0]

\* A ReadableStream with its default queue of one chunk: `due` is a call of
\* the pull algorithm to make, `closing` a close() with chunks still queued.
NewStream == [state |-> "readable", queue |-> <<>>, reads |-> 0, closing |-> FALSE,
              pulling |-> FALSE, again |-> FALSE, due |-> FALSE]

Init ==
  /\ handler = "run" /\ ops = MaxOps /\ sent = 0 /\ pending = <<>>
  /\ w = [status |-> 200, length |-> 0, raw |-> FALSE, ws |-> FALSE, ready |-> FALSE]
  /\ pipeW = "open" /\ pipeR = "open" /\ closes = 0
  /\ resp = NoResponse /\ reader = "none" /\ primed = FALSE
  /\ s = [NewStream EXCEPT !.state = "none"] /\ got = <<>> /\ cancel = "no"

-----------------------------------------------------------------------------
(* The handler's calls on its http.ResponseWriter.                         *)

Call == handler = "run" /\ ops > 0 /\ ops' = ops - 1

HandlerSets(field, value) ==
  /\ Call
  /\ w' = [w EXCEPT ![field] = value]
  /\ UNCHANGED <<handler, sent, pending, pipeW, pipeR, closes, resp, reader,
                 primed, jsVars>>

\* WriteHeader only records the status; 204 stands for the null-body ones.
WriteHeader == \E code \in {201, 204} : HandlerSets("status", code)

SetContentLength == \E n \in Lengths : HandlerSets("length", n)

WriteRawJSBody == "raw" \in Foreign /\ HandlerSets("raw", TRUE)

SetWebSocket == "ws" \in Foreign /\ HandlerSets("ws", TRUE)

\* Faulty variant: Write that only buffers the slice and returns at once.
WriteBuffered ==
  /\ Call
  /\ \E n \in Sizes :
       /\ sent' = sent + n
       /\ pending' = [i \in 1..n |-> sent + i]
  /\ w' = [w EXCEPT !.ready = TRUE]
  /\ UNCHANGED <<handler, pipeW, pipeR, closes, resp, reader, primed, jsVars>>

\* Write marks the writer ready, then blocks in the pipe until readers have
\* taken the whole slice; io.Pipe hands over an empty slice too.
Write ==
  /\ Call
  /\ \E n \in Sizes :
       /\ sent' = sent + n
       /\ pending' = [i \in 1..n |-> sent + i]
  /\ w' = [w EXCEPT !.ready = TRUE]
  /\ handler' = "write"
  /\ UNCHANGED <<pipeW, pipeR, closes, resp, reader, primed, jsVars>>

\* The reader has gone: Write returns ErrClosedPipe.
WriteFails ==
  /\ handler = "write" /\ pipeR = "closed"
  /\ handler' = "run" /\ pending' = <<>>
  /\ UNCHANGED <<ops, sent, w, pipeW, pipeR, closes, resp, reader, primed, jsVars>>

Return ==
  /\ handler = "run"
  /\ handler' = "returned" /\ pipeW' = "eof"
  /\ w' = [w EXCEPT !.ready = TRUE]
  /\ UNCHANGED <<ops, sent, pending, pipeR, closes, resp, reader, primed, jsVars>>

\* Faulty variant: the recovery leaves the status the handler had set.
PanicKeepsStatus ==
  /\ handler = "run"
  /\ handler' = "panicked" /\ pipeW' = "err"
  /\ w' = [w EXCEPT !.ready = TRUE]
  /\ UNCHANGED <<ops, sent, pending, pipeR, closes, resp, reader, primed, jsVars>>

\* A panic is recovered: unless the headers are committed they are reset and
\* the status is 500; the pipe is closed with an error.
Panic ==
  /\ handler = "run"
  /\ handler' = "panicked" /\ pipeW' = "err"
  /\ w' = IF w.ready THEN w
          ELSE [w EXCEPT !.length = 0, !.status = 500, !.ready = TRUE]
  /\ UNCHANGED <<ops, sent, pending, pipeR, closes, resp, reader, primed, jsVars>>

HandlerStep ==
  WriteHeader \/ SetContentLength \/ WriteRawJSBody \/ SetWebSocket \/ Write
    \/ WriteFails \/ Return \/ Panic

-----------------------------------------------------------------------------
(* The request goroutine: ToJSResponse, once ReadyCh is closed.            *)

\* Faulty variant: a Close that forgets the reader it wraps.
CloseBodyLeavesPipe == closes' = 1 /\ UNCHANGED pipeR

\* bodyCloser.Close: closes the pipe's read end, and runs onClosed once.
CloseBody == /\ pipeR' = "closed"
             /\ closes' = IF pipeR = "closed" THEN closes ELSE closes + 1

Kind == IF w.ws \/ w.status = 204 THEN "null"
        ELSE IF w.raw THEN "raw"
        ELSE IF HasFixedLength /\ w.length > 0 THEN "fixed" ELSE "stream"

\* newJSResponse; a new ReadableStream pulls as soon as it has started.
ToJSResponse ==
  /\ w.ready /\ resp = NoResponse
  /\ resp' = [status |-> IF w.ws THEN 101 ELSE w.status, kind |-> Kind,
              length |-> w.length]
  /\ IF Kind = "null" /\ ~w.ws THEN CloseBody ELSE UNCHANGED <<pipeR, closes>>
  /\ s' = CASE Kind = "stream" -> [NewStream EXCEPT !.pulling = TRUE, !.due = TRUE]
            [] Kind = "fixed"  -> NewStream
            [] OTHER           -> s
  /\ reader' = IF Kind = "fixed" THEN "await" ELSE "none"
  /\ UNCHANGED <<handlerVars, pending, primed, got, cancel>>

-----------------------------------------------------------------------------
(* JavaScript's ReadableStream, as the Streams standard defines it.        *)

\* CallPullIfNeeded: pull when a read waits or the queue has room.
CallPullIfNeeded(t) ==
  IF t.state # "readable" \/ t.closing \/ (t.reads = 0 /\ t.queue # <<>>) THEN t
  ELSE IF t.pulling THEN [t EXCEPT !.again = TRUE]
  ELSE [t EXCEPT !.pulling = TRUE, !.due = TRUE]

\* controller.enqueue: a waiting read takes the chunk, else it is queued.
Enqueue(t, chunk) ==
  CallPullIfNeeded(IF t.reads > 0 THEN [t EXCEPT !.reads = 0]
                   ELSE [t EXCEPT !.queue = Append(@, chunk)])

\* controller.close: takes effect when the queue has been read.
CloseStream(t) ==
  IF t.queue = <<>> THEN [t EXCEPT !.state = "closed", !.reads = 0]
  ELSE [t EXCEPT !.closing = TRUE]

ErrorStream(t) == IF t.state # "readable" THEN t
                  ELSE [t EXCEPT !.state = "errored", !.queue = <<>>, !.reads = 0]

\* The consumer calls read(): one read at a time.
JsRead ==
  /\ resp.kind = "stream" /\ s.state = "readable" /\ s.reads = 0
  /\ IF s.queue = <<>>
     THEN /\ s' = CallPullIfNeeded([s EXCEPT !.reads = 1])
          /\ UNCHANGED got
     ELSE /\ got' = got \o Head(s.queue)
          /\ LET t == [s EXCEPT !.queue = Tail(@)] IN
             s' = IF t.closing /\ t.queue = <<>> THEN CloseStream(t)
                  ELSE CallPullIfNeeded(t)
  /\ UNCHANGED <<handlerVars, pending, pipeR, closes, resp, reader, primed, cancel>>

\* The consumer cancels: the stream closes at once, Go's Cancel follows.
JsCancel ==
  /\ MayCancel /\ s.state = "readable" /\ cancel = "no"
  /\ s' = [s EXCEPT !.state = "closed", !.queue = <<>>, !.reads = 0]
  /\ cancel' = IF resp.kind = "stream" THEN "due" ELSE "done"
  /\ UNCHANGED <<handlerVars, pending, pipeR, closes, resp, reader, primed, got>>

\* The pull algorithm is called: the executor starts the Pull goroutine.
JsPull ==
  /\ s.due /\ reader = "none"
  /\ s' = [s EXCEPT !.due = FALSE]
  /\ reader' = IF primed THEN "read" ELSE "pull"
  /\ UNCHANGED <<handlerVars, pending, pipeR, closes, resp, primed, got, cancel>>

\* The pull promise's reactions: on success pull again if asked meanwhile.
JsPulled ==
  /\ reader \in {"resolved", "rejected"}
  /\ reader' = "none"
  /\ s' = IF reader = "rejected" THEN ErrorStream([s EXCEPT !.pulling = FALSE])
          ELSE LET t == [s EXCEPT !.pulling = FALSE, !.again = FALSE] IN
               IF s.again THEN CallPullIfNeeded(t) ELSE t
  /\ UNCHANGED <<handlerVars, pending, pipeR, closes, resp, primed, got, cancel>>

-----------------------------------------------------------------------------
(* readerToReadableStream.Pull and Cancel, and the FixedLengthStream copy. *)

\* A chunk reaches the stream: to a waiting read, or to the queue.  Enqueue
\* on a stream that has been cancelled throws; the pull is then rejected.
Deliver(chunk) ==
  IF s.state = "readable"
  THEN /\ s' = Enqueue(s, chunk)
       /\ got' = IF s.reads > 0 THEN got \o chunk ELSE got
       /\ reader' = "resolved"
  ELSE reader' = "rejected" /\ UNCHANGED <<s, got>>

\* The first pull only enqueues an empty chunk.
PullPrime ==
  /\ reader = "pull"
  /\ primed' = TRUE
  /\ Deliver(<<>>)
  /\ UNCHANGED <<handlerVars, pending, pipeR, closes, resp, cancel>>

\* A Read takes what fits its buffer; the Write ends with its slice.
Take(n) ==
  /\ pending' = SubSeq(pending, n + 1, Len(pending))
  /\ handler' = IF n = Len(pending) THEN "run" ELSE "write"

Smaller(m, n) == IF m < n THEN m ELSE n

PullData ==
  /\ reader = "read" /\ handler = "write" /\ pipeR = "open"
  /\ LET n == Smaller(BufSize, Len(pending)) IN
     /\ Take(n)
     /\ IF n = 0 THEN reader' = "resolved" /\ UNCHANGED <<s, got>>
        ELSE Deliver(SubSeq(pending, 1, n))
  /\ UNCHANGED <<ops, sent, w, pipeW, pipeR, closes, resp, primed, cancel>>

\* EOF: controller.close, which throws on a cancelled stream, then Close.
PullEOF ==
  /\ reader = "read" /\ (pipeW = "eof" \/ pipeR = "closed")
  /\ IF s.state = "readable" /\ ~s.closing
     THEN s' = CloseStream(s) /\ reader' = "resolved" /\ CloseBody
     ELSE reader' = "rejected" /\ UNCHANGED <<s, pipeR, closes>>
  /\ UNCHANGED <<handlerVars, pending, resp, primed, got, cancel>>

\* Faulty variant: every error of the pipe is taken for the end of the body.
PullErrorAsEOF ==
  /\ reader = "read" /\ pipeW = "err" /\ pipeR = "open"
  /\ s' = CloseStream(s)
  /\ reader' = "resolved"
  /\ CloseBody
  /\ UNCHANGED <<handlerVars, pending, resp, primed, got, cancel>>

\* The handler's panic: controller.error, then Close; the pull is rejected.
PullError ==
  /\ reader = "read" /\ pipeW = "err" /\ pipeR = "open"
  /\ s' = ErrorStream(s)
  /\ reader' = "rejected"
  /\ CloseBody
  /\ UNCHANGED <<handlerVars, pending, resp, primed, got, cancel>>

Cancel ==
  /\ cancel = "due"
  /\ cancel' = "done"
  /\ CloseBody
  /\ UNCHANGED <<handlerVars, pending, resp, reader, primed, s, got>>

\* writer.ready has settled: start to copy, or, at the end, close the writer.
\* A FixedLengthStream that is short of its length fails instead, and the
\* deferred rc.Close follows.
FixedReady ==
  \/ /\ reader = "await" /\ reader' = "copy"
     /\ UNCHANGED <<s, pipeR, closes>>
  \/ /\ reader = "awaitClose" /\ reader' = "copied"
     /\ s' = IF s.state # "readable" THEN s
             ELSE IF Len(got) = resp.length THEN CloseStream(s) ELSE ErrorStream(s)
     /\ CloseBody

FixedCopy ==
  /\ FixedReady
  /\ UNCHANGED <<handlerVars, pending, resp, primed, got, cancel>>

\* Faulty variant: the whole buffer is written, not the n bytes just read.
FixedDataWholeBuffer ==
  /\ reader = "copy" /\ handler = "write"
  /\ LET size == Smaller(BufSize, resp.length)
         n    == Smaller(size, Len(pending)) IN
     /\ Take(n)
     /\ IF s.state # "readable" THEN UNCHANGED <<s, got>>
        ELSE IF Len(got) + size > resp.length THEN s' = ErrorStream(s) /\ UNCHANGED got
        ELSE /\ got' = got \o SubSeq(pending, 1, n) \o [i \in 1..(size - n) |-> 0]
             /\ UNCHANGED s
  /\ UNCHANGED <<ops, sent, w, pipeW, pipeR, closes, resp, reader, primed, cancel>>

\* writer.write is not awaited; bytes beyond the length make the stream fail.
FixedData ==
  /\ reader = "copy" /\ handler = "write"
  /\ LET n == Smaller(Smaller(BufSize, resp.length), Len(pending)) IN
     /\ Take(n)
     /\ IF s.state # "readable" THEN UNCHANGED <<s, got>>
        ELSE IF Len(got) + n > resp.length THEN s' = ErrorStream(s) /\ UNCHANGED got
        ELSE got' = got \o SubSeq(pending, 1, n) /\ UNCHANGED s
  /\ UNCHANGED <<ops, sent, w, pipeW, pipeR, closes, resp, reader, primed, cancel>>

\* Faulty variant: the body is closed before writer.close has been awaited.
FixedEndClosesFirst ==
  /\ reader = "copy" /\ handler # "write" /\ pipeW # "open"
  /\ reader' = "awaitClose"
  /\ CloseBody
  /\ UNCHANGED <<handlerVars, pending, resp, primed, jsVars>>

FixedEnd ==
  /\ reader = "copy" /\ handler # "write" /\ pipeW # "open"
  /\ reader' = "awaitClose"
  /\ UNCHANGED <<handlerVars, pending, pipeR, closes, resp, primed, jsVars>>

GoStep == ToJSResponse \/ PullPrime \/ PullData \/ PullEOF \/ PullError
            \/ Cancel \/ FixedCopy \/ FixedData \/ FixedEnd

Next == HandlerStep \/ GoStep \/ JsRead \/ JsCancel \/ JsPull \/ JsPulled

Spec == Init /\ [][Next]_vars

\* The handler comes to its end, Go runs what can run, and JavaScript reads
\* the body and settles its promises; the client need not cancel.
Fairness == /\ WF_vars(HandlerStep) /\ WF_vars(GoStep)
            /\ WF_vars(JsRead) /\ WF_vars(JsPull) /\ WF_vars(JsPulled)

FairSpec == Spec /\ Fairness

-----------------------------------------------------------------------------
Writers == [status : {200, 201, 204, 500}, length : Lengths \cup {0},
            raw : BOOLEAN, ws : BOOLEAN, ready : BOOLEAN]
Responses == [status : {0, 101, 200, 201, 204, 500}, length : Lengths \cup {0},
              kind : {"none", "null", "raw", "fixed", "stream"}]
Streams == [state : {"none", "readable", "closed", "errored"},
            queue : Seq(Seq(Nat)), reads : {0, 1}, closing : BOOLEAN,
            pulling : BOOLEAN, again : BOOLEAN, due : BOOLEAN]

\* Every variable has its type.
TypeOK ==
  /\ handler \in {"run", "write", "returned", "panicked"}
  /\ ops \in 0..MaxOps /\ sent \in Nat /\ pending \in Seq(Nat)
  /\ w \in Writers /\ resp \in Responses /\ s \in Streams
  /\ pipeW \in {"open", "eof", "err"} /\ pipeR \in {"open", "closed"}
  /\ closes \in 0..1
  /\ reader \in {"none", "pull", "read", "resolved", "rejected", "await", "copy",
                 "awaitClose", "copied"}
  /\ primed \in BOOLEAN
  /\ got \in Seq(Nat)
  /\ cancel \in {"no", "due", "done"}

\* A streamed body keeps the promises of ByteStream, whatever the consumer
\* and the handler do: Pull and Cancel implement it.  A response with another
\* kind of body abandons the stream.
Body == INSTANCE ByteStream WITH
  written   <- [i \in 1..sent |-> i],
  delivered <- IF resp.kind = "stream" THEN got ELSE <<>>,
  writer    <- CASE handler = "returned" -> "finished"
                 [] handler = "panicked" -> "failed"
                 [] OTHER                -> "writing",
  outcome   <- IF cancel # "no" \/ resp.kind \notin {"none", "stream"}
               THEN "cancelled"
               ELSE CASE s.state = "closed"  -> "complete"
                      [] s.state = "errored" -> "failed"
                      [] OTHER               -> "open"

ImplementsByteStream == Body!Spec

\* A FixedLengthStream that ends cleanly has exactly its Content-Length of
\* the handler's bytes, from the first on.
FixedIsWhole ==
  resp.kind = "fixed" /\ s.state = "closed" /\ cancel = "no" =>
    /\ Len(got) = resp.length
    /\ IsPrefix(got, [i \in 1..sent |-> i])

\* onClosed, upon which the program may exit, runs only when the response
\* has no body, or its body has nothing more to be read from Go.
OnClosedAtEnd ==
  closes > 0 => \/ resp.kind = "null"
                \/ s.state \in {"closed", "errored"} \/ s.closing

\* What Write commits is what JavaScript is given: between Ready and
\* ToJSResponse, on another goroutine, nothing the Response is made of changes.
CommitFreezes == [][w.ready /\ resp = NoResponse => w' = w]_vars

\* A handler that panics before it has written anything answers with 500.
PanicIs500 ==
  handler = "panicked" /\ sent = 0 /\ resp # NoResponse => resp.status = 500

\* A read of the body settles, with bytes, the end or an error.
ReadSettles == s.reads > 0 ~> s.reads = 0

\* The handler's Write returns when the body is read.
WriteReturns == handler = "write" ~> handler # "write"

\* onClosed runs in the end, whichever kind of body the response has.
OnClosedRuns == resp # NoResponse ~> closes > 0

\* Whoever waits for the other side of a response is released: the Write that
\* waits for a reader (ResponseWriter.Write), the read that waits for a chunk
\* (readerToReadableStream.Pull), and who waits for onClosed (bodyCloser.Close).
BodyEnds == WriteReturns /\ ReadSettles /\ OnClosedRuns

\* onClosed runs at most once (TypeOK) although the end, an error, a cancel
\* and the null-body path all close the body, and never before its end.
ClosedOnceAtEnd == TypeOK /\ OnClosedAtEnd
=============================================================================
