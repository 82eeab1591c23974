------------------------- MODULE ResponsePipeProofs -------------------------
(***************************************************************************)
(* For slices, buffers and lengths of any size, any kind of body and any   *)
(* consumer: the bytes of a body keep their order and none is lost,        *)
(* onClosed runs once and at the end, what Write commits stays, and a      *)
(* streamed body implements ByteStream.                                    *)
(***************************************************************************)
EXTENDS ResponsePipe, SequenceTheorems, TLAPS

\* The bytes k + 1, k + 2, ... in this order.
From(q, k) == \A i \in 1..Len(q) : q[i] = k + i

\* The chunk that waits in the stream's queue.
Queued == IF s.queue = <<>> THEN <<>> ELSE s.queue[1]

\* How the handler's end shows in the pipe; what is committed before a Response
\* exists is committed by a handler that makes no further call.
HandlerInv ==
  /\ handler = "returned" <=> pipeW = "eof"
  /\ handler = "panicked" <=> pipeW = "err"
  /\ handler # "write" => pending = <<>>
  /\ resp = NoResponse /\ w.ready => handler # "run"
  /\ handler # "run" \/ resp # NoResponse => w.ready

\* The pipe's read end is closed by onClosed, at the end of the body.
CloseInv ==
  /\ closes = IF pipeR = "closed" THEN 1 ELSE 0
  /\ OnClosedAtEnd
  /\ cancel = "due" => resp.kind = "stream"
  /\ cancel # "no" => s.state = "closed"

\* Which kind of body has which stream, and which goroutine that reads for it.
KindInv ==
  /\ resp = NoResponse <=> resp.kind = "none"
  /\ resp.kind \in {"stream", "fixed"} <=> s.state # "none"
  /\ resp.kind \notin {"stream", "fixed"} => reader = "none" /\ got = <<>>
  /\ resp.kind = "stream" => reader \in {"none", "pull", "read", "resolved", "rejected"}
  /\ resp.kind = "fixed" => reader \in {"await", "copy", "awaitClose", "copied"}
  /\ resp.kind # "stream" => ~s.closing /\ ~s.due /\ s.queue = <<>>

\* One pull at a time, begun only when the queue is empty and not closing.
PullInv ==
  /\ s.due => s.pulling /\ reader = "none"
  /\ s.pulling => s.due \/ reader # "none"
  /\ reader \in {"pull", "read", "resolved", "rejected"} => s.pulling
  /\ (s.due \/ reader \in {"pull", "read"}) /\ s.state = "readable" =>
       s.queue = <<>> /\ ~s.closing
  /\ reader = "rejected" => s.state # "readable"

\* The queue holds at most one chunk, and none that a read waits for.
QueueInv ==
  /\ Len(s.queue) <= 1
  /\ s.reads > 0 => s.queue = <<>>
  /\ s.state # "readable" => s.queue = <<>> /\ s.reads = 0
  /\ s.closing /\ s.state = "readable" => s.queue # <<>> /\ handler = "returned"

\* Every byte is where it belongs: with JavaScript, in the queue, or in the
\* pipe, in this order, until the stream has ended or been abandoned.
BytesInv ==
  /\ From(got, 0) /\ Len(got) <= sent
  /\ s.state \in {"none", "readable"} /\ resp.kind \in {"none", "stream", "fixed"} =>
       /\ From(Queued, Len(got)) /\ From(pending, Len(got) + Len(Queued))
       /\ sent = Len(got) + Len(Queued) + Len(pending)

\* How a stream can have ended, when nobody has cancelled it.
EndInv ==
  cancel = "no" =>
    /\ resp.kind = "stream" /\ s.state = "closed" => handler = "returned" /\ Len(got) = sent
    /\ resp.kind = "stream" /\ s.state = "errored" => handler = "panicked"
    /\ resp.kind = "fixed" /\ s.state = "closed" => Len(got) = resp.length

\* The status of a handler that has panicked before it has written anything.
StatusInv ==
  "ws" \notin Foreign /\ 0 \notin Sizes =>
    /\ ~w.ws
    /\ sent = 0 => handler # "write"
    /\ sent = 0 /\ handler = "run" => ~w.ready
    /\ sent = 0 /\ handler = "panicked" =>
         w.status = 500 /\ (resp # NoResponse => resp.status = 500)

IInv == /\ TypeOK /\ HandlerInv /\ CloseInv /\ KindInv /\ PullInv /\ QueueInv
        /\ BytesInv /\ EndInv /\ StatusInv

-----------------------------------------------------------------------------
(* Numbered bytes.                                                         *)

\* What follows the bytes of one sequence goes on in the other.
LEMMA FromConcat ==
  ASSUME NEW a \in Seq(Nat), NEW b \in Seq(Nat), NEW k \in Nat, From(a, k), From(b, k + Len(a))
  PROVE  /\ a \o b \in Seq(Nat) /\ Len(a \o b) = Len(a) + Len(b)
         /\ From(a \o b, k)
<1>1. /\ a \o b \in Seq(Nat) /\ Len(a \o b) = Len(a) + Len(b)
      /\ \A i \in 1 .. Len(a) + Len(b) : (a \o b)[i] = IF i <= Len(a) THEN a[i] ELSE b[i - Len(a)]
  BY ConcatProperties
<1>2. ASSUME NEW i \in 1 .. Len(a) + Len(b) PROVE (a \o b)[i] = k + i
  <2>1. CASE i <= Len(a)
    BY <1>1, <2>1 DEF From
  <2>2. CASE i > Len(a)
    <3>1. i - Len(a) \in 1 .. Len(b) /\ b[i - Len(a)] = k + Len(a) + (i - Len(a))
      BY <2>2 DEF From
    <3> QED
      BY <1>1, <2>2, <3>1
  <2> QED
    BY <2>1, <2>2
<1> QED
  BY <1>1, <1>2 DEF From

\* A Read that takes n bytes cuts the numbers in two.
LEMMA FromSplit ==
  ASSUME NEW p \in Seq(Nat), NEW k \in Nat, NEW n \in 0 .. Len(p), From(p, k)
  PROVE  /\ SubSeq(p, 1, n) \in Seq(Nat) /\ Len(SubSeq(p, 1, n)) = n
         /\ From(SubSeq(p, 1, n), k)
         /\ SubSeq(p, n + 1, Len(p)) \in Seq(Nat)
         /\ Len(SubSeq(p, n + 1, Len(p))) = Len(p) - n
         /\ From(SubSeq(p, n + 1, Len(p)), k + n)
<1>1. \A i \in 1 .. Len(p) : p[i] \in Nat
  OBVIOUS
<1>2. /\ SubSeq(p, 1, n) \in Seq(Nat) /\ Len(SubSeq(p, 1, n)) = n
      /\ \A i \in 1 .. n : SubSeq(p, 1, n)[i] = p[i]
  BY <1>1, SubSeqProperties
<1>3. /\ SubSeq(p, n + 1, Len(p)) \in Seq(Nat) /\ Len(SubSeq(p, n + 1, Len(p))) = Len(p) - n
      /\ \A i \in 1 .. Len(p) - n : SubSeq(p, n + 1, Len(p))[i] = p[n + i]
  BY <1>1, SubSeqProperties
<1> QED
  BY <1>2, <1>3 DEF From

\* The slice of a Write is numbered from the bytes sent before it.
LEMMA FromSlice ==
  ASSUME NEW k \in Nat, NEW n \in Nat
  PROVE  LET q == [i \in 1..n |-> k + i] IN q \in Seq(Nat) /\ Len(q) = n /\ From(q, k)
BY DEF From

-----------------------------------------------------------------------------
(* What the steps of the JavaScript stream do to it.                       *)

\* CallPullIfNeeded only asks for a pull, for which there is a reason.
LEMMA PullFacts ==
  ASSUME NEW t \in Streams
  PROVE  LET u == CallPullIfNeeded(t) IN
         /\ u \in Streams /\ u.state = t.state /\ u.queue = t.queue /\ u.reads = t.reads
         /\ u.closing = t.closing
         /\ \/ u.due = t.due /\ u.pulling = t.pulling
            \/ /\ u.due /\ u.pulling /\ ~t.pulling /\ u.state = "readable" /\ ~u.closing
               /\ (u.queue = <<>> \/ u.reads > 0)
<1> DEFINE idle == t.state # "readable" \/ t.closing \/ (t.reads = 0 /\ t.queue # <<>>)
<1>1. CASE idle
  BY <1>1 DEF CallPullIfNeeded
<1>2. CASE ~idle /\ t.pulling
  BY <1>2 DEF CallPullIfNeeded, Streams
<1>3. CASE ~idle /\ ~t.pulling
  <2> DEFINE u == [t EXCEPT !.pulling = TRUE, !.due = TRUE]
  <2>1. CallPullIfNeeded(t) = u
    BY <1>3 DEF CallPullIfNeeded
  <2>2. /\ u \in Streams /\ u.state = t.state /\ u.queue = t.queue /\ u.reads = t.reads
        /\ u.closing = t.closing /\ u.due /\ u.pulling
    BY DEF Streams
  <2>3. t.reads # 0 => t.reads > 0
    BY DEF Streams
  <2> QED
    BY <1>3, <2>1, <2>2, <2>3
<1> QED
  BY <1>1, <1>2, <1>3

\* CloseStream with chunks in the queue waits until they have been read.
LEMMA CloseFacts ==
  ASSUME NEW t \in Streams
  PROVE  LET u == CloseStream(t) IN
         /\ u \in Streams /\ u.queue = t.queue /\ u.due = t.due /\ u.pulling = t.pulling
         /\ t.queue = <<>> => u.state = "closed" /\ u.reads = 0 /\ u.closing = t.closing
         /\ t.queue # <<>> => u.state = t.state /\ u.reads = t.reads /\ u.closing
BY DEF CloseStream, Streams

\* ErrorStream drops what is queued.
LEMMA ErrorFacts ==
  ASSUME NEW t \in Streams
  PROVE  LET u == ErrorStream(t) IN
         /\ u \in Streams /\ u.due = t.due /\ u.pulling = t.pulling /\ u.closing = t.closing
         /\ u.state # "readable"
         /\ t.state # "readable" => u = t
         /\ t.state = "readable" => u.state = "errored" /\ u.queue = <<>> /\ u.reads = 0
<1> DEFINE u == [t EXCEPT !.state = "errored", !.queue = <<>>, !.reads = 0]
<1>1. u \in Streams
  <2>1. <<>> \in Seq(Seq(Nat))
    OBVIOUS
  <2> QED
    BY <2>1 DEF Streams
<1>2. /\ u.due = t.due /\ u.pulling = t.pulling /\ u.closing = t.closing
      /\ u.state = "errored" /\ u.queue = <<>> /\ u.reads = 0
  BY DEF Streams
<1> QED
  BY <1>1, <1>2 DEF ErrorStream

\* controller.enqueue under a pull, when nothing is queued: a read that waits
\* takes the chunk, else it is queued.
LEMMA EnqueueFacts ==
  ASSUME NEW t \in Streams, NEW chunk \in Seq(Nat), t.queue = <<>>, t.pulling
  PROVE  LET u == Enqueue(t, chunk) IN
         /\ u \in Streams /\ u.state = t.state /\ u.closing = t.closing
         /\ u.due = t.due /\ u.pulling /\ u.reads = 0
         /\ t.reads > 0 => u.queue = <<>>
         /\ t.reads = 0 => u.queue = <<chunk>>
<1>1. CASE t.reads > 0
  <2> DEFINE v == [t EXCEPT !.reads = 0]
  <2>1. v \in Streams /\ v.state = t.state /\ v.queue = t.queue /\ v.reads = 0
        /\ v.closing = t.closing /\ v.due = t.due /\ v.pulling
    BY DEF Streams
  <2> HIDE DEF v
  <2> DEFINE u == CallPullIfNeeded(v)
  <2>2. /\ u \in Streams /\ u.state = v.state /\ u.queue = v.queue /\ u.reads = v.reads
        /\ u.closing = v.closing /\ u.due = v.due /\ u.pulling
    BY <2>1, PullFacts
  <2>3. Enqueue(t, chunk) = u
    BY <1>1 DEF Enqueue, v
  <2> HIDE DEF u
  <2> QED
    BY <1>1, <2>1, <2>2, <2>3
<1>2. CASE t.reads = 0
  <2> DEFINE v == [t EXCEPT !.queue = Append(@, chunk)]
  <2>0. Append(t.queue, chunk) = <<chunk>> /\ <<chunk>> \in Seq(Seq(Nat))
    OBVIOUS
  <2>1. v \in Streams /\ v.state = t.state /\ v.queue = <<chunk>> /\ v.reads = 0
        /\ v.closing = t.closing /\ v.due = t.due /\ v.pulling
    BY <1>2, <2>0 DEF Streams
  <2> HIDE DEF v
  <2> DEFINE u == CallPullIfNeeded(v)
  <2>2. /\ u \in Streams /\ u.state = v.state /\ u.queue = v.queue /\ u.reads = v.reads
        /\ u.closing = v.closing /\ u.due = v.due /\ u.pulling
    BY <2>1, PullFacts
  <2>3. Enqueue(t, chunk) = u
    BY <1>2 DEF Enqueue, v
  <2> HIDE DEF u
  <2> QED
    BY <1>2, <2>1, <2>2, <2>3
<1> QED
  BY <1>1, <1>2 DEF Streams

-----------------------------------------------------------------------------
(* What the steps do, where it takes more than reading them.               *)

\* A ResponseWriter with another status or length is one.
LEMMA SetStatus ==
  ASSUME NEW t \in Writers
  PROVE  /\ \A code \in {201, 204, 500} : [t EXCEPT !["status"] = code] \in Writers
         /\ \A n \in Lengths \cup {0} : [t EXCEPT !["length"] = n] \in Writers
<1>1. ASSUME NEW code \in {201, 204, 500} PROVE [t EXCEPT !["status"] = code] \in Writers
  BY DEF Writers
<1>2. ASSUME NEW n \in Lengths \cup {0} PROVE [t EXCEPT !["length"] = n] \in Writers
  BY DEF Writers
<1> QED
  BY <1>1, <1>2

\* The handler's calls that only record something in the ResponseWriter.
LEMMA SetsFacts ==
  ASSUME TypeOK, WriteHeader \/ SetContentLength \/ WriteRawJSBody \/ SetWebSocket
  PROVE  /\ w' \in Writers /\ w'.ready = w.ready /\ ("ws" \notin Foreign => w'.ws = w.ws)
         /\ handler = "run" /\ ops' \in 0..MaxOps
         /\ UNCHANGED <<handler, sent, pending, pipeW, pipeR, closes, resp, reader, primed, s,
                        got, cancel>>
<1> USE MaxOpsAssumption DEF TypeOK, HandlerSets, Call, jsVars
<1>1. ASSUME WriteHeader
      PROVE  w' \in Writers /\ w'.ready = w.ready /\ w'.ws = w.ws
  <2>1. PICK code \in {201, 204} : w' = [w EXCEPT !["status"] = code]
    BY <1>1 DEF WriteHeader
  <2>2. w \in Writers
    OBVIOUS
  <2>3. w' \in Writers
    BY <2>1, <2>2, SetStatus, ZenonT(60)
  <2> QED
    BY <2>1, <2>2 DEF Writers
<1>2. ASSUME SetContentLength
      PROVE  w' \in Writers /\ w'.ready = w.ready /\ w'.ws = w.ws
  <2>1. PICK n \in Lengths : w' = [w EXCEPT !["length"] = n]
    BY <1>2 DEF SetContentLength
  <2>2. w \in Writers
    OBVIOUS
  <2>3. w' \in Writers
    BY <2>1, <2>2, SetStatus
  <2> QED
    BY <2>1, <2>2 DEF Writers
<1>3. ASSUME WriteRawJSBody
      PROVE  w' \in Writers /\ w'.ready = w.ready /\ w'.ws = w.ws
  BY <1>3, ZenonT(60) DEF WriteRawJSBody, Writers
<1>4. ASSUME SetWebSocket
      PROVE  w' \in Writers /\ w'.ready = w.ready /\ "ws" \in Foreign
  BY <1>4, ZenonT(60) DEF SetWebSocket, Writers
<1> QED
  BY <1>1, <1>2, <1>3, <1>4 DEF WriteHeader, SetContentLength, WriteRawJSBody, SetWebSocket

\* Ready commits the headers; a panic before it makes them those of a 500.
LEMMA ReadyFacts ==
  ASSUME NEW t \in Writers
  PROVE  LET u == [t EXCEPT !.ready = TRUE]
             v == [t EXCEPT !.length = 0, !.status = 500, !.ready = TRUE]
         IN /\ u \in Writers /\ u.ready /\ u.ws = t.ws
            /\ v \in Writers /\ v.ready /\ v.ws = t.ws /\ v.status = 500
<1>1. LET u == [t EXCEPT !.ready = TRUE] IN u \in Writers /\ u.ready /\ u.ws = t.ws
  BY ZenonT(60) DEF Writers
<1>2. LET v == [t EXCEPT !.length = 0, !.status = 500, !.ready = TRUE] IN
      v.ready /\ v.ws = t.ws /\ v.status = 500
  BY DEF Writers
<1>3. [t EXCEPT !.length = 0, !.status = 500, !.ready = TRUE] \in Writers
  <2> DEFINE x == [t EXCEPT !.length = 0]
             y == [x EXCEPT !.status = 500]
  <2>1. x \in Writers
    BY SetStatus, ZenonT(60)
  <2> HIDE DEF x
  <2>2. y \in Writers
    BY <2>1, SetStatus, ZenonT(60)
  <2> HIDE DEF y
  <2>3. [y EXCEPT !.ready = TRUE] \in Writers
    BY <2>2, ZenonT(60) DEF Writers
  <2>4. [y EXCEPT !.ready = TRUE] = [t EXCEPT !.length = 0, !.status = 500, !.ready = TRUE]
    BY DEF x, y, Writers
  <2> QED
    BY <2>3, <2>4
<1> QED
  BY <1>1, <1>2, <1>3

\* A chunk that a pull hands over.
LEMMA DeliverFacts ==
  ASSUME IInv, NEW chunk \in Seq(Nat), reader \in {"pull", "read"}, Deliver(chunk)
  PROVE  /\ s' \in Streams /\ s'.state = s.state /\ s'.closing = s.closing
         /\ s'.due = s.due /\ s'.pulling = s.pulling
         /\ s.state # "readable" => s' = s /\ got' = got /\ reader' = "rejected"
         /\ s.state = "readable" =>
              /\ reader' = "resolved" /\ s.queue = <<>> /\ s'.reads = 0
              /\ \/ s'.queue = <<>> /\ got' = got \o chunk
                 \/ s'.queue = <<chunk>> /\ got' = got
<1>1. s \in Streams /\ s.pulling
  BY DEF IInv, TypeOK, PullInv
<1>2. CASE s.state = "readable"
  <2>1. s.queue = <<>> /\ s' = Enqueue(s, chunk) /\ reader' = "resolved"
        /\ got' = IF s.reads > 0 THEN got \o chunk ELSE got
    BY <1>2 DEF Deliver, IInv, PullInv
  <2>2. s.reads > 0 \/ s.reads = 0
    BY <1>1 DEF Streams
  <2> QED
    BY <1>1, <1>2, <2>1, <2>2, EnqueueFacts
<1>3. CASE s.state # "readable"
  BY <1>1, <1>3 DEF Deliver
<1> QED
  BY <1>2, <1>3

\* The end of the body: the stream closes once its queue has been read.
LEMMA EOFFacts ==
  ASSUME IInv, PullEOF
  PROVE  /\ s' \in Streams /\ s'.queue = s.queue /\ s'.due = s.due /\ s'.pulling = s.pulling
         /\ \/ s.state # "readable" /\ reader' = "rejected" /\ UNCHANGED <<s, pipeR, closes>>
            \/ /\ s.state = "readable" /\ s.queue = <<>> /\ s'.state = "closed" /\ s'.reads = 0
               /\ s'.closing = s.closing /\ reader' = "resolved" /\ CloseBody
<1>1. s \in Streams /\ reader = "read"
  BY DEF IInv, TypeOK, PullEOF
<1>2. s.state = "readable" => s.queue = <<>> /\ ~s.closing
  BY <1>1 DEF IInv, PullInv
<1> QED
  BY <1>1, <1>2, CloseFacts DEF PullEOF

\* A read() of the consumer.
LEMMA ReadFacts ==
  ASSUME IInv, JsRead
  PROVE  /\ s.state = "readable" /\ s.reads = 0 /\ s' \in Streams /\ s'.queue = <<>>
         /\ s'.closing = s.closing
         /\ \/ s.queue = <<>> /\ got' = got /\ s'.reads = 1
            \/ s.queue # <<>> /\ got' = got \o Queued /\ s'.reads = 0
         /\ \/ s.closing /\ s'.state = "closed" /\ s'.due = s.due /\ s'.pulling = s.pulling
            \/ /\ ~s.closing /\ s'.state = "readable"
               /\ \/ s'.due = s.due /\ s'.pulling = s.pulling
                  \/ s'.due /\ s'.pulling /\ ~s.pulling
<1>1. s \in Streams /\ s.state = "readable" /\ s.reads = 0 /\ Len(s.queue) <= 1
      /\ (s.queue = <<>> => ~s.closing) /\ s.queue \in Seq(Seq(Nat))
  BY DEF IInv, TypeOK, JsRead, QueueInv, Streams
<1>2. CASE s.queue = <<>>
  <2> DEFINE t == [s EXCEPT !.reads = 1]
  <2>1. t \in Streams /\ t.state = s.state /\ t.queue = <<>> /\ t.reads = 1
        /\ t.closing = s.closing /\ t.due = s.due /\ t.pulling = s.pulling
    BY <1>1, <1>2 DEF Streams
  <2>2. s' = CallPullIfNeeded(t) /\ got' = got
    BY <1>2 DEF JsRead
  <2> HIDE DEF t
  <2> QED
    BY <1>1, <1>2, <2>1, <2>2, PullFacts
<1>3. CASE s.queue # <<>>
  <2> DEFINE t == [s EXCEPT !.queue = Tail(@)]
  <2>0. Tail(s.queue) = <<>> /\ Head(s.queue) = Queued
    BY <1>1, <1>3 DEF Queued
  <2>1. t \in Streams /\ t.state = s.state /\ t.queue = <<>> /\ t.reads = 0
        /\ t.closing = s.closing /\ t.due = s.due /\ t.pulling = s.pulling
    <3>1. <<>> \in Seq(Seq(Nat))
      OBVIOUS
    <3> QED
      BY <1>1, <2>0, <3>1 DEF Streams
  <2>2. s' = IF t.closing /\ t.queue = <<>> THEN CloseStream(t) ELSE CallPullIfNeeded(t)
    BY <1>3 DEF JsRead
  <2>3. got' = got \o Queued
    BY <1>3, <2>0 DEF JsRead
  <2> HIDE DEF t
  <2>4. CASE s.closing
    BY <1>1, <1>3, <2>1, <2>2, <2>3, <2>4, CloseFacts
  <2>5. CASE ~s.closing
    BY <1>1, <1>3, <2>1, <2>2, <2>3, <2>5, PullFacts
  <2> QED
    BY <2>4, <2>5
<1> QED
  BY <1>2, <1>3

\* The reactions of the pull promise.
LEMMA PulledFacts ==
  ASSUME IInv, JsPulled
  PROVE  /\ s' \in Streams /\ s'.state = s.state /\ s'.queue = s.queue
         /\ s'.reads = s.reads /\ s'.closing = s.closing
         /\ \/ s'.due = s.due /\ ~s'.pulling
            \/ /\ s'.due /\ s'.pulling /\ s'.state = "readable" /\ ~s'.closing
               /\ s'.queue = <<>>
<1>1. s \in Streams /\ (reader = "rejected" => s.state # "readable")
      /\ (s.reads > 0 => s.queue = <<>>)
  BY DEF IInv, TypeOK, PullInv, QueueInv
<1>2. CASE reader = "rejected"
  <2> DEFINE t == [s EXCEPT !.pulling = FALSE]
  <2>1. t \in Streams /\ t.state = s.state /\ t.queue = s.queue /\ t.reads = s.reads
        /\ t.closing = s.closing /\ t.due = s.due /\ ~t.pulling
    BY <1>1 DEF Streams
  <2>2. s' = ErrorStream(t)
    BY <1>2 DEF JsPulled
  <2> HIDE DEF t
  <2> QED
    BY <1>1, <1>2, <2>1, <2>2, ErrorFacts
<1>3. CASE reader = "resolved"
  <2> DEFINE t == [s EXCEPT !.pulling = FALSE, !.again = FALSE]
  <2>1. t \in Streams /\ t.state = s.state /\ t.queue = s.queue /\ t.reads = s.reads
        /\ t.closing = s.closing /\ t.due = s.due /\ ~t.pulling
    BY <1>1 DEF Streams
  <2>2. s' = IF s.again THEN CallPullIfNeeded(t) ELSE t
    BY <1>3 DEF JsPulled
  <2> HIDE DEF t
  <2> QED
    BY <1>1, <2>1, <2>2, PullFacts
<1> QED
  BY <1>2, <1>3 DEF JsPulled

-----------------------------------------------------------------------------
(* The invariant, step by step.                                            *)

\* What waits in the queue is a chunk of bytes.
LEMMA QueuedFacts ==
  ASSUME TypeOK, QueueInv
  PROVE  Queued \in Seq(Nat) /\ (s.queue = <<>> => Queued = <<>> /\ Len(Queued) = 0)
         /\ \A k : From(<<>>, k)
BY DEF TypeOK, QueueInv, Queued, Streams, From

\* A queue of one chunk.
LEMMA OneChunk == \A c : Len(<<c>>) = 1 /\ <<c>>[1] = c /\ <<c>> # <<>>
OBVIOUS

\* Bytes in order from the first, and those that follow them.
LEMMA FromAppend ==
  ASSUME NEW a \in Seq(Nat), NEW b \in Seq(Nat), From(a, 0), From(b, Len(a))
  PROVE  /\ a \o b \in Seq(Nat) /\ Len(a \o b) = Len(a) + Len(b)
         /\ From(a \o b, 0)
<1>1. 0 + Len(a) = Len(a)
  OBVIOUS
<1>2. From(b, 0 + Len(a))
  BY <1>1
<1> QED
  BY <1>2, FromConcat

\* Every step keeps the invariant.
LEMMA NextInv == ASSUME IInv, [Next]_vars PROVE IInv'
<1> USE SizesAssumption, BufSizeAssumption, MaxOpsAssumption, ForeignAssumption, FlagsAssumption
        DEF handlerVars, jsVars
<1>1. ASSUME WriteHeader \/ SetContentLength \/ WriteRawJSBody \/ SetWebSocket
     PROVE  IInv'
  <2> USE <1>1 DEF IInv
  <2>1. /\ w' \in Writers /\ w'.ready = w.ready /\ ("ws" \notin Foreign => w'.ws = w.ws)
        /\ handler = "run" /\ ops' \in 0..MaxOps
        /\ UNCHANGED <<handler, sent, pending, pipeW, pipeR, closes, resp, reader, primed, s,
                       got, cancel, Queued>>
    BY SetsFacts DEF Queued
  <2>2. TypeOK'
    BY <2>1 DEF TypeOK
  <2>3. HandlerInv'
    BY <2>1 DEF HandlerInv, KindInv, TypeOK
  <2>4. CloseInv'
    BY <2>1 DEF CloseInv, OnClosedAtEnd, KindInv, PullInv, Streams, TypeOK
  <2>5. KindInv'
    BY <2>1 DEF KindInv, PullInv, NoResponse, TypeOK
  <2>6. PullInv'
    BY <2>1 DEF PullInv, KindInv, CloseInv, TypeOK
  <2>7. QueueInv'
    BY <2>1 DEF QueueInv, PullInv, KindInv, HandlerInv, CloseInv, TypeOK
  <2>8. BytesInv'
    BY <2>1, QueuedFacts DEF BytesInv, KindInv, TypeOK
  <2>9. EndInv'
    BY <2>1 DEF EndInv, HandlerInv, QueueInv, BytesInv, CloseInv, OnClosedAtEnd, KindInv, PullInv, TypeOK
  <2>10. StatusInv'
    BY <2>1 DEF StatusInv, HandlerInv, KindInv, TypeOK
  <2> QED
    BY <2>2, <2>3, <2>4, <2>5, <2>6, <2>7, <2>8, <2>9, <2>10
<1>2. ASSUME Write
     PROVE  IInv'
  <2> USE <1>2 DEF IInv
  <2>1. /\ handler = "run" /\ handler' = "write" /\ w' = [w EXCEPT !.ready = TRUE]
        /\ ops' \in 0..MaxOps
        /\ UNCHANGED <<pipeW, pipeR, closes, resp, reader, primed, s, got, cancel, Queued>>
    BY DEF Write, Call, TypeOK, Queued
  <2>2. w' \in Writers /\ w'.ready /\ w'.ws = w.ws
    BY <2>1, ReadyFacts, ZenonT(60) DEF TypeOK
  <2>3. PICK n \in Sizes : sent' = sent + n /\ pending' = [i \in 1..n |-> sent + i]
    BY DEF Write
  <2>4. /\ pending = <<>> /\ sent' = sent + n /\ n \in Nat /\ n \in Sizes
        /\ pending' \in Seq(Nat) /\ Len(pending') = n /\ From(pending', sent)
    BY <2>1, <2>3, FromSlice DEF TypeOK, HandlerInv
  <2>5. TypeOK'
    BY <2>1, <2>2, <2>4 DEF TypeOK
  <2>6. HandlerInv'
    BY <2>1, <2>2, <2>4 DEF HandlerInv, KindInv, TypeOK
  <2>7. CloseInv'
    BY <2>1, <2>2, <2>4 DEF CloseInv, OnClosedAtEnd, KindInv, PullInv, Streams, TypeOK
  <2>8. KindInv'
    BY <2>1, <2>2, <2>4 DEF KindInv, PullInv, NoResponse, TypeOK
  <2>9. PullInv'
    BY <2>1, <2>2, <2>4 DEF PullInv, KindInv, CloseInv, TypeOK
  <2>10. QueueInv'
    BY <2>1, <2>2, <2>4 DEF QueueInv, PullInv, KindInv, HandlerInv, CloseInv, TypeOK
  <2>11. BytesInv'
    BY <2>1, <2>2, <2>4, QueuedFacts DEF BytesInv, KindInv, TypeOK
  <2>12. EndInv'
    BY <2>1, <2>2, <2>4 DEF EndInv, HandlerInv, QueueInv, BytesInv, CloseInv, OnClosedAtEnd, KindInv, PullInv, TypeOK
  <2>13. StatusInv'
    BY <2>1, <2>2, <2>4 DEF StatusInv, HandlerInv, KindInv, TypeOK
  <2> QED
    BY <2>5, <2>6, <2>7, <2>8, <2>9, <2>10, <2>11, <2>12, <2>13
<1>3. ASSUME WriteFails
     PROVE  IInv'
  <2> USE <1>3 DEF IInv
  <2>1. /\ handler = "write" /\ pipeR = "closed" /\ handler' = "run" /\ pending' = <<>>
        /\ UNCHANGED <<ops, sent, w, pipeW, pipeR, closes, resp, reader, primed, s, got, cancel,
                       Queued>>
    BY DEF WriteFails, Queued
  <2>2. resp # NoResponse /\ (resp.kind \in {"stream", "fixed"} => s.state \notin {"none", "readable"})
    BY <2>1 DEF CloseInv, OnClosedAtEnd, KindInv, QueueInv, NoResponse
  <2>3. TypeOK'
    BY <2>1, <2>2 DEF TypeOK
  <2>4. HandlerInv'
    BY <2>1, <2>2 DEF HandlerInv, KindInv, TypeOK
  <2>5. CloseInv'
    BY <2>1, <2>2 DEF CloseInv, OnClosedAtEnd, KindInv, PullInv, Streams, TypeOK
  <2>6. KindInv'
    BY <2>1, <2>2 DEF KindInv, PullInv, NoResponse, TypeOK
  <2>7. PullInv'
    BY <2>1, <2>2 DEF PullInv, KindInv, CloseInv, TypeOK
  <2>8. QueueInv'
    BY <2>1, <2>2 DEF QueueInv, PullInv, KindInv, HandlerInv, CloseInv, TypeOK
  <2>9. BytesInv'
    BY <2>1, <2>2, QueuedFacts DEF BytesInv, KindInv, TypeOK
  <2>10. EndInv'
    BY <2>1, <2>2 DEF EndInv, HandlerInv, QueueInv, BytesInv, CloseInv, OnClosedAtEnd, KindInv, PullInv, TypeOK
  <2>11. StatusInv'
    BY <2>1, <2>2 DEF StatusInv, HandlerInv, KindInv, TypeOK
  <2> QED
    BY <2>3, <2>4, <2>5, <2>6, <2>7, <2>8, <2>9, <2>10, <2>11
<1>4. ASSUME Return
     PROVE  IInv'
  <2> USE <1>4 DEF IInv
  <2>1. /\ handler = "run" /\ handler' = "returned" /\ pipeW' = "eof" /\ w' = [w EXCEPT !.ready = TRUE]
        /\ UNCHANGED <<ops, sent, pending, pipeR, closes, resp, reader, primed, s, got, cancel,
                       Queued>>
    BY DEF Return, Queued
  <2>2. w' \in Writers /\ w'.ready /\ w'.ws = w.ws
    BY <2>1, ReadyFacts, ZenonT(60) DEF TypeOK
  <2>3. TypeOK'
    BY <2>1, <2>2 DEF TypeOK
  <2>4. HandlerInv'
    BY <2>1, <2>2 DEF HandlerInv, KindInv, TypeOK
  <2>5. CloseInv'
    BY <2>1, <2>2 DEF CloseInv, OnClosedAtEnd, KindInv, PullInv, Streams, TypeOK
  <2>6. KindInv'
    BY <2>1, <2>2 DEF KindInv, PullInv, NoResponse, TypeOK
  <2>7. PullInv'
    BY <2>1, <2>2 DEF PullInv, KindInv, CloseInv, TypeOK
  <2>8. QueueInv'
    BY <2>1, <2>2 DEF QueueInv, PullInv, KindInv, HandlerInv, CloseInv, TypeOK
  <2>9. BytesInv'
    BY <2>1, <2>2, QueuedFacts DEF BytesInv, KindInv, TypeOK
  <2>10. EndInv'
    BY <2>1, <2>2 DEF EndInv, HandlerInv, QueueInv, BytesInv, CloseInv, OnClosedAtEnd, KindInv, PullInv, TypeOK
  <2>11. StatusInv'
    BY <2>1, <2>2 DEF StatusInv, HandlerInv, KindInv, TypeOK
  <2> QED
    BY <2>3, <2>4, <2>5, <2>6, <2>7, <2>8, <2>9, <2>10, <2>11
<1>5. ASSUME Panic
     PROVE  IInv'
  <2> USE <1>5 DEF IInv
  <2>1. /\ handler = "run" /\ handler' = "panicked" /\ pipeW' = "err"
        /\ UNCHANGED <<ops, sent, pending, pipeR, closes, resp, reader, primed, s, got, cancel,
                       Queued>>
    BY DEF Panic, Queued
  <2>2. /\ w' \in Writers /\ w'.ready /\ w'.ws = w.ws
        /\ w.ready \/ w'.status = 500
    <3>1. w \in Writers
      BY DEF TypeOK
    <3>2. CASE w.ready
      BY <3>1, <3>2 DEF Panic
    <3>3. CASE ~w.ready
      BY <3>1, <3>3, ReadyFacts, ZenonT(60) DEF Panic
    <3> QED
      BY <3>2, <3>3
  <2>3. TypeOK'
    BY <2>1, <2>2 DEF TypeOK
  <2>4. HandlerInv'
    BY <2>1, <2>2 DEF HandlerInv, KindInv, TypeOK
  <2>5. CloseInv'
    BY <2>1, <2>2 DEF CloseInv, OnClosedAtEnd, KindInv, PullInv, Streams, TypeOK
  <2>6. KindInv'
    BY <2>1, <2>2 DEF KindInv, PullInv, NoResponse, TypeOK
  <2>7. PullInv'
    BY <2>1, <2>2 DEF PullInv, KindInv, CloseInv, TypeOK
  <2>8. QueueInv'
    BY <2>1, <2>2 DEF QueueInv, PullInv, KindInv, HandlerInv, CloseInv, TypeOK
  <2>9. BytesInv'
    BY <2>1, <2>2, QueuedFacts DEF BytesInv, KindInv, TypeOK
  <2>10. EndInv'
    BY <2>1, <2>2 DEF EndInv, HandlerInv, QueueInv, BytesInv, CloseInv, OnClosedAtEnd, KindInv, PullInv, TypeOK
  <2>11. StatusInv'
    BY <2>1, <2>2 DEF StatusInv, HandlerInv, KindInv, TypeOK
  <2> QED
    BY <2>3, <2>4, <2>5, <2>6, <2>7, <2>8, <2>9, <2>10, <2>11
<1>6. ASSUME ToJSResponse
     PROVE  IInv'
  <2> USE <1>6 DEF IInv
  <2>1. /\ w.ready /\ resp = NoResponse /\ resp' = [status |-> IF w.ws THEN 101 ELSE w.status,
                                                   kind |-> Kind, length |-> w.length]
        /\ IF Kind = "null" /\ ~w.ws THEN CloseBody ELSE UNCHANGED <<pipeR, closes>>
        /\ s' = CASE Kind = "stream" -> [NewStream EXCEPT !.pulling = TRUE, !.due = TRUE]
                  [] Kind = "fixed"  -> NewStream
                  [] OTHER           -> s
        /\ reader' = IF Kind = "fixed" THEN "await" ELSE "none"
        /\ UNCHANGED <<handler, ops, sent, w, pipeW, pending, primed, got, cancel>>
    BY DEF ToJSResponse
  <2>2. Kind \in {"null", "raw", "fixed", "stream"} /\ resp' \in Responses /\ resp' # NoResponse
        /\ resp'.kind = Kind /\ (~w.ws => resp'.status = w.status)
    BY <2>1 DEF Kind, Responses, TypeOK, Writers, NoResponse
  <2>3. /\ resp.kind = "none" /\ s.state = "none" /\ reader = "none" /\ got = <<>> /\ cancel = "no"
        /\ closes = 0 /\ pipeR = "open" /\ handler # "run"
        /\ s.queue = <<>> /\ ~s.closing /\ ~s.due /\ ~s.pulling /\ s.reads = 0
    BY <2>1 DEF KindInv, CloseInv, OnClosedAtEnd, HandlerInv, PullInv, QueueInv, NoResponse, TypeOK, Streams
  <2>4. /\ s' \in Streams /\ s'.queue = <<>> /\ s'.reads = 0 /\ ~s'.closing
        /\ s'.state = IF Kind \in {"stream", "fixed"} THEN "readable" ELSE "none"
        /\ s'.due <=> Kind = "stream"
        /\ s'.pulling <=> Kind = "stream"
    <3>1. <<>> \in Seq(Seq(Nat)) /\ 0 \in {0, 1}
      OBVIOUS
    <3>2. NewStream \in Streams
      BY <3>1 DEF NewStream, Streams
    <3>3. [NewStream EXCEPT !.pulling = TRUE, !.due = TRUE] \in Streams
      BY <3>2 DEF Streams
    <3>4. s' = IF Kind = "stream" THEN [NewStream EXCEPT !.pulling = TRUE, !.due = TRUE]
               ELSE IF Kind = "fixed" THEN NewStream ELSE s
      BY <2>1
    <3>5. /\ s' \in Streams /\ s'.queue = <<>> /\ s'.reads = 0 /\ ~s'.closing
      BY <2>3, <3>2, <3>3, <3>4 DEF NewStream, TypeOK
    <3>6. /\ s'.state = IF Kind \in {"stream", "fixed"} THEN "readable" ELSE "none"
          /\ s'.due <=> Kind = "stream"
          /\ s'.pulling <=> Kind = "stream"
      BY <2>3, <3>4 DEF NewStream
    <3> QED
      BY <3>5, <3>6
  <2>5. Queued = <<>> /\ Queued' = <<>>
    BY <2>3, <2>4 DEF Queued
  <2>6. /\ closes' \in 0..1 /\ (closes' = IF pipeR' = "closed" THEN 1 ELSE 0)
        /\ pipeR' \in {"open", "closed"} /\ (closes' > 0 => Kind = "null")
    BY <2>1, <2>3 DEF CloseBody
  <2>7. TypeOK'
    BY <2>1, <2>2, <2>3, <2>4, <2>5, <2>6 DEF TypeOK
  <2>8. HandlerInv'
    BY <2>1, <2>2, <2>3, <2>4, <2>5, <2>6 DEF HandlerInv, KindInv, TypeOK
  <2>9. CloseInv'
    BY <2>1, <2>2, <2>3, <2>4, <2>5, <2>6 DEF CloseInv, OnClosedAtEnd, KindInv, PullInv, Streams, TypeOK
  <2>10. KindInv'
    BY <2>1, <2>2, <2>3, <2>4, <2>5, <2>6 DEF KindInv, PullInv, NoResponse, TypeOK
  <2>11. PullInv'
    BY <2>1, <2>2, <2>3, <2>4, <2>5, <2>6 DEF PullInv, KindInv, CloseInv, TypeOK
  <2>12. QueueInv'
    BY <2>1, <2>2, <2>3, <2>4, <2>5, <2>6 DEF QueueInv, PullInv, KindInv, HandlerInv, CloseInv, TypeOK
  <2>13. BytesInv'
    BY <2>1, <2>2, <2>3, <2>4, <2>5, <2>6, QueuedFacts DEF BytesInv, KindInv, TypeOK
  <2>14. EndInv'
    BY <2>1, <2>2, <2>3, <2>4, <2>5, <2>6 DEF EndInv, HandlerInv, QueueInv, BytesInv, CloseInv, OnClosedAtEnd, KindInv, PullInv, TypeOK
  <2>15. StatusInv'
    BY <2>1, <2>2, <2>3, <2>4, <2>5, <2>6 DEF StatusInv, HandlerInv, KindInv, TypeOK
  <2> QED
    BY <2>7, <2>8, <2>9, <2>10, <2>11, <2>12, <2>13, <2>14, <2>15
<1>7. ASSUME PullPrime
     PROVE  IInv'
  <2> USE <1>7 DEF IInv
  <2>1. /\ reader = "pull" /\ primed' = TRUE
        /\ UNCHANGED <<handler, ops, sent, w, pipeW, pending, pipeR, closes, resp, cancel>>
    BY DEF PullPrime
  <2>2. /\ s' \in Streams /\ s'.state = s.state /\ s'.closing = s.closing
        /\ s'.due = s.due /\ s'.pulling = s.pulling
        /\ s.state # "readable" => s' = s /\ got' = got /\ reader' = "rejected"
        /\ s.state = "readable" =>
             /\ reader' = "resolved" /\ s.queue = <<>> /\ s'.reads = 0
             /\ \/ s'.queue = <<>> /\ got' = got \o <<>>
                \/ s'.queue = <<<<>>>> /\ got' = got
    <3>1. Deliver(<<>>) /\ <<>> \in Seq(Nat)
      BY DEF PullPrime
    <3> QED
      BY <2>1, <3>1, DeliverFacts
  <2>3. /\ got' = got /\ got \in Seq(Nat) /\ reader' \in {"resolved", "rejected"} /\ Len(s'.queue) <= 1
        /\ s.state = "readable" => Queued = <<>> /\ Queued' = <<>>
        /\ s.state # "readable" => Queued' = Queued
    <3>1. got \in Seq(Nat) /\ got \o <<>> = got
      BY ConcatEmptySeq DEF TypeOK
    <3>2. CASE s.state = "readable"
      <4>1. CASE s'.queue = <<>> /\ got' = got \o <<>>
        BY <2>2, <3>1, <3>2, <4>1 DEF Queued
      <4>2. CASE s'.queue = << <<>> >> /\ got' = got
        BY <2>2, <3>1, <3>2, <4>2, OneChunk DEF Queued
      <4> QED
        BY <2>2, <3>2, <4>1, <4>2
    <3>3. CASE s.state # "readable"
      BY <2>2, <3>1, <3>3 DEF Queued, QueueInv
    <3> QED
      BY <3>2, <3>3
  <2>4. resp.kind = "stream" /\ s.state # "none"
    BY <2>1 DEF KindInv, TypeOK, Responses
  <2>5. TypeOK'
    BY <2>1, <2>2, <2>3, <2>4 DEF TypeOK
  <2>6. HandlerInv'
    BY <2>1, <2>2, <2>3, <2>4 DEF HandlerInv, KindInv, TypeOK
  <2>7. CloseInv'
    BY <2>1, <2>2, <2>3, <2>4 DEF CloseInv, OnClosedAtEnd, KindInv, PullInv, Streams, TypeOK
  <2>8. KindInv'
    BY <2>1, <2>2, <2>3, <2>4 DEF KindInv, PullInv, NoResponse, TypeOK
  <2>9. PullInv'
    BY <2>1, <2>2, <2>3, <2>4 DEF PullInv, KindInv, CloseInv, TypeOK
  <2>10. QueueInv'
    BY <2>1, <2>2, <2>3, <2>4 DEF QueueInv, PullInv, KindInv, HandlerInv, CloseInv, TypeOK
  <2>11. BytesInv'
    BY <2>1, <2>2, <2>3, <2>4, QueuedFacts DEF BytesInv, KindInv, TypeOK
  <2>12. EndInv'
    BY <2>1, <2>2, <2>3, <2>4 DEF EndInv, HandlerInv, QueueInv, BytesInv, CloseInv, OnClosedAtEnd, KindInv, PullInv, TypeOK
  <2>13. StatusInv'
    BY <2>1, <2>2, <2>3, <2>4 DEF StatusInv, HandlerInv, KindInv, TypeOK
  <2> QED
    BY <2>5, <2>6, <2>7, <2>8, <2>9, <2>10, <2>11, <2>12, <2>13
<1>8. ASSUME PullData
     PROVE  IInv'
  <2> USE <1>8 DEF IInv
  <2>1. /\ reader = "read" /\ handler = "write" /\ pipeR = "open"
        /\ UNCHANGED <<ops, sent, w, pipeW, pipeR, closes, resp, primed, cancel>>
    BY DEF PullData
  <2>2. /\ resp.kind = "stream" /\ s.state # "none" /\ resp # NoResponse
    BY <2>1 DEF KindInv, TypeOK, Responses
  <2>3. PICK n \in 0 .. Len(pending) :
        /\ Take(n) /\ (n = 0 => Len(pending) = 0)
        /\ IF n = 0 THEN reader' = "resolved" /\ UNCHANGED <<s, got>>
           ELSE Deliver(SubSeq(pending, 1, n))
    BY DEF PullData, Smaller, TypeOK
  <2> DEFINE chunk == SubSeq(pending, 1, n)
  <2>5. /\ chunk \in Seq(Nat) /\ Len(chunk) = n /\ pending' \in Seq(Nat)
        /\ Len(pending') = Len(pending) - n
        /\ handler' \in {"run", "write"} /\ (handler' # "write" => pending' = <<>>)
        /\ (s.state = "readable" => /\ From(chunk, Len(got) + Len(Queued))
                                    /\ From(pending', Len(got) + Len(Queued) + n))
    <3>1. chunk \in Seq(Nat) /\ Len(chunk) = n
      BY SubSeqProperties DEF TypeOK
    <3>2. /\ pending' \in Seq(Nat) /\ Len(pending') = Len(pending) - n
          /\ handler' = IF n = Len(pending) THEN "run" ELSE "write"
          /\ pending' = SubSeq(pending, n + 1, Len(pending))
      BY <2>3, SubSeqProperties DEF Take, TypeOK
    <3>3. ASSUME s.state = "readable"
          PROVE  From(chunk, Len(got) + Len(Queued)) /\ From(pending', Len(got) + Len(Queued) + n)
      BY <2>2, <3>2, <3>3, QueuedFacts, FromSplit DEF BytesInv, TypeOK
    <3> QED
      BY <3>1, <3>2, <3>3
  <2>6. ASSUME n # 0
        PROVE  /\ s' \in Streams /\ s'.state = s.state /\ s'.closing = s.closing
               /\ s'.due = s.due /\ s'.pulling = s.pulling
               /\ s.state # "readable" => s' = s /\ got' = got /\ reader' = "rejected"
               /\ s.state = "readable" =>
                    /\ reader' = "resolved" /\ s.queue = <<>> /\ s'.reads = 0
                    /\ \/ s'.queue = <<>> /\ got' = got \o chunk
                       \/ s'.queue = <<chunk>> /\ got' = got
    <3>1. Deliver(chunk)
      BY <2>3, <2>6
    <3> HIDE DEF chunk
    <3> QED
      BY <2>1, <2>5, <3>1, DeliverFacts
  <2>7. /\ s' \in Streams /\ s'.state = s.state /\ s'.closing = s.closing
        /\ s'.due = s.due /\ s'.pulling = s.pulling /\ reader' \in {"resolved", "rejected"}
        /\ s.state # "readable" => s' = s /\ got' = got
        /\ reader' = "rejected" => s.state # "readable"
        /\ Len(s'.queue) <= 1 /\ (s'.reads > 0 => s'.queue = <<>>)
    <3>1. CASE n = 0
      BY <2>3, <3>1 DEF TypeOK, QueueInv
    <3>2. CASE n # 0 /\ s.state = "readable"
      <4>1. CASE s'.queue = <<>>
        BY <2>6, <3>2, <4>1
      <4>2. CASE s'.queue = <<chunk>>
        <5>1. Len(s'.queue) = 1
          BY <4>2, OneChunk
        <5> QED
          BY <2>6, <3>2, <5>1
      <4> QED
        BY <2>6, <3>2, <4>1, <4>2
    <3>3. CASE n # 0 /\ s.state # "readable"
      BY <2>6, <3>3 DEF QueueInv
    <3> QED
      BY <3>1, <3>2, <3>3
  <2>8. /\ got' \in Seq(Nat) /\ Len(got') <= sent /\ From(got', 0)
        /\ s.state = "readable" => /\ Queued' \in Seq(Nat) /\ From(Queued', Len(got'))
                                   /\ Len(got') + Len(Queued') = Len(got) + Len(Queued) + n
    <3>1. got \in Seq(Nat) /\ Len(got) \in Nat /\ From(got, 0) /\ Len(got) <= sent /\ sent \in Nat
      BY DEF BytesInv, TypeOK
    <3>2. CASE s.state # "readable"
      BY <2>3, <2>6, <2>7, <3>1, <3>2
    <3>3. CASE n = 0 /\ s.state = "readable"
      <4>1. s' = s /\ got' = got /\ Queued' = Queued
        BY <2>3, <3>3 DEF Queued
      <4> QED
        BY <2>2, <3>1, <3>3, <4>1, QueuedFacts DEF BytesInv
    <3>4. CASE n # 0 /\ s.state = "readable"
      <4>1. Queued = <<>> /\ Len(Queued) = 0
        BY <2>6, <3>4 DEF Queued
      <4>2. Len(got) + Len(Queued) = Len(got) /\ From(chunk, Len(got)) /\ sent = Len(got) + Len(pending)
        BY <2>2, <2>5, <3>1, <3>4, <4>1 DEF BytesInv, TypeOK
      <4>3. CASE s'.queue = <<>> /\ got' = got \o chunk
        <5>1. got' \in Seq(Nat) /\ Len(got') = Len(got) + n /\ From(got', 0)
          BY <2>5, <3>1, <4>2, <4>3, FromAppend
        <5>2. Queued' = <<>> /\ Queued' \in Seq(Nat) /\ Len(Queued') = 0 /\ From(Queued', Len(got'))
          BY <4>3 DEF Queued, From
        <5>3. Len(pending) \in Nat /\ n <= Len(pending)
          BY DEF TypeOK
        <5> QED
          BY <3>1, <4>1, <4>2, <5>1, <5>2, <5>3
      <4>4. CASE s'.queue = <<chunk>> /\ got' = got
        <5>1. Queued' = chunk
          BY <4>4 DEF Queued
        <5> QED
          BY <2>5, <3>1, <4>1, <4>2, <4>4, <5>1
      <4>5. (s'.queue = <<>> /\ got' = got \o chunk) \/ (s'.queue = <<chunk>> /\ got' = got)
        BY <2>6, <3>4
      <4> QED
        BY <4>3, <4>4, <4>5
    <3> QED
      BY <3>2, <3>3, <3>4
  <2>9. s.state = "readable" => /\ From(pending', Len(got') + Len(Queued'))
                                /\ sent = Len(got') + Len(Queued') + Len(pending')
    <3>1. CASE s.state = "readable"
      <4>1. /\ sent = Len(got) + Len(Queued) + Len(pending) /\ Len(pending) \in Nat /\ n \in Nat
            /\ Len(got) \in Nat /\ Len(Queued) \in Nat
        BY <2>2, <3>1, QueuedFacts DEF BytesInv, TypeOK
      <4>2. Len(got') + Len(Queued') = Len(got) + Len(Queued) + n
        BY <2>8, <3>1
      <4>3. From(pending', Len(got') + Len(Queued'))
        BY <2>5, <3>1, <4>2
      <4>4. Len(pending') = Len(pending) - n
        BY <2>5
      <4>5. sent = Len(got') + Len(Queued') + Len(pending')
        BY <4>1, <4>2, <4>4
      <4> QED
        BY <4>3, <4>5
    <3> QED
      BY <3>1
  <2> HIDE DEF chunk
  <2>10. TypeOK'
    BY <2>1, <2>2, <2>5, <2>6, <2>7, <2>8, <2>9 DEF TypeOK
  <2>11. HandlerInv'
    BY <2>1, <2>2, <2>5, <2>6, <2>7, <2>8, <2>9 DEF HandlerInv, KindInv, TypeOK
  <2>12. CloseInv'
    BY <2>1, <2>2, <2>5, <2>6, <2>7, <2>8, <2>9 DEF CloseInv, OnClosedAtEnd, KindInv, PullInv, Streams, TypeOK
  <2>13. KindInv'
    BY <2>1, <2>2, <2>5, <2>6, <2>7, <2>8, <2>9 DEF KindInv, PullInv, NoResponse, TypeOK
  <2>14. PullInv'
    BY <2>1, <2>2, <2>5, <2>6, <2>7, <2>8, <2>9 DEF PullInv, KindInv, CloseInv, TypeOK
  <2>15. QueueInv'
    BY <2>1, <2>2, <2>5, <2>6, <2>7, <2>8, <2>9 DEF QueueInv, PullInv, KindInv, HandlerInv, CloseInv, TypeOK
  <2>16. BytesInv'
    BY <2>1, <2>2, <2>5, <2>6, <2>7, <2>8, <2>9, QueuedFacts DEF BytesInv, KindInv, TypeOK
  <2>17. EndInv'
    BY <2>1, <2>2, <2>5, <2>6, <2>7, <2>8, <2>9 DEF EndInv, HandlerInv, QueueInv, BytesInv, CloseInv, OnClosedAtEnd, KindInv, PullInv, TypeOK
  <2>18. StatusInv'
    BY <2>1, <2>2, <2>5, <2>6, <2>7, <2>8, <2>9 DEF StatusInv, HandlerInv, KindInv, TypeOK
  <2> QED
    BY <2>10, <2>11, <2>12, <2>13, <2>14, <2>15, <2>16, <2>17, <2>18
<1>9. ASSUME PullEOF
     PROVE  IInv'
  <2> USE <1>9 DEF IInv
  <2>1. /\ reader = "read" /\ (pipeW = "eof" \/ pipeR = "closed") /\ resp.kind = "stream" /\ s.state # "none"
        /\ UNCHANGED <<handler, ops, sent, w, pipeW, pending, resp, primed, got, cancel>>
    BY DEF PullEOF, KindInv, TypeOK, Responses
  <2>2. /\ s' \in Streams /\ s'.queue = s.queue /\ s'.due = s.due /\ s'.pulling = s.pulling
        /\ Queued' = Queued /\ s'.closing = s.closing
        /\ \/ s.state # "readable" /\ reader' = "rejected" /\ UNCHANGED <<s, pipeR, closes>>
           \/ /\ s.state = "readable" /\ s.queue = <<>> /\ s'.state = "closed" /\ s'.reads = 0
              /\ reader' = "resolved" /\ CloseBody
    BY EOFFacts DEF Queued
  <2>3. /\ closes' \in 0..1 /\ (closes' = IF pipeR' = "closed" THEN 1 ELSE 0)
        /\ pipeR' \in {"open", "closed"}
        /\ closes' > 0 => s'.state \in {"closed", "errored"}
    BY <2>1, <2>2 DEF CloseBody, CloseInv, TypeOK, Streams
  <2>4. s.state = "readable" => handler = "returned" /\ pending = <<>> /\ Queued = <<>> /\ Len(got) = sent
    BY <2>1, <2>2 DEF HandlerInv, CloseInv, OnClosedAtEnd, PullInv, BytesInv, Queued, TypeOK
  <2>5. TypeOK'
    BY <2>1, <2>2, <2>3, <2>4 DEF TypeOK
  <2>6. HandlerInv'
    BY <2>1, <2>2, <2>3, <2>4 DEF HandlerInv, KindInv, TypeOK
  <2>7. CloseInv'
    BY <2>1, <2>2, <2>3, <2>4 DEF CloseInv, OnClosedAtEnd, KindInv, PullInv, Streams, TypeOK
  <2>8. KindInv'
    BY <2>1, <2>2, <2>3, <2>4 DEF KindInv, PullInv, NoResponse, TypeOK
  <2>9. PullInv'
    BY <2>1, <2>2, <2>3, <2>4 DEF PullInv, KindInv, CloseInv, TypeOK
  <2>10. QueueInv'
    BY <2>1, <2>2, <2>3, <2>4 DEF QueueInv, PullInv, KindInv, HandlerInv, CloseInv, TypeOK
  <2>11. BytesInv'
    BY <2>1, <2>2, <2>3, <2>4, QueuedFacts DEF BytesInv, KindInv, TypeOK
  <2>12. EndInv'
    BY <2>1, <2>2, <2>3, <2>4 DEF EndInv, HandlerInv, QueueInv, BytesInv, CloseInv, OnClosedAtEnd, KindInv, PullInv, TypeOK
  <2>13. StatusInv'
    BY <2>1, <2>2, <2>3, <2>4 DEF StatusInv, HandlerInv, KindInv, TypeOK
  <2> QED
    BY <2>5, <2>6, <2>7, <2>8, <2>9, <2>10, <2>11, <2>12, <2>13
<1>10. ASSUME PullError
     PROVE  IInv'
  <2> USE <1>10 DEF IInv
  <2>1. /\ reader = "read" /\ pipeW = "err" /\ pipeR = "open" /\ reader' = "rejected" /\ CloseBody
        /\ resp.kind = "stream" /\ s.state # "none" /\ handler = "panicked"
        /\ UNCHANGED <<handler, ops, sent, w, pipeW, pending, resp, primed, got, cancel>>
    BY DEF PullError, KindInv, TypeOK, Responses, HandlerInv
  <2>2. /\ s' \in Streams /\ s'.due = s.due /\ s'.pulling = s.pulling /\ s'.closing = s.closing
        /\ s'.state # "readable" /\ s'.state # "none"
        /\ s.state # "readable" => s' = s
        /\ s.state = "readable" => s'.state = "errored" /\ s'.queue = <<>> /\ s'.reads = 0
    BY <2>1, ErrorFacts DEF PullError, TypeOK
  <2>3. closes' = 1 /\ pipeR' = "closed" /\ s'.state \in {"closed", "errored"}
    BY <2>1, <2>2 DEF CloseBody, CloseInv, Streams
  <2>4. TypeOK'
    BY <2>1, <2>2, <2>3 DEF TypeOK
  <2>5. HandlerInv'
    BY <2>1, <2>2, <2>3 DEF HandlerInv, KindInv, TypeOK
  <2>6. CloseInv'
    BY <2>1, <2>2, <2>3 DEF CloseInv, OnClosedAtEnd, KindInv, PullInv, Streams, TypeOK
  <2>7. KindInv'
    BY <2>1, <2>2, <2>3 DEF KindInv, PullInv, NoResponse, TypeOK
  <2>8. PullInv'
    BY <2>1, <2>2, <2>3 DEF PullInv, KindInv, CloseInv, TypeOK
  <2>9. QueueInv'
    BY <2>1, <2>2, <2>3 DEF QueueInv, PullInv, KindInv, HandlerInv, CloseInv, TypeOK
  <2>10. BytesInv'
    BY <2>1, <2>2, <2>3, QueuedFacts DEF BytesInv, KindInv, TypeOK
  <2>11. EndInv'
    BY <2>1, <2>2, <2>3 DEF EndInv, HandlerInv, QueueInv, BytesInv, CloseInv, OnClosedAtEnd, KindInv, PullInv, TypeOK
  <2>12. StatusInv'
    BY <2>1, <2>2, <2>3 DEF StatusInv, HandlerInv, KindInv, TypeOK
  <2> QED
    BY <2>4, <2>5, <2>6, <2>7, <2>8, <2>9, <2>10, <2>11, <2>12
<1>11. ASSUME Cancel
     PROVE  IInv'
  <2> USE <1>11 DEF IInv
  <2>1. /\ cancel = "due" /\ cancel' = "done" /\ CloseBody /\ s.state = "closed"
        /\ UNCHANGED <<handler, ops, sent, w, pipeW, pending, resp, reader, primed, s, got, Queued>>
    BY DEF Cancel, CloseInv, Queued
  <2>2. closes' = 1 /\ pipeR' = "closed"
    BY <2>1 DEF CloseBody, CloseInv, TypeOK
  <2>3. TypeOK'
    BY <2>1, <2>2 DEF TypeOK
  <2>4. HandlerInv'
    BY <2>1, <2>2 DEF HandlerInv, KindInv, TypeOK
  <2>5. CloseInv'
    BY <2>1, <2>2 DEF CloseInv, OnClosedAtEnd, KindInv, PullInv, Streams, TypeOK
  <2>6. KindInv'
    BY <2>1, <2>2 DEF KindInv, PullInv, NoResponse, TypeOK
  <2>7. PullInv'
    BY <2>1, <2>2 DEF PullInv, KindInv, CloseInv, TypeOK
  <2>8. QueueInv'
    BY <2>1, <2>2 DEF QueueInv, PullInv, KindInv, HandlerInv, CloseInv, TypeOK
  <2>9. BytesInv'
    BY <2>1, <2>2, QueuedFacts DEF BytesInv, KindInv, TypeOK
  <2>10. EndInv'
    BY <2>1, <2>2 DEF EndInv, HandlerInv, QueueInv, BytesInv, CloseInv, OnClosedAtEnd, KindInv, PullInv, TypeOK
  <2>11. StatusInv'
    BY <2>1, <2>2 DEF StatusInv, HandlerInv, KindInv, TypeOK
  <2> QED
    BY <2>3, <2>4, <2>5, <2>6, <2>7, <2>8, <2>9, <2>10, <2>11
<1>12. ASSUME FixedCopy
     PROVE  IInv'
  <2> USE <1>12 DEF IInv
  <2>1. UNCHANGED <<handler, ops, sent, w, pipeW, pending, resp, primed, got, cancel>>
    BY DEF FixedCopy
  <2>2. /\ resp.kind = "fixed" /\ s.state # "none" /\ s.queue = <<>> /\ ~s.closing /\ ~s.due
        /\ reader' \in {"copy", "copied"}
    BY DEF FixedCopy, FixedReady, KindInv, TypeOK, Responses
  <2>3. /\ s' \in Streams /\ s'.queue = <<>> /\ s'.due = s.due /\ s'.pulling = s.pulling
        /\ s'.closing = s.closing /\ s'.state # "none" /\ Queued' = Queued
        /\ s'.state = "readable" => s.state = "readable"
        /\ s.state = "readable" \/ s' = s
        /\ \/ s' = s
           \/ s'.state = "errored" /\ s'.reads = 0
           \/ s'.state = "closed" /\ s'.reads = 0 /\ Len(got) = resp.length
        /\ \/ UNCHANGED <<pipeR, closes>>
           \/ CloseBody /\ s'.state \in {"closed", "errored"}
    <3>1. CASE reader = "await"
      BY <2>2, <3>1 DEF FixedCopy, FixedReady, TypeOK, Queued
    <3>2. CASE reader = "awaitClose"
      <4>1. /\ CloseBody
            /\ s' = IF s.state # "readable" THEN s
                    ELSE IF Len(got) = resp.length THEN CloseStream(s) ELSE ErrorStream(s)
        BY <3>2 DEF FixedCopy, FixedReady
      <4>2. CASE s.state # "readable"
        BY <2>2, <4>1, <4>2 DEF TypeOK, Queued, Streams
      <4>3. CASE s.state = "readable" /\ Len(got) = resp.length
        BY <2>2, <4>1, <4>3, CloseFacts DEF TypeOK, Queued
      <4>4. CASE s.state = "readable" /\ Len(got) # resp.length
        BY <2>2, <4>1, <4>4, ErrorFacts DEF TypeOK, Queued
      <4> QED
        BY <4>2, <4>3, <4>4
    <3> QED
      BY <3>1, <3>2 DEF FixedCopy, FixedReady
  <2>4. /\ closes' \in 0..1 /\ (closes' = IF pipeR' = "closed" THEN 1 ELSE 0)
        /\ pipeR' \in {"open", "closed"}
        /\ closes' > 0 => s'.state \in {"closed", "errored"}
    BY <2>2, <2>3 DEF CloseBody, CloseInv, OnClosedAtEnd, TypeOK
  <2>5. TypeOK'
    BY <2>1, <2>2, <2>3, <2>4 DEF TypeOK
  <2>6. HandlerInv'
    BY <2>1, <2>2, <2>3, <2>4 DEF HandlerInv, KindInv, TypeOK
  <2>7. CloseInv'
    BY <2>1, <2>2, <2>3, <2>4 DEF CloseInv, OnClosedAtEnd, KindInv, PullInv, Streams, TypeOK
  <2>8. KindInv'
    BY <2>1, <2>2, <2>3, <2>4 DEF KindInv, PullInv, NoResponse, TypeOK
  <2>9. PullInv'
    BY <2>1, <2>2, <2>3, <2>4 DEF PullInv, KindInv, CloseInv, TypeOK
  <2>10. QueueInv'
    BY <2>1, <2>2, <2>3, <2>4 DEF QueueInv, PullInv, KindInv, HandlerInv, CloseInv, TypeOK
  <2>11. BytesInv'
    BY <2>1, <2>2, <2>3, <2>4, QueuedFacts DEF BytesInv, KindInv, TypeOK
  <2>12. EndInv'
    BY <2>1, <2>2, <2>3, <2>4 DEF EndInv, HandlerInv, QueueInv, BytesInv, CloseInv, OnClosedAtEnd, KindInv, PullInv, TypeOK
  <2>13. StatusInv'
    BY <2>1, <2>2, <2>3, <2>4 DEF StatusInv, HandlerInv, KindInv, TypeOK
  <2> QED
    BY <2>5, <2>6, <2>7, <2>8, <2>9, <2>10, <2>11, <2>12, <2>13
<1>13. ASSUME FixedData
     PROVE  IInv'
  <2> USE <1>13 DEF IInv
  <2>1. /\ reader = "copy" /\ handler = "write"
        /\ UNCHANGED <<ops, sent, w, pipeW, pipeR, closes, resp, reader, primed, cancel>>
    BY DEF FixedData
  <2>2. /\ resp.kind = "fixed" /\ s.state # "none" /\ resp # NoResponse /\ s.queue = <<>> /\ Queued = <<>>
    BY <2>1 DEF KindInv, TypeOK, Responses, Queued
  <2>3. PICK n \in 0 .. Len(pending) :
        /\ Take(n)
        /\ IF s.state # "readable" THEN UNCHANGED <<s, got>>
           ELSE IF Len(got) + n > resp.length THEN s' = ErrorStream(s) /\ UNCHANGED got
           ELSE got' = got \o SubSeq(pending, 1, n) /\ UNCHANGED s
    <3>0. resp.length \in Lengths \cup {0}
      BY DEF TypeOK, Responses
    <3>1. resp.length \in Nat /\ Len(pending) \in Nat
      <4>1. 0 \in Nat /\ Lengths \subseteq Nat
        OBVIOUS
      <4>2. resp.length \in Nat
        BY <3>0, <4>1
      <4>3. Len(pending) \in Nat
        BY DEF TypeOK
      <4> QED
        BY <4>2, <4>3
    <3>2. BufSize \in Nat
      OBVIOUS
    <3>3. Smaller(Smaller(BufSize, resp.length), Len(pending)) \in 0 .. Len(pending)
      BY <3>1, <3>2 DEF Smaller
    <3> QED
      BY <3>3 DEF FixedData
  <2> DEFINE chunk == SubSeq(pending, 1, n)
  <2>5. /\ chunk \in Seq(Nat) /\ Len(chunk) = n /\ pending' \in Seq(Nat)
        /\ Len(pending') = Len(pending) - n
        /\ handler' \in {"run", "write"} /\ (handler' # "write" => pending' = <<>>)
        /\ (s.state = "readable" => /\ From(chunk, Len(got) + Len(Queued))
                                    /\ From(pending', Len(got) + Len(Queued) + n))
    <3>1. chunk \in Seq(Nat) /\ Len(chunk) = n
      BY SubSeqProperties DEF TypeOK
    <3>2. /\ pending' \in Seq(Nat) /\ Len(pending') = Len(pending) - n
          /\ handler' = IF n = Len(pending) THEN "run" ELSE "write"
          /\ pending' = SubSeq(pending, n + 1, Len(pending))
      BY <2>3, SubSeqProperties DEF Take, TypeOK
    <3>3. ASSUME s.state = "readable"
          PROVE  From(chunk, Len(got) + Len(Queued)) /\ From(pending', Len(got) + Len(Queued) + n)
      BY <2>2, <3>2, <3>3, QueuedFacts, FromSplit DEF BytesInv, TypeOK
    <3> QED
      BY <3>1, <3>2, <3>3
  <2>6. /\ s' \in Streams /\ s'.due = s.due /\ s'.pulling = s.pulling /\ s'.closing = s.closing
        /\ s'.queue = <<>> /\ Queued' = <<>>
        /\ \/ s' = s
           \/ s.state = "readable" /\ s'.state = "errored" /\ s'.reads = 0 /\ got' = got
    BY <2>2, <2>3, ErrorFacts DEF TypeOK, Queued
  <2>7. /\ got' \in Seq(Nat) /\ Len(got') <= sent /\ From(got', 0)
        /\ s.state # "readable" => got' = got
        /\ s'.state = "readable" => s.state = "readable" /\ Len(got') = Len(got) + n
    <3>0. got \in Seq(Nat) /\ Len(got) \in Nat /\ From(got, 0) /\ Len(got) <= sent /\ sent \in Nat
          /\ Len(pending) \in Nat /\ n <= Len(pending)
      BY DEF BytesInv, TypeOK
    <3>1. CASE s.state # "readable"
      BY <2>3, <2>6, <3>0, <3>1
    <3>2. CASE s.state = "readable"
      <4>0. Len(Queued) = 0
        BY <2>2
      <4>1. Len(got) + Len(Queued) = Len(got) /\ From(chunk, Len(got)) /\ sent = Len(got) + Len(pending)
        BY <2>2, <2>5, <3>0, <3>2, <4>0 DEF BytesInv
      <4>2. got \o chunk \in Seq(Nat) /\ Len(got \o chunk) = Len(got) + n /\ From(got \o chunk, 0)
        BY <2>5, <3>0, <4>1, FromAppend
      <4>3. CASE Len(got) + n > resp.length
        <5>1. s'.state = "errored" /\ got' = got
          BY <2>3, <3>2, <4>3, ErrorFacts DEF TypeOK
        <5> QED
          BY <3>0, <3>2, <5>1
      <4>4. CASE ~(Len(got) + n > resp.length)
        <5>1. got' = got \o chunk
          BY <2>3, <3>2, <4>4 DEF chunk
        <5> QED
          BY <3>0, <3>2, <4>1, <4>2, <5>1
      <4> QED
        BY <4>3, <4>4
    <3> QED
      BY <3>1, <3>2
  <2>8. s'.state = "readable" => /\ From(pending', Len(got') + Len(Queued'))
                                /\ sent = Len(got') + Len(Queued') + Len(pending')
    <3>1. CASE s'.state = "readable"
      <4>1. s.state = "readable" /\ Len(Queued) = 0 /\ Len(Queued') = 0
        BY <2>2, <2>6, <2>7, <3>1
      <4>2. /\ sent = Len(got) + Len(Queued) + Len(pending) /\ Len(pending) \in Nat /\ n \in Nat
            /\ Len(got) \in Nat
        BY <2>2, <4>1 DEF BytesInv, TypeOK
      <4>3. Len(got') + Len(Queued') = Len(got) + Len(Queued) + n
        BY <2>7, <3>1, <4>1, <4>2
      <4>4. From(pending', Len(got') + Len(Queued'))
        BY <2>5, <4>1, <4>3
      <4>5. Len(pending') = Len(pending) - n
        BY <2>5
      <4>6. sent = Len(got') + Len(Queued') + Len(pending')
        BY <4>2, <4>3, <4>5
      <4> QED
        BY <4>4, <4>6
    <3> QED
      BY <3>1
  <2> HIDE DEF chunk
  <2>9. TypeOK'
    BY <2>1, <2>2, <2>5, <2>6, <2>7, <2>8 DEF TypeOK
  <2>10. HandlerInv'
    BY <2>1, <2>2, <2>5, <2>6, <2>7, <2>8 DEF HandlerInv, KindInv, TypeOK
  <2>11. CloseInv'
    BY <2>1, <2>2, <2>5, <2>6, <2>7, <2>8 DEF CloseInv, OnClosedAtEnd, KindInv, PullInv, Streams, TypeOK
  <2>12. KindInv'
    BY <2>1, <2>2, <2>5, <2>6, <2>7, <2>8 DEF KindInv, PullInv, NoResponse, TypeOK
  <2>13. PullInv'
    BY <2>1, <2>2, <2>5, <2>6, <2>7, <2>8 DEF PullInv, KindInv, CloseInv, TypeOK
  <2>14. QueueInv'
    BY <2>1, <2>2, <2>5, <2>6, <2>7, <2>8 DEF QueueInv, PullInv, KindInv, HandlerInv, CloseInv, TypeOK
  <2>15. BytesInv'
    BY <2>1, <2>2, <2>5, <2>6, <2>7, <2>8, QueuedFacts DEF BytesInv, KindInv, TypeOK
  <2>16. EndInv'
    BY <2>1, <2>2, <2>5, <2>6, <2>7, <2>8 DEF EndInv, HandlerInv, QueueInv, BytesInv, CloseInv, OnClosedAtEnd, KindInv, PullInv, TypeOK
  <2>17. StatusInv'
    BY <2>1, <2>2, <2>5, <2>6, <2>7, <2>8 DEF StatusInv, HandlerInv, KindInv, TypeOK
  <2> QED
    BY <2>9, <2>10, <2>11, <2>12, <2>13, <2>14, <2>15, <2>16, <2>17
<1>14. ASSUME FixedEnd
     PROVE  IInv'
  <2> USE <1>14 DEF IInv
  <2>1. /\ reader = "copy" /\ reader' = "awaitClose" /\ resp.kind = "fixed"
        /\ UNCHANGED <<handler, ops, sent, w, pipeW, pending, pipeR, closes, resp, primed, s, got,
                       cancel, Queued>>
    BY DEF FixedEnd, KindInv, TypeOK, Responses, Queued
  <2>2. TypeOK'
    BY <2>1 DEF TypeOK
  <2>3. HandlerInv'
    BY <2>1 DEF HandlerInv, KindInv, TypeOK
  <2>4. CloseInv'
    BY <2>1 DEF CloseInv, OnClosedAtEnd, KindInv, PullInv, Streams, TypeOK
  <2>5. KindInv'
    BY <2>1 DEF KindInv, PullInv, NoResponse, TypeOK
  <2>6. PullInv'
    BY <2>1 DEF PullInv, KindInv, CloseInv, TypeOK
  <2>7. QueueInv'
    BY <2>1 DEF QueueInv, PullInv, KindInv, HandlerInv, CloseInv, TypeOK
  <2>8. BytesInv'
    BY <2>1, QueuedFacts DEF BytesInv, KindInv, TypeOK
  <2>9. EndInv'
    BY <2>1 DEF EndInv, HandlerInv, QueueInv, BytesInv, CloseInv, OnClosedAtEnd, KindInv, PullInv, TypeOK
  <2>10. StatusInv'
    BY <2>1 DEF StatusInv, HandlerInv, KindInv, TypeOK
  <2> QED
    BY <2>2, <2>3, <2>4, <2>5, <2>6, <2>7, <2>8, <2>9, <2>10
<1>15. ASSUME JsRead
     PROVE  IInv'
  <2> USE <1>15 DEF IInv
  <2>1. /\ resp.kind = "stream"
        /\ UNCHANGED <<handler, ops, sent, w, pipeW, pending, pipeR, closes, resp, reader, primed,
                       cancel>>
    BY DEF JsRead
  <2>2. /\ s.state = "readable" /\ s.reads = 0 /\ s' \in Streams /\ s'.queue = <<>>
        /\ s'.closing = s.closing /\ Queued' = <<>>
        /\ \/ s.queue = <<>> /\ got' = got /\ s'.reads = 1
           \/ s.queue # <<>> /\ got' = got \o Queued /\ s'.reads = 0
        /\ \/ s.closing /\ s'.state = "closed" /\ s'.due = s.due /\ s'.pulling = s.pulling
           \/ /\ ~s.closing /\ s'.state = "readable"
              /\ \/ s'.due = s.due /\ s'.pulling = s.pulling
                 \/ s'.due /\ s'.pulling /\ ~s.pulling
    BY ReadFacts DEF Queued
  <2>3. s.closing => s.queue # <<>> /\ s'.reads = 0 /\ handler = "returned"
    BY <2>2 DEF QueueInv
  <2>4. /\ got' \in Seq(Nat) /\ From(got', 0) /\ Len(got') = Len(got) + Len(Queued)
        /\ Len(got') <= sent /\ Len(Queued') = 0 /\ Len(got') + Len(Queued') = Len(got')
    <3>1. CASE s.queue = <<>>
      <4>1. got' = got /\ Len(Queued) = 0 /\ Len(Queued') = 0
        BY <2>2, <3>1 DEF Queued
      <4> QED
        BY <4>1 DEF BytesInv, TypeOK
    <3>2. CASE s.queue # <<>>
      <4>1. /\ got \in Seq(Nat) /\ Queued \in Seq(Nat) /\ From(got, 0) /\ From(Queued, Len(got))
            /\ sent = Len(got) + Len(Queued) + Len(pending) /\ Len(pending) \in Nat
        BY <2>1, <2>2, QueuedFacts DEF BytesInv, TypeOK
      <4>2. /\ got \o Queued \in Seq(Nat) /\ From(got \o Queued, 0)
            /\ Len(got \o Queued) = Len(got) + Len(Queued)
        BY <4>1, FromAppend
      <4>3. got' = got \o Queued
        BY <2>2, <3>2
      <4> QED
        BY <2>2, <4>1, <4>2, <4>3
    <3> QED
      BY <3>1, <3>2
  <2>5. s.closing => Len(got') = sent
    BY <2>1, <2>2, <2>3, <2>4, QueuedFacts DEF HandlerInv, BytesInv, TypeOK
  <2>6. TypeOK'
    BY <2>1, <2>2, <2>3, <2>4, <2>5 DEF TypeOK
  <2>7. HandlerInv'
    BY <2>1, <2>2, <2>3, <2>4, <2>5 DEF HandlerInv, KindInv, TypeOK
  <2>8. CloseInv'
    BY <2>1, <2>2, <2>3, <2>4, <2>5 DEF CloseInv, OnClosedAtEnd, KindInv, PullInv, Streams, TypeOK
  <2>9. KindInv'
    BY <2>1, <2>2, <2>3, <2>4, <2>5 DEF KindInv, PullInv, NoResponse, TypeOK
  <2>10. PullInv'
    BY <2>1, <2>2, <2>3, <2>4, <2>5 DEF PullInv, KindInv, CloseInv, TypeOK
  <2>11. QueueInv'
    BY <2>1, <2>2, <2>3, <2>4, <2>5 DEF QueueInv, PullInv, KindInv, HandlerInv, CloseInv, TypeOK
  <2>12. BytesInv'
    BY <2>1, <2>2, <2>3, <2>4, <2>5, QueuedFacts DEF BytesInv, KindInv, TypeOK
  <2>13. EndInv'
    BY <2>1, <2>2, <2>3, <2>4, <2>5 DEF EndInv, HandlerInv, QueueInv, BytesInv, CloseInv, OnClosedAtEnd, KindInv, PullInv, TypeOK
  <2>14. StatusInv'
    BY <2>1, <2>2, <2>3, <2>4, <2>5 DEF StatusInv, HandlerInv, KindInv, TypeOK
  <2> QED
    BY <2>6, <2>7, <2>8, <2>9, <2>10, <2>11, <2>12, <2>13, <2>14
<1>16. ASSUME JsCancel
     PROVE  IInv'
  <2> USE <1>16 DEF IInv
  <2>1. /\ s.state = "readable" /\ cancel = "no" /\ cancel' \in {"due", "done"}
        /\ cancel' = "due" <=> resp.kind = "stream"
        /\ s' = [s EXCEPT !.state = "closed", !.queue = <<>>, !.reads = 0]
        /\ UNCHANGED <<handler, ops, sent, w, pipeW, pending, pipeR, closes, resp, reader, primed, got>>
    BY DEF JsCancel
  <2>2. /\ s' \in Streams /\ s'.state = "closed" /\ s'.queue = <<>> /\ s'.reads = 0
        /\ s'.due = s.due /\ s'.pulling = s.pulling /\ s'.closing = s.closing
    <3>1. <<>> \in Seq(Seq(Nat)) /\ 0 \in {0, 1}
      OBVIOUS
    <3> QED
      BY <2>1, <3>1 DEF TypeOK, Streams
  <2>3. TypeOK'
    BY <2>1, <2>2 DEF TypeOK
  <2>4. HandlerInv'
    BY <2>1, <2>2 DEF HandlerInv, KindInv, TypeOK
  <2>5. CloseInv'
    BY <2>1, <2>2 DEF CloseInv, OnClosedAtEnd, KindInv, PullInv, Streams, TypeOK
  <2>6. KindInv'
    BY <2>1, <2>2 DEF KindInv, PullInv, NoResponse, TypeOK
  <2>7. PullInv'
    BY <2>1, <2>2 DEF PullInv, KindInv, CloseInv, TypeOK
  <2>8. QueueInv'
    BY <2>1, <2>2 DEF QueueInv, PullInv, KindInv, HandlerInv, CloseInv, TypeOK
  <2>9. BytesInv'
    BY <2>1, <2>2, QueuedFacts DEF BytesInv, KindInv, TypeOK
  <2>10. EndInv'
    BY <2>1, <2>2 DEF EndInv, HandlerInv, QueueInv, BytesInv, CloseInv, OnClosedAtEnd, KindInv, PullInv, TypeOK
  <2>11. StatusInv'
    BY <2>1, <2>2 DEF StatusInv, HandlerInv, KindInv, TypeOK
  <2> QED
    BY <2>3, <2>4, <2>5, <2>6, <2>7, <2>8, <2>9, <2>10, <2>11
<1>17. ASSUME JsPull
     PROVE  IInv'
  <2> USE <1>17 DEF IInv
  <2>1. /\ s.due /\ reader = "none" /\ s' = [s EXCEPT !.due = FALSE] /\ reader' \in {"read", "pull"}
        /\ resp.kind = "stream"
        /\ UNCHANGED <<handler, ops, sent, w, pipeW, pending, pipeR, closes, resp, primed, got, cancel>>
    BY DEF JsPull, KindInv
  <2>2. /\ s' \in Streams /\ s'.state = s.state /\ s'.queue = s.queue /\ s'.reads = s.reads /\ ~s'.due
        /\ s'.pulling = s.pulling /\ s'.closing = s.closing /\ Queued' = Queued
    BY <2>1 DEF TypeOK, Streams, Queued
  <2>3. TypeOK'
    BY <2>1, <2>2 DEF TypeOK
  <2>4. HandlerInv'
    BY <2>1, <2>2 DEF HandlerInv, KindInv, TypeOK
  <2>5. CloseInv'
    BY <2>1, <2>2 DEF CloseInv, OnClosedAtEnd, KindInv, PullInv, Streams, TypeOK
  <2>6. KindInv'
    BY <2>1, <2>2 DEF KindInv, PullInv, NoResponse, TypeOK
  <2>7. PullInv'
    BY <2>1, <2>2 DEF PullInv, KindInv, CloseInv, TypeOK
  <2>8. QueueInv'
    BY <2>1, <2>2 DEF QueueInv, PullInv, KindInv, HandlerInv, CloseInv, TypeOK
  <2>9. BytesInv'
    BY <2>1, <2>2, QueuedFacts DEF BytesInv, KindInv, TypeOK
  <2>10. EndInv'
    BY <2>1, <2>2 DEF EndInv, HandlerInv, QueueInv, BytesInv, CloseInv, OnClosedAtEnd, KindInv, PullInv, TypeOK
  <2>11. StatusInv'
    BY <2>1, <2>2 DEF StatusInv, HandlerInv, KindInv, TypeOK
  <2> QED
    BY <2>3, <2>4, <2>5, <2>6, <2>7, <2>8, <2>9, <2>10, <2>11
<1>18. ASSUME JsPulled
     PROVE  IInv'
  <2> USE <1>18 DEF IInv
  <2>1. /\ reader \in {"resolved", "rejected"} /\ reader' = "none" /\ resp.kind = "stream"
        /\ UNCHANGED <<handler, ops, sent, w, pipeW, pending, pipeR, closes, resp, primed, got, cancel>>
    BY DEF JsPulled, KindInv, TypeOK, Responses
  <2>2. /\ s' \in Streams /\ s'.state = s.state /\ s'.queue = s.queue /\ Queued' = Queued
        /\ s'.reads = s.reads /\ s'.closing = s.closing
        /\ \/ s'.due = s.due /\ ~s'.pulling
           \/ /\ s'.due /\ s'.pulling /\ s'.state = "readable" /\ ~s'.closing
              /\ s'.queue = <<>>
    BY PulledFacts DEF Queued
  <2>3. TypeOK'
    BY <2>1, <2>2 DEF TypeOK
  <2>4. HandlerInv'
    BY <2>1, <2>2 DEF HandlerInv, KindInv, TypeOK
  <2>5. CloseInv'
    BY <2>1, <2>2 DEF CloseInv, OnClosedAtEnd, KindInv, PullInv, Streams, TypeOK
  <2>6. KindInv'
    BY <2>1, <2>2 DEF KindInv, PullInv, NoResponse, TypeOK
  <2>7. PullInv'
    BY <2>1, <2>2 DEF PullInv, KindInv, CloseInv, TypeOK
  <2>8. QueueInv'
    BY <2>1, <2>2 DEF QueueInv, PullInv, KindInv, HandlerInv, CloseInv, TypeOK
  <2>9. BytesInv'
    BY <2>1, <2>2, QueuedFacts DEF BytesInv, KindInv, TypeOK
  <2>10. EndInv'
    BY <2>1, <2>2 DEF EndInv, HandlerInv, QueueInv, BytesInv, CloseInv, OnClosedAtEnd, KindInv, PullInv, TypeOK
  <2>11. StatusInv'
    BY <2>1, <2>2 DEF StatusInv, HandlerInv, KindInv, TypeOK
  <2> QED
    BY <2>3, <2>4, <2>5, <2>6, <2>7, <2>8, <2>9, <2>10, <2>11
<1>19. ASSUME UNCHANGED vars PROVE IInv'
  BY <1>19 DEF vars, IInv, TypeOK, HandlerInv, CloseInv, OnClosedAtEnd, KindInv, PullInv,
    QueueInv, BytesInv, From, Queued, EndInv, StatusInv
<1> QED
  BY <1>1, <1>2, <1>3, <1>4, <1>5, <1>6, <1>7, <1>8, <1>9, <1>10, <1>11, <1>12, <1>13, <1>14, <1>15, <1>16, <1>17, <1>18, <1>19 DEF Next, HandlerStep, GoStep

\* The program starts in it.
LEMMA InitInv == Init => IInv
<1> SUFFICES ASSUME Init PROVE IInv
  OBVIOUS
<1> USE SizesAssumption, BufSizeAssumption, MaxOpsAssumption, ForeignAssumption, FlagsAssumption
        DEF Init, NoResponse, NewStream
<1>1. TypeOK
  <2>1. <<>> \in Seq(Seq(Nat)) /\ <<>> \in Seq(Nat) /\ 0 \in {0, 1}
    OBVIOUS
  <2>2. s \in Streams
    BY <2>1 DEF Streams
  <2>3. w \in Writers
    BY DEF Writers
  <2>4. resp \in Responses
    BY DEF Responses
  <2>5. ops \in 0..MaxOps /\ closes \in 0..1 /\ sent \in Nat
    OBVIOUS
  <2>6. pending \in Seq(Nat) /\ got \in Seq(Nat)
    BY <2>1
  <2> QED
    BY <2>2, <2>3, <2>4, <2>5, <2>6 DEF TypeOK
<1>2. HandlerInv /\ StatusInv /\ EndInv
  BY DEF HandlerInv, StatusInv, EndInv
<1>3. CloseInv /\ KindInv
  BY DEF CloseInv, OnClosedAtEnd, KindInv
<1>4. PullInv /\ QueueInv
  BY DEF PullInv, QueueInv
<1>5. BytesInv
  BY DEF BytesInv, From, Queued
<1> QED
  BY <1>1, <1>2, <1>3, <1>4, <1>5 DEF IInv

\* The inductive invariant holds throughout: every byte the handler has
\* written is accounted for, in order, and every close has its reason.
THEOREM Invariance == Spec => []IInv
<1>1. IInv /\ UNCHANGED vars => IInv'
  BY NextInv
<1>2. IInv /\ Next => IInv'
  BY NextInv
<1> QED
  BY InitInv, <1>1, <1>2, PTL DEF Spec

\* Every variable keeps its type.
THEOREM TypeCorrect == Spec => []TypeOK
<1>1. IInv => TypeOK
  BY DEF IInv
<1> QED
  BY <1>1, Invariance, PTL

\* However the end of the body, an error, a cancellation and the null-body
\* path interleave, onClosed runs at most once, and never before the end.
THEOREM ClosesOnceAtEnd == Spec => []ClosedOnceAtEnd
<1>1. IInv => ClosedOnceAtEnd
  BY DEF IInv, CloseInv, ClosedOnceAtEnd
<1> QED
  BY <1>1, Invariance, PTL

-----------------------------------------------------------------------------
(* Sequences numbered from 1.                                              *)

\* What JavaScript has got is known by its length, and begins what was sent.
LEMMA FromPrefix ==
  ASSUME NEW q \in Seq(Nat), NEW n \in Nat, From(q, 0), Len(q) <= n
  PROVE  /\ q = [i \in 1..Len(q) |-> i]
         /\ IsPrefix(q, [i \in 1..n |-> i])
         /\ q = [i \in 1..n |-> i] <=> Len(q) = n
<1> DEFINE t == [i \in 1..n |-> i]
<1>1. q = [i \in 1..Len(q) |-> i]
  BY DEF From
<1>2. t \in Seq(Nat) /\ Len(t) = n /\ \A i \in 1..n : t[i] = i
  OBVIOUS
<1>3. Len(q) \in Nat /\ \A i \in 1..Len(q) : q[i] = i
  BY DEF From
<1> HIDE DEF t
<1>4. SubSeq(q, 1, Len(q)) = SubSeq(t, 1, Len(q))
  <2>1. \A i \in 1..Len(q) : q[i] \in Nat /\ t[i] \in Nat
    BY <1>2, <1>3
  <2>2. /\ SubSeq(q, 1, Len(q)) \in Seq(Nat) /\ Len(SubSeq(q, 1, Len(q))) = Len(q)
        /\ \A i \in 1..Len(q) : SubSeq(q, 1, Len(q))[i] = q[i]
    BY <1>3, SubSeqProperties
  <2>3. /\ SubSeq(t, 1, Len(q)) \in Seq(Nat) /\ Len(SubSeq(t, 1, Len(q))) = Len(q)
        /\ \A i \in 1..Len(q) : SubSeq(t, 1, Len(q))[i] = t[i]
    BY <1>2, <1>3, SubSeqProperties
  <2> QED
    BY <1>2, <1>3, <2>2, <2>3
<1>5. q = t <=> Len(q) = n
  BY <1>1, <1>2 DEF t
<1> QED
  BY <1>1, <1>2, <1>4, <1>5 DEF IsPrefix, t

\* A FixedLengthStream that closed has its Content-Length of bytes, in order.
THEOREM FixedBodyIsWhole == Spec => []FixedIsWhole
<1>1. IInv => FixedIsWhole
  BY FromPrefix DEF IInv, TypeOK, BytesInv, EndInv, FixedIsWhole
<1> QED
  BY <1>1, Invariance, PTL

\* An answer to a panic before anything is written has status 500, unless the
\* handler has upgraded to a WebSocket, or has committed with an empty Write.
THEOREM PanicAnswers500 ==
  ASSUME "ws" \notin Foreign, 0 \notin Sizes
  PROVE  Spec => []PanicIs500
<1>1. IInv => PanicIs500
  BY DEF IInv, StatusInv, PanicIs500
<1> QED
  BY <1>1, Invariance, PTL

\* Nothing of the headers changes between the commit and the Response: the
\* goroutine that has committed them is past its last call.
THEOREM CommitIsFinal == Spec => CommitFreezes
<1>1. ASSUME IInv, [Next]_vars PROVE w.ready /\ resp = NoResponse => w' = w
  <2> SUFFICES ASSUME w.ready, resp = NoResponse PROVE w' = w
    OBVIOUS
  <2>1. handler # "run"
    BY <1>1 DEF IInv, HandlerInv
  <2>2. CASE HandlerStep
    BY <2>1, <2>2 DEF HandlerStep, WriteHeader, SetContentLength, WriteRawJSBody, SetWebSocket,
      HandlerSets, Call, Write, WriteFails, Return, Panic
  <2>3. CASE GoStep
    BY <2>3 DEF GoStep, ToJSResponse, PullPrime, PullData, PullEOF, PullError, Cancel, FixedCopy,
      FixedData, FixedEnd, handlerVars
  <2>4. CASE JsRead \/ JsCancel \/ JsPull \/ JsPulled
    BY <2>4 DEF JsRead, JsCancel, JsPull, JsPulled, handlerVars
  <2>5. CASE UNCHANGED vars
    BY <2>5 DEF vars
  <2> QED
    BY <1>1, <2>2, <2>3, <2>4, <2>5 DEF Next
<1> QED
  BY <1>1, Invariance, PTL DEF Spec, CommitFreezes

-----------------------------------------------------------------------------
(* A response implements ByteStream.                                       *)

\* What Body substitutes for the variables of ByteStream.
Written == [i \in 1..sent |-> i]
Delivered == IF resp.kind = "stream" THEN got ELSE <<>>
Writer == CASE handler = "returned" -> "finished"
            [] handler = "panicked" -> "failed"
            [] OTHER                -> "writing"
Outcome == IF cancel # "no" \/ resp.kind \notin {"none", "stream"} THEN "cancelled"
           ELSE CASE s.state = "closed"  -> "complete"
                  [] s.state = "errored" -> "failed"
                  [] OTHER               -> "open"

\* The steps of ByteStream in these terms.
LEMMA BodySteps ==
  /\ Body!Init <=> Written = <<>> /\ Delivered = <<>> /\ Writer = "writing" /\ Outcome = "open"
  /\ Body!Write <=> /\ Writer = "writing" /\ Outcome \in {"open", "cancelled"}
                    /\ Len(Written') > Len(Written) /\ IsPrefix(Written, Written')
                    /\ UNCHANGED <<Delivered, Writer, Outcome>>
  /\ Body!Finish <=> /\ Writer = "writing" /\ Writer' \in {"finished", "failed"}
                     /\ UNCHANGED <<Written, Delivered, Outcome>>
  /\ Body!Deliver <=> /\ Outcome = "open"
                      /\ IsStrictPrefix(Delivered, Delivered') /\ IsPrefix(Delivered', Written)
                      /\ Outcome' \in {"open"} \cup
                           (IF Writer = "finished" /\ Delivered' = Written
                            THEN {"complete"} ELSE {})
                      /\ UNCHANGED <<Written, Writer>>
  /\ Body!Complete <=> /\ Outcome = "open" /\ Writer = "finished" /\ Delivered = Written
                       /\ Outcome' = "complete"
                       /\ UNCHANGED <<Written, Delivered, Writer>>
  /\ Body!Fail <=> /\ Outcome = "open" /\ Writer = "failed" /\ Outcome' = "failed"
                   /\ UNCHANGED <<Written, Delivered, Writer>>
  /\ Body!Cancel <=> /\ Outcome = "open" /\ Outcome' = "cancelled"
                     /\ UNCHANGED <<Written, Delivered, Writer>>
<1>1. Body!Init <=> Written = <<>> /\ Delivered = <<>> /\ Writer = "writing" /\ Outcome = "open"
  BY DEF Body!Init, Written, Delivered, Writer, Outcome
<1>2. Body!Write <=> /\ Writer = "writing" /\ Outcome \in {"open", "cancelled"}
                     /\ Len(Written') > Len(Written) /\ IsPrefix(Written, Written')
                     /\ UNCHANGED <<Delivered, Writer, Outcome>>
  BY DEF Body!Write, Body!IsPrefix, IsPrefix, Written, Delivered, Writer, Outcome
<1>3. Body!Finish <=> /\ Writer = "writing" /\ Writer' \in {"finished", "failed"}
                      /\ UNCHANGED <<Written, Delivered, Outcome>>
  BY DEF Body!Finish, Written, Delivered, Writer, Outcome
<1>4. Body!Deliver <=> /\ Outcome = "open"
                       /\ IsStrictPrefix(Delivered, Delivered') /\ IsPrefix(Delivered', Written)
                       /\ Outcome' \in {"open"} \cup
                            (IF Writer = "finished" /\ Delivered' = Written
                             THEN {"complete"} ELSE {})
                       /\ UNCHANGED <<Written, Writer>>
  BY DEF Body!Deliver, Body!IsStrictPrefix, IsStrictPrefix, Body!IsPrefix, IsPrefix, Written,
    Delivered, Writer, Outcome
<1>5. Body!Complete <=> /\ Outcome = "open" /\ Writer = "finished" /\ Delivered = Written
                        /\ Outcome' = "complete"
                        /\ UNCHANGED <<Written, Delivered, Writer>>
  BY DEF Body!Complete, Written, Delivered, Writer, Outcome
<1>6. Body!Fail <=> /\ Outcome = "open" /\ Writer = "failed" /\ Outcome' = "failed"
                    /\ UNCHANGED <<Written, Delivered, Writer>>
  BY DEF Body!Fail, Written, Delivered, Writer, Outcome
<1>7. Body!Cancel <=> /\ Outcome = "open" /\ Outcome' = "cancelled"
                      /\ UNCHANGED <<Written, Delivered, Writer>>
  BY DEF Body!Cancel, Written, Delivered, Writer, Outcome
<1> QED
  BY <1>1, <1>2, <1>3, <1>4, <1>5, <1>6, <1>7

\* A step that leaves alone what JavaScript has got of a body, how far the
\* handler is and how the stream has ended is no step of ByteStream.
LEMMA Stutters ==
  ASSUME UNCHANGED <<Written, Delivered, Writer, Outcome>>
  PROVE  [Body!Next]_(Body!vars)
BY DEF Body!vars, Written, Delivered, Writer, Outcome

\* JavaScript gets more of the body, or its end, or neither.
LEMMA Delivers ==
  ASSUME IInv, IInv', resp.kind = "stream", UNCHANGED <<sent, resp, cancel, Writer>>,
         Outcome = "open", Len(got) <= Len(got'),
         Outcome' = "open" \/ (Outcome' = "complete" /\ Writer = "finished" /\ Len(got') = sent)
  PROVE  [Body!Next]_(Body!vars)
<1>1. /\ Delivered = got /\ Delivered' = got' /\ Written' = Written
      /\ got \in Seq(Nat) /\ got' \in Seq(Nat) /\ From(got, 0) /\ From(got', 0)
      /\ sent \in Nat /\ Len(got') <= sent /\ Len(got) <= sent
  BY DEF Delivered, Written, IInv, TypeOK, BytesInv
<1>2. /\ got = [i \in 1..Len(got) |-> i] /\ got' = [i \in 1..Len(got') |-> i]
      /\ IsPrefix(got', Written) /\ (got' = Written <=> Len(got') = sent)
      /\ got = Written <=> Len(got) = sent
  BY <1>1, FromPrefix DEF Written
<1>3. CASE Len(got') = Len(got)
  <2>1. got' = got
    BY <1>2, <1>3
  <2>2. CASE Outcome' = "open"
    BY <1>1, <2>1, <2>2, Stutters
  <2>3. CASE Outcome' = "complete"
    <3>1. Body!Complete
      BY <1>1, <1>2, <2>1, <2>3, BodySteps
    <3> QED
      BY <3>1 DEF Body!Next
  <2> QED
    BY <2>2, <2>3
<1>4. CASE Len(got') # Len(got)
  <2>1. Len(got) <= Len(got') /\ got # got' /\ Len(got') \in Nat
    BY <1>1, <1>4
  <2>2. IsStrictPrefix(got, got')
    <3>1. IsPrefix(got, [i \in 1..Len(got') |-> i])
      BY <1>1, <2>1, FromPrefix
    <3>2. [i \in 1..Len(got') |-> i] = got'
      BY <1>2
    <3>3. IsPrefix(got, got')
      BY <3>1, <3>2
    <3> QED
      BY <2>1, <3>3 DEF IsStrictPrefix
  <2>3. Body!Deliver
    BY <1>1, <1>2, <2>2, BodySteps
  <2> QED
    BY <2>3 DEF Body!Next
<1> QED
  BY <1>3, <1>4

\* Nothing of a stream can have ended while its handler runs.
LEMMA RunningIsOpen ==
  ASSUME IInv, handler \in {"run", "write"}
  PROVE  Writer = "writing" /\ Outcome \in {"open", "cancelled"}
BY DEF IInv, EndInv, KindInv, Writer, Outcome

\* A stream that can be read is open.
LEMMA ReadableIsOpen ==
  ASSUME IInv, resp.kind = "stream", s.state = "readable"
  PROVE  Outcome = "open" /\ cancel = "no"
BY DEF IInv, CloseInv, Outcome

\* Each step of a response is a step of ByteStream, or none.
LEMMA NextRefines ==
  ASSUME IInv, IInv', [Next]_vars
  PROVE  [Body!Next]_(Body!vars)
<1> USE DEF handlerVars, jsVars
<1>1. CASE WriteHeader \/ SetContentLength \/ WriteRawJSBody \/ SetWebSocket
  <2>1. UNCHANGED <<handler, sent, resp, s, got, cancel>>
    BY <1>1, SetsFacts DEF IInv
  <2> QED
    BY <2>1, Stutters DEF Written, Delivered, Writer, Outcome
<1>2. CASE Write
  <2>1. /\ handler = "run" /\ handler' = "write"
        /\ UNCHANGED <<resp, s, got, cancel>>
    BY <1>2 DEF Write, Call
  <2>2. PICK n \in Nat : sent' = sent + n
    BY <1>2, SizesAssumption DEF Write
  <2>3. UNCHANGED <<Delivered, Writer, Outcome>>
    BY <2>1 DEF Delivered, Writer, Outcome
  <2>4. CASE n = 0
    <3>1. Written' = Written
      BY <2>2, <2>4 DEF IInv, TypeOK, Written
    <3> QED
      BY <2>3, <3>1, Stutters
  <2>5. CASE n # 0
    <3>1. /\ sent \in Nat /\ sent' \in Nat /\ sent <= sent' /\ sent < sent'
          /\ Written \in Seq(Nat) /\ Len(Written) = sent /\ Len(Written') = sent'
          /\ From(Written, 0)
      BY <2>2, <2>5 DEF IInv, TypeOK, Written, From
    <3>2. IsPrefix(Written, Written')
      <4>1. IsPrefix(Written, [i \in 1..sent' |-> i])
        BY <3>1, FromPrefix
      <4> QED
        BY <4>1 DEF Written
    <3>3. Body!Write
      BY <2>1, <2>3, <3>1, <3>2, RunningIsOpen, BodySteps
    <3> QED
      BY <3>3 DEF Body!Next
  <2> QED
    BY <2>4, <2>5
<1>3. CASE WriteFails
  <2>1. handler = "write" /\ handler' = "run" /\ UNCHANGED <<sent, resp, s, got, cancel>>
    BY <1>3 DEF WriteFails
  <2> QED
    BY <2>1, Stutters DEF Written, Delivered, Writer, Outcome
<1>4. CASE Return \/ Panic
  <2>1. handler = "run" /\ handler' \in {"returned", "panicked"}
        /\ UNCHANGED <<sent, resp, s, got, cancel>>
    BY <1>4 DEF Return, Panic
  <2>2. Writer = "writing" /\ Writer' \in {"finished", "failed"}
        /\ UNCHANGED <<Written, Delivered, Outcome>>
    BY <2>1 DEF Written, Delivered, Writer, Outcome
  <2>3. Body!Finish
    BY <2>2, BodySteps
  <2> QED
    BY <2>3 DEF Body!Next
<1>5. CASE ToJSResponse
  <2>1. /\ resp = NoResponse /\ resp'.kind = Kind /\ UNCHANGED <<handler, sent, got, cancel>>
        /\ Kind = "stream" => s'.state = "readable"
    BY <1>5 DEF ToJSResponse, NewStream
  <2>2. resp.kind = "none" /\ s.state = "none" /\ cancel = "no" /\ got = <<>>
    BY <2>1 DEF IInv, KindInv, CloseInv
  <2>3. UNCHANGED <<Written, Writer>> /\ Outcome = "open" /\ Delivered = <<>>
    BY <2>1, <2>2 DEF Written, Writer, Outcome, Delivered
  <2>4. CASE Kind = "stream"
    <3>1. Delivered' = <<>> /\ Outcome' = "open"
      BY <2>1, <2>2, <2>4 DEF Outcome, Delivered
    <3> QED
      BY <2>3, <3>1, Stutters
  <2>5. CASE Kind # "stream"
    <3>1. Kind # "none"
      BY DEF Kind
    <3>2. Delivered' = <<>> /\ Outcome' = "cancelled"
      BY <2>1, <2>5, <3>1 DEF Outcome, Delivered
    <3>3. Body!Cancel
      BY <2>3, <3>2, BodySteps
    <3> QED
      BY <3>3 DEF Body!Next
  <2> QED
    BY <2>4, <2>5
<1>6. CASE PullPrime
  <2>1. reader = "pull" /\ UNCHANGED <<handler, sent, resp, cancel>> /\ Deliver(<<>>)
    BY <1>6 DEF PullPrime
  <2>2. <<>> \in Seq(Nat) /\ got \in Seq(Nat) /\ got \o <<>> = got
    BY ConcatEmptySeq DEF IInv, TypeOK
  <2>3. s'.state = s.state /\ got' = got
    BY <2>1, <2>2, DeliverFacts
  <2> QED
    BY <2>1, <2>3, Stutters DEF Written, Delivered, Writer, Outcome
<1>7. CASE PullData
  <2>1. /\ reader = "read" /\ handler = "write" /\ handler' \in {"run", "write"}
        /\ UNCHANGED <<sent, resp, cancel>>
    BY <1>7 DEF PullData, Take
  <2>2. resp.kind = "stream" /\ UNCHANGED Writer
    BY <2>1 DEF Writer, IInv, KindInv, TypeOK, Responses
  <2>3. s'.state = s.state /\ Len(got) <= Len(got') /\ (s.state # "readable" => got' = got)
    <3> DEFINE n == Smaller(BufSize, Len(pending))
               chunk == SubSeq(pending, 1, n)
    <3>1. n \in 0 .. Len(pending) /\ pending \in Seq(Nat) /\ got \in Seq(Nat)
      BY BufSizeAssumption DEF IInv, TypeOK, Smaller
    <3>2. (n = 0 /\ UNCHANGED <<s, got>>) \/ Deliver(chunk)
      BY <1>7 DEF PullData
    <3>3. chunk \in Seq(Nat)
      BY <3>1, SubSeqProperties
    <3> HIDE DEF chunk
    <3>4. Len(got \o chunk) = Len(got) + Len(chunk) /\ Len(chunk) \in Nat /\ Len(got) \in Nat
      BY <3>1, <3>3, ConcatProperties
    <3>5. CASE UNCHANGED <<s, got>>
      BY <3>4, <3>5
    <3>6. CASE Deliver(chunk)
      BY <2>1, <3>3, <3>4, <3>6, DeliverFacts
    <3> QED
      BY <3>2, <3>5, <3>6
  <2>4. CASE s.state = "readable"
    <3>1. Outcome = "open" /\ Outcome' = "open"
      BY <2>1, <2>2, <2>3, <2>4, ReadableIsOpen DEF Outcome
    <3> QED
      BY <2>1, <2>2, <2>3, <3>1, Delivers
  <2>5. CASE s.state # "readable"
    BY <2>1, <2>2, <2>3, <2>5, Stutters DEF Written, Delivered, Outcome
  <2> QED
    BY <2>4, <2>5
<1>8. CASE PullEOF
  <2>1. /\ reader = "read" /\ resp.kind = "stream" /\ (pipeW = "eof" \/ pipeR = "closed")
        /\ UNCHANGED <<handler, sent, resp, got, cancel>>
    BY <1>8 DEF PullEOF, IInv, KindInv, TypeOK, Responses
  <2>2. UNCHANGED <<Written, Delivered, Writer>>
    BY <2>1 DEF Written, Delivered, Writer
  <2>3. CASE s' = s
    BY <2>1, <2>2, <2>3, Stutters DEF Outcome
  <2>4. CASE s.state = "readable" /\ s'.state = "closed"
    <3>1. Outcome = "open" /\ cancel = "no" /\ cancel' = "no" /\ Outcome' = "complete"
      BY <2>1, <2>4, ReadableIsOpen DEF Outcome
    <3>2. handler' = "returned" /\ Len(got') = sent'
      BY <2>1, <2>4, <3>1 DEF IInv, EndInv
    <3>3. Writer = "finished"
      BY <2>1, <3>2 DEF Writer
    <3>4. Len(got) <= Len(got')
      BY <2>1 DEF IInv, TypeOK
    <3> QED
      BY <2>1, <2>2, <3>1, <3>2, <3>3, <3>4, Delivers
  <2> QED
    BY <1>8, <2>3, <2>4, EOFFacts
<1>9. CASE PullError
  <2>1. /\ reader = "read" /\ resp.kind = "stream" /\ handler = "panicked"
        /\ s' = ErrorStream(s) /\ UNCHANGED <<handler, sent, resp, got, cancel>>
    BY <1>9 DEF PullError, IInv, KindInv, HandlerInv, TypeOK, Responses
  <2>2. UNCHANGED <<Written, Delivered, Writer>> /\ Writer = "failed"
    BY <2>1 DEF Written, Delivered, Writer
  <2>3. CASE s.state # "readable"
    <3>1. s' = s
      BY <2>1, <2>3 DEF ErrorStream
    <3> QED
      BY <2>1, <2>2, <3>1, Stutters DEF Outcome
  <2>4. CASE s.state = "readable"
    <3>1. s \in Streams
      BY DEF IInv, TypeOK
    <3>2. s'.state = "errored"
      BY <2>1, <2>4, <3>1, ErrorFacts
    <3>3. Outcome = "open" /\ Outcome' = "failed"
      BY <2>1, <2>4, <3>2, ReadableIsOpen DEF Outcome
    <3>4. Body!Fail
      BY <2>2, <3>3, BodySteps
    <3> QED
      BY <3>4 DEF Body!Next
  <2> QED
    BY <2>3, <2>4
<1>10. CASE Cancel
  <2>1. cancel = "due" /\ cancel' = "done" /\ UNCHANGED <<handler, sent, resp, s, got>>
    BY <1>10 DEF Cancel
  <2> QED
    BY <2>1, Stutters DEF Written, Delivered, Writer, Outcome
<1>11. CASE FixedCopy \/ FixedData \/ FixedEnd
  <2>1. /\ resp.kind = "fixed" /\ UNCHANGED <<sent, resp, cancel>>
        /\ handler' = handler \/ (handler = "write" /\ handler' \in {"run", "write"})
    BY <1>11 DEF FixedCopy, FixedReady, FixedData, FixedEnd, Take, IInv, KindInv, TypeOK, Responses
  <2> QED
    BY <2>1, Stutters DEF Written, Delivered, Writer, Outcome
<1>12. CASE JsRead
  <2>1. resp.kind = "stream" /\ UNCHANGED <<handler, sent, resp, cancel>>
    BY <1>12 DEF JsRead
  <2>2. /\ s.state = "readable"
        /\ got' = got \/ got' = got \o Queued
        /\ \/ s.closing /\ s'.state = "closed"
           \/ s'.state = "readable"
    BY <1>12, ReadFacts
  <2>3. Outcome = "open" /\ cancel = "no" /\ cancel' = "no" /\ UNCHANGED Writer
    BY <2>1, <2>2, ReadableIsOpen DEF Writer
  <2>4. Len(got) <= Len(got')
    <3>1. got \in Seq(Nat) /\ Queued \in Seq(Nat)
      BY QueuedFacts DEF IInv, TypeOK
    <3>2. Len(got \o Queued) = Len(got) + Len(Queued) /\ Len(Queued) \in Nat /\ Len(got) \in Nat
      BY <3>1, ConcatProperties
    <3> QED
      BY <2>2, <3>2
  <2>5. CASE s'.state = "readable"
    <3>1. Outcome' = "open"
      BY <2>1, <2>3, <2>5 DEF Outcome
    <3> QED
      BY <2>1, <2>3, <2>4, <3>1, Delivers
  <2>6. CASE s'.state = "closed"
    <3>1. handler' = "returned" /\ Len(got') = sent' /\ Outcome' = "complete"
      BY <2>1, <2>3, <2>6 DEF IInv, EndInv, Outcome
    <3>2. Writer = "finished"
      BY <2>1, <3>1 DEF Writer
    <3> QED
      BY <2>1, <2>3, <2>4, <3>1, <3>2, Delivers
  <2> QED
    BY <2>2, <2>5, <2>6
<1>13. CASE JsCancel
  <2>1. /\ s.state = "readable" /\ cancel = "no" /\ cancel' # "no"
        /\ UNCHANGED <<handler, sent, resp, got>>
    BY <1>13 DEF JsCancel
  <2>2. UNCHANGED <<Written, Delivered, Writer>> /\ Outcome' = "cancelled"
    BY <2>1 DEF Written, Delivered, Writer, Outcome
  <2>3. resp.kind \in {"stream", "fixed"}
    BY <2>1 DEF IInv, KindInv
  <2>4. CASE resp.kind = "stream"
    <3>1. Body!Cancel
      BY <2>1, <2>2, <2>4, ReadableIsOpen, BodySteps
    <3> QED
      BY <3>1 DEF Body!Next
  <2>5. CASE resp.kind = "fixed"
    BY <2>2, <2>5, Stutters DEF Outcome
  <2> QED
    BY <2>3, <2>4, <2>5
<1>14. CASE JsPull
  <2>1. s'.state = s.state /\ UNCHANGED <<handler, sent, resp, got, cancel>>
    BY <1>14 DEF JsPull, IInv, TypeOK, Streams
  <2> QED
    BY <2>1, Stutters DEF Written, Delivered, Writer, Outcome
<1>15. CASE JsPulled
  <2>1. s'.state = s.state /\ UNCHANGED <<handler, sent, resp, got, cancel>>
    BY <1>15, PulledFacts DEF JsPulled
  <2> QED
    BY <2>1, Stutters DEF Written, Delivered, Writer, Outcome
<1>16. CASE UNCHANGED vars
  BY <1>16, Stutters DEF vars, Written, Delivered, Writer, Outcome
<1> QED
  BY <1>1, <1>2, <1>3, <1>4, <1>5, <1>6, <1>7, <1>8, <1>9, <1>10, <1>11, <1>12, <1>13, <1>14,
    <1>15, <1>16 DEF Next, HandlerStep, GoStep

\* A streamed body implements ByteStream: its bytes arrive in order, and it is
\* complete only after the handler has returned and everything has been read,
\* however Write, Pull, Cancel, the reads and the handler's end interleave.
THEOREM StreamImplementsByteStream == Spec => ImplementsByteStream
<1>1. Init => Body!Init
  <2> SUFFICES ASSUME Init PROVE Body!Init
    OBVIOUS
  <2>1. Written = <<>> /\ Delivered = <<>> /\ Writer = "writing" /\ Outcome = "open"
    BY DEF Init, NoResponse, NewStream, Written, Delivered, Writer, Outcome
  <2> QED
    BY <2>1, BodySteps
<1>2. IInv /\ IInv' /\ [Next]_vars => [Body!Next]_(Body!vars)
  BY NextRefines
<1> QED
  BY <1>1, <1>2, Invariance, PTL DEF Spec, ImplementsByteStream, Body!Spec
=============================================================================
