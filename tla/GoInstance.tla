----------------------------- MODULE GoInstance -----------------------------
(***************************************************************************)
(* The life of one Go program compiled to WebAssembly that serves one      *)
(* `fetch` trigger: worker.mjs boots it, calls binding.handleRequest, the  *)
(* Go side answers with a Response whose body JavaScript then reads, and   *)
(* the program exits once the body is closed and every background task     *)
(* (cloudflare.WaitUntil) has returned.                                    *)
(*                                                                         *)
(* JavaScript and Go share one thread.  JavaScript enters Go by an event   *)
(* (a js.Func call or a resumed timer); control goes back only when no     *)
(* goroutine can run.  A goroutine that calls `new Promise(executor)`      *)
(* re-enters Go from inside its own call: it stays suspended, with its     *)
(* frame on the JavaScript stack, until that nested event is over.         *)
(***************************************************************************)
EXTENDS Naturals, Sequences

CONSTANTS Tasks,        \* the background tasks the program may register
          Kinds,        \* the kinds of Response the handler may produce
          Detach,       \* ways the body is closed under a running handler
          ServesHTTP,   \* does main call Serve, or only Ready
          HandlerJoins, \* may the handler wait for its background tasks
          MaxSteps      \* bound: user-code waits and writes per goroutine

ASSUME TasksAssumption ==
  Tasks \cap {"main", "waiter", "req", "handler", "pull", "cancel", "fixed",
              "cb", "handleRequest", "done"} = {}
ASSUME KindsAssumption == Kinds \subseteq {"stream", "fixed", "null", "raw", "ws"}
ASSUME DetachAssumption == Detach \subseteq {"cancel", "nullWrite"}
\* A handler that outlives its body and then waits for its tasks could add one
\* between the last Done and the waiter's wake-up, a reuse of the WaitGroup
\* that only the run order of the Go scheduler excludes; it is left out.
ASSUME FlagsAssumption == /\ ServesHTTP \in BOOLEAN /\ HandlerJoins \in BOOLEAN
                          /\ HandlerJoins => Detach = {}
ASSUME MaxStepsAssumption == MaxSteps \in Nat

\* main: the program's main goroutine; waiter: the goroutine of init();
\* req: the handleRequest goroutine; handler: ServeHTTP's; pull, cancel: the
\* body stream's callbacks; fixed: ConvertReaderToFixedLengthStream's.
User == {"main", "handler"} \cup Tasks
Goroutines == User \cup {"waiter", "req", "pull", "cancel", "fixed"}

VARIABLES
  pc,           \* what each goroutine is doing
  frames,       \* callers suspended in JavaScript that re-entered Go
  inGo,         \* is Go running (JavaScript waits for it to be idle)
  events,       \* JavaScript callbacks into Go that are due
  httpHandler,  \* has ServeNonBlock set the handler
  promise,      \* the promise handleRequest returned
  committed,    \* is ResponseWriter.ReadyCh closed
  kind,         \* the kind of Response, once the handler has decided it
  writerClosed, \* is the write end of the body's pipe closed
  bodyClosed,   \* has bodyCloser.Close run (its once.Do has fired)
  primed,       \* readerToReadableStream.initialized
  bodyRead,     \* has JavaScript read the Response's body to its end
  doneCh,       \* is doneCh closed
  allDoneCh,    \* is allDoneCh closed
  wg,           \* tasks the backgroundTasks WaitGroup counts
  steps,        \* user-code steps left to each goroutine
  exited,       \* has wasmExit run
  exitFrames,   \* the frames that were suspended when it ran
  late          \* callbacks that threw "Go program has already exited"

vars == <<pc, frames, inGo, events, httpHandler, promise, committed, kind,
          writerClosed, bodyClosed, primed, bodyRead, doneCh, allDoneCh, wg,
          steps, exited, exitFrames, late>>

bodyVars == <<committed, kind, writerClosed, bodyClosed, primed, bodyRead>>
lifeVars == <<doneCh, allDoneCh, wg, exited, exitFrames, late>>

Init ==
  /\ pc = [g \in Goroutines |-> CASE g = "main"   -> "start"
                                  [] g = "waiter" -> "recvDone"
                                  [] OTHER        -> "none"]
  /\ frames = <<>> /\ inGo = TRUE /\ events = {}
  /\ httpHandler = FALSE /\ promise = "none"
  /\ committed = FALSE /\ kind = "undecided"
  /\ writerClosed = FALSE /\ bodyClosed = FALSE /\ primed = FALSE
  /\ bodyRead = FALSE
  /\ doneCh = FALSE /\ allDoneCh = FALSE /\ wg = {}
  /\ steps = [g \in User |-> MaxSteps]
  /\ exited = FALSE /\ exitFrames = <<>> /\ late = {}

-----------------------------------------------------------------------------
(* The Go scheduler: who can run, and when control returns to JavaScript.  *)

PipeReadable == pc["handler"] = "write" \/ writerClosed \/ bodyClosed

CanRun(g) ==
  \/ pc[g] \in {"start", "run", "released", "close"}
  \/ pc[g] = "recvDone"    /\ doneCh
  \/ pc[g] = "recvAllDone" /\ allDoneCh
  \/ pc[g] = "recvReady"   /\ committed
  \/ pc[g] = "read"        /\ PipeReadable
  \/ pc[g] = "write"       /\ bodyClosed
  \/ pc[g] = "join"        /\ wg = {}

Idle == \A g \in Goroutines : ~CanRun(g)

\* Go is running, and g, at label l, takes its next segment.
At(g, l) == ~exited /\ inGo /\ pc[g] = l

Goto(g, l) == pc' = [pc EXCEPT ![g] = l]

\* The event is over: the innermost suspended caller resumes, or, when there
\* is none, JavaScript's own turn goes on.
Return ==
  /\ ~exited /\ inGo /\ Idle
  /\ IF frames = <<>>
     THEN inGo' = FALSE /\ UNCHANGED <<pc, frames>>
     ELSE LET g == frames[Len(frames)] IN
          /\ frames' = SubSeq(frames, 1, Len(frames) - 1)
          /\ pc' = IF g = "cb" THEN pc ELSE [pc EXCEPT ![g] = "run"]
          /\ UNCHANGED inGo
  /\ UNCHANGED <<events, httpHandler, promise, bodyVars, lifeVars, steps>>

\* Faulty variant of Deliver: the timer's work is done at once, not in a turn
\* of its own.
DeliverInline(e) ==
  ~exited /\ (e = "done" \/ ~inGo) /\ e \in events /\ inGo' = TRUE

\* JavaScript, with an empty stack, delivers the due callback e.
Deliver(e) == ~exited /\ ~inGo /\ e \in events /\ inGo' = TRUE

\* A js.Func whose body is `new Promise(executor)`, the executor starting
\* goroutine g: the wrapper's frame is suspended while the executor runs.
DeliverPromise(e, g) ==
  /\ Deliver(e)
  /\ frames' = <<"cb">>
  /\ Goto(g, "start")
  /\ events' = events \ {e}

\* A promise or timer that goroutine g awaits settles.
JsWake(g) ==
  /\ Deliver(g)
  /\ events' = events \ {g}
  /\ Goto(g, IF pc[g] = "awaitClose" THEN "close" ELSE "run")
  /\ UNCHANGED <<frames, httpHandler, promise, bodyVars, lifeVars, steps>>

\* scheduleAfterTurn: setTimeout(cb, 0), whose cb closes doneCh.
ScheduleAfterTurn(evs) == evs \cup {"done"}

JsDone ==
  /\ Deliver("done")
  /\ events' = events \ {"done"}
  /\ doneCh' = TRUE
  /\ UNCHANGED <<pc, frames, httpHandler, promise, bodyVars, allDoneCh, wg,
                 steps, exited, exitFrames, late>>

-----------------------------------------------------------------------------
(* User code: wait for a promise, or register a background task.           *)

UserAwait(g) ==
  /\ At(g, IF g = "main" THEN "start" ELSE "run") /\ steps[g] > 0
  /\ steps' = [steps EXCEPT ![g] = @ - 1]
  /\ events' = events \cup {g}
  /\ Goto(g, "await")
  /\ UNCHANGED <<frames, inGo, httpHandler, promise, bodyVars, lifeVars>>

\* Faulty variant: the task is not counted.
WaitUntilUntracked(g, t) ==
  /\ At(g, "run") /\ g # "main" /\ pc[t] = "none"
  /\ pc' = [pc EXCEPT ![g] = "inJS", ![t] = "run"]
  /\ frames' = Append(frames, g)
  /\ UNCHANGED <<inGo, events, httpHandler, promise, bodyVars, lifeVars, steps>>

\* cloudflare.WaitUntil(t): TrackBackgroundTask runs inside new Promise.
WaitUntil(g, t) ==
  /\ At(g, "run") /\ g # "main" /\ pc[t] = "none"
  /\ pc' = [pc EXCEPT ![g] = "inJS", ![t] = "run"]
  /\ frames' = Append(frames, g)
  /\ wg' = wg \cup {t}
  /\ UNCHANGED <<inGo, events, httpHandler, promise, bodyVars, doneCh,
                 allDoneCh, steps, exited, exitFrames, late>>

\* Faulty variant of TaskReturn: backgroundTasks.Done is left out.
TaskReturnNoDone(t) ==
  /\ At(t, "run")
  /\ Goto(t, "done")
  /\ UNCHANGED <<frames, inGo, events, httpHandler, promise, bodyVars,
                 lifeVars, steps>>

\* The task returns; its deferred Done wakes a waiter when it is the last.
TaskReturn(t) ==
  /\ At(t, "run")
  /\ wg' = wg \ {t}
  /\ LET wakes == wg' = {} /\ pc["waiter"] = "wait" IN
     pc' = [pc EXCEPT ![t] = "done",
                      !["waiter"] = IF wakes THEN "released" ELSE @]
  /\ UNCHANGED <<frames, inGo, events, httpHandler, promise, bodyVars, doneCh,
                 allDoneCh, steps, exited, exitFrames, late>>

-----------------------------------------------------------------------------
(* main and the goroutine of init().                                       *)

\* Serve: ServeNonBlock, then Ready, upon which worker.mjs calls the binding.
MainServe ==
  /\ pc["main"] \in {"start", "run"} /\ At("main", pc["main"])
  /\ httpHandler' = ServesHTTP
  /\ events' = events \cup {"handleRequest"}
  /\ Goto("main", "recvAllDone")
  /\ UNCHANGED <<frames, inGo, promise, bodyVars, lifeVars, steps>>

\* <-Done() returns, main returns and the runtime calls wasmExit.
Exit ==
  /\ exited' = TRUE
  /\ exitFrames' = frames
  /\ UNCHANGED <<frames, inGo, events, httpHandler, promise, bodyVars, doneCh,
                 wg, steps, late>>

MainExit == /\ At("main", "recvAllDone") /\ allDoneCh
            /\ Goto("main", "done") /\ UNCHANGED allDoneCh /\ Exit

\* Faulty variant of WaiterRecv: WaitBackgroundTasks is left out.
WaiterRecvNoWait ==
  /\ At("waiter", "recvDone") /\ doneCh
  /\ Goto("waiter", "done")
  /\ allDoneCh' = TRUE
  /\ UNCHANGED <<frames, inGo, events, httpHandler, promise, bodyVars, doneCh,
                 wg, steps, exited, exitFrames, late>>

WaiterRecv ==
  /\ At("waiter", "recvDone") /\ doneCh
  /\ Goto("waiter", IF wg = {} THEN "done" ELSE "wait")
  /\ allDoneCh' = (wg = {})
  /\ UNCHANGED <<frames, inGo, events, httpHandler, promise, bodyVars, doneCh,
                 wg, steps, exited, exitFrames, late>>

WaiterReleased ==
  /\ At("waiter", "released") /\ wg = {}
  /\ Goto("waiter", "done")
  /\ allDoneCh' = TRUE
  /\ UNCHANGED <<frames, inGo, events, httpHandler, promise, bodyVars, doneCh,
                 wg, steps, exited, exitFrames, late>>

-----------------------------------------------------------------------------
(* The request: handleRequest and ServeRequest's handler goroutine.        *)

JsHandleRequest ==
  /\ DeliverPromise("handleRequest", "req")
  /\ promise' = "pending"
  /\ UNCHANGED <<httpHandler, bodyVars, lifeVars, steps>>

\* No handler was set, or ToRequest failed.
ReqReject ==
  /\ At("req", "start")
  /\ promise' = "rejected"
  /\ Goto("req", "done")
  /\ UNCHANGED <<frames, inGo, events, httpHandler, bodyVars, lifeVars, steps>>

ReqServe ==
  /\ At("req", "start") /\ httpHandler
  /\ pc' = [pc EXCEPT !["req"] = "recvReady", !["handler"] = "run"]
  /\ UNCHANGED <<frames, inGo, events, httpHandler, promise, bodyVars,
                 lifeVars, steps>>

\* bodyCloser.Close: onClosed runs once, and schedules the end of the turn.
CloseBody(evs) ==
  /\ bodyClosed' = TRUE
  /\ events' = IF bodyClosed THEN evs ELSE ScheduleAfterTurn(evs)

\* ToJSResponse and resolve: a null-body status closes the body at once, a
\* stream makes JavaScript pull, a Content-Length starts the copy goroutine.
ReqRespond ==
  /\ At("req", "recvReady") /\ committed
  /\ promise' = "resolved"
  /\ pc' = [pc EXCEPT !["req"] = "done",
                      !["fixed"] = IF kind = "fixed" THEN "start" ELSE "none"]
  /\ CASE kind = "null"   -> CloseBody(events)
       [] kind = "stream" -> events' = events \cup {"pull", "cancel"}
                             /\ UNCHANGED bodyClosed
       [] OTHER           -> UNCHANGED <<events, bodyClosed>>
  /\ bodyRead' = (kind = "null")
  /\ UNCHANGED <<frames, inGo, httpHandler, committed, kind, writerClosed,
                 primed, lifeVars, steps>>

\* The kinds a handler can have decided on when it writes body bytes.
WriteKinds == Kinds \cap ({"stream", "fixed"} \cup
                          (IF "nullWrite" \in Detach THEN {"null"} ELSE {}))

Commit(ks) == /\ committed' = TRUE
              /\ IF committed THEN UNCHANGED kind ELSE kind' \in ks

\* ResponseWriter.Write: commits the headers, then waits for a reader.
HandlerWrite ==
  /\ At("handler", "run") /\ steps["handler"] > 0
  /\ Commit(WriteKinds)
  /\ steps' = [steps EXCEPT !["handler"] = @ - 1]
  /\ Goto("handler", "write")
  /\ UNCHANGED <<frames, inGo, events, httpHandler, promise, writerClosed,
                 bodyClosed, primed, bodyRead, lifeVars>>

\* The pending Write, or one after the close, fails with ErrClosedPipe.
HandlerWriteFails ==
  /\ At("handler", "write") /\ bodyClosed
  /\ Goto("handler", "run")
  /\ UNCHANGED <<frames, inGo, events, httpHandler, promise, bodyVars,
                 lifeVars, steps>>

\* The handler waits until the tasks it has registered have returned.
HandlerJoin ==
  /\ HandlerJoins /\ At("handler", "run") /\ wg # {}
  /\ Goto("handler", "join")
  /\ UNCHANGED <<frames, inGo, events, httpHandler, promise, bodyVars,
                 lifeVars, steps>>

HandlerJoined ==
  /\ At("handler", "join") /\ wg = {}
  /\ Goto("handler", "run")
  /\ UNCHANGED <<frames, inGo, events, httpHandler, promise, bodyVars,
                 lifeVars, steps>>

\* Faulty variant of HandlerReturn: w.Ready is left out.
HandlerReturnNotReady ==
  /\ At("handler", "run")
  /\ writerClosed' = TRUE
  /\ Goto("handler", "done")
  /\ UNCHANGED <<frames, inGo, events, httpHandler, promise, committed, kind,
                 bodyClosed, primed, bodyRead, lifeVars, steps>>

\* ServeHTTP returns (or panics): the writer is closed, the headers committed.
HandlerReturn ==
  /\ At("handler", "run")
  /\ Commit(Kinds)
  /\ writerClosed' = TRUE
  /\ Goto("handler", "done")
  /\ UNCHANGED <<frames, inGo, events, httpHandler, promise, bodyClosed,
                 primed, bodyRead, lifeVars, steps>>

-----------------------------------------------------------------------------
(* JavaScript reads the body, or abandons it.                              *)

JsPull ==
  /\ DeliverPromise("pull", "pull")
  /\ UNCHANGED <<httpHandler, promise, bodyVars, lifeVars, steps>>

\* The first pull only enqueues the empty chunk; later ones wait for bytes.
PullStart ==
  /\ At("pull", "start")
  /\ primed' = TRUE
  /\ IF primed
     THEN Goto("pull", "read") /\ UNCHANGED events
     ELSE Goto("pull", "done") /\ events' = events \cup {"pull"}
  /\ UNCHANGED <<frames, inGo, httpHandler, promise, committed, kind,
                 writerClosed, bodyClosed, bodyRead, lifeVars, steps>>

\* A read meets the handler's write: the chunk is enqueued.
PullData ==
  /\ At("pull", "read") /\ pc["handler"] = "write" /\ ~bodyClosed
  /\ pc' = [pc EXCEPT !["pull"] = "done", !["handler"] = "run"]
  /\ events' = events \cup {"pull"}
  /\ UNCHANGED <<frames, inGo, httpHandler, promise, bodyVars, lifeVars, steps>>

\* Faulty variant of PullEnd: the first chunk is taken for the end.
PullEndOnData ==
  /\ At("pull", "read") /\ PipeReadable /\ ~bodyClosed
  /\ Goto("pull", "done")
  /\ CloseBody(events \ {"cancel"})
  /\ bodyRead' = TRUE
  /\ UNCHANGED <<frames, inGo, httpHandler, promise, committed, kind,
                 writerClosed, primed, lifeVars, steps>>

\* EOF or the handler's error: the stream ends and closeReader runs.
PullEnd ==
  /\ At("pull", "read") /\ writerClosed /\ ~bodyClosed
  /\ Goto("pull", "done")
  /\ CloseBody(events \ {"cancel"})
  /\ bodyRead' = TRUE
  /\ UNCHANGED <<frames, inGo, httpHandler, promise, committed, kind,
                 writerClosed, primed, lifeVars, steps>>

\* Closed by cancel meanwhile: controller.close throws, the panic is
\* recovered and the pull rejected.
PullClosed ==
  /\ At("pull", "read") /\ bodyClosed
  /\ Goto("pull", "done")
  /\ UNCHANGED <<frames, inGo, events, httpHandler, promise, bodyVars,
                 lifeVars, steps>>

\* The client goes away; a cancelled stream is never pulled again.
JsCancel ==
  /\ "cancel" \in Detach
  /\ Deliver("cancel")
  /\ frames' = <<"cb">>
  /\ Goto("cancel", "start")
  /\ events' = events \ {"cancel", "pull"}
  /\ UNCHANGED <<httpHandler, promise, bodyVars, lifeVars, steps>>

CancelRun ==
  /\ At("cancel", "start")
  /\ Goto("cancel", "done")
  /\ CloseBody(events)
  /\ UNCHANGED <<frames, inGo, httpHandler, promise, committed, kind,
                 writerClosed, primed, bodyRead, lifeVars, steps>>

\* ConvertReaderToFixedLengthStream awaits writer.ready before the first read
\* and again, once the body has ended, before writer.close.
FixedAwait ==
  /\ \/ At("fixed", "start") /\ Goto("fixed", "await")
     \/ /\ At("fixed", "read") /\ pc["handler"] # "write" /\ writerClosed
        /\ Goto("fixed", "awaitClose")
  /\ events' = events \cup {"fixed"}
  /\ UNCHANGED <<frames, inGo, httpHandler, promise, bodyVars, lifeVars, steps>>

FixedReady ==
  /\ At("fixed", "run")
  /\ Goto("fixed", "read")
  /\ UNCHANGED <<frames, inGo, events, httpHandler, promise, bodyVars,
                 lifeVars, steps>>

\* writer.close, then the deferred rc.Close.
FixedClose ==
  /\ At("fixed", "close")
  /\ Goto("fixed", "done")
  /\ CloseBody(events)
  /\ bodyRead' = TRUE
  /\ UNCHANGED <<frames, inGo, httpHandler, promise, committed, kind,
                 writerClosed, primed, lifeVars, steps>>

FixedData ==
  /\ At("fixed", "read") /\ pc["handler"] = "write"
  /\ Goto("handler", "run")
  /\ UNCHANGED <<frames, inGo, events, httpHandler, promise, bodyVars,
                 lifeVars, steps>>

\* JavaScript reads a raw body, its own stream, without entering Go.
JsReadRaw ==
  /\ promise = "resolved" /\ kind = "raw" /\ ~inGo /\ ~bodyRead
  /\ bodyRead' = TRUE
  /\ UNCHANGED <<pc, frames, inGo, events, httpHandler, promise, committed,
                 kind, writerClosed, bodyClosed, primed, lifeVars, steps>>

-----------------------------------------------------------------------------
\* A callback due after the exit: _resume throws.
LateEvent(e) ==
  /\ exited /\ e \in events
  /\ events' = events \ {e}
  /\ late' = late \cup {e}
  /\ UNCHANGED <<pc, frames, inGo, httpHandler, promise, bodyVars, doneCh,
                 allDoneCh, wg, steps, exited, exitFrames>>

GoStep ==
  \/ Return \/ MainServe \/ MainExit
  \/ WaiterRecv \/ WaiterReleased
  \/ ReqReject \/ ReqServe \/ ReqRespond
  \/ HandlerWrite \/ HandlerWriteFails \/ HandlerJoin \/ HandlerJoined
  \/ HandlerReturn
  \/ PullStart \/ PullData \/ PullEnd \/ PullClosed \/ CancelRun
  \/ FixedAwait \/ FixedReady \/ FixedData \/ FixedClose
  \/ \E g \in User : UserAwait(g) \/ \E t \in Tasks : WaitUntil(g, t)
  \/ \E t \in Tasks : TaskReturn(t)

JsStep ==
  \/ JsHandleRequest \/ JsPull \/ JsReadRaw \/ JsDone
  \/ \E g \in User \cup {"fixed"} : JsWake(g)

Next == GoStep \/ JsStep \/ JsCancel \/ \E e \in events : LateEvent(e)

Spec == Init /\ [][Next]_vars

\* The scheduler runs what can run, JavaScript delivers what is due, settles
\* every promise and timer, and reads the body; the client need not cancel.
Fairness == WF_vars(GoStep) /\ WF_vars(JsStep)

FairSpec == Spec /\ Fairness

-----------------------------------------------------------------------------
Labels == {"none", "start", "run", "await", "awaitClose", "close", "inJS",
           "recvDone", "recvAllDone", "recvReady", "read", "write", "join",
           "wait", "released", "done"}

Callbacks == {"handleRequest", "pull", "cancel", "done", "fixed"} \cup User

\* Every variable has its type.
TypeOK ==
  /\ pc \in [Goroutines -> Labels]
  /\ frames \in Seq(User \cup {"cb"})
  /\ inGo \in BOOLEAN
  /\ events \subseteq Callbacks
  /\ httpHandler \in BOOLEAN
  /\ promise \in {"none", "pending", "resolved", "rejected"}
  /\ committed \in BOOLEAN
  /\ kind \in Kinds \cup {"undecided"}
  /\ writerClosed \in BOOLEAN /\ bodyClosed \in BOOLEAN
  /\ primed \in BOOLEAN /\ bodyRead \in BOOLEAN
  /\ doneCh \in BOOLEAN /\ allDoneCh \in BOOLEAN
  /\ wg \subseteq Tasks
  /\ steps \in [User -> 0..MaxSteps]
  /\ exited \in BOOLEAN
  /\ exitFrames \in Seq(User \cup {"cb"})
  /\ late \subseteq Callbacks

\* The program never exits with a `new Promise` call still on the JavaScript
\* stack: valueNew would read this._inst.exports of a deleted instance, the
\* failure the comment in handleRequest describes.
ExitUnwound == exited => exitFrames = <<>>

\* No goroutine's promise, timer or stream callback is left to fire into an
\* exited program ("Go program has already exited").
NoLateCallback == exited => events = {} /\ late = {}

\* Done does not close, so the program does not exit, before every task
\* given to cloudflare.WaitUntil has returned, those that tasks or a late
\* handler register while Done is being waited for included.
TasksOutlived == allDoneCh \/ exited => \A t \in Tasks : pc[t] \in {"none", "done"}

\* Done closes when the handler is done: ServeHTTP has returned and the
\* promise JavaScript holds has been answered.
DoneMeansHandlerDone == allDoneCh => pc["handler"] = "done" /\ promise = "resolved"

\* Nobody waits for somebody who waits for him: while the program lives Go can
\* run, or JavaScript owes it a callback other than a cancel, which need not
\* come; except after a rejection, or when the body is none of Go's (scheduler,
\* new Promise, the pipe, WaitGroup, doneCh and allDoneCh together).
NeverStuck ==
  ~exited /\ ~inGo /\ events \subseteq {"cancel"} =>
    promise = "rejected" \/ (promise = "resolved" /\ kind \in {"raw", "ws"})

\* doneCh is closed only from a fresh JavaScript turn, with no caller below.
DoneInOwnTurn == [][doneCh' # doneCh => frames = <<>> /\ ~inGo]_vars

\* handleRequest's promise settles, whichever way the handler ends.
Answered == promise = "pending" ~> promise \in {"resolved", "rejected"}

\* Once the Response's body has been read to its end the instance exits; a
\* raw body is JavaScript's own, and its end unknown to Go.
ReadLeadsToExit == bodyRead /\ kind # "raw" ~> exited

\* A request comes to its end: it is answered (handleRequest), and when the
\* answer has been read its program exits (main, wasmExit).
RequestEnds == Answered /\ ReadLeadsToExit

\* An instance exits once its trigger's promise has been rejected, or its
\* response read, whatever its kind.
SettledLeadsToExit == promise = "rejected" \/ bodyRead ~> exited
=============================================================================
