---------------------------- MODULE GoInstanceInv ----------------------------
(***************************************************************************)
(* The inductive invariants behind the safety properties of GoInstance:    *)
(* IInv for a program whose body is never closed under a running handler   *)
(* (Detach = {}): the client reads the body to its end, and no handler     *)
(* writes to a null-body response; DetachedInv for one whose handler may   *)
(* outlive its body, as long as it does not wait for its tasks.            *)
(***************************************************************************)
EXTENDS GoInstance

\* A suspended caller waits in exactly one frame, and JavaScript's own turn
\* has none.
FramesInv ==
  /\ ~inGo => frames = <<>>
  /\ \A i \in 1..Len(frames) : frames[i] # "main"
  /\ \A i \in 1..Len(frames) : frames[i] # "cb" => pc[frames[i]] = "inJS"
  /\ \A i, j \in 1..Len(frames) :
       frames[i] = frames[j] /\ frames[i] # "cb" => i = j

\* The WaitGroup counts exactly the tasks that have not returned.
TasksInv ==
  /\ \A t \in Tasks : t \in wg <=> pc[t] \notin {"none", "done"}
  /\ pc["waiter"] \in {"recvDone", "wait", "released", "done"}
  /\ pc["waiter"] = "released" => wg = {}
  /\ pc["waiter"] \in {"wait", "released"} => doneCh

\* How far the request has come, by what each of its goroutines is doing.
RequestInv ==
  /\ pc["main"] \in {"start", "await", "run"} =>
       promise = "none" /\ "handleRequest" \notin events
  /\ pc["main"] \in {"start", "await", "run", "recvAllDone", "done"}
  /\ "handleRequest" \in events => promise = "none"
  /\ promise = "none" => pc["req"] = "none"
  /\ pc["req"] \in {"start", "recvReady"} => promise = "pending"
  /\ pc["req"] \in {"none", "start", "recvReady", "done"}
  /\ pc["req"] \in {"none", "start"} =>
       ~committed /\ ~writerClosed /\ pc["handler"] = "none"
  /\ committed <=> kind # "undecided"
  /\ promise = "resolved" => committed /\ pc["req"] = "done"
  /\ committed /\ kind = "null" => pc["handler"] = "done"
  /\ writerClosed => pc["handler"] = "done"

\* The body's reader runs only for a Response of its kind that JavaScript has.
ReaderInv ==
  /\ pc["pull"] \in {"none", "start", "read", "done"}
  /\ pc["fixed"] \in {"none", "start", "await", "run", "read", "awaitClose",
                      "close", "done"}
  /\ pc["cancel"] = "none"
  /\ pc["pull"] # "none" \/ {"pull", "cancel"} \cap events # {} =>
       promise = "resolved" /\ kind = "stream"
  /\ pc["fixed"] # "none" => promise = "resolved" /\ kind = "fixed"
  /\ pc["pull"] \in {"start", "read"} => "pull" \notin events
  /\ pc["fixed"] \in {"awaitClose", "close", "done"} => writerClosed

\* A closed body has nothing more to read, and nobody left to read it.
ClosedInv ==
  bodyClosed =>
    /\ promise = "resolved"
    /\ pc["handler"] = "done"
    /\ pc["pull"] \in {"none", "done"} /\ pc["fixed"] \in {"none", "done"}
    /\ {"pull", "cancel"} \cap events = {}

\* What is due is a wake-up somebody waits for, or the end of the turn that
\* closes doneCh; the channels close in that order, with no caller below.
DoneInv ==
  /\ \A g \in User \cup {"fixed"} : g \in events => pc[g] \in {"await", "awaitClose"}
  /\ "done" \in events => bodyClosed /\ ~doneCh
  /\ doneCh => bodyClosed /\ \A i \in 1..Len(frames) : frames[i] \in Tasks
  /\ allDoneCh => doneCh /\ wg = {} /\ frames = <<>>
  /\ exited => allDoneCh /\ exitFrames = <<>> /\ pc["main"] = "done"
  /\ late = {}

IInv == /\ TypeOK /\ FramesInv /\ TasksInv /\ RequestInv
        /\ ReaderInv /\ ClosedInv /\ DoneInv

-----------------------------------------------------------------------------
(* A body that may be closed under a running handler.                      *)

\* JavaScript has the thread only when no goroutine can run, and a suspended
\* caller has a frame.
TurnInv ==
  /\ ~inGo => Idle /\ ~exited
  /\ \A g \in User : pc[g] = "inJS" => \E i \in 1..Len(frames) : frames[i] = g
  /\ \A t \in Tasks : pc[t] \in {"none", "run", "await", "inJS", "done"}
  /\ pc["handler"] \in {"none", "run", "await", "inJS", "write", "done"}

\* The waiter waits for a task, and closes allDoneCh when it is done.
WaiterInv ==
  /\ pc["waiter"] = "wait" => wg # {}
  /\ pc["waiter"] = "done" <=> allDoneCh

\* RequestInv, as far as it does not depend on who closes the body.
AnswerInv ==
  /\ pc["main"] \in {"start", "await", "run", "recvAllDone", "done"}
  /\ pc["main"] \in {"start", "await", "run"} \/ "handleRequest" \in events => promise = "none"
  /\ pc["main"] \in {"start", "await", "run"} => "handleRequest" \notin events
  /\ pc["req"] \in {"none", "start", "recvReady", "done"}
  /\ promise = "none" => pc["req"] = "none"
  /\ pc["req"] \in {"start", "recvReady"} => promise = "pending"
  /\ pc["req"] \in {"none", "start"} => pc["handler"] = "none"

\* The stream's callbacks are for a stream that JavaScript has; its cancel has
\* a turn to itself, in which nobody else can run.
CallbackInv ==
  /\ \/ pc["pull"] # "none" \/ pc["cancel"] # "none" \/ {"pull", "cancel"} \cap events # {}
     => promise = "resolved" /\ kind = "stream" /\ committed
  /\ pc["fixed"] # "none" \/ "fixed" \in events =>
       promise = "resolved" /\ kind = "fixed" /\ committed
  /\ "fixed" \in events => pc["fixed"] # "none"
  /\ pc["pull"] \in {"start", "read"} => "pull" \notin events
  /\ pc["cancel"] # "none" => {"pull", "cancel"} \cap events = {} /\ pc["pull"] # "start"
  /\ pc["cancel"] \in {"none", "start", "done"} /\ (pc["cancel"] = "done" => bodyClosed)
  /\ pc["cancel"] = "start" => \A g \in Goroutines \ {"cancel"} : ~CanRun(g)

\* A closed body is never read or cancelled again.
ShutInv ==
  bodyClosed => /\ promise = "resolved" /\ {"pull", "cancel"} \cap events = {}
                /\ pc["pull"] # "start" /\ pc["cancel"] # "start"

\* Once doneCh is closed, a handler that still runs has been woken in a turn of
\* its own, in which some task goes on waiting: it cannot be the last.
LastInv ==
  /\ \A g \in User : g \in events => pc[g] = "await"
  /\ "done" \in events => bodyClosed /\ ~doneCh
  /\ doneCh => bodyClosed /\ \A i \in 1..Len(frames) : frames[i] # "cb"
  /\ doneCh /\ pc["handler"] \in {"run", "write", "inJS"} => \E t \in Tasks : pc[t] = "await"
  /\ allDoneCh => doneCh /\ wg = {} /\ frames = <<>>
  /\ exited => allDoneCh /\ exitFrames = <<>>
  /\ pc["main"] = "done" => exited

DetachedInv == /\ TypeOK /\ FramesInv /\ TasksInv /\ TurnInv /\ WaiterInv
               /\ AnswerInv /\ CallbackInv /\ ShutInv /\ LastInv

-----------------------------------------------------------------------------
(* Who waits for whom, as long as the program lives; whatever is Detach.   *)

\* A goroutine that waits for JavaScript is known there: as a suspended caller,
\* or by a callback that is due.
WaitInv ==
  /\ ~inGo => frames = <<>> /\ Idle
  /\ \A g \in User : pc[g] = "inJS" => \E i \in 1..Len(frames) : frames[i] = g
  /\ \A g \in User \cup {"fixed"} : pc[g] \in {"await", "awaitClose"} => g \in events

\* What each goroutine may be doing.
PlaceInv ==
  /\ \A t \in Tasks : pc[t] \in {"none", "run", "await", "inJS", "done"}
  /\ pc["main"] \in {"start", "await", "run", "recvAllDone"}
  /\ pc["handler"] \in {"none", "run", "await", "inJS", "write", "join", "done"}
  /\ pc["req"] \in {"none", "start", "recvReady", "done"}
  /\ pc["waiter"] \in {"recvDone", "wait", "released", "done"}
  /\ pc["pull"] \in {"none", "start", "read", "done"}
  /\ pc["cancel"] \in {"none", "start", "done"}

\* Each stage of a request hands on to the next: main to JavaScript, that to
\* handleRequest, the handler to it by committing, and it to JavaScript.
StageInv ==
  /\ pc["main"] = "recvAllDone" /\ promise = "none" => "handleRequest" \in events
  /\ promise = "none" => pc["req"] = "none"
  /\ promise = "pending" => pc["req"] \in {"start", "recvReady"}
  /\ promise = "resolved" => pc["req"] = "done" /\ committed
  /\ pc["req"] = "recvReady" \/ promise = "resolved" => pc["handler"] # "none"
  /\ pc["handler"] \in {"write", "done"} => committed
  /\ pc["handler"] = "done" => writerClosed
  /\ committed => kind # "undecided"

\* Somebody reads an answered body until it is closed.
BodyInv ==
  promise = "resolved" /\ ~bodyClosed =>
    /\ kind # "null"
    /\ kind = "stream" => \/ "pull" \in events \/ pc["cancel"] = "start"
                          \/ pc["pull"] \in {"start", "read"}
    /\ kind = "fixed" => pc["fixed"] \in {"start", "await", "run", "read", "awaitClose", "close"}

\* A closed body leads to doneCh, that to the waiter, and the last task to
\* allDoneCh, for which main waits.
EndInv ==
  /\ bodyClosed => doneCh \/ "done" \in events
  /\ \A t \in Tasks : t \in wg => pc[t] \notin {"none", "done"}
  /\ pc["waiter"] = "wait" => wg # {}
  /\ pc["waiter"] = "done" => allDoneCh

Alive == WaitInv /\ PlaceInv /\ StageInv /\ BodyInv /\ EndInv
AliveInv == ~exited => Alive
=============================================================================
