------------------------------ MODULE Workflow ------------------------------
(***************************************************************************)
(* exp/cloudflare/workflows/host.go: one Workflow instance.  The engine of *)
(* the runtime calls run() again and again, after a crash, a pause or a    *)
(* failed run, until it ends; a Runner in Go calls the methods of Step,    *)
(* whose results the engine keeps.  A step is named by its value in Steps. *)
(* The engine (status, saved, failed, tries, aborting) is external: it     *)
(* does what the comments and the fake step of host_test.go say of it.     *)
(***************************************************************************)
EXTENDS Naturals, FiniteSets

CONSTANTS
  Steps,       \* the steps the Runner calls, each once per run
  Waits,       \* those of them that are Sleep, SleepUntil or WaitForEvent
  After,       \* the steps whose results the Runner needs before it calls one
  MaxAttempts, \* RetryConfig.Limit: calls the engine makes of one function
  HasClass,    \* does the runtime context hold a NonRetryableError class
  Wraps,       \* how the Runner may pass on an error: with text "before" it or
               \* "after" it, or as a "panic"
  MaxReplays   \* bound: pauses, crashes and failed runs that are followed by a run

ASSUME StepsAssumption == Waits \subseteq Steps /\ After \in [Steps -> SUBSET Steps]
ASSUME WrapsAssumption == HasClass \in BOOLEAN /\ Wraps \subseteq {"before", "after", "panic"}
ASSUME BoundsAssumption ==
  MaxAttempts \in Nat \ {0} /\ MaxReplays \in Nat

Attempts == Steps \X (1 .. MaxAttempts)
\* How a function ends; a recovered panic is an error like another.
Settled == {"ok", "err", "nonretryable"}

VARIABLES
  status,   \* the instance: "queued", "running", "paused", "complete", "errored"
  aborting, \* the engine is ending the current run and rejects its steps
  saved,    \* the result kept of each step: the attempt that made it, 0 for none
  failed,   \* steps that are kept as failed
  tries,    \* attempts begun of each step
  waiting,  \* steps of whose last attempt it waits for the result
  run,      \* the promise of handleWorkflowRun: "none", "up", "resolved", "rejected"
  message,  \* what it is rejected with
  call,     \* where the Runner's call of each step is, in this run
  live,     \* steps whose callback has not been released
  fns,      \* what each attempt's goroutine has come to, in this wasm instance
  seen,     \* results each step has ever returned to a Runner
  stray,    \* a released callback has been called
  replays   \* pauses, crashes and repeated runs so far

engineVars == <<status, aborting, saved, failed, tries, waiting>>
vars == <<engineVars, run, message, call, live, fns, seen, stray, replays>>

\* The text of an error: does it hold "Aborting engine:", is there more before
\* or after that message; and was it wrapped with NonRetryable.
NoMessage == [abort |-> FALSE, before |-> FALSE, after |-> FALSE, nonretryable |-> FALSE]

TypeOK ==
  /\ status \in {"queued", "running", "paused", "complete", "errored"}
  /\ aborting \in BOOLEAN /\ stray \in BOOLEAN
  /\ saved \in [Steps -> 0 .. MaxAttempts] /\ failed \subseteq Steps
  /\ tries \in [Steps -> 0 .. MaxAttempts] /\ waiting \subseteq Steps
  /\ run \in {"none", "up", "resolved", "rejected"}
  /\ message \in [abort : BOOLEAN, before : BOOLEAN, after : BOOLEAN,
                  nonretryable : BOOLEAN]
  /\ call \in [Steps -> {"no", "pending", "resolved", "rejected", "aborted",
                         "ok", "error", "abort"}]
  /\ live \subseteq Steps
  /\ fns \in [Attempts -> {"none", "run", "abandoned"} \union Settled]
  /\ seen \in [Steps -> SUBSET (0 .. MaxAttempts)]
  /\ replays \in 0 .. MaxReplays

Init ==
  /\ status = "queued" /\ aborting = FALSE
  /\ saved = [i \in Steps |-> 0] /\ failed = {} /\ tries = [i \in Steps |-> 0]
  /\ waiting = {}
  /\ run = "none" /\ message = NoMessage
  /\ call = [i \in Steps |-> "no"] /\ live = {}
  /\ fns = [a \in Attempts |-> "none"]
  /\ seen = [i \in Steps |-> {}] /\ stray = FALSE
  /\ replays = 0

-----------------------------------------------------------------------------
(* Go: the Runner's goroutine, and those of its steps' functions.          *)

\* run() on the instance: #bind boots or finds the program, handleWorkflowRun
\* starts the Runner.
Start ==
  /\ status = "queued"
  /\ status' = "running" /\ aborting' = FALSE
  /\ run' = "up"
  /\ call' = [i \in Steps |-> "no"] /\ live' = {}
  /\ UNCHANGED <<saved, failed, tries, waiting, message, fns, seen, stray, replays>>

\* Faulty variant: Do releases the callback when step.do has returned.
KeptUntilCall(i) == live

\* stepCallback's js.Func lives until Do returns; a wait has none.
Kept(i) == IF i \in Waits THEN live ELSE live \union {i}

\* Do, Sleep or WaitForEvent up to its Await.  jsrt.Call makes an error of an
\* exception, and then the callback is released at once.
CallStep(i) ==
  /\ run = "up" /\ call[i] = "no"
  /\ \A j \in After[i] : call[j] = "ok"
  /\ \A j \in Steps : call[j] \notin {"error", "abort"}
  /\ \/ call' = [call EXCEPT ![i] = "pending"] /\ live' = Kept(i)
     \/ call' = [call EXCEPT ![i] = "error"] /\ UNCHANGED live
  /\ UNCHANGED <<engineVars, run, message, fns, seen, stray, replays>>

\* The goroutine that stepCallback starts runs the function to its end and
\* settles a promise of its own; a panic is recovered.  The promise of an
\* attempt that the engine has given up is nobody's any more.
FnReturns(a) ==
  /\ fns[a] = "run"
  /\ \E how \in Settled : fns' = [fns EXCEPT ![a] = how]
  /\ UNCHANGED <<engineVars, run, message, call, live, seen, stray, replays>>

\* Faulty variant: every error of a step is an Error.
AlwaysError(how) == "Error"

\* errorToJS.
ErrorToJS(how) ==
  IF how = "nonretryable" /\ HasClass THEN "NonRetryableError" ELSE "Error"

\* Faulty variant: DoJSON returns what its own closure computed, in this
\* program, and the zero value if the function has not run.
CapturedValue(i) ==
  IF \E n \in 1 .. MaxAttempts : fns[<<i, n>>] = "ok" THEN saved[i] ELSE 0

\* What Do returns is what the promise of step.do has resolved with.
Value(i) == saved[i]

\* Faulty variant: AwaitPromise without its catch.
AwaitResolves(i) ==
  /\ call[i] = "resolved"
  /\ call' = [call EXCEPT ![i] = "ok"]
  /\ seen' = IF i \in Waits THEN seen ELSE [seen EXCEPT ![i] = @ \union {Value(i)}]
  /\ live' = live \ {i}
  /\ UNCHANGED <<engineVars, run, message, fns, stray, replays>>

\* AwaitPromise returns in the Runner's goroutine, and Do releases its callback.
AwaitReturns(i) ==
  /\ \/ /\ call[i] = "resolved"
        /\ call' = [call EXCEPT ![i] = "ok"]
        /\ seen' = IF i \in Waits THEN seen ELSE [seen EXCEPT ![i] = @ \union {Value(i)}]
     \/ call[i] = "rejected" /\ call' = [call EXCEPT ![i] = "error"] /\ UNCHANGED seen
     \/ call[i] = "aborted" /\ call' = [call EXCEPT ![i] = "abort"] /\ UNCHANGED seen
  /\ live' = live \ {i}
  /\ UNCHANGED <<engineVars, run, message, fns, stray, replays>>

\* The Runner handles the failure of a step and goes on.
Handle(i) ==
  /\ run = "up" /\ call[i] = "error"
  /\ call' = [call EXCEPT ![i] = "ok"]
  /\ UNCHANGED <<engineVars, run, message, live, fns, seen, stray, replays>>

\* Faulty variant: only a message that begins with the marker is an abort.
BareAbortMessage(m) == m

\* engineAbortMessage: what comes before the marker is cut off.
EngineAbortMessage(m) == IF m.abort THEN [m EXCEPT !.before = FALSE] ELSE m

\* The Runner's error, which is its own or that of a step: AwaitPromise has put
\* "failed on promise" before the latter.
Text(abort, wrap, nonretryable) ==
  [abort |-> abort, before |-> abort \/ "before" \in wrap, after |-> "after" \in wrap,
   nonretryable |-> nonretryable]

\* The Runner ends when its calls have.  The handler looks for an abort in its
\* error, but not in a panic, which RegisterAsyncHandler recovers; it rejects
\* with an Error of the text, whatever the error was wrapped with.
RunnerFails ==
  /\ run = "up"
  /\ \A i \in Steps : call[i] \in {"no", "ok", "error", "abort"}
  /\ \E abort, nonretryable \in BOOLEAN, wrap \in SUBSET Wraps :
       LET text == Text(abort, wrap, nonretryable) IN
       /\ abort => \E i \in Steps : call[i] = "abort"
       /\ message' = IF "panic" \in wrap THEN text ELSE EngineAbortMessage(text)
  /\ run' = "rejected"
  /\ UNCHANGED <<engineVars, call, live, fns, seen, stray, replays>>

RunnerReturns ==
  /\ run = "up" /\ \A i \in Steps : call[i] = "ok"
  /\ run' = "resolved"
  /\ UNCHANGED <<engineVars, message, call, live, fns, seen, stray, replays>>

-----------------------------------------------------------------------------
(* The engine.                                                             *)

Unfinished(i) == call[i] = "pending" /\ ~aborting /\ saved[i] = 0 /\ i \notin failed
Last(i) == <<i, tries[i]>>

\* An attempt, the first or after one that failed, timed out or was lost: the
\* engine calls the callback it was given.
CallFn(i) ==
  /\ Unfinished(i) /\ i \notin Waits
  /\ i \notin waiting /\ tries[i] < MaxAttempts
  /\ tries' = [tries EXCEPT ![i] = @ + 1] /\ waiting' = waiting \union {i}
  /\ IF i \in live
     THEN fns' = [fns EXCEPT ![<<i, tries[i] + 1>>] = "run"] /\ UNCHANGED stray
     ELSE stray' = TRUE /\ UNCHANGED fns
  /\ UNCHANGED <<status, aborting, saved, failed, run, message, call, live, seen, replays>>

\* StepConfig.Timeout: the engine gives up an attempt whose goroutine goes on.
TimesOut(i) ==
  /\ Unfinished(i) /\ i \in waiting /\ fns[Last(i)] = "run"
  /\ fns' = [fns EXCEPT ![Last(i)] = "abandoned"] /\ waiting' = waiting \ {i}
  /\ UNCHANGED <<status, aborting, saved, failed, tries, run, message, call, live, seen,
                 stray, replays>>

\* The engine keeps the result of the attempt it waits for, or its failure if
\* that is a NonRetryableError; after another failure it may try again.
TakeResult(i) ==
  /\ Unfinished(i) /\ i \in waiting /\ fns[Last(i)] \in Settled
  /\ \/ /\ fns[Last(i)] = "ok"
        /\ saved' = [saved EXCEPT ![i] = tries[i]]
        /\ call' = [call EXCEPT ![i] = "resolved"]
        /\ UNCHANGED failed
     \/ /\ fns[Last(i)] # "ok" /\ ErrorToJS(fns[Last(i)]) = "NonRetryableError"
        /\ failed' = failed \union {i}
        /\ call' = [call EXCEPT ![i] = "rejected"]
        /\ UNCHANGED saved
     \/ /\ fns[Last(i)] # "ok" /\ ErrorToJS(fns[Last(i)]) = "Error"
        /\ UNCHANGED <<saved, failed, call>>
  /\ waiting' = waiting \ {i}
  /\ UNCHANGED <<status, aborting, tries, run, message, live, fns, seen, stray, replays>>

\* No attempt is left, or the event waited for has not come in time.
GiveUp(i) ==
  /\ Unfinished(i)
  /\ i \in Waits \/ (i \notin waiting /\ tries[i] = MaxAttempts)
  /\ failed' = failed \union {i}
  /\ call' = [call EXCEPT ![i] = "rejected"]
  /\ UNCHANGED <<status, aborting, saved, tries, waiting, run, message, live, fns, seen,
                 stray, replays>>

\* The sleep is over, or the event has come.
WaitOver(i) ==
  /\ Unfinished(i) /\ i \in Waits
  /\ saved' = [saved EXCEPT ![i] = 1]
  /\ call' = [call EXCEPT ![i] = "resolved"]
  /\ UNCHANGED <<status, aborting, failed, tries, waiting, run, message, live, fns, seen,
                 stray, replays>>

\* A step that an earlier run has finished is not run again.
Replay(i) ==
  /\ call[i] = "pending" /\ ~aborting
  /\ \/ saved[i] > 0 /\ call' = [call EXCEPT ![i] = "resolved"]
     \/ i \in failed /\ call' = [call EXCEPT ![i] = "rejected"]
  /\ UNCHANGED <<engineVars, run, message, live, fns, seen, stray, replays>>

Pause ==
  /\ run = "up" /\ ~aborting /\ replays < MaxReplays
  /\ aborting' = TRUE
  /\ replays' = replays + 1
  /\ UNCHANGED <<status, saved, failed, tries, waiting, run, message, call, live, fns, seen,
                 stray>>

\* Every step promise is rejected with "Aborting engine: ..."; an attempt under
\* way is given up.
Abort(i) ==
  /\ aborting /\ call[i] = "pending"
  /\ call' = [call EXCEPT ![i] = "aborted"]
  /\ fns' = IF i \in waiting THEN [fns EXCEPT ![Last(i)] = "abandoned"] ELSE fns
  /\ waiting' = waiting \ {i}
  /\ UNCHANGED <<status, aborting, saved, failed, tries, run, message, live, seen, stray,
                 replays>>

\* run() has settled.  Only the bare message of its own abort tells the engine
\* of a pause from a failure; after a failure it may call run() again.
Settle ==
  /\ run \in {"resolved", "rejected"}
  /\ run' = "none" /\ message' = NoMessage
  /\ CASE run = "resolved" -> status' = "complete" /\ UNCHANGED replays
       [] run = "rejected" /\ message.abort /\ ~message.before /\ ~message.after ->
            status' = "paused" /\ UNCHANGED replays
       [] OTHER ->
            \/ status' = "errored" /\ UNCHANGED replays
            \/ /\ replays < MaxReplays /\ status' = "queued"
               /\ replays' = replays + 1
  /\ UNCHANGED <<aborting, saved, failed, tries, waiting, call, live, fns, seen, stray>>

Resume ==
  /\ status = "paused"
  /\ status' = "queued"
  /\ UNCHANGED <<aborting, saved, failed, tries, waiting, run, message, call, live, fns, seen,
                 stray, replays>>

\* The wasm instance is lost, in a run or between two: only what the engine
\* keeps is left.
Crash ==
  /\ status \in {"queued", "running", "paused"} /\ replays < MaxReplays
  /\ status' = IF status # "running" THEN status ELSE IF aborting THEN "paused" ELSE "queued"
  /\ run' = "none" /\ message' = NoMessage
  /\ call' = [i \in Steps |-> "no"] /\ live' = {}
  /\ fns' = [a \in Attempts |-> "none"] /\ waiting' = {}
  /\ replays' = replays + 1
  /\ UNCHANGED <<aborting, saved, failed, tries, seen, stray>>

-----------------------------------------------------------------------------

GoStep ==
  \/ \E i \in Steps : CallStep(i) \/ AwaitReturns(i) \/ Handle(i)
  \/ \E a \in Attempts : FnReturns(a)
  \/ RunnerFails \/ RunnerReturns

EngineStep ==
  \/ \E i \in Steps :
       CallFn(i) \/ TakeResult(i) \/ GiveUp(i) \/ WaitOver(i) \/ Replay(i) \/ Abort(i)
  \/ Start \/ Settle

Next == GoStep \/ EngineStep \/ (\E i \in Steps : TimesOut(i)) \/ Pause \/ Resume \/ Crash

Spec == Init /\ [][Next]_vars

\* User code ends, the program runs what can run, and the engine goes on with
\* every step it has; nobody need pause, resume or crash anything.
FairSpec == Spec /\ WF_vars(GoStep) /\ WF_vars(EngineStep)

-----------------------------------------------------------------------------

\* Do calls the function only until the step has completed and then returns the
\* saved result: a replay, in another program after a crash or with an earlier
\* attempt still running, sees what every run before it has seen.
ReplayAgrees == \A i \in Steps : seen[i] \subseteq {saved[i]} /\ (seen[i] # {} => saved[i] > 0)

\* An error wrapped with NonRetryable reaches the engine as one: no attempt
\* follows the one that ended with it.
PermanentStays ==
  HasClass => \A i \in Steps, n \in 1 .. MaxAttempts :
                fns[<<i, n>>] = "nonretryable" => tries[i] = n

\* A step has one outcome, in all the runs of the instance.
OutcomesStay == ReplayAgrees /\ PermanentStays

\* The deferred Release of Do comes after the last call of the callback, however
\* often the engine retries (and the variables keep their types).
NoReleasedCall == TypeOK /\ ~stray

\* A pause that rejects a step is not recorded as a failure of the run, through
\* AwaitPromise, the Runner and handleWorkflowRun,
PauseIsKept ==
  [][run = "rejected" /\ message.abort /\ run' = "none" => status' = "paused"]_vars

\* and a failure is not taken for a pause that nobody asked for, whatever text
\* the Runner puts around the errors of its steps.
PauseIsReal == [][status = "running" /\ status' = "paused" => aborting]_vars

AbortKept == PauseIsKept /\ PauseIsReal

\* A step the Runner waits for is always somebody's: the engine has an outcome
\* to give, or ends the run, or waits for a sleep or an event, or for a function
\* that runs or has ended in this program, or may call its callback (Do, Pause,
\* StepConfig.Timeout and a crash together).
NothingOrphaned ==
  \A i \in Steps : call[i] = "pending" =>
    \/ aborting \/ saved[i] > 0 \/ i \in failed \/ i \in Waits
    \/ IF i \in waiting THEN fns[Last(i)] \in {"run"} \union Settled ELSE i \in live

\* Every run() settles, or is lost in a crash: whatever a function does, its
\* step does, and Await returns.
RunSettles == run = "up" ~> run = "none"

\* NonRetryable, documented to end the instance also when it wraps the error of
\* the Runner (host.go:339, exp/cloudflare/README.md:405-406).
RunnerErrorIsFinal ==
  [][run = "rejected" /\ message.nonretryable /\ ~message.abort /\ run' = "none"
     => status' = "errored"]_vars
=============================================================================
