--------------------------- MODULE DurableObject ---------------------------
(***************************************************************************)
(* One Durable Object hosted in Go.  The runtime delivers triggers (fetch, *)
(* alarm, webSocketMessage, ...) to one JavaScript object, concurrently    *)
(* whenever one of them waits.  Two memos make them share their state:     *)
(* GoDurableObject.#bind boots one program and remembers the promise in    *)
(* `ready`; instance() runs the user's Constructor under instanceMu, which *)
(* it holds while the Constructor waits for JavaScript, and remembers the  *)
(* Object only when the Constructor succeeds.                              *)
(***************************************************************************)
EXTENDS Naturals

CONSTANTS Triggers, \* the triggers delivered to the object
          Handled,  \* those whose handler interface the Object implements
          Failures, \* what may go wrong besides user code returning an error
          None      \* no trigger

ASSUME NoneAssumption == None \notin Triggers
ASSUME HandledAssumption == Handled \subseteq Triggers
\* boot: loading or instantiating the module fails; exit: the program ends
\* (main returns, a goroutine of the user's panics).
ASSUME FailuresAssumption == Failures \subseteq {"boot", "exit"}

VARIABLES
  ready,         \* the promise this.ready
  boots,         \* how many times run() has been called
  exited,        \* has the program ended
  registered,    \* has main registered a Constructor for the class
  pc,            \* where each trigger is
  outcome,       \* how its promise has been settled
  instanceMu,    \* the trigger that holds the mutex
  instanceReady,
  instanceObj,   \* the Object, named by the trigger that constructed it
  instanceState, \* the DurableObjectState, likewise
  attempted,     \* triggers that have called the Constructor
  used           \* the Object each trigger got from instance()

bootVars == <<ready, boots, exited, registered>>
memoVars == <<instanceReady, instanceObj, instanceState>>
vars == <<bootVars, pc, outcome, instanceMu, memoVars, attempted, used>>

Init ==
  /\ ready = "none" /\ boots = 0 /\ exited = FALSE /\ registered = FALSE
  /\ pc = [t \in Triggers |-> "none"]
  /\ outcome = [t \in Triggers |-> "pending"]
  /\ instanceMu = None
  /\ instanceReady = FALSE /\ instanceObj = None /\ instanceState = None
  /\ attempted = {} /\ used = [t \in Triggers |-> None]

Goto(t, l) == pc' = [pc EXCEPT ![t] = l]

\* t's promise is settled with o, and t is over.
Settle(t, o) == Goto(t, "done") /\ outcome' = [outcome EXCEPT ![t] = o]

-----------------------------------------------------------------------------
(* JavaScript: the memoised boot, and the call of the Go handler.          *)

\* #bind up to `await this.ready`.
Bind(t) ==
  /\ pc[t] = "none"
  /\ Goto(t, "bind")
  /\ IF ready = "none" THEN ready' = "loading" /\ boots' = boots + 1
                       ELSE UNCHANGED <<ready, boots>>
  /\ UNCHANGED <<exited, registered, outcome, instanceMu, memoVars,
                 attempted, used>>

\* run: the module is loaded and instantiated, and main starts.
Load ==
  /\ ready = "loading"
  /\ \/ ready' = "running"
     \/ "boot" \in Failures /\ ready' = "rejected"
  /\ UNCHANGED <<boots, exited, registered, pc, outcome, instanceMu, memoVars,
                 attempted, used>>

\* main calls durableobjects.Register, as it should before workers.Serve.
Register ==
  /\ ready \in {"running", "resolved"} /\ ~exited /\ ~registered
  /\ registered' = TRUE
  /\ UNCHANGED <<ready, boots, exited, pc, outcome, instanceMu, memoVars,
                 attempted, used>>

\* main calls workers.Serve, and so the workers.ready import.
Ready ==
  /\ ready = "running" /\ ~exited
  /\ ready' = "resolved"
  /\ UNCHANGED <<boots, exited, registered, pc, outcome, instanceMu, memoVars,
                 attempted, used>>

Exit ==
  /\ "exit" \in Failures /\ ready \in {"running", "resolved"} /\ ~exited
  /\ exited' = TRUE
  /\ UNCHANGED <<ready, boots, registered, pc, outcome, instanceMu, memoVars,
                 attempted, used>>

\* `await this.ready` throws.
BindFails(t) ==
  /\ pc[t] = "bind" /\ ready = "rejected"
  /\ Settle(t, "boot")
  /\ UNCHANGED <<bootVars, instanceMu, memoVars, attempted, used>>

\* Faulty variant: the wrapper does not look whether the program has exited.
CallUnchecked(t) ==
  /\ pc[t] = "bind" /\ ready = "resolved"
  /\ Goto(t, "lock") /\ UNCHANGED outcome
  /\ UNCHANGED <<bootVars, instanceMu, memoVars, attempted, used>>

\* The handler of the binding is called: RegisterAsyncHandler starts a
\* goroutine, or the js.Func's wrapper finds that the program has exited.
Call(t) ==
  /\ pc[t] = "bind" /\ ready = "resolved"
  /\ IF exited THEN Settle(t, "exited") ELSE Goto(t, "lock") /\ UNCHANGED outcome
  /\ UNCHANGED <<bootVars, instanceMu, memoVars, attempted, used>>

-----------------------------------------------------------------------------
(* Go: instance() and the dispatch to the Object's handler.                *)

\* The goroutine of t gets instanceMu.
Locks(t) == pc[t] = "lock" /\ instanceMu = None /\ ~exited

\* instance() has returned obj to t: its handler runs, if it has one.
Dispatch(t, obj) ==
  /\ used' = [used EXCEPT ![t] = obj]
  /\ IF t \in Handled THEN Goto(t, "serve") /\ UNCHANGED outcome
                      ELSE Settle(t, "unimplemented")

Reuse(t) ==
  /\ Locks(t) /\ instanceReady
  /\ Dispatch(t, instanceObj)
  /\ UNCHANGED <<bootVars, instanceMu, memoVars, attempted>>

Unregistered(t) ==
  /\ Locks(t) /\ ~instanceReady /\ ~registered
  /\ Settle(t, "unregistered")
  /\ UNCHANGED <<bootVars, instanceMu, memoVars, attempted, used>>

\* The Constructor is called, and may wait, with instanceMu held.
StartConstructor(t) ==
  /\ Locks(t) /\ ~instanceReady /\ registered
  /\ Goto(t, "construct") /\ instanceMu' = t
  /\ attempted' = attempted \cup {t}
  /\ UNCHANGED <<bootVars, outcome, memoVars, used>>

\* Faulty variant: each trigger keeps the Object it has built to itself.
ConstructorReturnsUnshared(t) ==
  /\ pc[t] = "construct" /\ ~exited
  /\ UNCHANGED memoVars
  /\ instanceMu' = None
  /\ Dispatch(t, t)
  /\ UNCHANGED <<bootVars, attempted>>

ConstructorReturns(t) ==
  /\ pc[t] = "construct" /\ ~exited
  /\ instanceState' = t /\ instanceObj' = t /\ instanceReady' = TRUE
  /\ instanceMu' = None
  /\ Dispatch(t, t)
  /\ UNCHANGED <<bootVars, attempted>>

\* Faulty variant: Unlock is not deferred, and the error path skips it.
ConstructorFailsLocked(t) ==
  /\ pc[t] = "construct" /\ ~exited
  /\ Settle(t, "constructor")
  /\ UNCHANGED <<bootVars, instanceMu, memoVars, attempted, used>>

\* Faulty variant: the construction runs under a sync.Once, and whoever waits
\* for it gets the error of the first.
ConstructorFailsOnce(t) ==
  LET waiting == {u \in Triggers : u = t \/ pc[u] = "lock"} IN
  /\ pc[t] = "construct" /\ ~exited
  /\ pc' = [u \in Triggers |-> IF u \in waiting THEN "done" ELSE pc[u]]
  /\ outcome' = [u \in Triggers |->
                  IF u \in waiting THEN "constructor" ELSE outcome[u]]
  /\ instanceMu' = None
  /\ UNCHANGED <<bootVars, memoVars, attempted, used>>

\* It returns an error or panics: RegisterAsyncHandler's recover makes the
\* panic a rejection too, after the deferred Unlock.
ConstructorFails(t) ==
  /\ pc[t] = "construct" /\ ~exited
  /\ Settle(t, "constructor")
  /\ instanceMu' = None
  /\ UNCHANGED <<bootVars, memoVars, attempted, used>>

\* The Object's handler returns, returns an error or panics.
Serve(t) ==
  /\ pc[t] = "serve" /\ ~exited
  /\ \E o \in {"resolved", "handler"} : Settle(t, o)
  /\ UNCHANGED <<bootVars, instanceMu, memoVars, attempted, used>>

-----------------------------------------------------------------------------

\* Everything is over: the object waits for triggers that do not come.
Finished == (\A t \in Triggers : pc[t] = "done" \/ exited) /\ UNCHANGED vars

JsStep(t) == BindFails(t) \/ Call(t)
GoStep(t) == \/ Reuse(t) \/ Unregistered(t) \/ StartConstructor(t)
             \/ ConstructorReturns(t) \/ ConstructorFails(t) \/ Serve(t)

Next == \/ Load \/ Register \/ Ready \/ Exit
        \/ \E t \in Triggers : Bind(t) \/ JsStep(t) \/ GoStep(t)
        \/ Finished

Spec == Init /\ [][Next]_vars

\* JavaScript and Go run what is due; a boot ends, main reaches Serve, and
\* the user's constructor and handlers return.  No trigger need ever come.
Fairness == /\ WF_vars(Load) /\ WF_vars(Ready)
            /\ \A t \in Triggers : WF_vars(JsStep(t)) /\ WF_vars(GoStep(t))

FairSpec == Spec /\ Fairness

-----------------------------------------------------------------------------
(* Properties.                                                             *)

\* The types of the variables; run() is called at most once, as the comment
\* on GoDurableObject says of #bind.
TypeOK ==
  /\ ready \in {"none", "loading", "running", "resolved", "rejected"}
  /\ boots \in {0, 1} /\ exited \in BOOLEAN /\ registered \in BOOLEAN
  /\ pc \in [Triggers -> {"none", "bind", "lock", "construct", "serve", "done"}]
  /\ outcome \in [Triggers -> {"pending", "boot", "exited", "unregistered",
                               "constructor", "unimplemented", "handler",
                               "resolved"}]
  /\ instanceMu \in Triggers \cup {None}
  /\ instanceReady \in BOOLEAN
  /\ instanceObj \in Triggers \cup {None}
  /\ instanceState \in Triggers \cup {None}
  /\ attempted \subseteq Triggers
  /\ used \in [Triggers -> Triggers \cup {None}]

\* Whatever the order in which concurrent triggers come and constructors fail,
\* every trigger that has got an Object has got the same one, and State() is
\* the state that Object was constructed with (instance, State).
ServedBySame ==
  \A t \in Triggers : used[t] # None =>
    instanceReady /\ used[t] = instanceObj /\ instanceState = instanceObj

\* The error of a Constructor is not cached: a trigger is rejected with one
\* only by a call of the Constructor of its own (instance).
OwnFailure == \A t \in Triggers : outcome[t] = "constructor" => t \in attempted

\* Once an Object has been constructed it stays, no constructor runs any
\* more, and no trigger is rejected with a Constructor's error (instance).
SuccessIsFinal ==
  [][instanceReady =>
      /\ UNCHANGED <<memoVars, attempted>>
      /\ \A t \in Triggers :
           outcome'[t] = "constructor" => outcome[t] = "constructor"]_vars

\* Seen by its triggers, the boot, instanceMu and the memo are one shared
\* Object: a single maker at a time, a first success that is final and given
\* to all, and failures that reach nobody but their maker (instance).
Shared == INSTANCE SharedObject WITH
  object  <- instanceObj,
  maker   <- instanceMu,
  got     <- used,
  failed  <- {t \in Triggers : outcome[t] = "constructor"},
  refused <- {t \in Triggers : outcome[t] \in {"boot", "exited", "unregistered"}}

ImplementsSharedObject == Shared!Spec

\* A trigger is answered, in whatever way the boot and the constructors of
\* other triggers fail, unless the program ends under it.
Answered == \A t \in Triggers : (pc[t] = "bind") ~> (pc[t] = "done" \/ exited)

\* A trigger that meets a program that has ended is rejected, not left
\* pending: `ready` is still resolved, only _resume can tell.
LateRejected ==
  \A t \in Triggers :
    (exited /\ ready = "resolved" /\ pc[t] = "bind") ~> (outcome[t] = "exited")
-----------------------------------------------------------------------------
(* The inductive invariant.                                                *)

BootInv == ready = "none" => boots = 0

\* instanceMu is held exactly by the trigger whose Constructor runs.
MutexInv == \A t \in Triggers : pc[t] = "construct" <=> instanceMu = t

\* With no Object nobody has got one; with an Object nobody constructs.
MemoInv == IF instanceReady THEN instanceMu = None /\ instanceState = instanceObj
                            ELSE \A t \in Triggers : used[t] = None

UsedInv == \A t \in Triggers : used[t] \in {None, instanceObj}

\* A trigger that is not over has no answer, and no Object while it waits.
WaitInv ==
  /\ instanceReady <=> instanceObj # None
  /\ \A t \in Triggers : pc[t] # "done" => outcome[t] = "pending"
  /\ \A t \in Triggers :
       pc[t] \in {"none", "bind", "lock", "construct"} => used[t] = None

AttemptInv ==
  \A t \in Triggers : pc[t] = "construct" \/ outcome[t] = "constructor"
                        => t \in attempted

\* instance() keeps its memo and its mutex in step at every point where user
\* code may wait: the strengthening the safety properties follow from.
IInv == TypeOK /\ BootInv /\ MutexInv /\ MemoInv /\ UsedInv /\ WaitInv
        /\ AttemptInv
=============================================================================
