------------------------ MODULE DurableObjectProofs ------------------------
(***************************************************************************)
(* What DurableObject promises for any set of triggers, any handlers and   *)
(* any of the failures it knows: proofs of its safety properties from the  *)
(* inductive invariant IInv, and that it implements SharedObject.          *)
(***************************************************************************)
EXTENDS DurableObject, TLAPS

\* Nothing has been booted or constructed.
LEMMA InitIInv == Init => IInv
  BY NoneAssumption
     DEF Init, IInv, TypeOK, BootInv, MutexInv, MemoInv, UsedInv, WaitInv, AttemptInv

\* A step that leaves the triggers, the mutex and the memo alone, and no
\* second boot behind.
LEMMA ProgramStep ==
  ASSUME IInv, Load \/ Register \/ Ready \/ Exit
  PROVE  IInv'
  <1> USE DEF IInv, TypeOK, BootInv, MutexInv, MemoInv, UsedInv, WaitInv, AttemptInv
  <1>1. CASE Load     BY <1>1 DEF Load, memoVars
  <1>2. CASE Register BY <1>2 DEF Register, memoVars
  <1>3. CASE Ready    BY <1>3 DEF Ready, memoVars
  <1>4. CASE Exit     BY <1>4 DEF Exit, memoVars
  <1>. QED BY <1>1, <1>2, <1>3, <1>4

\* A trigger asks for the boot, which only the first one starts.
LEMMA BindStep ==
  ASSUME IInv, NEW t \in Triggers, Bind(t)
  PROVE  IInv'
  <1> USE DEF IInv, Bind, Goto, memoVars
  <1>1. TypeOK'     BY DEF TypeOK, BootInv
  <1>2. BootInv'    BY DEF TypeOK, BootInv
  <1>3. MutexInv'   BY NoneAssumption DEF TypeOK, MutexInv
  <1>4. MemoInv' /\ UsedInv' BY DEF TypeOK, MemoInv, UsedInv
  <1>5. AttemptInv' BY DEF TypeOK, AttemptInv
  <1>6. WaitInv'    BY NoneAssumption DEF TypeOK, MemoInv, WaitInv
  <1>. QED BY <1>1, <1>2, <1>3, <1>4, <1>5, <1>6

\* A trigger finds that the boot has failed, or calls into Go.
LEMMA JsStepInv ==
  ASSUME IInv, NEW t \in Triggers, JsStep(t)
  PROVE  IInv'
  <1> USE DEF IInv, JsStep, BindFails, Call, Settle, Goto, bootVars, memoVars
  <1>1. TypeOK'     BY DEF TypeOK
  <1>2. BootInv'    BY DEF BootInv
  <1>3. MutexInv'   BY NoneAssumption DEF TypeOK, MutexInv
  <1>4. MemoInv' /\ UsedInv' BY DEF TypeOK, MemoInv, UsedInv
  <1>5. AttemptInv' BY DEF TypeOK, AttemptInv
  <1>6. WaitInv'    BY NoneAssumption DEF TypeOK, MemoInv, WaitInv
  <1>. QED BY <1>1, <1>2, <1>3, <1>4, <1>5, <1>6

\* instance() returns the Object it has.
LEMMA ReuseInv ==
  ASSUME IInv, NEW t \in Triggers, Reuse(t)
  PROVE  IInv'
  <1> USE DEF IInv, Reuse, Locks, Dispatch, Settle, Goto, bootVars, memoVars
  <1>1. TypeOK'     BY DEF TypeOK
  <1>2. BootInv'    BY DEF BootInv
  <1>3. MutexInv'   BY NoneAssumption DEF TypeOK, MutexInv
  <1>4. MemoInv' /\ UsedInv' BY DEF TypeOK, MemoInv, UsedInv
  <1>5. AttemptInv' BY DEF TypeOK, AttemptInv
  <1>6. WaitInv'    BY NoneAssumption DEF TypeOK, MemoInv, WaitInv
  <1>. QED BY <1>1, <1>2, <1>3, <1>4, <1>5, <1>6

\* instance() finds no Constructor.
LEMMA UnregisteredInv ==
  ASSUME IInv, NEW t \in Triggers, Unregistered(t)
  PROVE  IInv'
  <1> USE DEF IInv, Unregistered, Locks, Settle, Goto, bootVars, memoVars
  <1>1. TypeOK'     BY DEF TypeOK
  <1>2. BootInv'    BY DEF BootInv
  <1>3. MutexInv'   BY NoneAssumption DEF TypeOK, MutexInv
  <1>4. MemoInv' /\ UsedInv' BY DEF TypeOK, MemoInv, UsedInv
  <1>5. AttemptInv' BY DEF TypeOK, AttemptInv
  <1>6. WaitInv'    BY NoneAssumption DEF TypeOK, MemoInv, WaitInv
  <1>. QED BY <1>1, <1>2, <1>3, <1>4, <1>5, <1>6

\* instance() takes instanceMu and calls the Constructor.
LEMMA StartConstructorInv ==
  ASSUME IInv, NEW t \in Triggers, StartConstructor(t)
  PROVE  IInv'
  <1> USE DEF IInv, StartConstructor, Locks, Goto, bootVars, memoVars
  <1>1. TypeOK'     BY DEF TypeOK
  <1>2. BootInv'    BY DEF BootInv
  <1>3. MutexInv'   BY NoneAssumption DEF TypeOK, MutexInv
  <1>4. MemoInv' /\ UsedInv' BY DEF TypeOK, MemoInv, UsedInv
  <1>5. AttemptInv' BY DEF TypeOK, AttemptInv
  <1>6. WaitInv'    BY NoneAssumption DEF TypeOK, MemoInv, WaitInv
  <1>. QED BY <1>1, <1>2, <1>3, <1>4, <1>5, <1>6

\* The mutex makes t the only trigger that constructs, so that no Object was
\* handed out before t's.
LEMMA ConstructorReturnsInv ==
  ASSUME IInv, NEW t \in Triggers, ConstructorReturns(t)
  PROVE  IInv'
  <1> USE DEF IInv, ConstructorReturns, Dispatch, Settle, Goto, bootVars
  <1>1. instanceMu = t /\ ~instanceReady
    BY NoneAssumption DEF MutexInv, MemoInv
  <1>2. TypeOK'     BY DEF TypeOK
  <1>3. BootInv'    BY DEF BootInv
  <1>4. MutexInv'   BY <1>1, NoneAssumption DEF TypeOK, MutexInv
  <1>5. MemoInv'    BY DEF MemoInv
  <1>6. UsedInv'    BY <1>1 DEF TypeOK, MemoInv, UsedInv
  <1>7. AttemptInv' BY DEF TypeOK, AttemptInv
  <1>8. WaitInv'    BY NoneAssumption DEF TypeOK, WaitInv
  <1>. QED BY <1>2, <1>3, <1>4, <1>5, <1>6, <1>7, <1>8

\* A Constructor that fails gives instanceMu back and leaves no Object.
LEMMA ConstructorFailsInv ==
  ASSUME IInv, NEW t \in Triggers, ConstructorFails(t)
  PROVE  IInv'
  <1> USE DEF IInv, ConstructorFails, Settle, Goto, bootVars, memoVars
  <1>1. TypeOK'     BY DEF TypeOK
  <1>2. BootInv'    BY DEF BootInv
  <1>3. MutexInv'   BY NoneAssumption DEF TypeOK, MutexInv
  <1>4. MemoInv' /\ UsedInv' BY DEF TypeOK, MemoInv, UsedInv
  <1>5. AttemptInv' BY DEF TypeOK, AttemptInv
  <1>6. WaitInv'    BY NoneAssumption DEF TypeOK, MemoInv, WaitInv
  <1>. QED BY <1>1, <1>2, <1>3, <1>4, <1>5, <1>6

\* The handler of the Object ends.
LEMMA ServeInv ==
  ASSUME IInv, NEW t \in Triggers, Serve(t)
  PROVE  IInv'
  <1> USE DEF IInv, Serve, Settle, Goto, bootVars, memoVars
  <1>1. TypeOK'     BY DEF TypeOK
  <1>2. BootInv'    BY DEF BootInv
  <1>3. MutexInv'   BY NoneAssumption DEF TypeOK, MutexInv
  <1>4. MemoInv' /\ UsedInv' BY DEF TypeOK, MemoInv, UsedInv
  <1>5. AttemptInv' BY DEF TypeOK, AttemptInv
  <1>6. WaitInv'    BY NoneAssumption DEF TypeOK, MemoInv, WaitInv
  <1>. QED BY <1>1, <1>2, <1>3, <1>4, <1>5, <1>6

\* Nothing changes.
LEMMA StutterInv == IInv /\ UNCHANGED vars => IInv'
  BY DEF IInv, TypeOK, BootInv, MutexInv, MemoInv, UsedInv, WaitInv, AttemptInv,
         vars, bootVars, memoVars

\* Every step keeps the invariant.
LEMMA NextIInv == IInv /\ [Next]_vars => IInv'
  <1> SUFFICES ASSUME IInv, [Next]_vars PROVE IInv'
    OBVIOUS
  <1>1. CASE Load \/ Register \/ Ready \/ Exit BY <1>1, ProgramStep
  <1>2. ASSUME NEW t \in Triggers, Bind(t) PROVE IInv' BY <1>2, BindStep
  <1>3. ASSUME NEW t \in Triggers, JsStep(t) PROVE IInv' BY <1>3, JsStepInv
  <1>4. ASSUME NEW t \in Triggers, GoStep(t) PROVE IInv'
    BY <1>4, ReuseInv, UnregisteredInv, StartConstructorInv,
       ConstructorReturnsInv, ConstructorFailsInv, ServeInv DEF GoStep
  <1>5. CASE Finished \/ UNCHANGED vars BY <1>5, StutterInv DEF Finished
  <1>. QED BY <1>1, <1>2, <1>3, <1>4, <1>5 DEF Next

\* instance() keeps its memo and its mutex in step in every reachable state.
THEOREM MemoInvariance == Spec => []IInv
  BY InitIInv, NextIInv, PTL DEF Spec

\* Every variable keeps its type, and run() is called at most once per object:
\* the promise GoDurableObject.#bind memoises is set before it first waits.
THEOREM MemoTypeCorrect == Spec => []TypeOK
  BY MemoInvariance, PTL DEF IInv

\* All triggers of an object are served by one Object, and State() is the
\* state that Object was constructed with.
THEOREM OneObjectServes == Spec => []ServedBySame
  <1>1. IInv => ServedBySame
    BY DEF IInv, MemoInv, UsedInv, ServedBySame
  <1>. QED BY <1>1, MemoInvariance, PTL

\* The error of a Constructor is reported to the trigger that called it and
\* to no other: it is never cached.
THEOREM FailuresAreNotCached == Spec => []OwnFailure
  <1>1. IInv => OwnFailure
    BY DEF IInv, AttemptInv, OwnFailure
  <1>. QED BY <1>1, MemoInvariance, PTL

\* Once there is an Object no Constructor runs, none is running, and the
\* memo does not change.
LEMMA SuccessStep ==
  ASSUME IInv, [Next]_vars, instanceReady
  PROVE  /\ UNCHANGED <<memoVars, attempted>>
         /\ \A t \in Triggers :
              outcome'[t] = "constructor" => outcome[t] = "constructor"
  <1>1. \A t \in Triggers : pc[t] # "construct"
    BY NoneAssumption DEF IInv, MutexInv, MemoInv
  <1>2. CASE Load \/ Register \/ Ready \/ Exit
    BY <1>2 DEF Load, Register, Ready, Exit, memoVars
  <1>3. ASSUME NEW t \in Triggers, Bind(t)
        PROVE  UNCHANGED <<memoVars, attempted, outcome>>
    BY <1>3 DEF Bind
  <1>4. ASSUME NEW t \in Triggers, JsStep(t) \/ GoStep(t)
        PROVE  /\ UNCHANGED <<memoVars, attempted>>
               /\ \/ UNCHANGED outcome
                  \/ \E o \in {"boot", "exited", "unimplemented", "resolved",
                               "handler"} :
                       outcome' = [outcome EXCEPT ![t] = o]
    BY <1>1, <1>4 DEF JsStep, GoStep, BindFails, Call, Reuse, Unregistered,
       StartConstructor, ConstructorReturns, ConstructorFails, Serve, Locks,
       Dispatch, Settle
  <1>5. ASSUME NEW t \in Triggers, JsStep(t) \/ GoStep(t), NEW u \in Triggers,
               outcome'[u] = "constructor"
        PROVE  outcome[u] = "constructor"
    BY <1>4, <1>5 DEF IInv, TypeOK
  <1>6. CASE Finished \/ UNCHANGED vars BY <1>6 DEF Finished, vars
  <1>. QED BY <1>2, <1>3, <1>4, <1>5, <1>6 DEF Next

\* Once an Object has been constructed it stays for as long as the program
\* lives, and no trigger sees a Constructor's error any more.
THEOREM SuccessStays == Spec => SuccessIsFinal
  <1>1. IInv /\ [Next]_vars =>
          [instanceReady =>
            /\ UNCHANGED <<memoVars, attempted>>
            /\ \A t \in Triggers :
                 outcome'[t] = "constructor" => outcome[t] = "constructor"]_vars
    BY SuccessStep
  <1>. QED BY <1>1, MemoInvariance, PTL DEF Spec, SuccessIsFinal
-----------------------------------------------------------------------------
(* The refinement: every step is one of SharedObject or leaves it alone.   *)

\* Without a boot, an Object or an answer, nothing is shared.
LEMMA SharedInitial == Init => Shared!Init
  BY DEF Init, Shared!Init

\* A step that settles nobody and hands out nothing is not seen.
LEMMA UnseenStep ==
  ASSUME UNCHANGED <<instanceObj, instanceMu, used, outcome>>
  PROVE  UNCHANGED Shared!vars
  BY DEF Shared!vars

\* A trigger that is turned away before it has called the Constructor.
LEMMA RefuseStep ==
  ASSUME IInv, NEW t \in Triggers, pc[t] \in {"bind", "lock"},
         UNCHANGED <<instanceObj, instanceMu, used>>,
         NEW o \in {"boot", "exited", "unregistered"}, Settle(t, o)
  PROVE  Shared!Refuse(t)
  <1>1. used[t] = None /\ outcome[t] = "pending" /\ instanceMu # t
    BY DEF IInv, WaitInv, MutexInv
  <1>2. \A u \in Triggers : outcome'[u] = IF u = t THEN o ELSE outcome[u]
    BY DEF IInv, TypeOK, Settle
  <1>3. {u \in Triggers : outcome'[u] = "constructor"}
          = {u \in Triggers : outcome[u] = "constructor"}
    BY <1>1, <1>2
  <1>4. {u \in Triggers : outcome'[u] \in {"boot", "exited", "unregistered"}}
          = {u \in Triggers : outcome[u] \in {"boot", "exited", "unregistered"}} \cup {t}
    BY <1>2
  <1>. QED BY <1>1, <1>3, <1>4 DEF Shared!Refuse, Shared!Waits

\* The outcome of a trigger that has got the Object does not count.
LEMMA ServedOutcome ==
  ASSUME IInv, NEW t \in Triggers, outcome[t] = "pending",
         NEW o \in {"pending", "unimplemented", "handler", "resolved"},
         outcome' = [outcome EXCEPT ![t] = o]
  PROVE  /\ {u \in Triggers : outcome'[u] = "constructor"}
              = {u \in Triggers : outcome[u] = "constructor"}
         /\ {u \in Triggers : outcome'[u] \in {"boot", "exited", "unregistered"}}
              = {u \in Triggers : outcome[u] \in {"boot", "exited", "unregistered"}}
  <1>1. \A u \in Triggers : outcome'[u] = IF u = t THEN o ELSE outcome[u]
    BY DEF IInv, TypeOK
  <1>. QED BY <1>1

\* So does the dispatch to a handler, or to none.
LEMMA DispatchOutcome ==
  ASSUME IInv, NEW t \in Triggers, outcome[t] = "pending", NEW obj, Dispatch(t, obj)
  PROVE  /\ used' = [used EXCEPT ![t] = obj]
         /\ {u \in Triggers : outcome'[u] = "constructor"}
              = {u \in Triggers : outcome[u] = "constructor"}
         /\ {u \in Triggers : outcome'[u] \in {"boot", "exited", "unregistered"}}
              = {u \in Triggers : outcome[u] \in {"boot", "exited", "unregistered"}}
  <1>1. CASE t \in Handled
    BY <1>1 DEF Dispatch
  <1>2. CASE t \notin Handled
    BY <1>2, ServedOutcome DEF Dispatch, Settle
  <1>. QED BY <1>1, <1>2

\* Every step maps to a step of SharedObject or a stutter.
LEMMA SharedStep ==
  ASSUME IInv, [Next]_vars
  PROVE  [Shared!Next]_Shared!vars
  <1>1. CASE Load \/ Register \/ Ready \/ Exit
    BY <1>1, UnseenStep DEF Load, Register, Ready, Exit, memoVars
  <1>2. ASSUME NEW t \in Triggers, Bind(t) PROVE UNCHANGED Shared!vars
    BY <1>2, UnseenStep DEF Bind, memoVars
  <1>3. ASSUME NEW t \in Triggers, JsStep(t) PROVE [Shared!Next]_Shared!vars
    <2>1. CASE BindFails(t)
      BY <2>1, RefuseStep DEF BindFails, memoVars, Shared!Next
    <2>2. CASE Call(t) /\ exited
      BY <2>2, RefuseStep DEF Call, memoVars, Shared!Next
    <2>3. CASE Call(t) /\ ~exited
      BY <2>3, UnseenStep DEF Call, memoVars
    <2>. QED BY <1>3, <2>1, <2>2, <2>3 DEF JsStep
  <1>4. ASSUME NEW t \in Triggers, GoStep(t) PROVE [Shared!Next]_Shared!vars
    <2>1. ASSUME Reuse(t) PROVE Shared!Share(t)
      <3>1. /\ used[t] = None /\ outcome[t] = "pending" /\ instanceMu # t
            /\ instanceObj # None
        BY <2>1 DEF IInv, WaitInv, MutexInv, Reuse, Locks
      <3>. QED
        BY <2>1, <3>1, DispatchOutcome DEF Reuse, memoVars, Shared!Share, Shared!Waits
    <2>2. CASE Unregistered(t)
      BY <2>2, RefuseStep DEF Unregistered, Locks, memoVars, Shared!Next
    <2>3. ASSUME StartConstructor(t) PROVE Shared!Make(t)
      <3>1. /\ used[t] = None /\ outcome[t] = "pending" /\ instanceMu # t
            /\ instanceObj = None /\ instanceMu = None
        BY <2>3, NoneAssumption DEF IInv, WaitInv, MutexInv, StartConstructor, Locks
      <3>. QED
        BY <2>3, <3>1 DEF StartConstructor, memoVars, Shared!Make, Shared!Waits
    <2>4. ASSUME ConstructorReturns(t) PROVE Shared!Made(t)
      <3>1. instanceMu = t /\ outcome[t] = "pending"
        BY <2>4 DEF IInv, WaitInv, MutexInv, ConstructorReturns
      <3>. QED
        BY <2>4, <3>1, DispatchOutcome DEF ConstructorReturns, Shared!Made
    <2>5. ASSUME ConstructorFails(t) PROVE Shared!MakeFails(t)
      <3>1. instanceMu = t /\ outcome[t] = "pending"
        BY <2>5 DEF IInv, WaitInv, MutexInv, ConstructorFails
      <3>2. \A u \in Triggers : outcome'[u] = IF u = t THEN "constructor" ELSE outcome[u]
        BY <2>5 DEF IInv, TypeOK, ConstructorFails, Settle
      <3>3. {u \in Triggers : outcome'[u] = "constructor"}
              = {u \in Triggers : outcome[u] = "constructor"} \cup {t}
        BY <3>2
      <3>4. {u \in Triggers : outcome'[u] \in {"boot", "exited", "unregistered"}}
              = {u \in Triggers : outcome[u] \in {"boot", "exited", "unregistered"}}
        BY <3>1, <3>2
      <3>. QED
        BY <2>5, <3>1, <3>3, <3>4 DEF ConstructorFails, memoVars, Shared!MakeFails
    <2>6. ASSUME Serve(t) PROVE UNCHANGED Shared!vars
      <3>1. outcome[t] = "pending"
        BY <2>6 DEF IInv, WaitInv, Serve
      <3>. QED
        BY <2>6, <3>1, ServedOutcome DEF Serve, Settle, memoVars, Shared!vars
    <2>. QED
      BY <1>4, <2>1, <2>2, <2>3, <2>4, <2>5, <2>6 DEF GoStep, Shared!Next
  <1>5. CASE Finished \/ UNCHANGED vars
    BY <1>5, UnseenStep DEF Finished, vars, memoVars
  <1>. QED BY <1>1, <1>2, <1>3, <1>4, <1>5 DEF Next

\* Whatever the boot, the program and the Constructors of concurrent triggers
\* do, #bind and instance() together behave as one shared Object.
THEOREM SharesOneObject == Spec => ImplementsSharedObject
  <1>1. IInv /\ [Next]_vars => [Shared!Next]_Shared!vars
    BY SharedStep
  <1>. QED
    BY <1>1, SharedInitial, MemoInvariance, PTL
       DEF Spec, ImplementsSharedObject, Shared!Spec
=============================================================================
