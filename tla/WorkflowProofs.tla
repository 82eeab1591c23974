--------------------------- MODULE WorkflowProofs ---------------------------
(***************************************************************************)
(* For any steps, any order among them, any number of attempts, pauses and *)
(* crashes: a step has one outcome, no released callback is called, and a  *)
(* pause is never recorded as a failure.                                   *)
(***************************************************************************)
EXTENDS Workflow, TLAPS

\* Calls are in flight only in a run, and aborted only by a pause of it.
RunInv ==
  /\ run # "none" => status = "running"
  /\ run # "up" => \A i \in Steps : call[i] \in {"no", "ok", "error", "abort"}
  /\ \A i \in Steps : call[i] \in {"aborted", "abort"} => aborting

\* A callback lives while its step may be attempted, and an attempt is waited
\* for only while its step has no outcome.
StepInv ==
  \A i \in Steps :
    /\ call[i] = "pending" /\ i \notin Waits => i \in live
    /\ call[i] = "resolved" => saved[i] > 0
    /\ i \in waiting => /\ i \notin Waits /\ call[i] = "pending"
                        /\ saved[i] = 0 /\ i \notin failed
                        /\ tries[i] > 0 /\ fns[Last(i)] \in {"run"} \union Settled

\* Only the last attempt runs for somebody, or has ended for good.
AttemptInv ==
  \A i \in Steps, n \in 1 .. MaxAttempts :
    /\ fns[<<i, n>>] = "run" => n = tries[i] /\ i \in waiting
    /\ HasClass /\ fns[<<i, n>>] = "nonretryable" =>
         n = tries[i] /\ i \in waiting \union failed

\* An abort that handleWorkflowRun rejects with is one of the engine's; it is
\* the bare message, as long as the Runner only puts text before it.
MessageInv ==
  run = "rejected" /\ message.abort =>
    aborting /\ (Wraps \subseteq {"before"} => ~message.before /\ ~message.after)

IInv == TypeOK /\ ~stray /\ ReplayAgrees /\ RunInv /\ StepInv /\ AttemptInv /\ MessageInv

\* Every action keeps every variable in its type.
LEMMA TypeStep == ASSUME TypeOK, [Next]_vars PROVE TypeOK'
<1> USE StepsAssumption, WrapsAssumption, BoundsAssumption DEF TypeOK, Attempts, Settled, engineVars
<1>1. ASSUME NEW i \in Steps, CallStep(i) PROVE TypeOK'
  BY <1>1 DEF CallStep, Kept
<1>2. ASSUME NEW i \in Steps, AwaitReturns(i) PROVE TypeOK'
  BY <1>2 DEF AwaitReturns, Value
<1>3. ASSUME NEW i \in Steps, Handle(i) PROVE TypeOK'
  BY <1>3 DEF Handle
<1>4. ASSUME NEW a \in Attempts, FnReturns(a) PROVE TypeOK'
  BY <1>4 DEF FnReturns
<1>5. ASSUME RunnerFails PROVE TypeOK'
  <2>1. PICK abort, nonretryable \in BOOLEAN, wrap \in SUBSET Wraps :
          message' = IF "panic" \in wrap THEN Text(abort, wrap, nonretryable)
                     ELSE EngineAbortMessage(Text(abort, wrap, nonretryable))
    BY <1>5 DEF RunnerFails
  <2> DEFINE before == abort \/ "before" \in wrap
             after  == "after" \in wrap
  <2>2. before \in BOOLEAN /\ after \in BOOLEAN
    OBVIOUS
  <2>3. message' \in [abort : BOOLEAN, before : BOOLEAN, after : BOOLEAN,
                      nonretryable : BOOLEAN]
    <3> HIDE DEF before, after
    <3>1. Text(abort, wrap, nonretryable) =
            [abort |-> abort, before |-> before, after |-> after, nonretryable |-> nonretryable]
      BY DEF Text, before, after
    <3> DEFINE text == Text(abort, wrap, nonretryable)
    <3>2. text \in [abort : BOOLEAN, before : BOOLEAN, after : BOOLEAN,
                    nonretryable : BOOLEAN]
      BY <2>2, <3>1
    <3> HIDE DEF text
    <3>3. EngineAbortMessage(text) \in [abort : BOOLEAN, before : BOOLEAN,
                                        after : BOOLEAN, nonretryable : BOOLEAN]
      BY <3>2 DEF EngineAbortMessage
    <3> QED
      BY <2>1, <3>2, <3>3 DEF text
  <2> QED
    BY <1>5, <2>3 DEF RunnerFails
<1>6. ASSUME RunnerReturns PROVE TypeOK'
  BY <1>6 DEF RunnerReturns
<1>7. ASSUME NEW i \in Steps, CallFn(i) PROVE TypeOK'
  <2>1. tries[i] \in 0 .. MaxAttempts /\ tries[i] < MaxAttempts
    BY <1>7 DEF CallFn
  <2>2. tries' \in [Steps -> 0 .. MaxAttempts] /\ <<i, tries[i] + 1>> \in Attempts
    BY <1>7, <2>1 DEF CallFn
  <2>3. fns' \in [Attempts -> {"none", "run", "abandoned"} \union Settled] /\ stray' \in BOOLEAN
    <3> HIDE DEF Attempts, Settled
    <3> QED
      BY <1>7, <2>2 DEF CallFn
  <2> QED
    BY <1>7, <2>2, <2>3 DEF CallFn
<1>8. ASSUME NEW i \in Steps, TakeResult(i) PROVE TypeOK'
  BY <1>8 DEF TakeResult, Unfinished, Last
<1>9. ASSUME NEW i \in Steps, GiveUp(i) PROVE TypeOK'
  BY <1>9 DEF GiveUp, Unfinished
<1>10. ASSUME NEW i \in Steps, WaitOver(i) PROVE TypeOK'
  BY <1>10 DEF WaitOver, Unfinished
<1>11. ASSUME NEW i \in Steps, Replay(i) PROVE TypeOK'
  BY <1>11 DEF Replay
<1>12. ASSUME NEW i \in Steps, Abort(i) PROVE TypeOK'
  BY <1>12 DEF Abort, Last
<1>13. ASSUME Start PROVE TypeOK'
  BY <1>13 DEF Start, NoMessage
<1>14. ASSUME Settle PROVE TypeOK'
  BY <1>14 DEF Settle, NoMessage
<1>15. ASSUME NEW i \in Steps, TimesOut(i) PROVE TypeOK'
  BY <1>15 DEF TimesOut, Unfinished, Last
<1>16. ASSUME Pause PROVE TypeOK'
  BY <1>16 DEF Pause
<1>17. ASSUME Resume PROVE TypeOK'
  BY <1>17 DEF Resume
<1>18. ASSUME Crash PROVE TypeOK'
  BY <1>18 DEF Crash, NoMessage
<1>19. ASSUME UNCHANGED vars PROVE TypeOK'
  BY <1>19 DEF vars
<1> QED
  BY <1>1, <1>2, <1>3, <1>4, <1>5, <1>6, <1>7, <1>8, <1>9, <1>10, <1>11, <1>12, <1>13, <1>14, <1>15, <1>16, <1>17, <1>18, <1>19 DEF Next, GoStep, EngineStep

\* An action that leaves the attempts alone keeps what is known of them.
LEMMA AttemptKept ==
  ASSUME AttemptInv, UNCHANGED <<fns, tries>>, waiting \subseteq waiting', failed \subseteq failed'
  PROVE  AttemptInv'
<1> SUFFICES ASSUME NEW i \in Steps, NEW n \in 1 .. MaxAttempts
             PROVE  /\ fns[<<i, n>>] = "run" => n = tries[i] /\ i \in waiting'
                    /\ HasClass /\ fns[<<i, n>>] = "nonretryable" =>
                         n = tries[i] /\ i \in waiting' \union failed'
  BY DEF AttemptInv
<1> QED
  BY DEF AttemptInv

\* The state before the first run.
LEMMA InitInv == Init => IInv
<1> SUFFICES ASSUME Init PROVE IInv
  OBVIOUS
<1> USE StepsAssumption, WrapsAssumption, BoundsAssumption DEF Init
<1>1. TypeOK
  <2>1. message \in [abort : BOOLEAN, before : BOOLEAN, after : BOOLEAN, nonretryable : BOOLEAN]
    BY DEF NoMessage
  <2>2. fns \in [Attempts -> {"none", "run", "abandoned"} \union Settled]
    OBVIOUS
  <2>3. seen \in [Steps -> SUBSET (0 .. MaxAttempts)] /\ 0 \in 0 .. MaxAttempts /\ 0 \in 0 .. MaxReplays
    OBVIOUS
  <2> QED
    BY <2>1, <2>2, <2>3 DEF TypeOK
<1>2. ReplayAgrees /\ RunInv /\ StepInv /\ MessageInv
  BY DEF ReplayAgrees, RunInv, StepInv, MessageInv
<1>3. AttemptInv
  BY DEF AttemptInv, Attempts
<1> QED
  BY <1>1, <1>2, <1>3 DEF IInv

\* Every action of the Runner, its functions and the engine keeps the invariant.
LEMMA NextInv == ASSUME IInv, [Next]_vars PROVE IInv'
<1> USE StepsAssumption, WrapsAssumption, BoundsAssumption DEF engineVars
<1>0. TypeOK /\ TypeOK'
  BY TypeStep DEF IInv
<1>1. ASSUME NEW i \in Steps, CallStep(i) PROVE IInv'
  <2> USE <1>0, <1>1 DEF CallStep, Kept, IInv, TypeOK
  <2>1. ReplayAgrees' /\ ~stray'
    BY DEF ReplayAgrees, StepInv
  <2>2. RunInv'
    BY DEF RunInv
  <2>3. StepInv'
    BY DEF StepInv, RunInv, Last, Attempts, Settled
  <2>4. AttemptInv'
    BY AttemptKept
  <2>5. MessageInv'
    BY DEF MessageInv, RunInv
  <2> QED
    BY <2>1, <2>2, <2>3, <2>4, <2>5
<1>2. ASSUME NEW i \in Steps, AwaitReturns(i) PROVE IInv'
  <2> USE <1>0, <1>2 DEF AwaitReturns, Value, IInv, TypeOK
  <2>1. ReplayAgrees' /\ ~stray'
    BY DEF ReplayAgrees, StepInv
  <2>2. RunInv'
    BY DEF RunInv
  <2>3. StepInv'
    BY DEF StepInv, RunInv, Last, Attempts, Settled
  <2>4. AttemptInv'
    BY AttemptKept
  <2>5. MessageInv'
    BY DEF MessageInv, RunInv
  <2> QED
    BY <2>1, <2>2, <2>3, <2>4, <2>5
<1>3. ASSUME NEW i \in Steps, Handle(i) PROVE IInv'
  <2> USE <1>0, <1>3 DEF Handle, IInv, TypeOK
  <2>1. ReplayAgrees' /\ ~stray'
    BY DEF ReplayAgrees, StepInv
  <2>2. RunInv'
    BY DEF RunInv
  <2>3. StepInv'
    BY DEF StepInv, RunInv, Last, Attempts, Settled
  <2>4. AttemptInv'
    BY AttemptKept
  <2>5. MessageInv'
    BY DEF MessageInv, RunInv
  <2> QED
    BY <2>1, <2>2, <2>3, <2>4, <2>5
<1>4. ASSUME NEW a \in Attempts, FnReturns(a) PROVE IInv'
  <2> USE <1>0, <1>4 DEF FnReturns, IInv, TypeOK
  <2>1. ReplayAgrees' /\ ~stray'
    BY DEF ReplayAgrees, StepInv
  <2>2. RunInv'
    BY DEF RunInv
  <2>3. StepInv'
    BY DEF StepInv, RunInv, Last, Attempts, Settled
  <2>4. AttemptInv'
    <3> SUFFICES ASSUME NEW j \in Steps, NEW n \in 1 .. MaxAttempts
                 PROVE  /\ fns'[<<j, n>>] = "run" => n = tries'[j] /\ j \in waiting'
                        /\ HasClass /\ fns'[<<j, n>>] = "nonretryable" =>
                             n = tries'[j] /\ j \in waiting' \union failed'
      BY DEF AttemptInv
    <3>1. CASE <<j, n>> = a
      <4>1. n = tries[j] /\ j \in waiting
        BY <3>1 DEF AttemptInv
      <4> QED
        BY <4>1
    <3>2. CASE <<j, n>> # a
      <4>1. fns'[<<j, n>>] = fns[<<j, n>>]
        BY <3>2 DEF Attempts
      <4> QED
        BY <4>1 DEF AttemptInv
    <3> QED
      BY <3>1, <3>2
  <2>5. MessageInv'
    BY DEF MessageInv, RunInv
  <2> QED
    BY <2>1, <2>2, <2>3, <2>4, <2>5
<1>5. ASSUME RunnerFails PROVE IInv'
  <2> USE <1>0, <1>5 DEF RunnerFails, Text, EngineAbortMessage, IInv, TypeOK
  <2>1. ReplayAgrees' /\ ~stray'
    BY DEF ReplayAgrees, StepInv
  <2>2. RunInv'
    BY DEF RunInv
  <2>3. StepInv'
    BY DEF StepInv, RunInv, Last, Attempts, Settled
  <2>4. AttemptInv'
    BY AttemptKept
  <2>5. MessageInv'
    BY DEF MessageInv, RunInv
  <2> QED
    BY <2>1, <2>2, <2>3, <2>4, <2>5
<1>6. ASSUME RunnerReturns PROVE IInv'
  <2> USE <1>0, <1>6 DEF RunnerReturns, IInv, TypeOK
  <2>1. ReplayAgrees' /\ ~stray'
    BY DEF ReplayAgrees, StepInv
  <2>2. RunInv'
    BY DEF RunInv
  <2>3. StepInv'
    BY DEF StepInv, RunInv, Last, Attempts, Settled
  <2>4. AttemptInv'
    BY AttemptKept
  <2>5. MessageInv'
    BY DEF MessageInv, RunInv
  <2> QED
    BY <2>1, <2>2, <2>3, <2>4, <2>5
<1>7. ASSUME NEW i \in Steps, CallFn(i) PROVE IInv'
  <2> USE <1>0, <1>7 DEF CallFn, Unfinished, Last, IInv, TypeOK
  <2>1. ReplayAgrees' /\ ~stray'
    BY DEF ReplayAgrees, StepInv
  <2>2. RunInv'
    BY DEF RunInv
  <2>3. StepInv'
    <3>1. i \in live /\ <<i, tries[i] + 1>> \in Attempts
      <4>1. i \in live
        BY DEF StepInv
      <4>2. tries[i] + 1 \in 1 .. MaxAttempts
        OBVIOUS
      <4> QED
        BY <4>1, <4>2 DEF Attempts
    <3>2. fns' = [fns EXCEPT ![<<i, tries[i] + 1>>] = "run"] /\ tries'[i] = tries[i] + 1
      BY <3>1
    <3>3. tries'[i] > 0 /\ fns'[<<i, tries'[i]>>] = "run"
      BY <3>1, <3>2
    <3>4. ASSUME NEW j \in waiting, j # i
          PROVE  j \in Steps /\ tries'[j] = tries[j] /\ fns'[<<j, tries[j]>>] = fns[<<j, tries[j]>>]
      <4>1. j \in Steps /\ tries'[j] = tries[j] /\ <<j, tries[j]>> \in Attempts
        BY <3>4 DEF StepInv, Attempts
      <4> QED
        BY <3>1, <3>2, <3>4, <4>1
    <3> QED
      BY <3>1, <3>3, <3>4 DEF StepInv
  <2>4. AttemptInv'
    <3> SUFFICES ASSUME NEW j \in Steps, NEW n \in 1 .. MaxAttempts
                 PROVE  /\ fns'[<<j, n>>] = "run" => n = tries'[j] /\ j \in waiting'
                        /\ HasClass /\ fns'[<<j, n>>] = "nonretryable" =>
                             n = tries'[j] /\ j \in waiting' \union failed'
      BY DEF AttemptInv
    <3> DEFINE b == <<i, tries[i] + 1>>
    <3>1. i \in live /\ b \in Attempts /\ <<j, n>> \in Attempts
      <4>1. i \in live
        BY DEF StepInv
      <4>2. tries[i] + 1 \in 1 .. MaxAttempts
        OBVIOUS
      <4> QED
        BY <4>1, <4>2 DEF Attempts
    <3>2. fns' = [fns EXCEPT ![b] = "run"] /\ waiting' = waiting \union {i} /\ i \notin failed
      BY <3>1
    <3>3. tries' = [tries EXCEPT ![i] = @ + 1]
      OBVIOUS
    <3>4. CASE <<j, n>> = b
      BY <3>1, <3>2, <3>3, <3>4
    <3>5. CASE <<j, n>> # b
      <4>1. fns'[<<j, n>>] = fns[<<j, n>>]
        BY <3>1, <3>2, <3>5
      <4>2. ASSUME j = i PROVE /\ fns[<<j, n>>] # "run"
                               /\ HasClass => fns[<<j, n>>] # "nonretryable"
        BY <3>2, <4>2 DEF AttemptInv
      <4>3. ASSUME j # i PROVE tries'[j] = tries[j]
        BY <3>3, <4>3
      <4> QED
        BY <3>2, <4>1, <4>2, <4>3 DEF AttemptInv
    <3> QED
      BY <3>4, <3>5
  <2>5. MessageInv'
    BY DEF MessageInv, RunInv
  <2> QED
    BY <2>1, <2>2, <2>3, <2>4, <2>5
<1>8. ASSUME NEW i \in Steps, TakeResult(i) PROVE IInv'
  <2> USE <1>0, <1>8 DEF TakeResult, Unfinished, Last, Settled, ErrorToJS, IInv, TypeOK
  <2>1. ReplayAgrees' /\ ~stray'
    BY DEF ReplayAgrees, StepInv
  <2>2. RunInv'
    BY DEF RunInv
  <2>3. StepInv'
    BY DEF StepInv, RunInv, Last, Attempts, Settled
  <2>4. AttemptInv'
    <3> SUFFICES ASSUME NEW j \in Steps, NEW n \in 1 .. MaxAttempts
                 PROVE  /\ fns'[<<j, n>>] = "run" => n = tries'[j] /\ j \in waiting'
                        /\ HasClass /\ fns'[<<j, n>>] = "nonretryable" =>
                             n = tries'[j] /\ j \in waiting' \union failed'
      BY DEF AttemptInv
    <3>1. fns'[<<j, n>>] = fns[<<j, n>>] /\ tries'[j] = tries[j]
      OBVIOUS
    <3>2. CASE j # i
      BY <3>1, <3>2 DEF AttemptInv
    <3>3. CASE j = i
      <4>1. n = tries[i] => fns[<<j, n>>] # "run"
        BY <3>3
      <4>2. HasClass /\ n = tries[i] /\ fns[<<j, n>>] = "nonretryable" => i \in failed'
        BY <3>3
      <4> QED
        BY <3>1, <3>3, <4>1, <4>2 DEF AttemptInv
    <3> QED
      BY <3>2, <3>3
  <2>5. MessageInv'
    BY DEF MessageInv, RunInv
  <2> QED
    BY <2>1, <2>2, <2>3, <2>4, <2>5
<1>9. ASSUME NEW i \in Steps, GiveUp(i) PROVE IInv'
  <2> USE <1>0, <1>9 DEF GiveUp, Unfinished, Last, IInv, TypeOK
  <2>1. ReplayAgrees' /\ ~stray'
    BY DEF ReplayAgrees, StepInv
  <2>2. RunInv'
    BY DEF RunInv
  <2>3. StepInv'
    BY DEF StepInv, RunInv, Last, Attempts, Settled
  <2>4. AttemptInv'
    BY AttemptKept
  <2>5. MessageInv'
    BY DEF MessageInv, RunInv
  <2> QED
    BY <2>1, <2>2, <2>3, <2>4, <2>5
<1>10. ASSUME NEW i \in Steps, WaitOver(i) PROVE IInv'
  <2> USE <1>0, <1>10 DEF WaitOver, Unfinished, Last, IInv, TypeOK
  <2>1. ReplayAgrees' /\ ~stray'
    BY DEF ReplayAgrees, StepInv
  <2>2. RunInv'
    BY DEF RunInv
  <2>3. StepInv'
    BY DEF StepInv, RunInv, Last, Attempts, Settled
  <2>4. AttemptInv'
    BY AttemptKept
  <2>5. MessageInv'
    BY DEF MessageInv, RunInv
  <2> QED
    BY <2>1, <2>2, <2>3, <2>4, <2>5
<1>11. ASSUME NEW i \in Steps, Replay(i) PROVE IInv'
  <2> USE <1>0, <1>11 DEF Replay, IInv, TypeOK
  <2>1. ReplayAgrees' /\ ~stray'
    BY DEF ReplayAgrees, StepInv
  <2>2. RunInv'
    BY DEF RunInv
  <2>3. StepInv'
    BY DEF StepInv, RunInv, Last, Attempts, Settled
  <2>4. AttemptInv'
    BY AttemptKept
  <2>5. MessageInv'
    BY DEF MessageInv, RunInv
  <2> QED
    BY <2>1, <2>2, <2>3, <2>4, <2>5
<1>12. ASSUME NEW i \in Steps, Abort(i) PROVE IInv'
  <2> USE <1>0, <1>12 DEF Abort, Last, IInv, TypeOK
  <2>1. ReplayAgrees' /\ ~stray'
    BY DEF ReplayAgrees, StepInv
  <2>2. RunInv'
    BY DEF RunInv
  <2>3. StepInv'
    BY DEF StepInv, RunInv, Last, Attempts, Settled
  <2>4. AttemptInv'
    <3> SUFFICES ASSUME NEW j \in Steps, NEW n \in 1 .. MaxAttempts
                 PROVE  /\ fns'[<<j, n>>] = "run" => n = tries'[j] /\ j \in waiting'
                        /\ HasClass /\ fns'[<<j, n>>] = "nonretryable" =>
                             n = tries'[j] /\ j \in waiting' \union failed'
      BY DEF AttemptInv
    <3>1. <<j, n>> \in Attempts /\ tries'[j] = tries[j] /\ failed' = failed
      BY DEF Attempts
    <3>2. CASE j # i
      <4>1. fns'[<<j, n>>] = fns[<<j, n>>] /\ (j \in waiting <=> j \in waiting')
        BY <3>1, <3>2
      <4> QED
        BY <3>1, <4>1 DEF AttemptInv
    <3>3. CASE j = i
      <4>1. n = tries[i] /\ i \in waiting => fns'[<<j, n>>] = "abandoned"
        BY <3>1, <3>3
      <4>2. n # tries[i] => fns'[<<j, n>>] = fns[<<j, n>>]
        BY <3>1, <3>3
      <4>3. i \notin waiting => fns' = fns
        OBVIOUS
      <4> QED
        BY <3>1, <3>3, <4>1, <4>2, <4>3 DEF AttemptInv
    <3> QED
      BY <3>2, <3>3
  <2>5. MessageInv'
    BY DEF MessageInv, RunInv
  <2> QED
    BY <2>1, <2>2, <2>3, <2>4, <2>5
<1>13. ASSUME Start PROVE IInv'
  <2> USE <1>0, <1>13 DEF Start, IInv, TypeOK
  <2>1. ReplayAgrees' /\ ~stray'
    BY DEF ReplayAgrees, StepInv
  <2>2. RunInv'
    BY DEF RunInv
  <2>3. StepInv'
    BY DEF StepInv, RunInv, Last, Attempts, Settled
  <2>4. AttemptInv'
    BY AttemptKept
  <2>5. MessageInv'
    BY DEF MessageInv, RunInv
  <2> QED
    BY <2>1, <2>2, <2>3, <2>4, <2>5
<1>14. ASSUME Settle PROVE IInv'
  <2> USE <1>0, <1>14 DEF Settle, NoMessage, IInv, TypeOK
  <2>1. ReplayAgrees' /\ ~stray'
    BY DEF ReplayAgrees, StepInv
  <2>2. RunInv'
    BY DEF RunInv
  <2>3. StepInv'
    BY DEF StepInv, RunInv, Last, Attempts, Settled
  <2>4. AttemptInv'
    BY AttemptKept
  <2>5. MessageInv'
    BY DEF MessageInv, RunInv
  <2> QED
    BY <2>1, <2>2, <2>3, <2>4, <2>5
<1>15. ASSUME NEW i \in Steps, TimesOut(i) PROVE IInv'
  <2> USE <1>0, <1>15 DEF TimesOut, Unfinished, Last, IInv, TypeOK
  <2>1. ReplayAgrees' /\ ~stray'
    BY DEF ReplayAgrees, StepInv
  <2>2. RunInv'
    BY DEF RunInv
  <2>3. StepInv'
    BY DEF StepInv, RunInv, Last, Attempts, Settled
  <2>4. AttemptInv'
    <3> SUFFICES ASSUME NEW j \in Steps, NEW n \in 1 .. MaxAttempts
                 PROVE  /\ fns'[<<j, n>>] = "run" => n = tries'[j] /\ j \in waiting'
                        /\ HasClass /\ fns'[<<j, n>>] = "nonretryable" =>
                             n = tries'[j] /\ j \in waiting' \union failed'
      BY DEF AttemptInv
    <3>1. <<j, n>> \in Attempts /\ tries'[j] = tries[j] /\ failed' = failed
      BY DEF Attempts
    <3>2. CASE j # i
      <4>1. fns'[<<j, n>>] = fns[<<j, n>>] /\ (j \in waiting <=> j \in waiting')
        BY <3>1, <3>2
      <4> QED
        BY <3>1, <4>1 DEF AttemptInv
    <3>3. CASE j = i
      <4>1. n = tries[i] /\ i \in waiting => fns'[<<j, n>>] = "abandoned"
        BY <3>1, <3>3
      <4>2. n # tries[i] => fns'[<<j, n>>] = fns[<<j, n>>]
        BY <3>1, <3>3
      <4>3. i \notin waiting => fns' = fns
        OBVIOUS
      <4> QED
        BY <3>1, <3>3, <4>1, <4>2, <4>3 DEF AttemptInv
    <3> QED
      BY <3>2, <3>3
  <2>5. MessageInv'
    BY DEF MessageInv, RunInv
  <2> QED
    BY <2>1, <2>2, <2>3, <2>4, <2>5
<1>16. ASSUME Pause PROVE IInv'
  <2> USE <1>0, <1>16 DEF Pause, IInv, TypeOK
  <2>1. ReplayAgrees' /\ ~stray'
    BY DEF ReplayAgrees, StepInv
  <2>2. RunInv'
    BY DEF RunInv
  <2>3. StepInv'
    BY DEF StepInv, RunInv, Last, Attempts, Settled
  <2>4. AttemptInv'
    BY AttemptKept
  <2>5. MessageInv'
    BY DEF MessageInv, RunInv
  <2> QED
    BY <2>1, <2>2, <2>3, <2>4, <2>5
<1>17. ASSUME Resume PROVE IInv'
  <2> USE <1>0, <1>17 DEF Resume, IInv, TypeOK
  <2>1. ReplayAgrees' /\ ~stray'
    BY DEF ReplayAgrees, StepInv
  <2>2. RunInv'
    BY DEF RunInv
  <2>3. StepInv'
    BY DEF StepInv, RunInv, Last, Attempts, Settled
  <2>4. AttemptInv'
    BY AttemptKept
  <2>5. MessageInv'
    BY DEF MessageInv, RunInv
  <2> QED
    BY <2>1, <2>2, <2>3, <2>4, <2>5
<1>18. ASSUME Crash PROVE IInv'
  <2> USE <1>0, <1>18 DEF Crash, NoMessage, IInv, TypeOK
  <2>1. ReplayAgrees' /\ ~stray'
    BY DEF ReplayAgrees, StepInv
  <2>2. RunInv'
    BY DEF RunInv
  <2>3. StepInv'
    BY DEF StepInv, RunInv, Last, Attempts, Settled
  <2>4. AttemptInv'
    BY DEF AttemptInv, StepInv, RunInv, Attempts, Last
  <2>5. MessageInv'
    BY DEF MessageInv, RunInv
  <2> QED
    BY <2>1, <2>2, <2>3, <2>4, <2>5
<1>19. ASSUME UNCHANGED vars PROVE IInv'
  BY <1>19 DEF vars, IInv, TypeOK, ReplayAgrees, RunInv, StepInv, AttemptInv, MessageInv, Last
<1> QED
  BY <1>1, <1>2, <1>3, <1>4, <1>5, <1>6, <1>7, <1>8, <1>9, <1>10, <1>11, <1>12, <1>13, <1>14, <1>15, <1>16, <1>17, <1>18, <1>19 DEF Next, GoStep, EngineStep

\* The invariant of every reachable state.
THEOREM Invariance == Spec => []IInv
<1>1. Init => IInv
  BY InitInv
<1>2. IInv /\ [Next]_vars => IInv'
  BY NextInv
<1> QED
  BY <1>1, <1>2, PTL DEF Spec

\* A step has one outcome in all the runs of an instance: the result that a
\* Runner has seen is the one every later run sees, and no attempt follows an
\* error wrapped with NonRetryable.
THEOREM StepsHaveOneOutcome == Spec => []OutcomesStay
<1>1. IInv => OutcomesStay
  BY DEF IInv, AttemptInv, OutcomesStay, PermanentStays
<1> QED
  BY <1>1, Invariance, PTL

\* The engine never calls the callback of a step after Do has released it.
THEOREM ReleasedIsSilent == Spec => []NoReleasedCall
<1>1. IInv => NoReleasedCall
  BY DEF IInv, NoReleasedCall
<1> QED
  BY <1>1, Invariance, PTL

\* A step the Runner waits for is never left to nobody, in whatever order
\* attempts time out, fail and are lost.
THEOREM NoStepIsOrphaned == Spec => []NothingOrphaned
<1>1. IInv => NothingOrphaned
  BY DEF IInv, StepInv, NothingOrphaned
<1> QED
  BY <1>1, Invariance, PTL

-----------------------------------------------------------------------------
(* Pauses.                                                                 *)

\* Only Settle, Crash and Resume move an instance whose run is over or lost.
LEMMA StatusMoves ==
  ASSUME [Next]_vars, status' # status \/ (run' # run /\ run' = "none")
  PROVE  Settle \/ Crash \/ Resume \/ Start
<1> SUFFICES ASSUME ~Settle, ~Crash, ~Resume, ~Start
             PROVE  status' = status /\ (run' = run \/ run' # "none")
  OBVIOUS
<1>1. CASE GoStep
  BY <1>1 DEF GoStep, CallStep, AwaitReturns, Handle, FnReturns, RunnerFails,
              RunnerReturns, engineVars
<1>2. CASE \E i \in Steps : CallFn(i) \/ TakeResult(i) \/ GiveUp(i) \/ WaitOver(i)
                            \/ Replay(i) \/ Abort(i) \/ TimesOut(i)
  BY <1>2 DEF CallFn, TakeResult, GiveUp, WaitOver, Replay, Abort, TimesOut, engineVars
<1>3. CASE Pause \/ UNCHANGED vars
  BY <1>3 DEF Pause, vars, engineVars
<1> QED
  BY <1>1, <1>2, <1>3 DEF Next, EngineStep

\* Whatever the Runner makes of the errors of its steps, an instance is paused
\* only when the engine was ending its run.
THEOREM PausesAreReal == Spec => PauseIsReal
<1>1. IInv /\ [Next]_vars => [status = "running" /\ status' = "paused" => aborting]_vars
  <2> SUFFICES ASSUME IInv, [Next]_vars, status = "running", status' = "paused"
               PROVE  aborting
    OBVIOUS
  <2>1. CASE Settle
    BY <2>1 DEF Settle, IInv, MessageInv
  <2>2. CASE Crash
    BY <2>2 DEF Crash
  <2>3. CASE Resume \/ Start
    BY <2>3 DEF Resume, Start
  <2> QED
    BY <2>1, <2>2, <2>3, StatusMoves
<1> QED
  BY <1>1, Invariance, PTL DEF Spec, PauseIsReal

\* A pause reaches the engine as one, and nothing else does, provided that the
\* Runner returns the error of the step and at most puts text before it
\* (fmt.Errorf with %w at its end).
THEOREM PausesAreKept == ASSUME Wraps \subseteq {"before"} PROVE Spec => AbortKept
<1>1. IInv /\ [Next]_vars =>
        [run = "rejected" /\ message.abort /\ run' = "none" => status' = "paused"]_vars
  <2> SUFFICES ASSUME IInv, [Next]_vars, run = "rejected", message.abort, run' = "none"
               PROVE  status' = "paused"
    OBVIOUS
  <2>1. aborting /\ status = "running" /\ ~message.before /\ ~message.after
    BY DEF IInv, MessageInv, RunInv
  <2>2. CASE Settle
    BY <2>1, <2>2 DEF Settle
  <2>3. CASE Crash
    BY <2>1, <2>3 DEF Crash
  <2>4. CASE Resume \/ Start
    BY <2>1, <2>4 DEF Resume, Start
  <2> QED
    BY <2>2, <2>3, <2>4, StatusMoves
<1> QED
  BY <1>1, Invariance, PausesAreReal, PTL DEF Spec, AbortKept, PauseIsKept
=============================================================================
