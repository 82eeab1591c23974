-------------------------- MODULE GoInstanceProofs --------------------------
(***************************************************************************)
(* Type correctness of GoInstance; for a program whose body is never       *)
(* closed under a running handler, the inductive invariant IInv; and       *)
(* DetachedInv for one whose handler may outlive its body.  From both      *)
(* follows that the program exits with nothing suspended in JavaScript     *)
(* and its tasks done, from the first also that no callback is due and the *)
(* handler is done.  AliveInv, which needs neither restriction, says who   *)
(* waits for whom: no goroutine waits for one that waits for it.  The      *)
(* theorems hold for every set of tasks and every number of waits.         *)
(***************************************************************************)
EXTENDS GoInstanceInv, TLAPS, SequenceTheorems

USE DEF Goroutines, User

-----------------------------------------------------------------------------
(* Sequences of frames.                                                    *)

\* What is left of a non-empty sequence without its last element.
LEMMA Pop ==
  ASSUME NEW S, NEW s \in Seq(S), s # <<>>
  PROVE  /\ Len(s) \in Nat \ {0}
         /\ s[Len(s)] \in S
         /\ SubSeq(s, 1, Len(s) - 1) \in Seq(S)
         /\ Len(SubSeq(s, 1, Len(s) - 1)) = Len(s) - 1
         /\ \A i \in 1..Len(s) - 1 : SubSeq(s, 1, Len(s) - 1)[i] = s[i]
<1>1. Len(s) \in Nat \ {0} /\ s[Len(s)] \in S
  BY EmptySeq, LenProperties, ElementOfSeq
<1>2. PICK n \in Nat : n = Len(s) - 1
  BY <1>1
<1>3. \A i \in 1..n : s[i] \in S
  BY <1>1, <1>2, ElementOfSeq
<1>4. /\ SubSeq(s, 1, n) \in Seq(S)
      /\ Len(SubSeq(s, 1, n)) = IF 1 <= n THEN n - 1 + 1 ELSE 0
      /\ \A i \in 1..n - 1 + 1 : SubSeq(s, 1, n)[i] = s[1 + i - 1]
  BY <1>3, SubSeqProperties
<1>5. n - 1 + 1 = n /\ \A i \in 1..n : 1 + i - 1 = i
  OBVIOUS
<1>6. \A i \in 1..n : SubSeq(s, 1, n)[i] = s[i]
  BY <1>4, <1>5
<1>7. Len(SubSeq(s, 1, n)) = n
  BY <1>4
<1> QED
  BY <1>1, <1>2, <1>4, <1>6, <1>7

\* The callers are goroutines of the program, or the js.Func wrapper.
LEMMA FrameTypes ==
  ASSUME TypeOK
  PROVE  /\ Len(frames) \in Nat
         /\ \A i \in 1..Len(frames) : frames[i] \in User \cup {"cb"}
         /\ Len(frames) = 0 <=> frames = <<>>
  BY LenProperties, ElementOfSeq, EmptySeq DEF TypeOK

-----------------------------------------------------------------------------
(* Type correctness.                                                       *)

\* Every step keeps the types.
LEMMA Typing == TypeOK /\ [Next]_vars => TypeOK'
<1> SUFFICES ASSUME TypeOK, [Next]_vars PROVE TypeOK'
  OBVIOUS
<1> USE MaxStepsAssumption, FlagsAssumption DEF TypeOK, At, Goto, bodyVars, lifeVars, Labels, Callbacks
<1>1. ASSUME Return PROVE TypeOK'
  <2>1. frames' \in Seq(User \cup {"cb"})
    <3>1. CASE frames = <<>>
      BY <1>1, <3>1 DEF Return
    <3>2. CASE frames # <<>>
      <4>1. frames' = SubSeq(frames, 1, Len(frames) - 1)
        BY <1>1, <3>2 DEF Return
      <4> QED
        BY <3>2, <4>1, Pop
    <3> QED
      BY <3>1, <3>2
  <2>2. pc' \in [Goroutines -> Labels] /\ inGo' \in BOOLEAN
    <3>1. CASE frames = <<>>
      BY <1>1, <3>1 DEF Return
    <3>2. CASE frames # <<>>
      <4>1. pc' = pc \/ pc' = [pc EXCEPT ![frames[Len(frames)]] = "run"]
        BY <1>1, <3>2 DEF Return
      <4> QED
        BY <1>1, <3>2, <4>1 DEF Return
    <3> QED
      BY <3>1, <3>2
  <2> QED
    BY <1>1, <2>1, <2>2 DEF Return
<1>2. ASSUME MainServe PROVE TypeOK'
  BY <1>2 DEF MainServe
<1>3. ASSUME MainExit PROVE TypeOK'
  BY <1>3 DEF MainExit, Exit
<1>4. ASSUME WaiterRecv PROVE TypeOK'
  BY <1>4 DEF WaiterRecv
<1>5. ASSUME WaiterReleased PROVE TypeOK'
  BY <1>5 DEF WaiterReleased
<1>6. ASSUME ReqReject PROVE TypeOK'
  BY <1>6 DEF ReqReject
<1>7. ASSUME ReqServe PROVE TypeOK'
  BY <1>7, ZenonT(60) DEF ReqServe
<1>8. ASSUME ReqRespond PROVE TypeOK'
  BY <1>8 DEF ReqRespond, CloseBody, ScheduleAfterTurn
<1>9. ASSUME HandlerWrite PROVE TypeOK'
  BY <1>9 DEF HandlerWrite, Commit, WriteKinds
<1>10. ASSUME HandlerWriteFails PROVE TypeOK'
  BY <1>10 DEF HandlerWriteFails
<1>11. ASSUME HandlerJoin PROVE TypeOK'
  BY <1>11 DEF HandlerJoin
<1>12. ASSUME HandlerJoined PROVE TypeOK'
  BY <1>12 DEF HandlerJoined
<1>13. ASSUME HandlerReturn PROVE TypeOK'
  BY <1>13 DEF HandlerReturn, Commit
<1>14. ASSUME PullStart PROVE TypeOK'
  <2>1. pc' \in [Goroutines -> Labels]
    BY <1>14 DEF PullStart
  <2>2. events' \subseteq Callbacks
    BY <1>14 DEF PullStart
  <2> QED
    BY <1>14, <2>1, <2>2 DEF PullStart
<1>15. ASSUME PullData PROVE TypeOK'
  BY <1>15, ZenonT(60) DEF PullData
<1>16. ASSUME PullEnd PROVE TypeOK'
  BY <1>16 DEF PullEnd, CloseBody, ScheduleAfterTurn
<1>17. ASSUME PullClosed PROVE TypeOK'
  BY <1>17 DEF PullClosed
<1>18. ASSUME CancelRun PROVE TypeOK'
  BY <1>18 DEF CancelRun, CloseBody, ScheduleAfterTurn
<1>19. ASSUME FixedAwait PROVE TypeOK'
  <2>1. pc' \in [Goroutines -> Labels]
    BY <1>19 DEF FixedAwait
  <2>2. events' \subseteq Callbacks
    BY <1>19 DEF FixedAwait
  <2> QED
    BY <1>19, <2>1, <2>2 DEF FixedAwait
<1>20. ASSUME FixedReady PROVE TypeOK'
  BY <1>20 DEF FixedReady
<1>21. ASSUME FixedData PROVE TypeOK'
  BY <1>21 DEF FixedData
<1>22. ASSUME FixedClose PROVE TypeOK'
  BY <1>22 DEF FixedClose, CloseBody, ScheduleAfterTurn
<1>23. ASSUME NEW g \in User, UserAwait(g) PROVE TypeOK'
  BY <1>23 DEF UserAwait
<1>24. ASSUME NEW g \in User, NEW t \in Tasks, WaitUntil(g, t) PROVE TypeOK'
  <2>1. pc' \in [Goroutines -> Labels]
    BY <1>24 DEF WaitUntil
  <2>2. frames' \in Seq(User \cup {"cb"})
    BY <1>24 DEF WaitUntil
  <2>3. wg' \subseteq Tasks
    BY <1>24 DEF WaitUntil
  <2> QED
    BY <1>24, <2>1, <2>2, <2>3, ZenonT(60) DEF WaitUntil
<1>25. ASSUME NEW t \in Tasks, TaskReturn(t) PROVE TypeOK'
  BY <1>25, ZenonT(60) DEF TaskReturn
<1>26. ASSUME JsHandleRequest PROVE TypeOK'
  BY <1>26 DEF JsHandleRequest, DeliverPromise, Deliver
<1>27. ASSUME JsPull PROVE TypeOK'
  BY <1>27 DEF JsPull, DeliverPromise, Deliver
<1>28. ASSUME JsReadRaw PROVE TypeOK'
  BY <1>28 DEF JsReadRaw
<1>29. ASSUME JsDone PROVE TypeOK'
  BY <1>29 DEF JsDone, Deliver
<1>30. ASSUME NEW g \in User \cup {"fixed"}, JsWake(g) PROVE TypeOK'
  BY <1>30 DEF JsWake, Deliver
<1>31. ASSUME JsCancel PROVE TypeOK'
  BY <1>31 DEF JsCancel, Deliver
<1>32. ASSUME NEW e \in events, LateEvent(e) PROVE TypeOK'
  BY <1>32 DEF LateEvent
<1>33. CASE UNCHANGED vars
  BY <1>33 DEF vars
<1> QED
  BY <1>1, <1>2, <1>3, <1>4, <1>5, <1>6, <1>7, <1>8, <1>9, <1>10,
     <1>11, <1>12, <1>13, <1>14, <1>15, <1>16, <1>17, <1>18, <1>19,
     <1>20, <1>21, <1>22, <1>23, <1>24, <1>25, <1>26, <1>27, <1>28,
     <1>29, <1>30, <1>31, <1>32, <1>33
     DEF Next, GoStep, JsStep

-----------------------------------------------------------------------------
(* The invariant is inductive.                                             *)

USE TasksAssumption

\* With doneCh closed and no task counted, nobody is suspended.
LEMMA NoCaller ==
  ASSUME IInv, doneCh, wg = {}
  PROVE  frames = <<>>
  BY FrameTypes DEF IInv, FramesInv, TasksInv, DoneInv

\* An exited program has no callback due.
LEMMA QuietExit ==
  ASSUME IInv, exited
  PROVE  events = {}
<1> SUFFICES ASSUME NEW e \in events PROVE FALSE
  OBVIOUS
<1>1. e \in Callbacks
  BY DEF IInv, TypeOK
<1>2. doneCh /\ bodyClosed /\ wg = {} /\ pc["main"] = "done"
  BY DEF IInv, DoneInv
<1>3. CASE e \in {"handleRequest", "pull", "cancel", "done"}
  BY <1>2, <1>3 DEF IInv, RequestInv, ClosedInv, DoneInv
<1>4. CASE e \in {"main", "handler", "fixed"}
  BY <1>2, <1>4 DEF IInv, ClosedInv, DoneInv
<1>5. CASE e \in Tasks
  BY <1>2, <1>5 DEF IInv, TasksInv, DoneInv
<1> QED
  BY <1>1, <1>3, <1>4, <1>5 DEF Callbacks

\* A step that wakes no suspended caller keeps the frames' part.
LEMMA FramesKept ==
  ASSUME TypeOK, FramesInv, UNCHANGED <<frames, inGo>>,
         \A g \in User : pc[g] = "inJS" => pc'[g] = "inJS"
  PROVE  FramesInv'
<1>1. \A i \in 1..Len(frames) : frames[i] # "cb" => frames[i] \in User
  BY FrameTypes
<1>2. frames' = frames /\ inGo' = inGo
  OBVIOUS
<1>3. \A i \in 1..Len(frames) : frames[i] # "cb" => pc'[frames[i]] = "inJS"
  BY <1>1 DEF FramesInv
<1> QED
  BY <1>2, <1>3 DEF FramesInv

\* A step that leaves the tasks, the waiter and doneCh alone keeps the tasks' part.
LEMMA TasksKept ==
  ASSUME TypeOK, TasksInv, UNCHANGED <<wg, doneCh>>,
         \A g \in Tasks \cup {"waiter"} : pc'[g] = pc[g]
  PROVE  TasksInv'
  BY DEF TasksInv

\* Go comes to rest: the turn is over, or the innermost caller goes on.
LEMMA ReturnStep ==
  ASSUME IInv, TypeOK', Return
  PROVE  IInv'
<1> USE DEF IInv, Return, bodyVars, lifeVars
<1>1. CASE frames = <<>>
  BY <1>1 DEF TypeOK, FramesInv, TasksInv, RequestInv, ReaderInv, ClosedInv, DoneInv
<1>2. CASE frames # <<>>
  <2> DEFINE n == Len(frames)
             g == frames[n]
  <2>1. /\ n \in Nat \ {0} /\ g \in User \cup {"cb"}
        /\ Len(frames') = n - 1
        /\ \A i \in 1..n - 1 : frames'[i] = frames[i]
        /\ UNCHANGED <<inGo, events, promise, committed, kind, writerClosed,
                       bodyClosed, doneCh, allDoneCh, wg, exited, exitFrames, late>>
    BY <1>2, Pop DEF TypeOK
  <2>2. g # "cb" => pc[g] = "inJS" /\ g # "main"
    BY <2>1 DEF FramesInv
  <2>3. \A h \in Goroutines : pc'[h] = IF h = g THEN "run" ELSE pc[h]
    BY <1>2, <2>1 DEF TypeOK
  <2> HIDE DEF Return, g, n
  <2>4. FramesInv'
    <3>1. \A i \in 1..n - 1 : frames[i] # "cb" => frames[i] # g
      BY <2>1, <2>2 DEF FramesInv, g, n
    <3>2. \A i \in 1..n - 1 : i \in 1..n
      BY <2>1
    <3>3. inGo
      BY <1>2 DEF FramesInv
    <3>4. \A i \in 1..n : frames[i] \in User \cup {"cb"}
      BY FrameTypes DEF n
    <3>5. \A i \in 1..n - 1 : frames'[i] # "main"
      BY <2>1, <3>2 DEF FramesInv, n
    <3>6. \A i, j \in 1..n - 1 :
            frames'[i] = frames'[j] /\ frames'[i] # "cb" => i = j
      BY <2>1, <3>2 DEF FramesInv, n
    <3>7. \A i \in 1..n - 1 : frames'[i] # "cb" => pc'[frames'[i]] = "inJS"
      <4> SUFFICES ASSUME NEW i \in 1..n - 1, frames[i] # "cb"
                   PROVE  pc'[frames[i]] = "inJS"
        BY <2>1
      <4>1. i \in 1..n /\ frames[i] \in Goroutines /\ frames[i] # g
        BY <3>1, <3>2, <3>4
      <4>2. pc[frames[i]] = "inJS"
        BY <4>1 DEF FramesInv, n
      <4> QED
        BY <2>3, <4>1, <4>2
    <3> QED
      BY <2>1, <3>3, <3>5, <3>6, <3>7 DEF FramesInv
  <2>5. TasksInv'
    BY <2>1, <2>2, <2>3 DEF TasksInv
  <2>6. RequestInv' /\ ReaderInv' /\ ClosedInv'
    BY <2>1, <2>2, <2>3 DEF RequestInv, ReaderInv, ClosedInv
  <2>7. DoneInv'
    <3>1. \A i \in 1..n - 1 : i \in 1..n
      BY <2>1
    <3> QED
      BY <1>2, <2>1, <2>2, <2>3, <3>1 DEF DoneInv, n
  <2> QED
    BY <2>4, <2>5, <2>6, <2>7
<1> QED
  BY <1>1, <1>2

\* A goroutine that calls new Promise gets a frame on top.
LEMMA FramesPushed ==
  ASSUME TypeOK, FramesInv, inGo, inGo', NEW g \in User \ {"main"}, frames' = Append(frames, g),
         pc[g] # "inJS",
         \A h \in User : h = g \/ pc[h] = "inJS" => pc'[h] = "inJS"
  PROVE  FramesInv'
<1>1. /\ Len(frames) \in Nat /\ Len(frames') = Len(frames) + 1
      /\ frames'[Len(frames) + 1] = g
      /\ \A i \in 1..Len(frames) : frames'[i] = frames[i]
  BY FrameTypes DEF TypeOK
<1>2. \A i \in 1..Len(frames) : frames[i] # g /\ frames[i] \in User \cup {"cb"}
  BY FrameTypes DEF FramesInv
<1>3. \A i \in 1..Len(frames') : i \in 1..Len(frames) \/ i = Len(frames) + 1
  BY <1>1
<1>4. \A i \in 1..Len(frames') : frames'[i] # "main"
  BY <1>1, <1>3 DEF FramesInv
<1>5. \A i \in 1..Len(frames') : frames'[i] # "cb" => pc'[frames'[i]] = "inJS"
  <2> SUFFICES ASSUME NEW i \in 1..Len(frames'), frames'[i] # "cb"
               PROVE  pc'[frames'[i]] = "inJS"
    OBVIOUS
  <2>1. CASE i = Len(frames) + 1
    BY <1>1, <2>1
  <2>2. CASE i \in 1..Len(frames)
    <3>1. frames'[i] = frames[i] /\ frames[i] \in User /\ pc[frames[i]] = "inJS"
      BY <1>1, <1>2, <2>2 DEF FramesInv
    <3> QED
      BY <3>1
  <2> QED
    BY <1>3, <2>1, <2>2
<1>6. \A i, j \in 1..Len(frames') : frames'[i] = frames'[j] /\ frames'[i] # "cb" => i = j
  BY <1>1, <1>2, <1>3 DEF FramesInv
<1> QED
  BY <1>4, <1>5, <1>6 DEF FramesInv

\* A task registered before doneCh is closed, or by a task that is counted.
LEMMA WaitUntilStep ==
  ASSUME IInv, TypeOK', Detach = {}, NEW g \in User, NEW t \in Tasks, WaitUntil(g, t)
  PROVE  IInv'
<1> USE DEF IInv, WaitUntil, At, bodyVars
<1>1. /\ g \in Goroutines /\ t \in Goroutines /\ g # t
      /\ \A h \in Goroutines : pc'[h] = IF h = g THEN "inJS" ELSE IF h = t THEN "run" ELSE pc[h]
  BY DEF TypeOK
<1>2. /\ Len(frames) \in Nat /\ Len(frames') = Len(frames) + 1
      /\ frames'[Len(frames) + 1] = g
      /\ \A i \in 1..Len(frames) : frames'[i] = frames[i]
  BY FrameTypes DEF TypeOK
<1>3. FramesInv'
  <2>1. \A h \in User : h = g \/ pc[h] = "inJS" => pc'[h] = "inJS"
    BY <1>1
  <2>2. g \in User \ {"main"} /\ frames' = Append(frames, g) /\ inGo /\ inGo' /\ pc[g] # "inJS"
    OBVIOUS
  <2> QED
    BY <2>1, <2>2, FramesPushed
<1>4. TasksInv'
  <2>1. g \in Tasks => g \in wg
    BY DEF TasksInv
  <2>2. pc["waiter"] # "released"
    BY <2>1 DEF TasksInv, DoneInv, ClosedInv
  <2>3. pc'["waiter"] = pc["waiter"]
    BY <1>1
  <2>4. \A u \in Tasks : u \in wg' <=> pc'[u] \notin {"none", "done"}
    <3> SUFFICES ASSUME NEW u \in Tasks
                 PROVE  u \in wg' <=> pc'[u] \notin {"none", "done"}
      OBVIOUS
    <3>1. /\ u \in wg' <=> u \in wg \/ u = t
          /\ pc'[u] = IF u = g THEN "inJS" ELSE IF u = t THEN "run" ELSE pc[u]
          /\ u \in wg <=> pc[u] \notin {"none", "done"}
      BY <1>1 DEF TasksInv
    <3> QED
      BY <1>1, <2>1, <3>1
  <2> QED
    BY <2>2, <2>3, <2>4 DEF TasksInv
<1>5. RequestInv' /\ ReaderInv' /\ ClosedInv'
  <2>1. \A h \in Goroutines \ User : pc'[h] = pc[h]
    BY <1>1
  <2>2. pc'["main"] = pc["main"]
    BY <1>1
  <2>3. \/ pc'["handler"] = pc["handler"]
        \/ pc["handler"] = "run" /\ pc'["handler"] = "inJS"
    BY <1>1
  <2> QED
    BY <2>1, <2>2, <2>3, ZenonT(60) DEF RequestInv, ReaderInv, ClosedInv
<1>6. DoneInv'
  <2>1. doneCh => g \in Tasks /\ g \in wg
    BY DEF DoneInv, ClosedInv, TasksInv, TypeOK
  <2>2. \A i \in 1..Len(frames') : i \in 1..Len(frames) \/ i = Len(frames) + 1
    BY <1>2
  <2> QED
    BY <1>1, <1>2, <2>1, <2>2 DEF DoneInv
<1> QED
  BY <1>3, <1>4, <1>5, <1>6

\* The handler's goroutine starts.
LEMMA ReqServeStep ==
  ASSUME IInv, TypeOK', ReqServe PROVE IInv'
<1> USE DEF IInv, TypeOK, At, ReqServe, bodyVars, lifeVars
<1>1. FramesInv'
  BY FramesKept DEF RequestInv
<1> QED
  BY <1>1 DEF TasksInv, RequestInv, ReaderInv, ClosedInv, DoneInv

\* A pull primes the stream, or goes to read.
LEMMA PullStartStep ==
  ASSUME IInv, TypeOK', PullStart PROVE IInv'
<1> USE DEF IInv, TypeOK, At, Goto, PullStart, bodyVars, lifeVars
<1>1. FramesInv' /\ TasksInv'
  BY FramesKept, TasksKept, ZenonT(60)
<1> QED
  BY <1>1 DEF RequestInv, ReaderInv, ClosedInv, DoneInv

\* The fixed-length copier waits for its writer.
LEMMA FixedAwaitStep ==
  ASSUME IInv, TypeOK', FixedAwait PROVE IInv'
<1> USE DEF IInv, TypeOK, At, Goto, FixedAwait, bodyVars, lifeVars
<1>1. FramesInv' /\ TasksInv'
  BY FramesKept, TasksKept
<1> QED
  BY <1>1 DEF RequestInv, ReaderInv, ClosedInv, DoneInv

\* The Response is made, and starts whoever reads its body.
LEMMA ReqRespondStep ==
  ASSUME IInv, TypeOK', Detach = {}, ReqRespond PROVE IInv'
<1> USE DEF IInv, TypeOK, At, Goto, ReqRespond, bodyVars, lifeVars, CloseBody, ScheduleAfterTurn
<1>1. FramesInv' /\ TasksInv'
  BY FramesKept, TasksKept
<1>2. RequestInv' /\ ClosedInv' /\ ReaderInv'
  <2>1. RequestInv'
    BY SMTT(30) DEF RequestInv
  <2>2. ReaderInv'
    BY DEF RequestInv, ReaderInv
  <2>3. ClosedInv'
    BY DEF RequestInv, ReaderInv, ClosedInv
  <2> QED
    BY <2>1, <2>2, <2>3
<1>3. ~bodyClosed /\ ~doneCh /\ "done" \notin events
  BY DEF RequestInv, ClosedInv, DoneInv
<1>4. \A g \in User \cup {"fixed"} : g \in events' => g \in events
  OBVIOUS
<1>5. DoneInv'
  BY <1>3, <1>4 DEF DoneInv, ReaderInv, RequestInv
<1> QED
  BY <1>1, <1>2, <1>5

\* No callback comes after the exit.
LEMMA LateEventStep ==
  ASSUME IInv, NEW e \in events, LateEvent(e)
  PROVE  IInv'
  BY QuietExit DEF LateEvent

\* Every step keeps the invariant.
LEMMA Inductive ==
  ASSUME Detach = {}, IInv, [Next]_vars
  PROVE  IInv'
<1>0. TypeOK'
  BY Typing DEF IInv
<1> USE <1>0 DEF IInv, TypeOK, FramesInv, TasksInv, RequestInv, ReaderInv,
                 ClosedInv, DoneInv, At, Goto, bodyVars, lifeVars
<1>1. ASSUME MainServe PROVE IInv'
  BY <1>1 DEF MainServe
<1>2. ASSUME MainExit PROVE IInv'
  BY <1>2 DEF MainExit, Exit
<1>3. ASSUME WaiterRecv PROVE IInv'
  BY <1>3, NoCaller DEF WaiterRecv
<1>4. ASSUME WaiterReleased PROVE IInv'
  BY <1>4, SMTT(30) DEF WaiterReleased
<1>5. ASSUME ReqReject PROVE IInv'
  BY <1>5 DEF ReqReject
<1>6. ASSUME HandlerWrite PROVE IInv'
  BY <1>6 DEF HandlerWrite, Commit, WriteKinds
<1>7. ASSUME HandlerWriteFails PROVE IInv'
  BY <1>7 DEF HandlerWriteFails
<1>8. ASSUME HandlerJoin PROVE IInv'
  BY <1>8 DEF HandlerJoin
<1>9. ASSUME HandlerJoined PROVE IInv'
  BY <1>9 DEF HandlerJoined
<1>10. ASSUME HandlerReturn PROVE IInv'
  <2>1. FramesInv'
    BY <1>10, FramesKept DEF HandlerReturn
  <2>4. TasksInv'
    BY <1>10, TasksKept DEF HandlerReturn
  <2>2. RequestInv'
    BY <1>10, KindsAssumption DEF HandlerReturn, Commit
  <2>3. ReaderInv' /\ ClosedInv' /\ DoneInv'
    BY <1>10 DEF HandlerReturn, Commit
  <2> QED
    BY <2>1, <2>2, <2>3, <2>4
<1>11. ASSUME PullData PROVE IInv'
  <2>1. FramesInv'
    <3>1. \A g \in User : pc[g] = "inJS" => pc'[g] = "inJS"
      BY <1>11 DEF PullData
    <3> QED
      BY <1>11, <3>1, FramesKept DEF PullData
  <2>3. TasksInv'
    BY <1>11, TasksKept DEF PullData
  <2>2. RequestInv' /\ ReaderInv' /\ ClosedInv' /\ DoneInv'
    BY <1>11 DEF PullData
  <2> QED
    BY <2>1, <2>2, <2>3
<1>12. ASSUME PullEnd PROVE IInv'
  BY <1>12 DEF PullEnd, CloseBody, ScheduleAfterTurn
<1>13. ASSUME PullClosed PROVE IInv'
  BY <1>13 DEF PullClosed
<1>14. ASSUME CancelRun PROVE IInv'
  BY <1>14 DEF CancelRun, CloseBody, ScheduleAfterTurn
<1>15. ASSUME FixedReady PROVE IInv'
  BY <1>15 DEF FixedReady
<1>16. ASSUME FixedData PROVE IInv'
  BY <1>16 DEF FixedData
<1>17. ASSUME FixedClose PROVE IInv'
  BY <1>17 DEF FixedClose, CloseBody, ScheduleAfterTurn
<1>18. ASSUME NEW g \in User, UserAwait(g) PROVE IInv'
  BY <1>18 DEF UserAwait
<1>19. ASSUME NEW t \in Tasks, TaskReturn(t) PROVE IInv'
  <2>1. FramesInv'
    BY <1>19, FramesKept DEF TaskReturn
  <2>2. TasksInv'
    BY ZenonT(60), <1>19 DEF TaskReturn
  <2>3. RequestInv' /\ ReaderInv' /\ ClosedInv'
    BY <1>19 DEF TaskReturn
  <2>4. DoneInv'
    BY <1>19 DEF TaskReturn
  <2> QED
    BY <2>1, <2>2, <2>3, <2>4
<1>20. ASSUME JsHandleRequest PROVE IInv'
  BY <1>20 DEF JsHandleRequest, DeliverPromise, Deliver
<1>21. ASSUME JsPull PROVE IInv'
  BY <1>21 DEF JsPull, DeliverPromise, Deliver
<1>22. ASSUME JsReadRaw PROVE IInv'
  BY <1>22 DEF JsReadRaw
<1>23. ASSUME JsDone PROVE IInv'
  BY <1>23 DEF JsDone, Deliver
<1>24. ASSUME NEW g \in User \cup {"fixed"}, JsWake(g) PROVE IInv'
  BY <1>24 DEF JsWake, Deliver
<1>25. ASSUME JsCancel PROVE IInv'
  BY <1>25 DEF JsCancel, Deliver
<1>26. CASE UNCHANGED vars
  BY <1>26 DEF vars
<1> HIDE DEF IInv, TypeOK
<1> QED
  BY ReturnStep, WaitUntilStep, ReqServeStep, PullStartStep, FixedAwaitStep,
     ReqRespondStep, LateEventStep,
     <1>1, <1>2, <1>3, <1>4, <1>5, <1>6, <1>7, <1>8, <1>9,
     <1>10, <1>11, <1>12, <1>13, <1>14, <1>15, <1>16, <1>17, <1>18,
     <1>19, <1>20, <1>21, <1>22, <1>23, <1>24, <1>25, <1>26
     DEF Next, GoStep, JsStep

\* The initial state satisfies the invariant.
LEMMA Initial == Init => IInv
<1> SUFFICES ASSUME Init PROVE IInv
  OBVIOUS
<1>1. <<>> \in Seq(User \cup {"cb"}) /\ Len(<<>>) = 0
  BY EmptySeq
<1>2. TypeOK
  <2>1. pc \in [Goroutines -> Labels]
    BY DEF Init, Labels
  <2>2. steps \in [User -> 0..MaxSteps]
    BY MaxStepsAssumption DEF Init
  <2> QED
    BY <1>1, <2>1, <2>2 DEF Init, TypeOK
<1>3. FramesInv /\ TasksInv
  BY <1>1 DEF Init, FramesInv, TasksInv
<1>4. RequestInv /\ ReaderInv /\ ClosedInv /\ DoneInv
  BY <1>1 DEF Init, RequestInv, ReaderInv, ClosedInv, DoneInv
<1> QED
  BY <1>2, <1>3, <1>4 DEF IInv

-----------------------------------------------------------------------------
(* The invariant of a handler that may outlive its body is inductive.      *)

\* With JavaScript in a turn of its own every task that is counted awaits a
\* callback, and so does the handler, if it has not come to its end.
LEMMA AllAwait ==
  ASSUME DetachedInv, ~inGo
  PROVE  /\ \A t \in wg : t \in Tasks /\ pc[t] = "await"
         /\ bodyClosed => pc["handler"] \in {"none", "await", "done"}
         /\ pc["waiter"] \in {"recvDone", "wait"} /\ (pc["waiter"] = "recvDone" => ~doneCh)
<1>1. frames = <<>> /\ Len(frames) = 0
  BY FrameTypes DEF DetachedInv, FramesInv
<1>2. \A g \in User : pc[g] # "inJS"
  BY <1>1 DEF DetachedInv, TurnInv
<1>3. \A g \in Goroutines : ~CanRun(g)
  BY DEF DetachedInv, TurnInv, Idle
<1>4. \A g \in Goroutines : pc[g] \notin {"start", "run", "released", "close"}
  BY <1>3 DEF CanRun
<1>5. ASSUME NEW t \in wg PROVE t \in Tasks /\ pc[t] = "await"
  <2>1. t \in Tasks
    BY DEF DetachedInv, TypeOK
  <2>2. pc[t] \in {"none", "run", "await", "inJS", "done"} /\ pc[t] \notin {"none", "done"}
    BY <2>1 DEF DetachedInv, TasksInv, TurnInv
  <2> QED
    BY <1>2, <1>4, <2>1, <2>2
<1>6. bodyClosed => pc["handler"] # "write"
  BY <1>3 DEF CanRun
<1>7. bodyClosed => pc["handler"] \in {"none", "await", "done"}
  BY <1>2, <1>4, <1>6 DEF DetachedInv, TurnInv
<1>8. pc["waiter"] = "recvDone" => ~doneCh
  BY <1>3 DEF CanRun
<1>9. pc["waiter"] # "done"
  <2> SUFFICES ASSUME allDoneCh PROVE FALSE
    BY DEF DetachedInv, WaiterInv
  <2>1. pc["main"] \in {"recvAllDone", "done"}
    BY DEF DetachedInv, LastInv, ShutInv, AnswerInv
  <2>2. ~CanRun("main")
    BY <1>3
  <2>3. pc["main"] = "done"
    BY <2>1, <2>2 DEF CanRun
  <2> QED
    BY <2>3 DEF DetachedInv, LastInv, TurnInv
<1> QED
  BY <1>4, <1>5, <1>7, <1>8, <1>9 DEF DetachedInv, TasksInv

\* With doneCh closed and no task counted, neither a task nor the handler can
\* run, and nobody is suspended.
LEMMA NobodyRuns ==
  ASSUME DetachedInv, doneCh, wg = {}
  PROVE  /\ frames = <<>>
         /\ \A g \in User : pc[g] \notin {"run", "inJS"}
<1>1. \A t \in Tasks : pc[t] \in {"none", "done"}
  BY DEF DetachedInv, TasksInv
<1>2. pc["handler"] \notin {"run", "write", "inJS"}
  BY <1>1 DEF DetachedInv, LastInv
<1>3. pc["main"] \in {"recvAllDone", "done"}
  BY DEF DetachedInv, LastInv, ShutInv, AnswerInv
<1>4. \A g \in User : pc[g] \notin {"run", "inJS"}
  BY <1>1, <1>2, <1>3
<1>5. \A i \in 1..Len(frames) : FALSE
  BY <1>4, FrameTypes DEF DetachedInv, FramesInv, LastInv
<1> QED
  BY <1>4, <1>5, FrameTypes DEF DetachedInv

\* While the cancel callback is due to run nobody else takes a step.
LEMMA CancelAlone ==
  ASSUME DetachedInv, pc["cancel"] = "start"
  PROVE  \A g \in Goroutines \ {"cancel"} : ~CanRun(g)
  BY DEF DetachedInv, CallbackInv

\* What a step of goroutine a keeps when it enters and leaves no JavaScript:
\* the frames, and that a cancel has its turn to itself.
LEMMA Segment ==
  ASSUME DetachedInv, inGo, ~exited, UNCHANGED <<inGo, frames, exited>>,
         NEW a \in Goroutines \ {"cancel"}, CanRun(a),
         \A g \in User : pc'[g] = "inJS" <=> pc[g] = "inJS",
         \A t \in Tasks : pc'[t] \in {"none", "run", "await", "inJS", "done"},
         pc'["handler"] \in {"none", "run", "await", "inJS", "write", "done"}
  PROVE  FramesInv' /\ TurnInv' /\ pc["cancel"] # "start"
<1>1. FramesInv'
  BY FramesKept DEF DetachedInv
<1>2. TurnInv'
  BY DEF DetachedInv, TurnInv
<1>3. pc["cancel"] # "start"
  BY CancelAlone
<1> QED
  BY <1>1, <1>2, <1>3

\* The steps of main, the waiter and the request.
LEMMA LifeSteps ==
  ASSUME DetachedInv, TypeOK',
         \/ MainServe \/ WaiterRecv \/ WaiterReleased \/ ReqReject \/ ReqServe \/ ReqRespond
  PROVE  DetachedInv'
<1> USE DEF At, Goto, bodyVars, lifeVars, CanRun
<1>1. CASE MainServe
  <2>1. FramesInv' /\ TurnInv' /\ pc["cancel"] # "start"
    <3>1. CanRun("main")
      BY <1>1 DEF MainServe
    <3> QED
      BY <1>1, <3>1, Segment DEF DetachedInv, TypeOK, TurnInv, MainServe
  <2> QED
    BY <1>1, <2>1 DEF DetachedInv, TypeOK, TasksInv, WaiterInv, AnswerInv, CallbackInv,
                      ShutInv, LastInv, MainServe
<1>2. CASE WaiterRecv
  <2>1. FramesInv' /\ TurnInv' /\ pc["cancel"] # "start"
    <3>1. CanRun("waiter")
      BY <1>2 DEF WaiterRecv
    <3> QED
      BY <1>2, <3>1, Segment DEF DetachedInv, TypeOK, TurnInv, WaiterRecv
  <2>2. wg = {} => frames = <<>>
    BY <1>2, NobodyRuns DEF WaiterRecv
  <2> QED
    BY <1>2, <2>1, <2>2 DEF DetachedInv, TypeOK, TasksInv, WaiterInv, AnswerInv, CallbackInv,
                      ShutInv, LastInv, WaiterRecv
<1>3. CASE WaiterReleased
  <2>1. FramesInv' /\ TurnInv' /\ pc["cancel"] # "start"
    <3>1. CanRun("waiter")
      BY <1>3 DEF WaiterReleased
    <3> QED
      BY <1>3, <3>1, Segment DEF DetachedInv, TypeOK, TurnInv, WaiterReleased
  <2>2. frames = <<>>
    BY <1>3, NobodyRuns DEF WaiterReleased, DetachedInv, TasksInv
  <2> QED
    BY <1>3, <2>1, <2>2 DEF DetachedInv, TypeOK, TasksInv, WaiterInv, AnswerInv, CallbackInv,
                      ShutInv, LastInv, WaiterReleased
<1>4. CASE ReqReject
  <2>1. FramesInv' /\ TurnInv' /\ pc["cancel"] # "start"
    <3>1. CanRun("req")
      BY <1>4 DEF ReqReject
    <3> QED
      BY <1>4, <3>1, Segment DEF DetachedInv, TypeOK, TurnInv, ReqReject
  <2> QED
    BY <1>4, <2>1 DEF DetachedInv, TypeOK, TasksInv, WaiterInv, AnswerInv, CallbackInv,
                      ShutInv, LastInv, ReqReject
<1>5. CASE ReqServe
  <2>1. FramesInv' /\ TurnInv' /\ pc["cancel"] # "start"
    <3>1. CanRun("req")
      BY <1>5 DEF ReqServe
    <3> QED
      BY <1>5, <3>1, Segment DEF DetachedInv, TypeOK, TurnInv, AnswerInv, ReqServe
  <2> QED
    BY <1>5, <2>1 DEF DetachedInv, TypeOK, TasksInv, WaiterInv, AnswerInv, CallbackInv,
                      ShutInv, LastInv, ReqServe
<1>6. CASE ReqRespond
  <2>1. FramesInv' /\ TurnInv' /\ pc["cancel"] # "start"
    <3>1. CanRun("req")
      BY <1>6 DEF ReqRespond
    <3> QED
      BY <1>6, <3>1, Segment, SMTT(30) DEF DetachedInv, TypeOK, TurnInv, ReqRespond
  <2>2. /\ UNCHANGED <<frames, inGo, committed, kind, doneCh, allDoneCh, wg, exited, exitFrames>>
        /\ \A g \in Goroutines \ {"req", "fixed"} : pc'[g] = pc[g]
        /\ pc["req"] = "recvReady" /\ pc'["req"] = "done" /\ committed
        /\ pc'["fixed"] # "none" => kind = "fixed"
        /\ promise' = "resolved" /\ bodyClosed' = (bodyClosed \/ kind = "null")
        /\ events' \subseteq events \cup {"pull", "cancel", "done"}
        /\ {"pull", "cancel"} \cap events' # {} =>
             {"pull", "cancel"} \cap events # {} \/ kind = "stream"
        /\ "done" \in events' => "done" \in events \/ kind = "null"
    BY <1>6, SMTT(30) DEF DetachedInv, TypeOK, ReqRespond, CloseBody, ScheduleAfterTurn
  <2>3. /\ promise = "pending" /\ ~bodyClosed /\ ~doneCh /\ "done" \notin events /\ ~allDoneCh
        /\ pc["fixed"] = "none" /\ pc["pull"] = "none" /\ pc["cancel"] = "none"
        /\ {"pull", "cancel"} \cap events = {} /\ "fixed" \notin events
    BY <2>2 DEF DetachedInv, AnswerInv, CallbackInv, ShutInv, LastInv
  <2>4. TasksInv' /\ WaiterInv' /\ AnswerInv'
    BY <2>2 DEF DetachedInv, TasksInv, WaiterInv, AnswerInv
  <2>5. CallbackInv' /\ ShutInv'
    BY <2>2, <2>3 DEF CallbackInv, ShutInv
  <2>6. LastInv'
    BY <2>2, <2>3 DEF DetachedInv, LastInv
  <2> QED
    BY <2>1, <2>4, <2>5, <2>6 DEF DetachedInv
<1> QED
  BY <1>1, <1>2, <1>3, <1>4, <1>5, <1>6

\* The steps of the handler's goroutine.
LEMMA HandlerSteps ==
  ASSUME DetachedInv, TypeOK', ~HandlerJoins,
         \/ HandlerWrite \/ HandlerWriteFails \/ HandlerJoin \/ HandlerJoined \/ HandlerReturn
  PROVE  DetachedInv'
<1> USE DEF At, Goto, bodyVars, lifeVars
<1>1. pc["handler"] # "join"
  BY DEF DetachedInv, TurnInv
<1>2. /\ inGo /\ ~exited /\ pc["handler"] \in {"run", "write"}
      /\ UNCHANGED <<inGo, frames, exited>>
      /\ pc["handler"] = "run" \/ bodyClosed
      /\ UNCHANGED <<events, promise, bodyClosed, doneCh, allDoneCh, wg, exitFrames>>
      /\ committed => committed' /\ kind' = kind
      /\ \E l \in {"run", "write", "done"} : pc' = [pc EXCEPT !["handler"] = l]
  BY <1>1 DEF HandlerWrite, HandlerWriteFails, HandlerJoin, HandlerJoined, HandlerReturn, Commit
<1>3. /\ \A g \in Goroutines \ {"handler"} : pc'[g] = pc[g]
      /\ pc'["handler"] \in {"run", "write", "done"}
  BY <1>2 DEF DetachedInv, TypeOK
<1>4. CanRun("handler")
  BY <1>2 DEF CanRun
<1>5. FramesInv' /\ TurnInv' /\ pc["cancel"] # "start"
  BY <1>2, <1>3, <1>4, Segment DEF DetachedInv, TurnInv
<1>6. TasksInv' /\ WaiterInv' /\ AnswerInv' /\ ShutInv'
  BY <1>2, <1>3 DEF DetachedInv, TasksInv, WaiterInv, AnswerInv, ShutInv
<1>7. CallbackInv'
  BY <1>2, <1>3, <1>5 DEF DetachedInv, CallbackInv
<1>8. LastInv'
  BY <1>2, <1>3 DEF DetachedInv, LastInv
<1> QED
  BY <1>5, <1>6, <1>7, <1>8 DEF DetachedInv

\* The stream's pull: it comes to its end, or waits for bytes.
LEMMA PullSteps ==
  ASSUME DetachedInv, TypeOK', PullStart \/ PullData \/ PullEnd \/ PullClosed
  PROVE  DetachedInv'
<1> USE DEF At, Goto, bodyVars, lifeVars
<1>1. /\ inGo /\ ~exited /\ pc["pull"] \in {"start", "read"}
      /\ UNCHANGED <<inGo, frames, exited, promise, committed, kind, doneCh, allDoneCh, wg,
                     exitFrames>>
      /\ CanRun("pull")
  BY DEF PullStart, PullData, PullEnd, PullClosed, CanRun, PipeReadable
<1>2. /\ \A g \in Goroutines \ {"pull", "handler"} : pc'[g] = pc[g]
      /\ pc'["pull"] \in {"read", "done"}
      /\ \/ pc'["handler"] = pc["handler"]
         \/ pc["handler"] = "write" /\ pc'["handler"] = "run"
  BY DEF PullStart, PullData, PullEnd, PullClosed, DetachedInv, TypeOK
<1>3. FramesInv' /\ TurnInv' /\ pc["cancel"] # "start"
  BY <1>1, <1>2, Segment DEF DetachedInv, TurnInv
<1>4. /\ events' \subseteq events \cup {"pull", "done"} /\ (bodyClosed => bodyClosed')
      /\ "pull" \in events' => ~bodyClosed' /\ pc'["pull"] = "done"
      /\ "cancel" \in events' => "cancel" \in events /\ ~bodyClosed'
      /\ "done" \in events' => bodyClosed' /\ ("done" \in events \/ ~bodyClosed)
  <2>1. "pull" \notin events /\ (bodyClosed => pc["pull"] # "start" /\ "cancel" \notin events)
    BY <1>1 DEF DetachedInv, CallbackInv, ShutInv
  <2>2. "done" \in events => bodyClosed
    BY DEF DetachedInv, LastInv
  <2>3. CASE PullStart
    BY <2>1, <2>2, <2>3, <1>1, <1>2 DEF PullStart, DetachedInv, TypeOK
  <2>4. CASE PullData
    BY <2>1, <2>2, <2>4 DEF PullData, DetachedInv, TypeOK
  <2>5. CASE PullEnd
    BY <2>1, <2>2, <2>5 DEF PullEnd, CloseBody, ScheduleAfterTurn
  <2>6. CASE PullClosed
    BY <2>1, <2>2, <2>6 DEF PullClosed
  <2> QED
    BY <2>3, <2>4, <2>5, <2>6
<1>5. TasksInv' /\ WaiterInv' /\ AnswerInv'
  <2>1. TasksInv'
    BY <1>1, <1>2, ZenonT(60) DEF DetachedInv, TasksInv
  <2>2. WaiterInv'
    BY <1>1, <1>2, ZenonT(60) DEF DetachedInv, WaiterInv
  <2>3. AnswerInv'
    BY <1>1, <1>2, <1>4, ZenonT(60) DEF DetachedInv, AnswerInv
  <2> QED
    BY <2>1, <2>2, <2>3
<1>6. CallbackInv' /\ ShutInv'
  BY <1>1, <1>2, <1>3, <1>4 DEF DetachedInv, CallbackInv, ShutInv
<1>7. LastInv'
  BY <1>1, <1>2, <1>4 DEF DetachedInv, LastInv
<1> QED
  BY <1>3, <1>5, <1>6, <1>7 DEF DetachedInv

\* The goroutine that copies a body of fixed length.
LEMMA FixedSteps ==
  ASSUME DetachedInv, TypeOK', FixedAwait \/ FixedReady \/ FixedData \/ FixedClose
  PROVE  DetachedInv'
<1> USE DEF At, Goto, bodyVars, lifeVars
<1>1. /\ inGo /\ ~exited /\ pc["fixed"] \in {"start", "run", "read", "close"}
      /\ UNCHANGED <<inGo, frames, exited, promise, committed, kind, doneCh, allDoneCh, wg,
                     exitFrames>>
      /\ CanRun("fixed")
  BY DEF FixedAwait, FixedReady, FixedData, FixedClose, CanRun, PipeReadable
<1>2. /\ \A g \in Goroutines \ {"fixed", "handler"} : pc'[g] = pc[g]
      /\ pc'["fixed"] # "none"
      /\ \/ pc'["handler"] = pc["handler"]
         \/ pc["handler"] = "write" /\ pc'["handler"] = "run"
  BY DEF FixedAwait, FixedReady, FixedData, FixedClose, DetachedInv, TypeOK
<1>3. FramesInv' /\ TurnInv' /\ pc["cancel"] # "start"
  BY ZenonT(60), <1>1, <1>2, Segment DEF DetachedInv, TurnInv
<1>4. /\ events' \subseteq events \cup {"fixed", "done"} /\ (bodyClosed => bodyClosed')
      /\ "done" \in events' => bodyClosed' /\ ("done" \in events \/ ~bodyClosed)
  <2>1. "done" \in events => bodyClosed
    BY DEF DetachedInv, LastInv
  <2> QED
    BY <2>1 DEF FixedAwait, FixedReady, FixedData, FixedClose, CloseBody, ScheduleAfterTurn
<1>5. TasksInv' /\ WaiterInv' /\ AnswerInv'
  BY ZenonT(60), <1>1, <1>2, <1>4 DEF DetachedInv, TasksInv, WaiterInv, AnswerInv
<1>6. /\ promise = "resolved" /\ kind = "fixed" /\ committed
      /\ pc["pull"] = "none" /\ pc["cancel"] = "none" /\ {"pull", "cancel"} \cap events = {}
  BY <1>1 DEF DetachedInv, CallbackInv
<1>7. CallbackInv' /\ ShutInv'
  BY <1>1, <1>2, <1>4, <1>6 DEF CallbackInv, ShutInv
<1>8. LastInv'
  BY <1>1, <1>2, <1>4 DEF DetachedInv, LastInv
<1> QED
  BY <1>3, <1>5, <1>7, <1>8 DEF DetachedInv

\* The cancel of a body's stream.
LEMMA CancelRunStep ==
  ASSUME DetachedInv, TypeOK', CancelRun
  PROVE  DetachedInv'
<1> USE DEF At, Goto, bodyVars, lifeVars
<1>1. /\ inGo /\ ~exited /\ UNCHANGED <<inGo, frames, exited>>
      /\ \A g \in Goroutines \ {"cancel"} : pc'[g] = pc[g]
      /\ pc["cancel"] = "start" /\ pc'["cancel"] = "done"
  BY DEF CancelRun, DetachedInv, TypeOK
<1>2. FramesInv'
  BY <1>1, FramesKept DEF DetachedInv
<1>3. TurnInv' /\ TasksInv' /\ WaiterInv' /\ AnswerInv'
  BY <1>1 DEF CancelRun, CloseBody, ScheduleAfterTurn, DetachedInv, TurnInv, TasksInv,
              WaiterInv, AnswerInv
<1>4. CallbackInv' /\ ShutInv'
  BY <1>1 DEF CancelRun, CloseBody, ScheduleAfterTurn, DetachedInv, CallbackInv, ShutInv
<1>5. LastInv'
  BY <1>1 DEF CancelRun, CloseBody, ScheduleAfterTurn, DetachedInv, LastInv, ShutInv
<1> QED
  BY <1>2, <1>3, <1>4, <1>5 DEF DetachedInv

\* User code that waits for a promise.
LEMMA AwaitStep ==
  ASSUME DetachedInv, TypeOK', NEW g \in User, UserAwait(g)
  PROVE  DetachedInv'
<1> USE DEF At, Goto, bodyVars, lifeVars
<1>1. /\ inGo /\ ~exited /\ UNCHANGED <<inGo, frames, exited>>
      /\ g \in Goroutines \ {"cancel"} /\ pc[g] \in {"start", "run"} /\ CanRun(g)
      /\ pc[g] = "start" => g = "main"
      /\ \A h \in Goroutines \ {g} : pc'[h] = pc[h]
      /\ pc'[g] = "await" /\ events' = events \cup {g}
      /\ UNCHANGED <<promise, committed, kind, bodyClosed, doneCh, allDoneCh, wg, exitFrames>>
  BY DEF UserAwait, DetachedInv, TypeOK, CanRun
<1>2. FramesInv' /\ TurnInv' /\ pc["cancel"] # "start"
  BY <1>1, Segment DEF DetachedInv, TurnInv
<1>3. TasksInv' /\ WaiterInv'
  BY <1>1 DEF DetachedInv, TasksInv, WaiterInv, TypeOK
<1>4. AnswerInv' /\ ShutInv'
  BY <1>1 DEF DetachedInv, AnswerInv, ShutInv
<1>5. CallbackInv'
  BY <1>1, <1>2 DEF DetachedInv, CallbackInv
<1>6. LastInv'
  BY <1>1 DEF DetachedInv, LastInv, ShutInv, AnswerInv
<1> QED
  BY <1>2, <1>3, <1>4, <1>5, <1>6 DEF DetachedInv

\* User code that registers a task: not once allDoneCh is closed.
LEMMA RegisterStep ==
  ASSUME DetachedInv, TypeOK', NEW g \in User, NEW t \in Tasks, WaitUntil(g, t)
  PROVE  DetachedInv'
<1> USE DEF At, bodyVars
<1>1. /\ inGo /\ ~exited /\ UNCHANGED <<inGo, exited>>
      /\ g \in Goroutines \ {"cancel"} /\ t \in Goroutines /\ g # t /\ g # "main"
      /\ pc[g] = "run" /\ pc[t] = "none" /\ CanRun(g)
      /\ \A h \in Goroutines : pc'[h] = IF h = g THEN "inJS" ELSE IF h = t THEN "run" ELSE pc[h]
      /\ wg' = wg \cup {t}
      /\ UNCHANGED <<events, promise, committed, kind, bodyClosed, doneCh, allDoneCh, exitFrames>>
  BY DEF WaitUntil, DetachedInv, TypeOK, CanRun
<1>2. /\ Len(frames) \in Nat /\ Len(frames') = Len(frames) + 1
      /\ frames'[Len(frames) + 1] = g
      /\ \A i \in 1..Len(frames) : frames'[i] = frames[i]
  BY FrameTypes DEF WaitUntil, DetachedInv, TypeOK
<1>3. FramesInv'
  <2>1. \A h \in User : h = g \/ pc[h] = "inJS" => pc'[h] = "inJS"
    BY <1>1
  <2>2. g \in User \ {"main"} /\ frames' = Append(frames, g) /\ inGo' /\ pc[g] # "inJS"
    BY <1>1 DEF WaitUntil
  <2> QED
    BY <1>1, <2>1, <2>2, FramesPushed DEF DetachedInv
<1>4. pc["cancel"] # "start"
  BY <1>1, CancelAlone
<1>5. doneCh => wg # {}
  BY <1>1, NobodyRuns
<1>6. g \in Tasks => g \in wg
  BY <1>1 DEF DetachedInv, TasksInv
<1>7. TasksInv'
  <2>1. pc["waiter"] # "released"
    BY <1>5 DEF DetachedInv, TasksInv
  <2>2. pc'["waiter"] = pc["waiter"]
    BY <1>1
  <2>3. \A u \in Tasks : u \in wg' <=> pc'[u] \notin {"none", "done"}
    <3> SUFFICES ASSUME NEW u \in Tasks
                 PROVE  u \in wg' <=> pc'[u] \notin {"none", "done"}
      OBVIOUS
    <3>1. /\ u \in wg' <=> u \in wg \/ u = t
          /\ u \in wg <=> pc[u] \notin {"none", "done"}
      BY <1>1 DEF DetachedInv, TasksInv
    <3> QED
      BY <1>1, <1>6, <3>1
  <2> QED
    BY <1>1, <2>1, <2>2, <2>3 DEF DetachedInv, TasksInv
<1>8. TurnInv'
  <2>1. \A i \in 1..Len(frames) : i \in 1..Len(frames')
    BY <1>2
  <2>2. Len(frames) + 1 \in 1..Len(frames')
    BY <1>2
  <2>3. ASSUME NEW h \in User, pc'[h] = "inJS" PROVE \E i \in 1..Len(frames') : frames'[i] = h
    <3>1. CASE h = g
      BY <1>2, <2>2, <3>1
    <3>2. CASE h # g
      <4>1. pc[h] = "inJS"
        BY <1>1, <2>3, <3>2
      <4>2. PICK i \in 1..Len(frames) : frames[i] = h
        BY <4>1 DEF DetachedInv, TurnInv
      <4> QED
        BY <1>2, <2>1, <4>2
    <3> QED
      BY <3>1, <3>2
  <2> QED
    BY <1>1, <2>3 DEF DetachedInv, TurnInv
<1>9. WaiterInv' /\ AnswerInv' /\ ShutInv'
  BY <1>1 DEF DetachedInv, WaiterInv, AnswerInv, ShutInv
<1>10. CallbackInv'
  BY <1>1, <1>4 DEF DetachedInv, CallbackInv
<1>11. LastInv'
  <2>1. \A i \in 1..Len(frames') : i \in 1..Len(frames) \/ i = Len(frames) + 1
    BY <1>2
  <2>2. doneCh => \A i \in 1..Len(frames') : frames'[i] # "cb"
    BY <1>1, <1>2, <2>1, TasksAssumption DEF DetachedInv, LastInv
  <2>3. doneCh /\ pc'["handler"] \in {"run", "write", "inJS"} =>
          \E u \in Tasks : pc'[u] = "await"
    <3> SUFFICES ASSUME doneCh, pc'["handler"] \in {"run", "write", "inJS"}
                 PROVE  \E u \in Tasks : pc'[u] = "await"
      OBVIOUS
    <3>1. pc["handler"] \in {"run", "write", "inJS"}
      BY <1>1, TasksAssumption
    <3>2. PICK u \in Tasks : pc[u] = "await"
      BY <3>1 DEF DetachedInv, LastInv
    <3> QED
      BY <1>1, <3>2
  <2>4. ~allDoneCh
    BY <1>5 DEF DetachedInv, LastInv
  <2> QED
    BY <1>1, <2>2, <2>3, <2>4 DEF DetachedInv, LastInv
<1> QED
  BY <1>3, <1>7, <1>8, <1>9, <1>10, <1>11 DEF DetachedInv

\* A task's end, which wakes the waiter when it is the last.
LEMMA TaskStep ==
  ASSUME DetachedInv, TypeOK', NEW t \in Tasks, TaskReturn(t)
  PROVE  DetachedInv'
<1> USE DEF At, bodyVars
<1>1. /\ inGo /\ ~exited /\ UNCHANGED <<inGo, frames, exited>>
      /\ t \in Goroutines \ {"cancel"} /\ t # "waiter" /\ pc[t] = "run" /\ CanRun(t)
      /\ pc'[t] = "done" /\ wg' = wg \ {t}
      /\ \A h \in Goroutines \ {t, "waiter"} : pc'[h] = pc[h]
      /\ pc'["waiter"] = IF wg' = {} /\ pc["waiter"] = "wait" THEN "released" ELSE pc["waiter"]
      /\ UNCHANGED <<events, promise, committed, kind, bodyClosed, doneCh, allDoneCh, exitFrames>>
  BY DEF TaskReturn, DetachedInv, TypeOK, CanRun
<1>2. FramesInv' /\ TurnInv' /\ pc["cancel"] # "start"
  BY <1>1, Segment DEF DetachedInv, TurnInv
<1>3. t \in wg /\ ~allDoneCh
  BY <1>1 DEF DetachedInv, TasksInv, LastInv
<1>4. TasksInv' /\ WaiterInv' /\ AnswerInv' /\ ShutInv'
  BY <1>1, <1>3 DEF DetachedInv, TasksInv, WaiterInv, AnswerInv, ShutInv
<1>5. CallbackInv'
  BY <1>1, <1>2 DEF DetachedInv, CallbackInv
<1>6. LastInv'
  <2>1. \A u \in Tasks : pc[u] = "await" => pc'[u] = "await"
    BY <1>1
  <2> QED
    BY <1>1, <1>3, <2>1 DEF DetachedInv, LastInv
<1> QED
  BY <1>2, <1>4, <1>5, <1>6 DEF DetachedInv

\* main returns only when nobody is suspended.
LEMMA ExitStep ==
  ASSUME DetachedInv, TypeOK', MainExit
  PROVE  DetachedInv'
<1> USE DEF At, Goto, bodyVars
<1>1. /\ inGo /\ ~exited /\ exited' /\ UNCHANGED <<inGo, frames>> /\ allDoneCh
      /\ pc["main"] = "recvAllDone" /\ pc'["main"] = "done" /\ exitFrames' = frames
      /\ \A h \in Goroutines \ {"main"} : pc'[h] = pc[h]
      /\ UNCHANGED <<events, promise, committed, kind, bodyClosed, doneCh, allDoneCh, wg>>
  BY DEF MainExit, Exit, DetachedInv, TypeOK
<1>2. CanRun("main")
  BY <1>1 DEF CanRun
<1>3. pc["cancel"] # "start"
  BY <1>2, CancelAlone
<1>4. FramesInv'
  BY <1>1, FramesKept DEF DetachedInv
<1>5. TasksInv' /\ TurnInv' /\ WaiterInv' /\ AnswerInv' /\ ShutInv'
  BY <1>1 DEF DetachedInv, TasksInv, TurnInv, WaiterInv, AnswerInv, ShutInv
<1>6. CallbackInv'
  BY <1>1, <1>3 DEF DetachedInv, CallbackInv
<1>7. LastInv'
  BY <1>1 DEF DetachedInv, LastInv
<1> QED
  BY <1>4, <1>5, <1>6, <1>7 DEF DetachedInv

\* Go has come to rest: the turn is over, or the innermost caller goes on.
LEMMA RestStep ==
  ASSUME DetachedInv, TypeOK', Return
  PROVE  DetachedInv'
<1> USE DEF bodyVars, lifeVars
<1>1. /\ inGo /\ ~exited
      /\ UNCHANGED <<events, promise, committed, kind, writerClosed, bodyClosed, doneCh,
                     allDoneCh, wg, exited, exitFrames>>
      /\ \A g \in Goroutines : ~CanRun(g)
  BY DEF Return, Idle
<1>2. pc["cancel"] # "start"
  BY <1>1 DEF CanRun
<1>3. CASE frames = <<>>
  <2>1. ~inGo' /\ UNCHANGED <<pc, frames>>
    BY <1>3 DEF Return
  <2>2. FramesInv'
    BY <1>3, <2>1 DEF DetachedInv, FramesInv
  <2>3. TurnInv'
    BY <1>1, <2>1 DEF DetachedInv, TurnInv, Idle, CanRun, PipeReadable
  <2> QED
    BY <1>1, <1>2, <2>1, <2>2, <2>3
       DEF DetachedInv, TasksInv, WaiterInv, AnswerInv, CallbackInv, ShutInv, LastInv
<1>4. CASE frames # <<>>
  <2> DEFINE n == Len(frames)
             g == frames[n]
  <2>1. /\ n \in Nat \ {0} /\ g \in User \cup {"cb"}
        /\ Len(frames') = n - 1 /\ inGo'
        /\ \A i \in 1..n - 1 : frames'[i] = frames[i]
    BY <1>4, Pop DEF Return, DetachedInv, TypeOK
  <2>2. g # "cb" => pc[g] = "inJS" /\ g # "main"
    BY <2>1 DEF DetachedInv, FramesInv
  <2>3. \A h \in Goroutines : pc'[h] = IF h = g THEN "run" ELSE pc[h]
    BY <1>4, <2>1 DEF Return, DetachedInv, TypeOK
  <2>4. ~allDoneCh
    BY <1>4 DEF DetachedInv, LastInv
  <2> HIDE DEF g, n
  <2>5. \A i \in 1..n - 1 : i \in 1..n /\ (frames[i] # "cb" => frames[i] # g)
    BY <2>1, <2>2 DEF DetachedInv, FramesInv, g, n
  <2>6. FramesInv'
    <3>1. \A i \in 1..n - 1 : frames'[i] # "cb" => pc'[frames'[i]] = "inJS"
      <4> SUFFICES ASSUME NEW i \in 1..n - 1, frames[i] # "cb"
                   PROVE  pc'[frames[i]] = "inJS"
        BY <2>1
      <4>1. frames[i] \in Goroutines /\ frames[i] # g /\ pc[frames[i]] = "inJS"
        BY <2>5, FrameTypes DEF DetachedInv, FramesInv, n
      <4> QED
        BY <2>3, <4>1
    <3> QED
      BY <2>1, <2>5, <3>1 DEF DetachedInv, FramesInv, n
  <2>7. TurnInv'
    <3>1. ASSUME NEW h \in User, pc'[h] = "inJS" PROVE \E i \in 1..n - 1 : frames'[i] = h
      <4>1. pc[h] = "inJS" /\ h # g
        BY <2>3, <3>1
      <4>2. PICK i \in 1..n : frames[i] = h
        BY <4>1 DEF DetachedInv, TurnInv, n
      <4>3. i # n
        BY <4>1, <4>2 DEF g
      <4> QED
        BY <2>1, <4>2, <4>3
    <3> QED
      BY <2>1, <2>2, <2>3, <3>1 DEF DetachedInv, TurnInv
  <2>8. TasksInv'
    BY <1>1, <2>1, <2>2, <2>3 DEF DetachedInv, TasksInv
  <2>9. WaiterInv' /\ AnswerInv' /\ ShutInv'
    BY <1>1, <2>1, <2>2, <2>3 DEF DetachedInv, WaiterInv, AnswerInv, ShutInv
  <2>10. CallbackInv'
    BY <1>1, <1>2, <2>1, <2>2, <2>3 DEF DetachedInv, CallbackInv
  <2>11. LastInv'
    <3>1. \A u \in Tasks : pc[u] = "await" => pc'[u] = "await"
      BY <2>1, <2>2, <2>3
    <3>2. doneCh => \A i \in 1..n - 1 : frames'[i] # "cb"
      BY <2>1, <2>5 DEF DetachedInv, LastInv, n
    <3> QED
      BY <1>1, <2>1, <2>2, <2>3, <2>4, <3>1, <3>2 DEF DetachedInv, LastInv
  <2> QED
    BY <2>6, <2>7, <2>8, <2>9, <2>10, <2>11 DEF DetachedInv
<1> QED
  BY <1>3, <1>4

\* JavaScript enters Go by a callback that starts goroutine g in its own frame.
LEMMA PromiseSteps ==
  ASSUME DetachedInv, TypeOK', JsHandleRequest \/ JsPull \/ JsCancel
  PROVE  DetachedInv'
<1> USE DEF Goto, bodyVars, lifeVars
<1>1. /\ ~inGo /\ ~exited /\ inGo' /\ frames' = <<"cb">>
      /\ UNCHANGED <<committed, kind, writerClosed, bodyClosed, doneCh, allDoneCh, wg, exited,
                     exitFrames>>
      /\ events' \subseteq events
  BY DEF JsHandleRequest, JsPull, JsCancel, DeliverPromise, Deliver
<1>2. /\ \A g \in User : pc'[g] = pc[g] /\ pc[g] # "inJS"
      /\ pc'["waiter"] = pc["waiter"] /\ pc'["fixed"] = pc["fixed"]
      /\ \A g \in Goroutines : ~CanRun(g)
  <2>1. frames = <<>> /\ Len(frames) = 0 /\ Idle
    BY <1>1, FrameTypes DEF DetachedInv, FramesInv, TurnInv
  <2>2. \A g \in User : pc[g] # "inJS"
    BY <2>1 DEF DetachedInv, TurnInv
  <2>3. \A g \in Goroutines \ {"req", "pull", "cancel"} : pc'[g] = pc[g]
    BY TasksAssumption DEF JsHandleRequest, JsPull, JsCancel, DeliverPromise, DetachedInv, TypeOK
  <2> QED
    BY <2>1, <2>2, <2>3, TasksAssumption DEF Idle
<1>3. pc["cancel"] # "start" /\ pc["pull"] # "start"
  BY <1>2 DEF CanRun
<1>4. ~bodyClosed /\ ~doneCh /\ ~allDoneCh
  BY DEF JsHandleRequest, JsPull, JsCancel, DeliverPromise, Deliver, DetachedInv, AnswerInv,
         ShutInv, LastInv
<1>5. FramesInv' /\ TurnInv'
  <2>1. Len(frames') = 1 /\ frames'[1] = "cb"
    BY <1>1
  <2>2. FramesInv'
    BY <1>1, <2>1 DEF FramesInv
  <2>3. TurnInv'
    BY <1>1, <1>2 DEF DetachedInv, TurnInv
  <2> QED
    BY <2>2, <2>3
<1>6. TasksInv' /\ WaiterInv' /\ ShutInv' /\ LastInv'
  BY <1>1, <1>2, <1>4 DEF DetachedInv, TasksInv, WaiterInv, ShutInv, LastInv
<1>7. AnswerInv' /\ CallbackInv'
  <2>1. CASE JsHandleRequest
    <3>1. /\ "handleRequest" \in events /\ promise = "none" /\ promise' = "pending" /\ events' = events \ {"handleRequest"}
          /\ pc'["req"] = "start" /\ pc'["pull"] = pc["pull"] /\ pc'["cancel"] = pc["cancel"]
      BY <2>1 DEF JsHandleRequest, DeliverPromise, Deliver, DetachedInv, TypeOK, AnswerInv
    <3>2. pc["req"] = "none" /\ pc["handler"] = "none"
      BY <3>1 DEF DetachedInv, AnswerInv
    <3>3. AnswerInv'
      BY <1>1, <1>2, <3>1, <3>2 DEF DetachedInv, AnswerInv
    <3>4. CallbackInv'
      BY <1>1, <1>2, <1>3, <3>1 DEF DetachedInv, CallbackInv
    <3> QED
      BY <3>3, <3>4
  <2>2. CASE JsPull
    <3>1. /\ promise' = promise /\ events' = events \ {"pull"} /\ "pull" \in events
          /\ pc'["pull"] = "start" /\ pc'["req"] = pc["req"] /\ pc'["cancel"] = pc["cancel"]
      BY <2>2 DEF JsPull, DeliverPromise, Deliver, DetachedInv, TypeOK
    <3> QED
      BY <1>1, <1>2, <1>3, <3>1 DEF DetachedInv, AnswerInv, CallbackInv
  <2>3. CASE JsCancel
    <3>1. /\ promise' = promise /\ events' = events \ {"cancel", "pull"} /\ "cancel" \in events
          /\ pc'["cancel"] = "start" /\ pc'["req"] = pc["req"] /\ pc'["pull"] = pc["pull"]
      BY <2>3 DEF JsCancel, Deliver, DetachedInv, TypeOK
    <3>2. \A g \in Goroutines \ {"cancel"} : pc'[g] = pc[g]
      BY <2>3 DEF JsCancel, DetachedInv, TypeOK
    <3>3. \A g \in Goroutines \ {"cancel"} : ~CanRun(g)'
      BY <1>1, <1>2, <3>2 DEF CanRun, PipeReadable
    <3> QED
      BY <1>1, <1>2, <1>3, <3>1, <3>3 DEF DetachedInv, AnswerInv, CallbackInv
  <2> QED
    BY <2>1, <2>2, <2>3
<1> QED
  BY <1>5, <1>6, <1>7 DEF DetachedInv

\* JavaScript closes doneCh, or wakes a goroutine: a handler only while a task
\* goes on waiting.
LEMMA WakeSteps ==
  ASSUME DetachedInv, TypeOK', JsDone \/ \E g \in User \cup {"fixed"} : JsWake(g)
  PROVE  DetachedInv'
<1> USE DEF Goto, bodyVars, lifeVars
<1>1. /\ ~inGo /\ ~exited /\ inGo'
      /\ UNCHANGED <<frames, promise, committed, kind, writerClosed, bodyClosed, allDoneCh, wg,
                     exited, exitFrames>>
  BY DEF JsDone, JsWake, Deliver
<1>2. frames = <<>> /\ Len(frames) = 0 /\ Idle
  BY <1>1, FrameTypes DEF DetachedInv, FramesInv, TurnInv
<1>3. \A g \in User : pc[g] # "inJS"
  BY <1>2 DEF DetachedInv, TurnInv
<1>4. FramesInv'
  BY <1>1, <1>2 DEF FramesInv
<1>5. pc["cancel"] # "start"
  BY <1>2 DEF Idle, CanRun
<1>6. CASE JsDone
  <2>1. /\ "done" \in events /\ events' = events \ {"done"} /\ pc' = pc /\ doneCh'
    BY <1>6 DEF JsDone, Deliver
  <2>2. pc["handler"] \in {"none", "await", "done"}
    BY <1>1, <2>1, AllAwait DEF DetachedInv, LastInv
  <2>3. TurnInv' /\ WaiterInv' /\ AnswerInv' /\ TasksInv'
    BY <1>1, <2>1 DEF DetachedInv, TurnInv, WaiterInv, AnswerInv, TasksInv
  <2>4. ShutInv' /\ CallbackInv'
    BY <1>1, <1>5, <2>1 DEF DetachedInv, ShutInv, CallbackInv
  <2>5. LastInv'
    BY <1>1, <1>2, <2>1, <2>2 DEF DetachedInv, LastInv
  <2> QED
    BY <1>4, <2>3, <2>4, <2>5 DEF DetachedInv
<1>7. ASSUME NEW g \in User \cup {"fixed"}, JsWake(g) PROVE DetachedInv'
  <2>1. /\ g \in events /\ events' = events \ {g} /\ doneCh' = doneCh
        /\ \A h \in Goroutines \ {g} : pc'[h] = pc[h]
        /\ pc'[g] \in {"run", "close"} /\ (pc[g] # "awaitClose" => pc'[g] = "run")
    BY <1>7 DEF JsWake, Deliver, DetachedInv, TypeOK
  <2>2. g \in User => pc[g] = "await" /\ pc'[g] = "run"
    BY <2>1 DEF DetachedInv, LastInv
  <2>3. TurnInv'
    BY <1>1, <1>3, <2>1, <2>2 DEF DetachedInv, TurnInv
  <2>4. TasksInv' /\ WaiterInv'
    BY <1>1, <2>1, <2>2 DEF DetachedInv, TasksInv, WaiterInv
  <2>5. AnswerInv' /\ ShutInv'
    BY <1>1, <2>1, <2>2 DEF DetachedInv, AnswerInv, ShutInv
  <2>6. CallbackInv'
    BY <1>1, <1>5, <2>1, <2>2 DEF DetachedInv, CallbackInv
  <2>7. ASSUME doneCh, pc'["handler"] \in {"run", "write", "inJS"}
        PROVE  \E t \in Tasks : pc'[t] = "await"
    <3>1. g = "handler"
      <4>1. pc["handler"] \in {"none", "await", "done"}
        BY <1>1, <2>7, AllAwait DEF DetachedInv, LastInv
      <4> QED
        BY <2>1, <2>7, <4>1
    <3>2. PICK t \in wg : TRUE
      BY <1>1, <2>7, AllAwait DEF DetachedInv, WaiterInv
    <3>3. t \in Tasks /\ pc[t] = "await" /\ t # g
      BY <1>1, <3>1, <3>2, AllAwait, TasksAssumption
    <3> QED
      BY <2>1, <3>3
  <2>8. ~allDoneCh
    BY <1>1, AllAwait DEF DetachedInv, WaiterInv
  <2>9. LastInv'
    BY <1>1, <1>2, <2>1, <2>2, <2>7, <2>8, TasksAssumption DEF DetachedInv, LastInv
  <2> QED
    BY <1>4, <2>3, <2>4, <2>5, <2>6, <2>9 DEF DetachedInv
<1> QED
  BY <1>6, <1>7

\* JavaScript reads a raw body, or finds that the program has exited.
LEMMA OutsideSteps ==
  ASSUME DetachedInv, TypeOK', JsReadRaw \/ \E e \in events : LateEvent(e)
  PROVE  DetachedInv'
<1>1. /\ events' \subseteq events
      /\ UNCHANGED <<pc, frames, inGo, promise, committed, kind, writerClosed, bodyClosed, doneCh,
                     allDoneCh, wg, exited, exitFrames>>
  BY DEF JsReadRaw, LateEvent, lifeVars, bodyVars
<1>2. FramesInv' /\ TurnInv' /\ TasksInv'
  BY <1>1 DEF DetachedInv, FramesInv, TurnInv, TasksInv, Idle, CanRun, PipeReadable
<1>3. WaiterInv' /\ AnswerInv' /\ ShutInv' /\ LastInv'
  BY <1>1 DEF DetachedInv, WaiterInv, AnswerInv, ShutInv, LastInv
<1>4. CallbackInv'
  BY <1>1 DEF DetachedInv, CallbackInv, CanRun, PipeReadable
<1> QED
  BY <1>2, <1>3, <1>4 DEF DetachedInv

\* Every step keeps the invariant of a handler that may outlive its body.
LEMMA DetachedInductive ==
  ASSUME ~HandlerJoins, DetachedInv, [Next]_vars
  PROVE  DetachedInv'
<1>1. TypeOK'
  BY Typing DEF DetachedInv
<1>2. CASE UNCHANGED vars
  BY <1>2 DEF vars, DetachedInv, TypeOK, FramesInv, TurnInv, TasksInv, WaiterInv, AnswerInv,
              CallbackInv, ShutInv, LastInv, Idle, CanRun, PipeReadable
<1> QED
  BY <1>1, <1>2, LifeSteps, HandlerSteps, PullSteps, FixedSteps, CancelRunStep, AwaitStep,
     RegisterStep, TaskStep, ExitStep, RestStep, PromiseSteps, WakeSteps, OutsideSteps
     DEF Next, GoStep, JsStep

\* A program that has just been started.
LEMMA DetachedInitial == Init => DetachedInv
<1> SUFFICES ASSUME Init PROVE DetachedInv
  OBVIOUS
<1>1. TypeOK /\ FramesInv /\ TasksInv
  BY Initial DEF IInv
<1>2. Len(frames) = 0
  BY DEF Init
<1> QED
  BY <1>1, <1>2 DEF Init, DetachedInv, TurnInv, WaiterInv, AnswerInv, CallbackInv, ShutInv, LastInv

-----------------------------------------------------------------------------
(* Who waits for whom.                                                     *)

\* A step of a program that goes on keeps what its goroutines wait for.
LEMMA AliveStep ==
  ASSUME TypeOK, TypeOK', Alive, ~exited', [Next]_vars
  PROVE  Alive'
<1> USE KindsAssumption DEF TypeOK, At, Goto, bodyVars, lifeVars
<1>0. WaitInv /\ PlaceInv /\ StageInv /\ BodyInv /\ EndInv
  BY DEF Alive
<1> USE DEF Alive
<1>1. ASSUME Return PROVE Alive'
  <2>1. CASE frames = <<>>
    BY <1>0, <1>1, <2>1
       DEF WaitInv, PlaceInv, StageInv, BodyInv, EndInv, Return, Idle, CanRun, PipeReadable
  <2>2. CASE frames # <<>>
    <3> DEFINE n == Len(frames)
               g == frames[n]
    <3>1. /\ n \in Nat \ {0} /\ g \in User \cup {"cb"}
          /\ Len(frames') = n - 1
          /\ \A i \in 1..n - 1 : frames'[i] = frames[i]
      BY <1>1, <2>2, Pop DEF Return
    <3>2. /\ inGo' /\ events' = events
          /\ UNCHANGED <<promise, committed, kind, writerClosed, bodyClosed, doneCh,
                         allDoneCh, wg>>
          /\ \A h \in Goroutines : pc'[h] = IF h = g THEN "run" ELSE pc[h]
      BY <1>1, <2>2, <3>1 DEF Return
    <3> HIDE DEF g, n
    <3>3. WaitInv'
      <4>1. ASSUME NEW h \in User, pc'[h] = "inJS"
            PROVE  \E i \in 1..Len(frames') : frames'[i] = h
        <5>1. PICK i \in 1..n : frames[i] = h
          BY <1>0, <3>2, <4>1 DEF WaitInv, n
        <5>2. i # n
          BY <3>2, <4>1, <5>1 DEF g
        <5>3. i \in 1..Len(frames')
          BY <3>1, <5>1, <5>2
        <5>4. frames'[i] = frames[i]
          BY <3>1, <5>1, <5>2
        <5> QED
          BY <5>1, <5>3, <5>4
      <4> QED
        BY <1>0, <3>2, <4>1 DEF WaitInv
    <3>4. PlaceInv'
      BY ZenonT(60), <1>0, <3>1, <3>2 DEF PlaceInv
    <3>5. StageInv'
      BY <1>0, <3>1, <3>2 DEF StageInv, PlaceInv
    <3>6. BodyInv'
      BY <1>0, <3>1, <3>2 DEF BodyInv
    <3>7. EndInv'
      BY <1>0, <3>1, <3>2 DEF EndInv, PlaceInv
    <3> QED
      BY <3>3, <3>4, <3>5, <3>6, <3>7
  <2> QED
    BY <2>1, <2>2
<1>2. ASSUME MainServe PROVE Alive'
  BY <1>0, <1>2
     DEF WaitInv, PlaceInv, StageInv, BodyInv, EndInv, MainServe
<1>3. ASSUME WaiterRecv PROVE Alive'
  <2>1. WaitInv'
    BY <1>0, <1>3 DEF WaitInv, PlaceInv, WaiterRecv
  <2>2. PlaceInv'
    BY <1>0, <1>3 DEF PlaceInv, WaiterRecv
  <2>3. StageInv'
    BY <1>0, <1>3 DEF StageInv, PlaceInv, WaiterRecv
  <2>4. BodyInv'
    BY <1>0, <1>3 DEF BodyInv, PlaceInv, StageInv, WaiterRecv
  <2>5. EndInv'
    BY <1>0, <1>3 DEF EndInv, PlaceInv, BodyInv, WaiterRecv
  <2> QED
    BY <2>1, <2>2, <2>3, <2>4, <2>5
<1>4. ASSUME WaiterReleased PROVE Alive'
  BY <1>0, <1>4
     DEF WaitInv, PlaceInv, StageInv, BodyInv, EndInv, WaiterReleased
<1>5. ASSUME ReqReject PROVE Alive'
  BY <1>0, <1>5
     DEF WaitInv, PlaceInv, StageInv, BodyInv, EndInv, ReqReject
<1>6. ASSUME ReqServe PROVE Alive'
  <2>1. WaitInv'
    BY <1>0, <1>6 DEF WaitInv, PlaceInv, ReqServe
  <2>2. PlaceInv'
    BY <1>0, <1>6 DEF PlaceInv, ReqServe
  <2>3. StageInv'
    BY <1>0, <1>6 DEF StageInv, PlaceInv, ReqServe
  <2>4. BodyInv'
    BY <1>0, <1>6 DEF BodyInv, PlaceInv, StageInv, ReqServe
  <2>5. EndInv'
    BY <1>0, <1>6 DEF EndInv, PlaceInv, BodyInv, ReqServe
  <2> QED
    BY <2>1, <2>2, <2>3, <2>4, <2>5
<1>7. ASSUME ReqRespond PROVE Alive'
  <2>1. WaitInv'
    BY <1>0, <1>7 DEF WaitInv, PlaceInv, ReqRespond, CloseBody, ScheduleAfterTurn
  <2>2. PlaceInv'
    BY <1>0, <1>7 DEF PlaceInv, ReqRespond, CloseBody, ScheduleAfterTurn
  <2>3. StageInv'
    BY <1>0, <1>7 DEF StageInv, PlaceInv, ReqRespond, CloseBody, ScheduleAfterTurn
  <2>4. BodyInv'
    BY <1>0, <1>7 DEF BodyInv, PlaceInv, StageInv, ReqRespond, CloseBody, ScheduleAfterTurn
  <2>5. EndInv'
    BY <1>0, <1>7 DEF EndInv, PlaceInv, BodyInv, ReqRespond, CloseBody, ScheduleAfterTurn
  <2> QED
    BY <2>1, <2>2, <2>3, <2>4, <2>5
<1>8. ASSUME HandlerWrite PROVE Alive'
  BY <1>0, <1>8
     DEF WaitInv, PlaceInv, StageInv, BodyInv, EndInv, HandlerWrite, Commit, WriteKinds
<1>9. ASSUME HandlerWriteFails PROVE Alive'
  BY <1>0, <1>9
     DEF WaitInv, PlaceInv, StageInv, BodyInv, EndInv, HandlerWriteFails
<1>10. ASSUME HandlerJoin PROVE Alive'
  BY <1>0, <1>10
     DEF WaitInv, PlaceInv, StageInv, BodyInv, EndInv, HandlerJoin
<1>11. ASSUME HandlerJoined PROVE Alive'
  BY <1>0, <1>11
     DEF WaitInv, PlaceInv, StageInv, BodyInv, EndInv, HandlerJoined
<1>12. ASSUME HandlerReturn PROVE Alive'
  BY <1>0, <1>12
     DEF WaitInv, PlaceInv, StageInv, BodyInv, EndInv, HandlerReturn, Commit
<1>13. ASSUME PullStart PROVE Alive'
  <2>1. /\ pc'["pull"] \in {"read", "done"} /\ (pc'["pull"] = "done" => "pull" \in events')
        /\ \A g \in Goroutines \ {"pull"} : pc'[g] = pc[g]
        /\ inGo' /\ frames' = frames /\ events' \subseteq events \cup {"pull"}
        /\ events \subseteq events'
        /\ UNCHANGED <<promise, committed, kind, writerClosed, bodyClosed, doneCh, allDoneCh, wg>>
    BY <1>13 DEF PullStart
  <2>2. WaitInv'
    BY <1>0, <2>1 DEF WaitInv
  <2>3. PlaceInv'
    BY ZenonT(60), <1>0, <2>1 DEF PlaceInv
  <2>4. StageInv'
    BY <1>0, <2>1 DEF StageInv
  <2>5. BodyInv'
    BY <1>0, <2>1 DEF BodyInv
  <2>6. EndInv'
    BY <1>0, <2>1 DEF EndInv
  <2> QED
    BY <2>2, <2>3, <2>4, <2>5, <2>6
<1>14. ASSUME PullData PROVE Alive'
  <2>1. WaitInv'
    BY <1>0, <1>14 DEF WaitInv, PlaceInv, PullData
  <2>2. PlaceInv'
    BY <1>0, <1>14 DEF PlaceInv, PullData
  <2>3. StageInv'
    BY <1>0, <1>14 DEF StageInv, PlaceInv, PullData
  <2>4. BodyInv'
    BY <1>0, <1>14 DEF BodyInv, PlaceInv, StageInv, PullData
  <2>5. EndInv'
    BY <1>0, <1>14 DEF EndInv, PlaceInv, BodyInv, PullData
  <2> QED
    BY <2>1, <2>2, <2>3, <2>4, <2>5
<1>15. ASSUME PullEnd PROVE Alive'
  BY <1>0, <1>15
     DEF WaitInv, PlaceInv, StageInv, BodyInv, EndInv, PullEnd, CloseBody, ScheduleAfterTurn
<1>16. ASSUME PullClosed PROVE Alive'
  BY <1>0, <1>16
     DEF WaitInv, PlaceInv, StageInv, BodyInv, EndInv, PullClosed
<1>17. ASSUME CancelRun PROVE Alive'
  BY <1>0, <1>17
     DEF WaitInv, PlaceInv, StageInv, BodyInv, EndInv, CancelRun, CloseBody, ScheduleAfterTurn
<1>18. ASSUME FixedAwait PROVE Alive'
  <2>1. WaitInv'
    BY <1>0, <1>18 DEF WaitInv, PlaceInv, FixedAwait
  <2>2. PlaceInv'
    BY ZenonT(60), <1>0, <1>18 DEF PlaceInv, FixedAwait
  <2>3. StageInv'
    BY <1>0, <1>18 DEF StageInv, PlaceInv, FixedAwait
  <2>4. BodyInv'
    BY <1>0, <1>18 DEF BodyInv, PlaceInv, StageInv, FixedAwait
  <2>5. EndInv'
    BY <1>0, <1>18 DEF EndInv, PlaceInv, BodyInv, FixedAwait
  <2> QED
    BY <2>1, <2>2, <2>3, <2>4, <2>5
<1>19. ASSUME FixedReady PROVE Alive'
  BY <1>0, <1>19
     DEF WaitInv, PlaceInv, StageInv, BodyInv, EndInv, FixedReady
<1>20. ASSUME FixedData PROVE Alive'
  BY <1>0, <1>20
     DEF WaitInv, PlaceInv, StageInv, BodyInv, EndInv, FixedData
<1>21. ASSUME FixedClose PROVE Alive'
  BY <1>0, <1>21
     DEF WaitInv, PlaceInv, StageInv, BodyInv, EndInv, FixedClose, CloseBody, ScheduleAfterTurn
<1>22. ASSUME NEW g \in User, UserAwait(g) PROVE Alive'
  BY <1>0, <1>22
     DEF WaitInv, PlaceInv, StageInv, BodyInv, EndInv, UserAwait
<1>23. ASSUME NEW g \in User, NEW t \in Tasks, WaitUntil(g, t) PROVE Alive'
  <2>1. WaitInv'
    <3>1. /\ Len(frames) \in Nat /\ Len(frames') = Len(frames) + 1
          /\ frames'[Len(frames) + 1] = g
          /\ \A i \in 1..Len(frames) : frames'[i] = frames[i]
      BY <1>23, FrameTypes DEF WaitUntil
    <3>2. /\ inGo' /\ events' = events
          /\ \A h \in Goroutines : pc'[h] = IF h = t THEN "run" ELSE IF h = g THEN "inJS" ELSE pc[h]
      BY <1>23 DEF WaitUntil
    <3>3. ASSUME NEW h \in User, pc'[h] = "inJS"
          PROVE  \E i \in 1..Len(frames') : frames'[i] = h
      <4>1. CASE h = g
        BY <3>1, <4>1
      <4>2. CASE h # g
        <5>1. PICK i \in 1..Len(frames) : frames[i] = h
          BY <1>0, <3>2, <3>3, <4>2 DEF WaitInv
        <5> QED
          BY <3>1, <5>1
      <4> QED
        BY <4>1, <4>2
    <3> QED
      BY <1>0, <3>2, <3>3 DEF WaitInv
  <2>2. PlaceInv'
    BY <1>0, <1>23 DEF PlaceInv, WaitUntil
  <2>3. StageInv'
    BY <1>0, <1>23 DEF StageInv, PlaceInv, WaitUntil
  <2>4. BodyInv'
    BY <1>0, <1>23 DEF BodyInv, PlaceInv, StageInv, WaitUntil
  <2>5. EndInv'
    BY <1>0, <1>23 DEF EndInv, PlaceInv, BodyInv, WaitUntil
  <2> QED
    BY <2>1, <2>2, <2>3, <2>4, <2>5
<1>24. ASSUME NEW t \in Tasks, TaskReturn(t) PROVE Alive'
  <2>1. WaitInv'
    BY <1>0, <1>24 DEF WaitInv, PlaceInv, TaskReturn
  <2>2. PlaceInv'
    BY <1>0, <1>24 DEF PlaceInv, TaskReturn
  <2>3. StageInv'
    BY <1>0, <1>24 DEF StageInv, PlaceInv, TaskReturn
  <2>4. BodyInv'
    BY <1>0, <1>24 DEF BodyInv, PlaceInv, StageInv, TaskReturn
  <2>5. EndInv'
    BY <1>0, <1>24 DEF EndInv, PlaceInv, BodyInv, TaskReturn
  <2> QED
    BY <2>1, <2>2, <2>3, <2>4, <2>5
<1>25. ASSUME JsHandleRequest PROVE Alive'
  BY <1>0, <1>25
     DEF WaitInv, PlaceInv, StageInv, BodyInv, EndInv, JsHandleRequest, DeliverPromise, Deliver
<1>26. ASSUME JsPull PROVE Alive'
  BY <1>0, <1>26
     DEF WaitInv, PlaceInv, StageInv, BodyInv, EndInv, JsPull, DeliverPromise, Deliver
<1>27. ASSUME JsReadRaw PROVE Alive'
  BY <1>0, <1>27
     DEF WaitInv, PlaceInv, StageInv, BodyInv, EndInv, JsReadRaw, Idle, CanRun, PipeReadable
<1>28. ASSUME JsDone PROVE Alive'
  BY <1>0, <1>28
     DEF WaitInv, PlaceInv, StageInv, BodyInv, EndInv, JsDone, Deliver
<1>29. ASSUME NEW g \in User \cup {"fixed"}, JsWake(g) PROVE Alive'
  BY <1>0, <1>29
     DEF WaitInv, PlaceInv, StageInv, BodyInv, EndInv, JsWake, Deliver
<1>30. ASSUME JsCancel PROVE Alive'
  BY <1>0, <1>30
     DEF WaitInv, PlaceInv, StageInv, BodyInv, EndInv, JsCancel, Deliver
<1>31. ASSUME MainExit PROVE FALSE
  BY <1>31 DEF MainExit, Exit
<1>32. ASSUME NEW e \in events, LateEvent(e) PROVE FALSE
  BY <1>32 DEF LateEvent
<1>33. CASE UNCHANGED vars
  BY <1>0, <1>33
     DEF WaitInv, PlaceInv, StageInv, BodyInv, EndInv, Idle, CanRun, PipeReadable, vars
<1> QED
  BY <1>1, <1>2, <1>3, <1>4, <1>5, <1>6, <1>7, <1>8, <1>9, <1>10,
     <1>11, <1>12, <1>13, <1>14, <1>15, <1>16, <1>17, <1>18, <1>19, <1>20,
     <1>21, <1>22, <1>23, <1>24, <1>25, <1>26, <1>27, <1>28, <1>29, <1>30,
     <1>31, <1>32, <1>33
     DEF Next, GoStep, JsStep

\* When nothing can run and nothing is due but a cancel, some goroutine would
\* have to wait for another that waits for it; there is none.
LEMMA NobodyStuck ==
  ASSUME TypeOK, AliveInv
  PROVE  NeverStuck
<1> SUFFICES ASSUME ~exited, ~inGo, events \subseteq {"cancel"}, promise # "rejected",
                    ~(promise = "resolved" /\ kind \in {"raw", "ws"})
             PROVE  FALSE
  BY DEF NeverStuck
<1>1. /\ WaitInv /\ PlaceInv /\ StageInv /\ BodyInv /\ EndInv
      /\ Idle /\ frames = <<>>
  BY DEF AliveInv, Alive, WaitInv
<1>2. \A g \in User : pc[g] \notin {"await", "inJS", "start", "run"}
  <2>1. Len(frames) = 0
    BY <1>1, EmptySeq
  <2> QED
    BY <1>1, <2>1 DEF WaitInv, Idle, CanRun
<1>3. wg = {}
  BY ZenonT(60), <1>1, <1>2 DEF EndInv, PlaceInv, TypeOK
<1>4. pc["handler"] \in {"none", "write", "done"}
  BY <1>1, <1>2, <1>3 DEF PlaceInv, Idle, CanRun
<1>5. pc["main"] = "recvAllDone" /\ ~allDoneCh
  BY <1>1, <1>2 DEF PlaceInv, Idle, CanRun
<1>6. promise = "resolved"
  <2>1. promise # "none"
    BY <1>1, <1>5 DEF StageInv
  <2>2. promise # "pending"
    BY <1>1, <1>4 DEF StageInv, Idle, CanRun
  <2> QED
    BY <2>1, <2>2 DEF TypeOK
<1>7. bodyClosed
  <2> SUFFICES ASSUME ~bodyClosed PROVE FALSE
    OBVIOUS
  <2>1. kind \in {"stream", "fixed"}
    BY <1>1, <1>6, KindsAssumption DEF StageInv, BodyInv, TypeOK
  <2>2. PipeReadable
    BY <1>1, <1>4, <1>6 DEF StageInv, PipeReadable
  <2>3. pc["cancel"] # "start" /\ pc["pull"] \notin {"start", "read"}
    BY <1>1, <2>2 DEF Idle, CanRun
  <2>4. pc["fixed"] \notin {"start", "await", "run", "read", "awaitClose", "close"}
    BY <1>1, <2>2 DEF Idle, CanRun, WaitInv
  <2> QED
    BY <1>1, <1>6, <2>1, <2>3, <2>4 DEF BodyInv
<1>8. doneCh
  BY <1>1, <1>7 DEF EndInv
<1> QED
  BY <1>1, <1>3, <1>5, <1>8 DEF EndInv, PlaceInv, Idle, CanRun

-----------------------------------------------------------------------------
(* The theorems.                                                           *)

\* Every variable of a running instance keeps its type, whatever closes the
\* body and whenever.
THEOREM TypeCorrect == Spec => []TypeOK
<1>1. Init => TypeOK
  BY Initial DEF IInv
<1> QED
  BY <1>1, Typing, PTL DEF Spec

\* The inductive invariant holds throughout.
THEOREM Invariance == ASSUME Detach = {} PROVE Spec => []IInv
<1>1. IInv /\ [Next]_vars => IInv'
  BY Inductive
<1> QED
  BY <1>1, Initial, PTL DEF Spec

\* The invariant of a handler that may outlive its body.
THEOREM DetachedInvariance == ASSUME ~HandlerJoins PROVE Spec => []DetachedInv
<1>1. DetachedInv /\ [Next]_vars => DetachedInv'
  BY DetachedInductive
<1> QED
  BY <1>1, DetachedInitial, PTL DEF Spec

\* main never returns, and wasmExit never deletes the instance, while a
\* `new Promise` call is on the JavaScript stack (scheduleAfterTurn), even when
\* the body is closed under a handler that goes on and registers tasks.
THEOREM ExitIsUnwound == Spec => []ExitUnwound
<1>1. IInv => ExitUnwound
  BY DEF IInv, DoneInv, ExitUnwound
<1>2. DetachedInv => ExitUnwound
  BY DEF DetachedInv, LastInv, ExitUnwound
<1>3. CASE Detach = {}
  BY <1>1, <1>3, Invariance, PTL
<1>4. CASE ~HandlerJoins
  BY <1>2, <1>4, DetachedInvariance, PTL
<1> QED
  BY <1>3, <1>4, FlagsAssumption

\* No promise, timer or stream callback fires into an exited program.
THEOREM NoCallbackIsLate == ASSUME Detach = {} PROVE Spec => []NoLateCallback
<1>1. IInv => NoLateCallback
  BY QuietExit DEF IInv, DoneInv, NoLateCallback
<1> QED
  BY <1>1, Invariance, PTL

\* Done stays open until every WaitUntil task has returned, also those that a
\* handler registers after its body has been closed.
THEOREM TasksAreOutlived == Spec => []TasksOutlived
<1>1. IInv => TasksOutlived
  BY DEF IInv, TasksInv, DoneInv, TasksOutlived
<1>2. DetachedInv => TasksOutlived
  BY DEF DetachedInv, TasksInv, LastInv, TasksOutlived
<1>3. CASE Detach = {}
  BY <1>1, <1>3, Invariance, PTL
<1>4. CASE ~HandlerJoins
  BY <1>2, <1>4, DetachedInvariance, PTL
<1> QED
  BY <1>3, <1>4, FlagsAssumption

\* Done closes only when ServeHTTP has returned and the request is answered.
THEOREM HandlerIsDone == ASSUME Detach = {} PROVE Spec => []DoneMeansHandlerDone
<1>1. IInv => DoneMeansHandlerDone
  BY DEF IInv, ClosedInv, DoneInv, DoneMeansHandlerDone
<1> QED
  BY <1>1, Invariance, PTL

\* A goroutine that waits never waits for one that waits for it: whatever the
\* handler joins, and whoever closes the body, the program can go on or
\* JavaScript owes it a callback, until it exits.
THEOREM NothingIsStuck == Spec => []NeverStuck
<1>1. Init => AliveInv
  BY TasksAssumption, EmptySeq
     DEF Init, AliveInv, Alive, WaitInv, PlaceInv, StageInv, BodyInv, EndInv
<1>2. TypeOK /\ AliveInv /\ [Next]_vars => AliveInv'
  <2> SUFFICES ASSUME TypeOK, AliveInv, [Next]_vars, ~exited'
               PROVE  Alive'
    BY DEF AliveInv
  <2>1. TypeOK'
    BY Typing
  <2>2. ~exited
    BY DEF Next, GoStep, JsStep, JsCancel, Return, MainServe, MainExit, Exit,
           WaiterRecv, WaiterReleased, ReqReject, ReqServe,
           ReqRespond, HandlerWrite, HandlerWriteFails, HandlerJoin,
           HandlerJoined, HandlerReturn, PullStart, PullData, PullEnd,
           PullClosed, CancelRun, FixedAwait, FixedReady, FixedData,
           FixedClose, UserAwait, WaitUntil, TaskReturn, JsHandleRequest,
           JsPull, JsReadRaw, JsDone, JsWake, LateEvent, lifeVars, vars
  <2> QED
    BY <2>1, <2>2, AliveStep DEF AliveInv
<1>3. TypeOK /\ AliveInv => NeverStuck
  BY NobodyStuck
<1> QED
  BY <1>1, <1>2, <1>3, TypeCorrect, PTL DEF Spec

\* doneCh is closed from a turn of its own, even when the client cancels or
\* the handler outlives its body: JavaScript's own turn has no frame below.
THEOREM DoneHasOwnTurn == Spec => DoneInOwnTurn
<1> DEFINE Turn == ~inGo => frames = <<>>
<1>1. Init => Turn
  BY DEF Init
<1>2. Turn /\ [Next]_vars => Turn'
  <2> SUFFICES ASSUME Turn, [Next]_vars PROVE Turn'
    OBVIOUS
  <2> QED
    BY DEF Next, GoStep, JsStep, JsCancel, Return, MainServe, MainExit, Exit,
           WaiterRecv, WaiterReleased, ReqReject, ReqServe,
           ReqRespond, HandlerWrite, HandlerWriteFails, HandlerJoin,
           HandlerJoined, HandlerReturn, PullStart, PullData, PullEnd,
           PullClosed, CancelRun, FixedAwait, FixedReady, FixedData,
           FixedClose, UserAwait, WaitUntil, TaskReturn, JsHandleRequest,
           JsPull, JsReadRaw, JsDone, JsWake, LateEvent, DeliverPromise,
           Deliver, At, vars
<1>3. Turn /\ [Next]_vars => [doneCh' # doneCh => frames = <<>> /\ ~inGo]_vars
  BY DEF Next, GoStep, JsStep, JsCancel, Return, MainServe, MainExit, Exit,
         WaiterRecv, WaiterReleased, ReqReject, ReqServe,
         ReqRespond, HandlerWrite, HandlerWriteFails, HandlerJoin,
         HandlerJoined, HandlerReturn, PullStart, PullData, PullEnd,
         PullClosed, CancelRun, FixedAwait, FixedReady, FixedData,
         FixedClose, UserAwait, WaitUntil, TaskReturn, JsHandleRequest,
         JsPull, JsReadRaw, JsDone, JsWake, LateEvent, Deliver, lifeVars
<1> QED
  BY <1>1, <1>2, <1>3, PTL DEF Spec, DoneInOwnTurn
=============================================================================
