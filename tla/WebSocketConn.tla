--------------------------- MODULE WebSocketConn ---------------------------
(***************************************************************************)
(* exp/cloudflare/websocket/conn.go: the server end of an accepted         *)
(* WebSocket.  Three JavaScript listeners run as goroutines that hold the  *)
(* event loop until they return; reader goroutines take the messages; any  *)
(* goroutine may close the connection.  Go runs on one thread and never    *)
(* preempts, so a method call is cut into steps only where another         *)
(* goroutine's step between could matter.                                  *)
(***************************************************************************)
EXTENDS Integers, Sequences, FiniteSets, SequencesExt

CONSTANTS
  Readers,      \* goroutines that read in a loop, then close
  Closers,      \* goroutines that only close, at any moment
  None,
  PeerCodes,    \* codes a peer's close event may carry, 0 for none
  UserCodes,    \* codes Conn.Close is called with
  MaxMessages,  \* bound: messages the peer sends
  MaxCancels,   \* bound: reads whose context ends
  Awaits        \* the readers that may wait for a promise between two reads

ASSUME BoundsAssumption ==
  /\ MaxMessages \in Nat /\ MaxCancels \in Nat /\ Awaits \subseteq Readers
  /\ PeerCodes \subseteq Nat /\ UserCodes \subseteq Nat
  /\ Readers \cap Closers = {}

Goroutines == Readers \union Closers
Events == {"message", "close", "error"}
Frames == [event : Events, at : {"start", "parked", "finish"}, arg : Nat]
ASSUME NoneAssumption == None \notin Frames

\* The order of c.listeners, in which release goes through them.
ListenerOrder == <<"message", "close", "error">>

VARIABLES
  inbox,      \* events the runtime has for the server end, oldest first
  sent,       \* messages the peer has sent
  peer,       \* "open", "closed" or "broken"
  listener,   \* the listener the event loop is in: its event and position, or None
  pc,         \* what each goroutine is at
  done,       \* c.done is closed
  closeErr,   \* None, "closed" (ErrClosed) or "error"
  closeSent,  \* c.closeSent
  calls,      \* the codes WebSocket.close has been called with
  got,        \* messages reads have returned, in order
  taken,      \* messages whose listener has been started
  added,      \* listeners addEventListener has registered and nobody removed
  live,       \* listeners whose js.Func has not been released
  releasing,  \* the goroutine in releaseOnce, and how far it has come
  dead,       \* a released js.Func has been called
  cancels     \* reads whose context has ended

connVars == <<done, closeErr, closeSent, calls>>
funcVars == <<added, live, releasing, dead>>
vars == <<inbox, sent, peer, listener, pc, connVars, got, taken, funcVars, cancels>>

TypeOK ==
  /\ inbox \in Seq([event : Events, arg : Nat]) /\ sent \in 0 .. MaxMessages
  /\ peer \in {"open", "closed", "broken"}
  /\ listener \in Frames \union {None}
  /\ pc \in [Goroutines -> {"idle", "read", "busy", "await", "close", "finish",
                            "release", "end"}]
  /\ done \in BOOLEAN /\ closeErr \in {None, "closed", "error"}
  /\ closeSent \in BOOLEAN /\ calls \in Seq(Nat)
  /\ got \in Seq(Nat) /\ taken \in 0 .. MaxMessages
  /\ added \subseteq Events /\ live \subseteq Events /\ dead \in BOOLEAN
  /\ releasing \in [by : Goroutines \union {None}, at : 1 .. 7]
  /\ cancels \in 0 .. MaxCancels

\* newConn: the three listeners registered on the accepted end.
Init ==
  /\ inbox = <<>> /\ sent = 0 /\ peer = "open" /\ listener = None
  /\ pc = [g \in Goroutines |-> "idle"]
  /\ done = FALSE /\ closeErr = None /\ closeSent = FALSE /\ calls = <<>>
  /\ got = <<>> /\ taken = 0
  /\ added = Events /\ live = Events
  /\ releasing = [by |-> None, at |-> 1] /\ dead = FALSE
  /\ cancels = 0

-----------------------------------------------------------------------------
(* The peer and the event loop *)

PeerSends ==
  /\ peer = "open" /\ sent < MaxMessages
  /\ sent' = sent + 1
  /\ inbox' = Append(inbox, [event |-> "message", arg |-> sent + 1])
  /\ UNCHANGED <<peer, listener, pc, connVars, got, taken, funcVars, cancels>>

\* The peer closes, of its own accord or in answer to a close frame.
PeerCloses(c) ==
  /\ peer = "open" /\ peer' = "closed"
  /\ inbox' = Append(inbox, [event |-> "close", arg |-> c])
  /\ UNCHANGED <<sent, listener, pc, connVars, got, taken, funcVars, cancels>>

\* The connection breaks: an error event, perhaps with a close event behind it.
Breaks(closes) ==
  /\ peer = "open" /\ peer' = "broken"
  /\ LET error == [event |-> "error", arg |-> 0]
         close == [event |-> "close", arg |-> 1006]
     IN  inbox' = inbox \o (IF closes THEN <<error, close>> ELSE <<error>>)
  /\ UNCHANGED <<sent, listener, pc, connVars, got, taken, funcVars, cancels>>

\* The event loop, once free, calls the listener of the next event if it has one.
Dispatch ==
  /\ listener = None /\ inbox # <<>>
  /\ LET e == Head(inbox) IN
     /\ inbox' = Tail(inbox)
     /\ IF e.event \in added
          THEN /\ dead' = (dead \/ e.event \notin live)
               /\ listener' = [event |-> e.event, at |-> "start", arg |-> e.arg]
               /\ taken' = IF e.event = "message" THEN taken + 1 ELSE taken
          ELSE UNCHANGED <<dead, listener, taken>>
  /\ UNCHANGED <<sent, peer, pc, connVars, got, added, live, releasing, cancels>>

-----------------------------------------------------------------------------
(* sendClose and finish *)

\* A code this side may send: workerd's close() throws on any other, and is
\* called without arguments for 0.
Sendable(c) == c \in {0, 1000} \/ c \in 3000 .. 4999

\* replyCloseCode
ReplyCloseCode(c) == IF c = 1000 \/ c \in 3000 .. 4999 THEN c ELSE 1000

\* Faulty variant: the flag is not looked at.
SendCloseAgain(c) == closeSent' = TRUE /\ calls' = Append(calls, c)

\* sendClose: at most one call of WebSocket.close, whether or not it throws.
SendClose(c) ==
  IF closeSent THEN UNCHANGED <<closeSent, calls>>
  ELSE closeSent' = TRUE /\ calls' = Append(calls, c)

\* Faulty variant: without the sync.Once the last call wins.
FinishAgain(err) == done' = TRUE /\ closeErr' = err

\* finish: the first call wins, and wakes the readers that wait.
Woken == [g \in Goroutines |-> IF pc[g] = "read" THEN "close" ELSE pc[g]]
Finish(err) ==
  IF done THEN UNCHANGED <<done, closeErr>> ELSE done' = TRUE /\ closeErr' = err

\* Faulty variant: the listener waits on msgCh alone.
StaysParked == listener

\* A listener parked on msgCh is woken by done and drops its message.
Unparked ==
  IF listener # None /\ listener.at = "parked" THEN None ELSE listener

-----------------------------------------------------------------------------
(* The listeners *)

In(event, at) == listener # None /\ listener.event = event /\ listener.at = at
ReadersWaiting == {r \in Readers : pc[r] = "read"}

\* Faulty variant: a message nobody waits for is dropped, for the event loop's sake.
OnMessageDrops ==
  /\ In("message", "start")
  /\ \/ /\ ReadersWaiting # {} /\ ~done
        /\ \E r \in ReadersWaiting : pc' = [pc EXCEPT ![r] = "busy"]
        /\ got' = Append(got, listener.arg)
     \/ (ReadersWaiting = {} \/ done) /\ UNCHANGED <<pc, got>>
  /\ listener' = None
  /\ UNCHANGED <<inbox, sent, peer, connVars, taken, funcVars, cancels>>

\* onMessage: hands the message to a reader that waits, drops it after the end,
\* or waits for either with the event loop in its hands.
OnMessage ==
  /\ In("message", "start")
  /\ \/ /\ ReadersWaiting # {} /\ ~done
        /\ \E r \in ReadersWaiting : pc' = [pc EXCEPT ![r] = "busy"]
        /\ got' = Append(got, listener.arg)
        /\ listener' = None
     \/ /\ done /\ listener' = None /\ UNCHANGED <<pc, got>>
     \/ /\ ReadersWaiting = {} /\ ~done
        /\ listener' = [listener EXCEPT !.at = "parked"]
        /\ UNCHANGED <<pc, got>>
  /\ UNCHANGED <<inbox, sent, peer, connVars, taken, funcVars, cancels>>

\* onClose: replyToPeerClose first,
OnClose ==
  /\ In("close", "start")
  /\ SendClose(ReplyCloseCode(listener.arg))
  /\ listener' = [listener EXCEPT !.at = "finish"]
  /\ UNCHANGED <<inbox, sent, peer, pc, done, closeErr, got, taken, funcVars, cancels>>

\* and then terminate, as onError does at once.
Terminate ==
  /\ In("close", "finish") \/ In("error", "start")
  /\ Finish(IF listener.event = "close" THEN "closed" ELSE "error")
  /\ pc' = IF done THEN pc ELSE Woken
  /\ listener' = None
  /\ UNCHANGED <<inbox, sent, peer, closeSent, calls, got, taken, funcVars, cancels>>

-----------------------------------------------------------------------------
(* ReadMessage *)

\* A call of ReadMessage: takes the message of a parked listener, or finds the
\* connection ended, or waits.
Read(r) ==
  /\ pc[r] = "idle"
  /\ \/ /\ listener # None /\ listener.at = "parked"
        /\ got' = Append(got, listener.arg)
        /\ listener' = None /\ pc' = [pc EXCEPT ![r] = "busy"]
     \/ /\ done /\ pc' = [pc EXCEPT ![r] = "close"] /\ UNCHANGED <<got, listener>>
     \/ /\ ~done /\ ~(listener # None /\ listener.at = "parked")
        /\ pc' = [pc EXCEPT ![r] = "read"] /\ UNCHANGED <<got, listener>>
  /\ UNCHANGED <<inbox, sent, peer, connVars, taken, funcVars, cancels>>

\* ctx ends under a read that waits; the reader then reads again.
ReadCancelled(r) ==
  /\ pc[r] = "read" /\ cancels < MaxCancels
  /\ cancels' = cancels + 1 /\ pc' = [pc EXCEPT ![r] = "idle"]
  /\ UNCHANGED <<inbox, sent, peer, listener, connVars, got, taken, funcVars>>

\* The reader handles its message, perhaps waiting for a promise, which only
\* a free event loop settles; a WriteMessage that fails ends the loop.
Handle(r) ==
  /\ pc[r] = "busy"
  /\ pc' \in {[pc EXCEPT ![r] = "idle"], [pc EXCEPT ![r] = "close"]}
             \union (IF r \in Awaits THEN {[pc EXCEPT ![r] = "await"]} ELSE {})
  /\ UNCHANGED <<inbox, sent, peer, listener, connVars, got, taken, funcVars, cancels>>

Settle(r) ==
  /\ pc[r] = "await" /\ listener = None
  /\ pc' = [pc EXCEPT ![r] = "idle"]
  /\ UNCHANGED <<inbox, sent, peer, listener, connVars, got, taken, funcVars, cancels>>

-----------------------------------------------------------------------------
(* Close *)

CloseSends(g, c) ==
  /\ pc[g] = "close" \/ (g \in Closers /\ pc[g] = "idle")
  /\ SendClose(c)
  /\ pc' = [pc EXCEPT ![g] = "finish"]
  /\ UNCHANGED <<inbox, sent, peer, listener, done, closeErr, got, taken, funcVars, cancels>>

CloseFinishes(g) ==
  /\ pc[g] = "finish"
  /\ Finish("closed")
  /\ pc' = [(IF done THEN pc ELSE Woken) EXCEPT ![g] = "release"]
  /\ listener' = IF done THEN listener ELSE Unparked
  /\ UNCHANGED <<inbox, sent, peer, closeSent, calls, got, taken, funcVars, cancels>>

\* Faulty variant: each js.Func is released before its listener is removed.
ReleaseStepSwapped(l, odd) ==
  IF odd THEN live' = live \ {l} /\ UNCHANGED added
         ELSE added' = added \ {l} /\ UNCHANGED live

\* The two statements of release for one listener.
ReleaseStep(l, odd) ==
  IF odd THEN added' = added \ {l} /\ UNCHANGED live
         ELSE live' = live \ {l} /\ UNCHANGED added

\* release, in a sync.Once: whoever comes second waits for the first.
CloseReleases(g) ==
  /\ pc[g] = "release"
  /\ \/ /\ releasing.at <= 6 /\ releasing.by \in {None, g}
        /\ ReleaseStep(ListenerOrder[(releasing.at + 1) \div 2], releasing.at % 2 = 1)
        /\ releasing' = [by |-> g, at |-> releasing.at + 1]
        /\ UNCHANGED pc
     \/ /\ releasing.at = 7
        /\ pc' = [pc EXCEPT ![g] = "end"] /\ UNCHANGED <<added, live, releasing>>
  /\ UNCHANGED <<inbox, sent, peer, listener, connVars, got, taken, dead, cancels>>

ReaderStep(r) == Read(r) \/ Handle(r) \/ Settle(r)
CloseStep(g) ==
  \/ \E c \in UserCodes : CloseSends(g, c)
  \/ CloseFinishes(g) \/ CloseReleases(g)
ListenerStep == OnMessage \/ OnClose \/ Terminate

Next ==
  \/ PeerSends \/ \E c \in PeerCodes : PeerCloses(c)
  \/ \E closes \in BOOLEAN : Breaks(closes)
  \/ Dispatch \/ ListenerStep
  \/ \E r \in Readers : ReaderStep(r) \/ ReadCancelled(r)
  \/ \E g \in Goroutines : CloseStep(g)

Spec == Init /\ [][Next]_vars

\* Go's scheduler runs every goroutine that can run.  Nothing obliges the peer
\* to send, a context to end or a Closer to close.
FairSpec ==
  /\ Spec
  /\ WF_vars(ListenerStep)
  /\ \A r \in Readers : WF_vars(ReaderStep(r))
  /\ \A g \in Goroutines : WF_vars(pc[g] # "idle" /\ CloseStep(g))

-----------------------------------------------------------------------------
(* Properties *)

\* WebSocket.close is called at most once by all the replies and Closes
\* together, and before anybody can learn that the connection was closed; a
\* reply never carries a code the runtime would throw on, which would lose the
\* frame for good (conn.go:64-77, 130-133, 156-161, 181-196).
OneCloseFrame ==
  /\ Len(calls) <= 1
  /\ done /\ closeErr = "closed" => Len(calls) = 1
  /\ \A i \in DOMAIN calls : calls[i] \notin UserCodes => Sendable(calls[i])

\* No event reaches a js.Func that has been released, even if it comes between
\* the steps of release (conn.go:247-257).
NoReleasedCall == ~dead

\* Seen by its readers the connection is a channel that loses, repeats and
\* reorders nothing until it ends, once, with its close frame sent before a
\* read can return ErrClosed (newConn's listeners, ReadMessage, Close).
Channel == INSTANCE MessageChannel WITH
  sent     <- sent,
  received <- got,
  frames   <- Len(calls),
  ended    <- IF done THEN closeErr ELSE "no"

ImplementsMessageChannel == Channel!Spec

\* While the connection is open no message is lost: what the event loop has
\* taken has been received, or its listener still holds it; and while it holds
\* the event loop for a reader, no reader waits for anything but that loop:
\* each can go on, to read or to close (conn.go:56-63, 202-211).
MessagesKept ==
  /\ ~done => taken = Len(got) + (IF listener # None /\ listener.event = "message" THEN 1 ELSE 0)
  /\ listener # None /\ listener.at = "parked" =>
       \A r \in Readers : \/ pc[r] \in {"idle", "busy", "close", "finish"}
                          \/ r \in Awaits /\ pc[r] = "await"

\* The event loop is never held for ever: a listener returns as long as one
\* reader does nothing between two reads that needs the event loop itself
\* (conn.go:56-63).
ListenerReturns == listener # None ~> listener = None
=============================================================================
