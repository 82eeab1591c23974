------------------------ MODULE WebSocketConnProofs ------------------------
(***************************************************************************)
(* For any number of readers and closers, messages, codes and contexts:    *)
(* one close frame at most and before anybody is told, messages in order   *)
(* and none dropped while the connection is open, no call of a released    *)
(* listener, and nobody waits for a listener that waits for a reader.  The *)
(* connection implements MessageChannel.                                   *)
(***************************************************************************)
EXTENDS WebSocketConn, TLAPS

Item == [event : Events, arg : Nat]

\* Whoever is past sendClose has seen the one call of WebSocket.close.
CloseInv ==
  /\ (closeSent <=> Len(calls) = 1) /\ Len(calls) <= 1
  /\ \A i \in DOMAIN calls : calls[i] \notin UserCodes => Sendable(calls[i])
  /\ \A g \in Goroutines : pc[g] \in {"finish", "release", "end"} => closeSent
  /\ In("close", "finish") => closeSent
  /\ done /\ closeErr = "closed" => closeSent

\* How far release has come says which listeners are gone, and which funcs.
ReleaseInv ==
  /\ "message" \in added <=> releasing.at <= 1
  /\ "close" \in added <=> releasing.at <= 3
  /\ "error" \in added <=> releasing.at <= 5
  /\ releasing.at <= 2 => "message" \in live
  /\ releasing.at <= 4 => "close" \in live
  /\ releasing.at <= 6 => "error" \in live
  /\ releasing.at > 1 => done
  /\ \A g \in Goroutines : pc[g] \in {"release", "end"} => done
  /\ ~dead

\* While its listener is there, every message sent is in one place: returned,
\* with the listener, or in the inbox, ahead of a close or an error.
MessageInv ==
  /\ \A i \in DOMAIN got : got[i] = i
  /\ listener # None /\ listener.at = "parked" => ~done /\ listener.event = "message"
  /\ releasing.at = 1 =>
       /\ taken <= sent /\ sent - taken <= Len(inbox)
       /\ peer = "open" => Len(inbox) = sent - taken
       /\ \A i \in DOMAIN inbox : inbox[i].event = "message" <=> i <= sent - taken
       /\ \A i \in DOMAIN inbox : i <= sent - taken => inbox[i].arg = taken + i
  /\ ~done =>
       /\ taken = Len(got) + (IF listener # None /\ listener.event = "message" THEN 1 ELSE 0)
       /\ listener # None /\ listener.event = "message" => listener.arg = taken

IInv == TypeOK /\ CloseInv /\ ReleaseInv /\ MessageInv

\* Nothing has been sent, and every listener is registered.
LEMMA InitInv == Init => IInv
<1> SUFFICES ASSUME Init PROVE IInv
  OBVIOUS
<1> USE BoundsAssumption DEF Init
<1>a. \A S : <<>> \in Seq(S)
  OBVIOUS
<1>b. Len(<<>>) = 0 /\ DOMAIN <<>> = {}
  OBVIOUS
<1>1. TypeOK
  <2>1. inbox \in Seq([event : Events, arg : Nat]) /\ calls \in Seq(Nat) /\ got \in Seq(Nat)
    BY <1>a
  <2>2. pc \in [Goroutines -> {"idle", "read", "busy", "await", "close", "finish", "release", "end"}]
    OBVIOUS
  <2>3. releasing \in [by : Goroutines \union {None}, at : 1 .. 7]
    OBVIOUS
  <2>4. sent \in 0 .. MaxMessages /\ taken \in 0 .. MaxMessages /\ cancels \in 0 .. MaxCancels
    OBVIOUS
  <2>5. /\ peer \in {"open", "closed", "broken"} /\ listener = None
        /\ done \in BOOLEAN /\ closeErr \in {None, "closed", "error"} /\ closeSent \in BOOLEAN
    OBVIOUS
  <2>6. added \subseteq Events /\ live \subseteq Events /\ dead \in BOOLEAN
    OBVIOUS
  <2> HIDE DEF Init
  <2> QED
    BY <2>1, <2>2, <2>3, <2>4, <2>5, <2>6 DEF TypeOK
<1>2. CloseInv
  <2>1. \A g \in Goroutines : pc[g] = "idle"
    OBVIOUS
  <2>2. calls = <<>> /\ ~closeSent /\ listener = None /\ ~done
    OBVIOUS
  <2>3. (closeSent <=> Len(calls) = 1) /\ Len(calls) <= 1 /\ DOMAIN calls = {}
    BY <1>b, <2>2
  <2> HIDE DEF Init
  <2> QED
    BY <2>1, <2>2, <2>3 DEF CloseInv, In
<1>3. ReleaseInv
  BY DEF ReleaseInv, Events
<1>4. MessageInv
  BY DEF MessageInv
<1> QED
  BY <1>1, <1>2, <1>3, <1>4 DEF IInv

\* The peer and the event loop: they add to the inbox and take from it.
LEMMA PeerStep ==
  ASSUME IInv, PeerSends \/ (\E c \in PeerCodes : PeerCloses(c)) \/ (\E b \in BOOLEAN : Breaks(b))
  PROVE  IInv'
<1> USE BoundsAssumption DEF IInv
<1>1. CASE PeerSends
  <2> USE <1>1 DEF PeerSends
  <2> DEFINE e == [event |-> "message", arg |-> sent + 1]
  <2>1. e \in Item /\ inbox \in Seq(Item) /\ inbox' = Append(inbox, e)
    BY DEF TypeOK, Item, Events
  <2>2. /\ inbox' \in Seq(Item) /\ Len(inbox') = Len(inbox) + 1
        /\ \A i \in DOMAIN inbox' : inbox'[i] = IF i <= Len(inbox) THEN inbox[i] ELSE e
        /\ DOMAIN inbox' = 1 .. Len(inbox) + 1 /\ DOMAIN inbox = 1 .. Len(inbox)
    <3> HIDE DEF e
    <3> QED BY <2>1
  <2>3. TypeOK'
    BY <2>2 DEF TypeOK, Item, connVars, funcVars
  <2>4. CloseInv' /\ ReleaseInv'
    BY DEF CloseInv, ReleaseInv, In, connVars, funcVars
  <2>5. MessageInv'
    <3>1. /\ sent \in Nat /\ taken \in Nat /\ sent' = sent + 1 /\ peer = "open" /\ peer' = peer
          /\ UNCHANGED <<listener, done, got, taken, releasing>> /\ Len(inbox) \in Nat
      BY DEF TypeOK, connVars, funcVars
    <3>2. \A i \in DOMAIN got' : got'[i] = i
      BY <3>1 DEF MessageInv
    <3>3. e.event = "message" /\ e.arg = sent + 1
      OBVIOUS
    <3>4. releasing.at = 1 =>
            /\ taken <= sent' /\ sent' - taken = Len(inbox')
            /\ \A i \in DOMAIN inbox' : i <= sent' - taken
            /\ \A i \in DOMAIN inbox' : inbox'[i].event = "message" /\ inbox'[i].arg = taken + i
      <4> HIDE DEF e, PeerSends
      <4>1. ASSUME releasing.at = 1 PROVE taken <= sent /\ Len(inbox) = sent - taken
        BY <3>1, <4>1 DEF MessageInv
      <4>2. ASSUME releasing.at = 1, NEW i \in DOMAIN inbox PROVE inbox[i].event = "message" /\ inbox[i].arg = taken + i
        <5>1. i \in Nat /\ i <= sent - taken
          BY <2>2, <3>1, <4>1, <4>2
        <5> QED BY <5>1, <4>2 DEF MessageInv
      <4>3. ASSUME releasing.at = 1, NEW i \in DOMAIN inbox' PROVE inbox'[i].event = "message" /\ inbox'[i].arg = taken + i
        <5>1. CASE i <= Len(inbox)
          BY <2>2, <4>2, <4>3, <5>1
        <5>2. CASE i > Len(inbox)
          BY <2>2, <3>1, <3>3, <4>1, <4>3, <5>2
        <5> QED BY <2>2, <3>1, <5>1, <5>2
      <4> QED BY <2>2, <3>1, <4>1, <4>3
    <3> HIDE DEF e, PeerSends
    <3> QED BY <2>2, <3>1, <3>2, <3>4 DEF MessageInv
  <2> QED
    BY <2>3, <2>4, <2>5
<1>2. CASE (\E c \in PeerCodes : PeerCloses(c)) \/ (\E b \in BOOLEAN : Breaks(b))
  <2>1. PICK es \in Seq(Item) :
          /\ inbox' = inbox \o es
          /\ \A i \in DOMAIN es : es[i].event # "message"
          /\ peer' \in {"closed", "broken"}
          /\ UNCHANGED <<sent, listener, pc, connVars, got, taken, funcVars, cancels>>
    <3>1. CASE \E c \in PeerCodes : PeerCloses(c)
      <4>1. PICK c \in PeerCodes : PeerCloses(c)
        BY <3>1
      <4> DEFINE one == <<[event |-> "close", arg |-> c]>>
      <4>2. one \in Seq(Item) /\ \A i \in DOMAIN one : one[i].event # "message"
        BY DEF Item, Events
      <4>3. inbox' = inbox \o one
        BY <4>1 DEF PeerCloses, TypeOK
      <4> QED BY <4>1, <4>2, <4>3 DEF PeerCloses
    <3>2. CASE \E b \in BOOLEAN : Breaks(b)
      <4>1. PICK b \in BOOLEAN : Breaks(b)
        BY <3>2
      <4> DEFINE err == [event |-> "error", arg |-> 0]
                 cls == [event |-> "close", arg |-> 1006]
      <4>2. <<err>> \in Seq(Item) /\ <<err, cls>> \in Seq(Item)
        BY DEF Item, Events
      <4>3. inbox' = IF b THEN inbox \o <<err, cls>> ELSE inbox \o <<err>>
        BY <4>1 DEF Breaks
      <4>4. /\ \A i \in DOMAIN <<err>> : <<err>>[i].event # "message"
            /\ \A i \in DOMAIN <<err, cls>> : <<err, cls>>[i].event # "message"
        OBVIOUS
      <4>5. /\ peer' = "broken"
            /\ UNCHANGED <<sent, listener, pc, connVars, got, taken, funcVars, cancels>>
        BY <4>1 DEF Breaks
      <4> HIDE DEF err, cls
      <4>6. CASE b
        BY <4>2, <4>3, <4>4, <4>5, <4>6
      <4>7. CASE ~b
        BY <4>2, <4>3, <4>4, <4>5, <4>7
      <4> QED BY <4>6, <4>7
    <3> QED BY <1>2, <3>1, <3>2
  <2>2. /\ inbox \in Seq(Item) /\ inbox' \in Seq(Item)
        /\ Len(inbox') = Len(inbox) + Len(es)
        /\ DOMAIN inbox' = 1 .. Len(inbox) + Len(es) /\ DOMAIN inbox = 1 .. Len(inbox)
        /\ DOMAIN es = 1 .. Len(es)
        /\ \A i \in DOMAIN inbox' :
             inbox'[i] = IF i <= Len(inbox) THEN inbox[i] ELSE es[i - Len(inbox)]
    BY <2>1 DEF TypeOK, Item
  <2>3. TypeOK'
    BY <2>1, <2>2 DEF TypeOK, Item, connVars, funcVars
  <2>4. CloseInv' /\ ReleaseInv'
    BY <2>1 DEF CloseInv, ReleaseInv, In, connVars, funcVars
  <2>5. MessageInv'
    BY <2>1, <2>2 DEF MessageInv, TypeOK, connVars, funcVars
  <2> QED
    BY <2>3, <2>4, <2>5
<1> QED
  BY <1>1, <1>2

\* The event loop gives an event to its listener.
LEMMA DispatchStep == ASSUME IInv, Dispatch PROVE IInv'
<1> USE BoundsAssumption DEF IInv, Dispatch
<1> DEFINE e == Head(inbox)
<1>1. /\ inbox \in Seq(Item) /\ inbox # <<>> /\ e \in Item /\ e = inbox[1]
      /\ inbox' = Tail(inbox) /\ inbox' \in Seq(Item)
      /\ Len(inbox') = Len(inbox) - 1 /\ Len(inbox) >= 1
      /\ DOMAIN inbox' = 1 .. Len(inbox) - 1 /\ DOMAIN inbox = 1 .. Len(inbox)
      /\ \A i \in DOMAIN inbox' : inbox'[i] = inbox[i + 1]
  <2>1. inbox \in Seq(Item) /\ inbox # <<>> /\ inbox' = Tail(inbox)
    BY DEF TypeOK, Item
  <2> HIDE DEF Dispatch, IInv
  <2> QED BY <2>1
<1>2. listener = None /\ UNCHANGED <<sent, peer, pc, connVars, got, added, live, releasing, cancels>>
  OBVIOUS
<1>3. e.event \in added =>
        /\ dead' = (dead \/ e.event \notin live)
        /\ listener' = [event |-> e.event, at |-> "start", arg |-> e.arg]
        /\ taken' = IF e.event = "message" THEN taken + 1 ELSE taken
  OBVIOUS
<1>4. e.event \notin added => UNCHANGED <<dead, listener, taken>>
  OBVIOUS
<1> HIDE DEF e, Dispatch
<1>t. /\ sent \in Nat /\ taken \in Nat /\ taken \in 0 .. MaxMessages /\ sent <= MaxMessages
      /\ releasing \in [by : Goroutines \union {None}, at : 1 .. 7] /\ releasing.at \in 1 .. 7
      /\ e.event \in Events /\ e.arg \in Nat
  BY <1>1 DEF TypeOK, Item
<1>u. releasing.at = 1 <=> "message" \in added
  BY <1>t DEF ReleaseInv
<1>5. e.event = "message" /\ e.event \in added => releasing.at = 1 /\ sent - taken >= 1 /\ e.arg = taken + 1
  <2> SUFFICES ASSUME e.event = "message", "message" \in added
               PROVE  sent - taken >= 1 /\ e.arg = taken + 1
    BY <1>u
  <2>1. releasing.at = 1 /\ 1 \in DOMAIN inbox
    BY <1>1, <1>u
  <2>2. 1 <= sent - taken
    BY <1>1, <2>1 DEF MessageInv
  <2> QED
    BY <1>1, <1>t, <2>1, <2>2 DEF MessageInv
<1>6. TypeOK'
  <2>1. listener' \in Frames \union {None}
    BY <1>2, <1>3, <1>4, <1>t DEF Frames
  <2>2. taken' \in 0 .. MaxMessages
    <3>1. CASE e.event = "message" /\ e.event \in added
      BY <1>3, <1>5, <1>t, <3>1
    <3>2. CASE ~(e.event = "message" /\ e.event \in added)
      BY <1>3, <1>4, <1>t, <3>2
    <3> QED BY <3>1, <3>2
  <2>3. dead' \in BOOLEAN
    BY <1>3, <1>4 DEF TypeOK
  <2> QED
    BY <1>1, <1>2, <2>1, <2>2, <2>3 DEF TypeOK, Item, connVars
<1>7. CloseInv'
  BY <1>1, <1>2, <1>3, <1>4 DEF CloseInv, In, TypeOK, Item, connVars
<1>8. e.event \in added => e.event \in live
  BY <1>1, <1>2 DEF ReleaseInv, TypeOK, Item, Events
<1>9. ReleaseInv'
  BY <1>1, <1>2, <1>3, <1>4, <1>8 DEF ReleaseInv, TypeOK, connVars
<1>10. MessageInv'
  <2>1. taken <= taken' /\ taken' <= taken + 1 /\ taken' \in Nat
    BY <1>3, <1>4, <1>t
  <2>2. /\ \A i \in DOMAIN got' : got'[i] = i
        /\ listener' # None => listener'.at # "parked"
    BY <1>2, <1>3, <1>4 DEF MessageInv
  <2>3. ~done' => taken' = Len(got') + (IF listener' # None /\ listener'.event = "message" THEN 1 ELSE 0)
    <3>1. ASSUME ~done PROVE releasing.at = 1 /\ taken = Len(got)
      BY <1>2, <1>t, <3>1 DEF ReleaseInv, MessageInv
    <3>2. ~done => "message" \in added /\ "close" \in added /\ "error" \in added
      BY <1>t, <3>1 DEF ReleaseInv
    <3>3. ~done => e.event \in added
      BY <1>t, <3>2 DEF Events
    <3>4. Len(got) \in Nat
      BY DEF TypeOK
    <3>5. e.event \in added => listener' # None /\ listener'.event = e.event
      BY <1>3, <1>t, NoneAssumption DEF Frames
    <3> QED BY <1>2, <1>3, <1>t, <3>1, <3>3, <3>4, <3>5 DEF connVars
  <2>4. ~done' /\ listener' # None /\ listener'.event = "message" => listener'.arg = taken'
    BY <1>2, <1>3, <1>4, <1>5, <1>t
  <2>5. releasing.at = 1 =>
          /\ taken' <= sent /\ sent - taken' <= Len(inbox')
          /\ peer = "open" => Len(inbox') = sent - taken'
          /\ \A i \in DOMAIN inbox' : inbox'[i].event = "message" <=> i <= sent - taken'
          /\ \A i \in DOMAIN inbox' : i <= sent - taken' => inbox'[i].arg = taken' + i
    <3> SUFFICES ASSUME releasing.at = 1
                 PROVE  /\ taken' <= sent /\ sent - taken' <= Len(inbox')
                        /\ peer = "open" => Len(inbox') = sent - taken'
                        /\ \A i \in DOMAIN inbox' : inbox'[i].event = "message" <=> i <= sent - taken'
                        /\ \A i \in DOMAIN inbox' : i <= sent - taken' => inbox'[i].arg = taken' + i
      OBVIOUS
    <3>1. /\ taken <= sent /\ sent - taken <= Len(inbox)
          /\ peer = "open" => Len(inbox) = sent - taken
          /\ \A i \in DOMAIN inbox : inbox[i].event = "message" <=> i <= sent - taken
          /\ \A i \in DOMAIN inbox : i <= sent - taken => inbox[i].arg = taken + i
      BY DEF MessageInv
    <3>2. e.event \in added
      BY <1>t DEF ReleaseInv, Events
    <3>3. CASE e.event = "message"
      <4>1. taken' = taken + 1
        BY <1>3, <3>2, <3>3
      <4>2. sent - taken >= 1
        BY <1>5, <3>2, <3>3
      <4>3. ASSUME NEW i \in DOMAIN inbox'
            PROVE  /\ inbox'[i].event = "message" <=> i <= sent - taken'
                   /\ i <= sent - taken' => inbox'[i].arg = taken' + i
        <5>1. /\ i \in Nat /\ i + 1 \in DOMAIN inbox /\ inbox'[i] = inbox[i + 1]
          BY <1>1, <4>3
        <5>2. /\ inbox[i + 1].event = "message" <=> i + 1 <= sent - taken
              /\ i + 1 <= sent - taken => inbox[i + 1].arg = taken + (i + 1)
          BY <3>1, <5>1
        <5> QED BY <1>t, <4>1, <5>1, <5>2
      <4>4. /\ taken' <= sent /\ sent - taken' <= Len(inbox')
            /\ peer = "open" => Len(inbox') = sent - taken'
        BY <1>1, <1>t, <3>1, <4>1, <4>2
      <4> QED BY <4>3, <4>4
    <3>4. CASE e.event # "message"
      <4>1. taken' = taken
        BY <1>3, <3>2, <3>4
      <4>2. sent = taken
        <5>1. ~(1 <= sent - taken) /\ taken <= sent
          BY <1>1, <3>1, <3>4
        <5> QED BY <1>t, <5>1
      <4>3. peer # "open"
        BY <1>1, <1>t, <3>1, <4>2
      <4>4. ASSUME NEW i \in DOMAIN inbox'
            PROVE  inbox'[i].event # "message" /\ ~(i <= sent - taken')
        <5>1. /\ i \in Nat /\ i >= 1 /\ i + 1 \in DOMAIN inbox /\ inbox'[i] = inbox[i + 1]
          BY <1>1, <4>4
        <5>2. ~(i + 1 <= sent - taken) /\ ~(i <= sent - taken)
          BY <1>t, <4>2, <5>1
        <5> QED BY <3>1, <4>1, <5>1, <5>2
      <4> QED BY <1>1, <1>t, <4>1, <4>2, <4>3, <4>4
    <3> QED BY <3>3, <3>4
  <2> QED
    BY <1>2, <2>2, <2>3, <2>4, <2>5 DEF MessageInv, connVars
<1> QED
  BY <1>6, <1>7, <1>9, <1>10

\* What the listeners do.
LEMMA ListenerLemma == ASSUME IInv, ListenerStep PROVE IInv'
<1> USE BoundsAssumption, NoneAssumption DEF IInv
<1>1. CASE OnMessage
  <2> USE <1>1 DEF OnMessage
  <2>0. /\ listener # None /\ listener.event = "message" /\ listener.at = "start"
        /\ listener \in Frames /\ listener.arg \in Nat
        /\ UNCHANGED <<inbox, sent, peer, connVars, taken, funcVars, cancels>>
    BY DEF In, TypeOK, Frames
  <2>1. CASE /\ ReadersWaiting # {} /\ ~done
             /\ \E r \in ReadersWaiting : pc' = [pc EXCEPT ![r] = "busy"]
             /\ got' = Append(got, listener.arg) /\ listener' = None
    <3>1. PICK r \in ReadersWaiting : pc' = [pc EXCEPT ![r] = "busy"]
      BY <2>1
    <3>2. r \in Goroutines
      BY DEF ReadersWaiting, Goroutines
    <3>3. /\ got \in Seq(Nat) /\ got' \in Seq(Nat) /\ Len(got') = Len(got) + 1 /\ Len(got) \in Nat
          /\ DOMAIN got' = 1 .. Len(got) + 1 /\ DOMAIN got = 1 .. Len(got)
          /\ \A i \in DOMAIN got' : got'[i] = IF i <= Len(got) THEN got[i] ELSE listener.arg
      <4>1. got \in Seq(Nat)
        BY DEF TypeOK
      <4> HIDE DEF OnMessage, IInv
      <4> QED BY <4>1, <2>0, <2>1
    <3>4. listener.arg = Len(got) + 1
      BY <2>0, <2>1, <3>3 DEF MessageInv
    <3>5. TypeOK'
      BY <2>0, <2>1, <3>1, <3>2, <3>3 DEF TypeOK, connVars, funcVars
    <3>6. CloseInv'
      BY <2>0, <2>1, <3>1, <3>2 DEF TypeOK, CloseInv, In, connVars
    <3>7. ReleaseInv'
      BY <2>0, <2>1, <3>1, <3>2 DEF TypeOK, ReleaseInv, connVars, funcVars
    <3>8. \A i \in DOMAIN got' : got'[i] = i
      BY <3>3, <3>4 DEF MessageInv
    <3>9. MessageInv'
      <4>1. taken = Len(got')
        BY <2>0, <2>1, <3>3 DEF MessageInv
      <4>2. /\ UNCHANGED <<inbox, sent, peer, taken, releasing, done>> /\ listener' = None
        BY <2>0, <2>1 DEF connVars, funcVars
      <4> HIDE DEF OnMessage
      <4> QED BY <3>8, <4>1, <4>2 DEF MessageInv
    <3> QED BY <3>5, <3>6, <3>7, <3>9
  <2>2. CASE done /\ listener' = None /\ UNCHANGED <<pc, got>>
    <3>1. TypeOK'
      BY <2>0, <2>2 DEF TypeOK, connVars, funcVars
    <3>2. CloseInv' /\ ReleaseInv'
      BY <2>0, <2>2 DEF CloseInv, ReleaseInv, In, connVars, funcVars
    <3>3. MessageInv'
      BY <2>0, <2>2 DEF MessageInv, connVars, funcVars
    <3> QED BY <3>1, <3>2, <3>3
  <2>3. CASE /\ ~done /\ listener' = [listener EXCEPT !.at = "parked"]
             /\ UNCHANGED <<pc, got>>
    <3>0. /\ listener' \in Frames /\ listener' # None /\ listener'.event = "message"
          /\ listener'.arg = listener.arg /\ listener'.at = "parked"
      BY <2>0, <2>3 DEF Frames
    <3>1. TypeOK'
      BY <2>0, <2>3, <3>0 DEF TypeOK, connVars, funcVars
    <3>2. CloseInv' /\ ReleaseInv'
      BY <2>0, <2>3, <3>0 DEF CloseInv, ReleaseInv, In, connVars, funcVars
    <3>3. MessageInv'
      BY <2>0, <2>3, <3>0 DEF MessageInv, connVars, funcVars
    <3> QED BY <3>1, <3>2, <3>3
  <2> QED
    BY <2>1, <2>2, <2>3
<1>2. CASE OnClose
  <2>0. /\ listener # None /\ listener.event = "close" /\ listener.at = "start"
        /\ listener \in Frames /\ listener.arg \in Nat
        /\ listener' \in Frames /\ listener' # None /\ listener'.event = "close"
        /\ listener'.at = "finish"
        /\ UNCHANGED <<inbox, sent, peer, pc, done, closeErr, got, taken, funcVars, cancels>>
    BY <1>2 DEF OnClose, In, TypeOK, Frames
  <2>1. ReplyCloseCode(listener.arg) \in Nat /\ Sendable(ReplyCloseCode(listener.arg))
    BY <2>0 DEF ReplyCloseCode, Sendable
  <2>2. closeSent' /\ calls' \in Seq(Nat) /\ Len(calls') = 1
        /\ \A i \in DOMAIN calls' : calls'[i] \notin UserCodes => Sendable(calls'[i])
    <3> DEFINE c == ReplyCloseCode(listener.arg)
    <3>1. SendClose(c)
      BY <1>2 DEF OnClose
    <3> HIDE DEF c
    <3>2. c \in Nat /\ Sendable(c)
      BY <2>1 DEF c
    <3>3. CASE closeSent
      BY <3>1, <3>3 DEF SendClose, CloseInv, TypeOK
    <3>4. CASE ~closeSent
      <4>1. calls \in Seq(Nat) /\ Len(calls) = 0
        <5>1. calls \in Seq(Nat) /\ Len(calls) \in Nat /\ Len(calls) <= 1 /\ Len(calls) # 1
          BY <3>4 DEF CloseInv, TypeOK
        <5> HIDE DEF IInv
        <5>2. \A n \in Nat : n <= 1 /\ n # 1 => n = 0
          OBVIOUS
        <5> QED BY <5>1, <5>2
      <4>2. calls' = Append(calls, c) /\ closeSent'
        BY <3>1, <3>4 DEF SendClose
      <4>3. calls' \in Seq(Nat) /\ Len(calls') = 1 /\ DOMAIN calls' = {1} /\ calls'[1] = c
        BY <3>2, <4>1, <4>2
      <4> QED BY <3>2, <4>2, <4>3
    <3> QED BY <3>3, <3>4
  <2>3. TypeOK'
    BY <2>0, <2>2 DEF TypeOK, funcVars
  <2>4. CloseInv'
    BY <2>0, <2>2 DEF CloseInv, In
  <2>5. ReleaseInv'
    BY <2>0 DEF ReleaseInv, funcVars
  <2>6. MessageInv'
    BY <2>0 DEF MessageInv, funcVars
  <2> QED BY <2>3, <2>4, <2>5, <2>6
<1>3. CASE Terminate
  <2>0. /\ listener # None /\ listener.event \in {"close", "error"}
        /\ listener.at # "parked" /\ (listener.event = "close" => closeSent)
        /\ listener' = None
        /\ UNCHANGED <<inbox, sent, peer, closeSent, calls, got, taken, funcVars, cancels>>
    BY <1>3 DEF Terminate, In, CloseInv
  <2>1. /\ done' /\ closeErr' \in {None, "closed", "error"}
        /\ closeErr' = "closed" => closeSent
    BY <1>3, <2>0 DEF Terminate, Finish, CloseInv, TypeOK
  <2>2. /\ pc' \in [Goroutines -> {"idle", "read", "busy", "await", "close", "finish",
                                  "release", "end"}]
        /\ \A g \in Goroutines : pc'[g] \in {"finish", "release", "end"} => pc'[g] = pc[g]
    BY <1>3 DEF Terminate, Woken, TypeOK
  <2>3. TypeOK'
    BY <2>0, <2>1, <2>2 DEF TypeOK, funcVars
  <2>4. CloseInv'
    BY <2>0, <2>1, <2>2 DEF CloseInv, In
  <2>5. ReleaseInv'
    BY <2>0, <2>1, <2>2 DEF ReleaseInv, funcVars
  <2>6. MessageInv'
    BY <2>0, <2>1 DEF MessageInv, funcVars
  <2> QED BY <2>3, <2>4, <2>5, <2>6
<1> QED
  BY <1>1, <1>2, <1>3 DEF ListenerStep

\* What the readers do.
LEMMA ReaderLemma ==
  ASSUME IInv, NEW r \in Readers, ReaderStep(r) \/ ReadCancelled(r) PROVE IInv'
<1> USE BoundsAssumption, NoneAssumption DEF IInv
<1>g. r \in Goroutines
  BY DEF Goroutines
<1>1. CASE Read(r) /\ listener # None /\ listener.at = "parked" /\ got' = Append(got, listener.arg)
  <2>0. /\ listener.event = "message" /\ ~done /\ listener \in Frames /\ listener.arg \in Nat
        /\ listener.arg = Len(got) + 1 /\ taken = Len(got) + 1 /\ Len(got) \in Nat
    BY <1>1 DEF MessageInv, TypeOK, Frames
  <2>1. /\ listener' = None /\ pc' = [pc EXCEPT ![r] = "busy"]
        /\ UNCHANGED <<inbox, sent, peer, connVars, taken, funcVars, cancels>>
    BY <1>1, <2>0 DEF Read
  <2>2. /\ got \in Seq(Nat) /\ got' \in Seq(Nat) /\ Len(got') = Len(got) + 1
        /\ DOMAIN got' = 1 .. Len(got) + 1 /\ DOMAIN got = 1 .. Len(got)
        /\ \A i \in DOMAIN got' : got'[i] = IF i <= Len(got) THEN got[i] ELSE listener.arg
    <3>1. got \in Seq(Nat) /\ got' = Append(got, listener.arg)
      BY <1>1 DEF TypeOK
    <3> HIDE DEF IInv
    <3> QED BY <2>0, <3>1
  <2>3. TypeOK'
    BY <1>g, <2>0, <2>1, <2>2 DEF TypeOK, connVars, funcVars
  <2>4. CloseInv' /\ ReleaseInv'
    BY <1>g, <2>0, <2>1 DEF TypeOK, CloseInv, ReleaseInv, In, connVars, funcVars
  <2>5. \A i \in DOMAIN got' : got'[i] = i
    BY <2>0, <2>2 DEF MessageInv
  <2>6. MessageInv'
    BY <2>0, <2>1, <2>2, <2>5 DEF MessageInv, connVars, funcVars
  <2> QED BY <2>3, <2>4, <2>5, <2>6
<1>2. CASE /\ \E to \in {"close", "read", "idle", "await"} : pc' = [pc EXCEPT ![r] = to]
           /\ UNCHANGED <<inbox, sent, peer, listener, connVars, got, taken, funcVars>>
           /\ cancels' \in 0 .. MaxCancels
  <2>1. TypeOK'
    BY <1>g, <1>2 DEF TypeOK, connVars, funcVars
  <2>2. CloseInv' /\ ReleaseInv'
    BY <1>g, <1>2 DEF TypeOK, CloseInv, ReleaseInv, In, connVars, funcVars
  <2>3. MessageInv'
    BY <1>2 DEF MessageInv, connVars, funcVars
  <2> QED BY <2>1, <2>2, <2>3
<1>3. CASE Read(r)
  BY <1>1, <1>2, <1>3 DEF Read, TypeOK
<1>4. CASE Handle(r)
  BY <1>2, <1>4 DEF Handle, TypeOK
<1>5. CASE Settle(r)
  BY <1>2, <1>5 DEF Settle, TypeOK
<1>6. CASE ReadCancelled(r)
  BY <1>2, <1>6 DEF ReadCancelled, TypeOK
<1> QED
  BY <1>3, <1>4, <1>5, <1>6 DEF ReaderStep

\* What a goroutine in Close does, from sendClose to the end of release.
LEMMA CloseLemma == ASSUME IInv, NEW g \in Goroutines, CloseStep(g) PROVE IInv'
<1> USE BoundsAssumption, NoneAssumption DEF IInv
<1>1. CASE \E c \in UserCodes : CloseSends(g, c)
  <2>1. PICK c \in UserCodes : CloseSends(g, c)
    BY <1>1
  <2>2. /\ c \in Nat /\ SendClose(c) /\ pc' = [pc EXCEPT ![g] = "finish"]
        /\ UNCHANGED <<inbox, sent, peer, listener, done, closeErr, got, taken, funcVars, cancels>>
    BY <2>1 DEF CloseSends
  <2>3. closeSent' /\ calls' \in Seq(Nat) /\ Len(calls') = 1
        /\ \A i \in DOMAIN calls' : calls'[i] \notin UserCodes => Sendable(calls'[i])
    <3>1. CASE closeSent
      BY <2>2, <3>1 DEF SendClose, CloseInv, TypeOK
    <3>2. CASE ~closeSent
      <4>1. calls \in Seq(Nat) /\ Len(calls) = 0
        <5>1. calls \in Seq(Nat) /\ Len(calls) \in Nat /\ Len(calls) <= 1 /\ Len(calls) # 1
          BY <3>2 DEF CloseInv, TypeOK
        <5> HIDE DEF IInv
        <5>2. \A n \in Nat : n <= 1 /\ n # 1 => n = 0
          OBVIOUS
        <5> QED BY <5>1, <5>2
      <4>2. calls' = Append(calls, c) /\ closeSent'
        BY <2>2, <3>2 DEF SendClose
      <4>3. calls' \in Seq(Nat) /\ Len(calls') = 1 /\ DOMAIN calls' = {1} /\ calls'[1] = c
        BY <2>2, <4>1, <4>2
      <4> QED BY <2>1, <4>2, <4>3
    <3> QED BY <3>1, <3>2
  <2>4. TypeOK'
    BY <2>2, <2>3 DEF TypeOK, funcVars
  <2>5. CloseInv'
    BY <2>2, <2>3 DEF CloseInv, In
  <2>6. ReleaseInv'
    BY <2>2 DEF ReleaseInv, TypeOK, funcVars
  <2>7. MessageInv'
    BY <2>2 DEF MessageInv, funcVars
  <2> QED BY <2>4, <2>5, <2>6, <2>7
<1>2. CASE CloseFinishes(g)
  <2>0. /\ pc[g] = "finish" /\ closeSent
        /\ listener' \in {listener, None} /\ (listener # None /\ listener.at = "parked" => listener' = None)
        /\ UNCHANGED <<inbox, sent, peer, closeSent, calls, got, taken, funcVars, cancels>>
    BY <1>2 DEF CloseFinishes, Unparked, CloseInv, MessageInv
  <2>1. done' /\ closeErr' \in {None, "closed", "error"}
    BY <1>2 DEF CloseFinishes, Finish, TypeOK
  <2>2. /\ pc' \in [Goroutines -> {"idle", "read", "busy", "await", "close", "finish",
                                  "release", "end"}]
        /\ done \/ \A h \in Goroutines : pc'[h] \in {"release", "end"} => h = g \/ pc'[h] = pc[h]
    BY <1>2 DEF CloseFinishes, Woken, TypeOK
  <2>3. TypeOK'
    BY <2>0, <2>1, <2>2 DEF TypeOK, funcVars
  <2>4. CloseInv'
    BY <2>0, <2>1 DEF CloseInv, In
  <2>5. ReleaseInv'
    BY <2>0, <2>1, <2>2 DEF ReleaseInv, funcVars
  <2>6. MessageInv'
    BY <2>0, <2>1 DEF MessageInv, funcVars
  <2> QED BY <2>3, <2>4, <2>5, <2>6
<1>3. CASE CloseReleases(g)
  <2>0. /\ pc[g] = "release" /\ done /\ closeSent
        /\ UNCHANGED <<inbox, sent, peer, listener, connVars, got, taken, dead, cancels>>
    BY <1>3 DEF CloseReleases, ReleaseInv, CloseInv
  <2>1. CASE /\ releasing.at <= 6
             /\ ReleaseStep(ListenerOrder[(releasing.at + 1) \div 2], releasing.at % 2 = 1)
             /\ releasing' = [by |-> g, at |-> releasing.at + 1] /\ UNCHANGED pc
    <3>1. releasing.at \in 1 .. 7 /\ releasing'.at = releasing.at + 1
          /\ releasing' \in [by : Goroutines \union {None}, at : 1 .. 7]
      BY <2>1 DEF TypeOK
    <3>2. added' \subseteq added /\ live' \subseteq live
      BY <2>1 DEF ReleaseStep
    <3>3. TypeOK'
      BY <2>0, <2>1, <3>1, <3>2 DEF TypeOK, connVars
    <3>4. CloseInv'
      BY <2>0, <2>1 DEF CloseInv, In, connVars
    <3>5. ReleaseInv'
      <4>1. CASE releasing.at = 1
        <5>1. added' = added \ {"message"} /\ live' = live
          BY <2>1, <4>1 DEF ReleaseStep, ListenerOrder
        <5> QED BY <2>0, <2>1, <3>1, <4>1, <5>1 DEF ReleaseInv, connVars
      <4>2. CASE releasing.at = 2
        <5>1. live' = live \ {"message"} /\ added' = added
          BY <2>1, <4>2 DEF ReleaseStep, ListenerOrder
        <5> QED BY <2>0, <2>1, <3>1, <4>2, <5>1 DEF ReleaseInv, connVars
      <4>3. CASE releasing.at = 3
        <5>1. added' = added \ {"close"} /\ live' = live
          BY <2>1, <4>3 DEF ReleaseStep, ListenerOrder
        <5> QED BY <2>0, <2>1, <3>1, <4>3, <5>1 DEF ReleaseInv, connVars
      <4>4. CASE releasing.at = 4
        <5>1. live' = live \ {"close"} /\ added' = added
          BY <2>1, <4>4 DEF ReleaseStep, ListenerOrder
        <5> QED BY <2>0, <2>1, <3>1, <4>4, <5>1 DEF ReleaseInv, connVars
      <4>5. CASE releasing.at = 5
        <5>1. added' = added \ {"error"} /\ live' = live
          BY <2>1, <4>5 DEF ReleaseStep, ListenerOrder
        <5> QED BY <2>0, <2>1, <3>1, <4>5, <5>1 DEF ReleaseInv, connVars
      <4>6. CASE releasing.at = 6
        <5>1. live' = live \ {"error"} /\ added' = added
          BY <2>1, <4>6 DEF ReleaseStep, ListenerOrder
        <5> QED BY <2>0, <2>1, <3>1, <4>6, <5>1 DEF ReleaseInv, connVars
      <4> QED BY <2>1, <3>1, <4>1, <4>2, <4>3, <4>4, <4>5, <4>6
    <3>6. MessageInv'
      BY <2>0, <2>1, <3>1 DEF MessageInv, connVars
    <3> QED BY <3>3, <3>4, <3>5, <3>6
  <2>2. CASE pc' = [pc EXCEPT ![g] = "end"] /\ UNCHANGED <<added, live, releasing>>
    <3>1. TypeOK'
      BY <2>0, <2>2 DEF TypeOK, connVars
    <3>2. CloseInv' /\ ReleaseInv'
      BY <2>0, <2>2 DEF TypeOK, CloseInv, ReleaseInv, In, connVars
    <3>3. MessageInv'
      BY <2>0, <2>2 DEF MessageInv, connVars
    <3> QED BY <3>1, <3>2, <3>3
  <2> QED
    BY <1>3, <2>1, <2>2 DEF CloseReleases
<1> QED
  BY <1>1, <1>2, <1>3 DEF CloseStep

\* Every step keeps the invariant.
LEMMA StepInv == IInv /\ [Next]_vars => IInv'
<1> SUFFICES ASSUME IInv, [Next]_vars PROVE IInv'
  OBVIOUS
<1>1. CASE PeerSends \/ (\E c \in PeerCodes : PeerCloses(c)) \/ (\E b \in BOOLEAN : Breaks(b))
  BY <1>1, PeerStep
<1>2. CASE Dispatch
  BY <1>2, DispatchStep
<1>3. CASE ListenerStep
  BY <1>3, ListenerLemma
<1>4. CASE \E r \in Readers : ReaderStep(r) \/ ReadCancelled(r)
  BY <1>4, ReaderLemma
<1>5. CASE \E g \in Goroutines : CloseStep(g)
  BY <1>5, CloseLemma
<1>6. CASE UNCHANGED vars
  BY <1>6 DEF vars, connVars, funcVars, IInv, TypeOK, CloseInv, ReleaseInv, MessageInv, In
<1> QED
  BY <1>1, <1>2, <1>3, <1>4, <1>5, <1>6 DEF Next

\* The invariant the three properties follow from.
THEOREM Invariance == Spec => []IInv
<1> QED
  BY InitInv, StepInv, PTL DEF Spec

\* One close frame at most, and sent before anybody learns of the close.
THEOREM OneFrame == Spec => []OneCloseFrame
<1>1. IInv => OneCloseFrame
  BY DEF IInv, CloseInv, OneCloseFrame
<1> QED
  BY <1>1, Invariance, PTL

-----------------------------------------------------------------------------
(* Nobody waits for a listener that waits for a reader.                    *)

\* A listener parks only when no reader waits, and a reader does not wait when
\* one has; only those who may do so wait for a promise.
ParkedInv ==
  /\ \A r \in Readers : pc[r] = "await" => r \in Awaits
  /\ listener # None /\ listener.at = "parked" => \A r \in Readers : pc[r] # "read"

\* Every step keeps it.
LEMMA ParkedStep == ASSUME IInv, ParkedInv, [Next]_vars PROVE ParkedInv'
<1> USE NoneAssumption DEF ParkedInv
<1>0. /\ pc \in [Goroutines -> {"idle", "read", "busy", "await", "close", "finish",
                                "release", "end"}]
      /\ Readers \subseteq Goroutines
      /\ listener # None => listener \in Frames
  BY DEF IInv, TypeOK, Goroutines
<1>1. CASE PeerSends \/ (\E c \in PeerCodes : PeerCloses(c)) \/ (\E b \in BOOLEAN : Breaks(b))
  BY <1>1 DEF PeerSends, PeerCloses, Breaks
<1>2. CASE Dispatch
  <2>1. pc' = pc /\ (listener' = None \/ listener'.at = "start")
    BY <1>2 DEF Dispatch
  <2> QED BY <2>1
<1>3. CASE OnMessage
  <2>1. CASE listener' = None
    BY <1>0, <1>3, <2>1 DEF OnMessage, ReadersWaiting
  <2>2. CASE ReadersWaiting = {} /\ UNCHANGED pc
    BY <2>2 DEF ReadersWaiting
  <2> QED BY <1>3, <2>1, <2>2 DEF OnMessage
<1>4. CASE OnClose
  <2>1. pc' = pc /\ listener \in Frames /\ listener' = [listener EXCEPT !.at = "finish"]
    BY <1>0, <1>4 DEF OnClose, In
  <2>2. listener'.at = "finish"
    BY <2>1 DEF Frames
  <2> QED BY <2>1, <2>2
<1>5. CASE Terminate
  BY <1>0, <1>5 DEF Terminate, Woken
<1>6. ASSUME NEW r \in Readers, Read(r) PROVE ParkedInv'
  <2>1. /\ pc' \in {[pc EXCEPT ![r] = l] : l \in {"busy", "close", "read"}}
        /\ \/ listener' = None
           \/ listener' = listener /\ pc' = [pc EXCEPT ![r] = "close"]
           \/ listener' = listener /\ ~(listener # None /\ listener.at = "parked")
    BY <1>6 DEF Read
  <2>2. \A q \in Readers : /\ pc'[q] = "await" => pc[q] = "await"
                           /\ pc'[q] = "read" => pc[q] = "read" \/ pc' = [pc EXCEPT ![r] = "read"]
    BY <1>0, <2>1
  <2>3. pc' = [pc EXCEPT ![r] = "close"] => \A q \in Readers : pc'[q] = "read" => pc[q] = "read"
    BY <1>0
  <2>4. CASE listener' = None
    BY <2>2, <2>4
  <2>5. CASE listener' = listener /\ pc' = [pc EXCEPT ![r] = "close"]
    BY <2>2, <2>3, <2>5
  <2>6. CASE listener' = listener /\ ~(listener # None /\ listener.at = "parked")
    BY <2>2, <2>6
  <2> QED BY <2>1, <2>4, <2>5, <2>6
<1>7. ASSUME NEW r \in Readers, ReadCancelled(r) \/ Handle(r) \/ Settle(r) PROVE ParkedInv'
  <2>1. /\ listener' = listener
        /\ \/ \E l \in {"idle", "close"} : pc' = [pc EXCEPT ![r] = l]
           \/ r \in Awaits /\ pc' = [pc EXCEPT ![r] = "await"]
    BY <1>7 DEF ReadCancelled, Handle, Settle
  <2> QED BY <1>0, <2>1
<1>8. ASSUME NEW g \in Goroutines, CloseStep(g) PROVE ParkedInv'
  <2>1. CASE \E c \in UserCodes : CloseSends(g, c)
    BY <1>0, <2>1 DEF CloseSends
  <2>2. CASE CloseFinishes(g)
    <3>1. listener' = listener \/ listener' = None
      BY <2>2 DEF CloseFinishes, Unparked
    <3>2. \A r \in Readers : pc'[r] \in {pc[r], "close", "release"}
      BY <1>0, <2>2 DEF CloseFinishes, Woken
    <3> QED BY <3>1, <3>2
  <2>3. CASE CloseReleases(g)
    <3>1. listener' = listener /\ \A r \in Readers : pc'[r] \in {pc[r], "end"}
      BY <1>0, <2>3 DEF CloseReleases
    <3> QED BY <3>1
  <2> QED BY <1>8, <2>1, <2>2, <2>3 DEF CloseStep
<1>9. CASE UNCHANGED vars
  BY <1>9 DEF vars
<1> QED
  BY <1>1, <1>2, <1>3, <1>4, <1>5, <1>6, <1>7, <1>8, <1>9 DEF Next, ListenerStep, ReaderStep

\* No message is lost while the connection is open, and while a listener holds
\* the event loop no reader waits for anything but the loop.
THEOREM MessagesAreKept == Spec => []MessagesKept
<1>1. Init => ParkedInv
  BY DEF Init, ParkedInv, Goroutines
<1>2. IInv /\ ParkedInv /\ [Next]_vars => ParkedInv'
  BY ParkedStep
<1>3. IInv /\ ParkedInv => MessagesKept
  <2> SUFFICES ASSUME IInv, ParkedInv PROVE MessagesKept
    OBVIOUS
  <2>1. ASSUME listener # None, listener.at = "parked", NEW r \in Readers
        PROVE  pc[r] \in {"idle", "busy", "close", "finish"} \/ (r \in Awaits /\ pc[r] = "await")
    <3>1. ~done /\ r \in Goroutines
      BY <2>1 DEF IInv, MessageInv, Goroutines
    <3>2. pc[r] \notin {"read", "release", "end"}
      BY <2>1, <3>1 DEF IInv, ReleaseInv, ParkedInv
    <3> QED
      BY <2>1, <3>1, <3>2 DEF IInv, TypeOK, ParkedInv
  <2> QED
    BY <2>1 DEF IInv, MessageInv, MessagesKept
<1> QED
  BY <1>1, <1>2, <1>3, Invariance, PTL DEF Spec

-----------------------------------------------------------------------------
(* The refinement: every step is one of MessageChannel or leaves it alone. *)

\* A call of sendClose sends the frame, or finds it sent.
LEMMA SendCloseMaps ==
  ASSUME IInv, NEW c, SendClose(c), UNCHANGED <<sent, got, done, closeErr>>
  PROVE  [Channel!Next]_Channel!vars
<1>1. CASE closeSent
  BY <1>1 DEF SendClose, Channel!vars
<1>2. CASE ~closeSent
  <2>1. calls \in Seq(Nat) /\ calls' = Append(calls, c) /\ Len(calls) \in Nat
    BY <1>2 DEF SendClose, IInv, TypeOK
  <2>2. Len(calls) = 0
    <3>1. Len(calls) # 1 /\ Len(calls) <= 1
      BY <1>2 DEF IInv, CloseInv
    <3>2. \A n \in Nat : n <= 1 /\ n # 1 => n = 0
      OBVIOUS
    <3> QED
      BY <2>1, <3>1, <3>2
  <2>3. Len(calls') = 1
    BY <2>1, <2>2
  <2>4. Channel!SendCloseFrame
    BY <2>2, <2>3 DEF Channel!SendCloseFrame
  <2> QED
    BY <2>4 DEF Channel!Next
<1> QED
  BY <1>1, <1>2

\* Whoever ends the connection as closed knows that its frame has been sent.
LEMMA FinishMaps ==
  ASSUME IInv, NEW err \in {"closed", "error"}, Finish(err), err = "closed" => closeSent,
         UNCHANGED <<sent, got, calls>>
  PROVE  [Channel!Next]_Channel!vars
<1>1. CASE done
  BY <1>1 DEF Finish, Channel!vars
<1>2. CASE ~done
  <2>1. done' /\ closeErr' = err
    BY <1>2 DEF Finish
  <2>2. err = "closed" => Len(calls) = 1
    BY DEF IInv, CloseInv
  <2>3. Channel!End
    BY <1>2, <2>1, <2>2 DEF Channel!End
  <2> QED
    BY <2>3 DEF Channel!Next
<1> QED
  BY <1>1, <1>2

\* A listener that has a message gives it to a reader while the connection is
\* open: it is the next.
LEMMA HandOverMaps ==
  ASSUME IInv, ~done, listener # None, listener.event = "message",
         got' = Append(got, listener.arg),
         UNCHANGED <<sent, calls, done, closeErr>>
  PROVE  Channel!Receive
<1>1. /\ listener.arg = taken /\ taken = Len(got) + 1
      /\ taken <= sent /\ Len(got) \in Nat /\ sent \in Nat
  <2>1. releasing.at \in 1 .. 7 /\ ~(releasing.at > 1)
    BY DEF IInv, TypeOK, ReleaseInv
  <2>2. releasing.at = 1
    BY <2>1
  <2> QED
    BY <2>2, BoundsAssumption DEF IInv, TypeOK, MessageInv
<1>2. got' = Append(got, Len(got) + 1) /\ Len(got) < sent
  BY <1>1
<1> QED
  BY <1>2 DEF Channel!Receive

\* Every step maps to a step of MessageChannel or a stutter.
LEMMA ChannelStep == ASSUME IInv, [Next]_vars PROVE [Channel!Next]_Channel!vars
<1>1. CASE PeerSends
  BY <1>1 DEF PeerSends, connVars, Channel!Next, Channel!Send
<1>2. CASE (\E c \in PeerCodes : PeerCloses(c)) \/ (\E b \in BOOLEAN : Breaks(b)) \/ Dispatch
  <2>1. UNCHANGED <<sent, got, done, closeErr, calls>>
    BY <1>2 DEF PeerCloses, Breaks, Dispatch, connVars
  <2> QED
    BY <2>1 DEF Channel!vars
<1>3. CASE OnMessage
  <2>1. CASE UNCHANGED got
    BY <1>3, <2>1 DEF OnMessage, connVars, Channel!vars
  <2>2. CASE ~done /\ got' = Append(got, listener.arg)
    BY <1>3, <2>2, HandOverMaps DEF OnMessage, In, connVars, Channel!Next
  <2> QED
    BY <1>3, <2>1, <2>2 DEF OnMessage
<1>4. CASE OnClose
  BY <1>4, SendCloseMaps DEF OnClose
<1>5. CASE Terminate
  <2>1. listener.event = "close" => closeSent
    BY <1>5 DEF Terminate, In, IInv, CloseInv
  <2>2. PICK err \in {"closed", "error"} : Finish(err) /\ (err = "closed" => closeSent)
    BY <1>5, <2>1 DEF Terminate
  <2> QED
    BY <1>5, <2>2, FinishMaps DEF Terminate
<1>6. ASSUME NEW r \in Readers, Read(r) PROVE [Channel!Next]_Channel!vars
  <2>1. CASE UNCHANGED got
    BY <1>6, <2>1 DEF Read, connVars, Channel!vars
  <2>2. CASE listener # None /\ listener.at = "parked" /\ got' = Append(got, listener.arg)
    <3>1. ~done /\ listener.event = "message"
      BY <2>2 DEF IInv, MessageInv
    <3> QED
      BY <1>6, <2>2, <3>1, HandOverMaps DEF Read, connVars, Channel!Next
  <2> QED
    BY <1>6, <2>1, <2>2 DEF Read
<1>7. ASSUME NEW r \in Readers, ReadCancelled(r) \/ Handle(r) \/ Settle(r)
      PROVE  UNCHANGED Channel!vars
  BY <1>7 DEF ReadCancelled, Handle, Settle, connVars, Channel!vars
<1>8. ASSUME NEW g \in Goroutines, CloseStep(g) PROVE [Channel!Next]_Channel!vars
  <2>1. CASE \E c \in UserCodes : CloseSends(g, c)
    BY <2>1, SendCloseMaps DEF CloseSends
  <2>2. CASE CloseFinishes(g)
    <3>1. closeSent
      BY <2>2 DEF CloseFinishes, IInv, CloseInv
    <3> QED
      BY <2>2, <3>1, FinishMaps DEF CloseFinishes
  <2>3. CASE CloseReleases(g)
    BY <2>3 DEF CloseReleases, connVars, Channel!vars
  <2> QED
    BY <1>8, <2>1, <2>2, <2>3 DEF CloseStep
<1>9. CASE UNCHANGED vars
  BY <1>9 DEF vars, connVars, Channel!vars
<1> QED
  BY <1>1, <1>2, <1>3, <1>4, <1>5, <1>6, <1>7, <1>8, <1>9
     DEF Next, ListenerStep, ReaderStep

\* Whoever reads, closes or breaks the connection, and whenever, its readers
\* see a channel that keeps every message and its order until it ends.
THEOREM ConnIsChannel == Spec => ImplementsMessageChannel
<1>1. Init => Channel!Init
  BY DEF Init, Channel!Init
<1>2. IInv /\ [Next]_vars => [Channel!Next]_Channel!vars
  BY ChannelStep
<1> QED
  BY <1>1, <1>2, Invariance, PTL DEF Spec, ImplementsMessageChannel, Channel!Spec

\* A released listener is never called.
THEOREM ReleasedIsSilent == Spec => []NoReleasedCall
<1>1. IInv => NoReleasedCall
  BY DEF IInv, ReleaseInv, NoReleasedCall
<1> QED
  BY <1>1, Invariance, PTL
=============================================================================
