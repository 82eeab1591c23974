--------------------------- MODULE MessageChannel ---------------------------
(***************************************************************************)
(* What an accepted WebSocket promises those who read it, with no word of  *)
(* listeners, callbacks or the event loop: they receive what the peer has  *)
(* sent, each message once and in order, until the connection ends, which  *)
(* it does once and for all.  At most one close frame is sent, and an end  *)
(* that is called a close has had its frame.                               *)
(***************************************************************************)
EXTENDS Naturals, Sequences

VARIABLES sent,     \* how many messages the peer has sent
          received, \* the numbers of the messages its readers have received
          frames,   \* how many close frames have been sent
          ended     \* "no", or how the connection has ended: "closed", "error"

vars == <<sent, received, frames, ended>>

Init == sent = 0 /\ received = <<>> /\ frames = 0 /\ ended = "no"

Send == /\ sent' = sent + 1
        /\ UNCHANGED <<received, frames, ended>>

Receive == /\ ended = "no" /\ Len(received) < sent
           /\ received' = Append(received, Len(received) + 1)
           /\ UNCHANGED <<sent, frames, ended>>

SendCloseFrame == /\ frames = 0 /\ frames' = 1
                  /\ UNCHANGED <<sent, received, ended>>

End == /\ ended = "no"
       /\ \/ ended' = "closed" /\ frames = 1
          \/ ended' = "error"
       /\ UNCHANGED <<sent, received, frames>>

Next == Send \/ Receive \/ SendCloseFrame \/ End

Spec == Init /\ [][Next]_vars
=============================================================================
