---------------------------- MODULE SharedObject ----------------------------
(***************************************************************************)
(* What the triggers of one Durable Object may rely on, with no word of    *)
(* the boot, the mutex or the memo that bring it about: one of them at a   *)
(* time makes the Object; the first success is final and is given to       *)
(* everybody; a failure is the business of the trigger that failed, and    *)
(* the next one may try again.                                             *)
(***************************************************************************)
CONSTANTS Triggers, \* those who ask for the Object
          None      \* no trigger

VARIABLES object,  \* the Object, named by the trigger that made it
          maker,   \* the trigger that is making one
          got,     \* the Object each trigger has been given
          failed,  \* triggers that have made none
          refused  \* triggers turned away without an attempt

vars == <<object, maker, got, failed, refused>>

Init == /\ object = None /\ maker = None
        /\ got = [t \in Triggers |-> None]
        /\ failed = {} /\ refused = {}

\* t has asked for the Object and has no answer yet.
Waits(t) == got[t] = None /\ t \notin failed \cup refused /\ maker # t

Refuse(t) == /\ Waits(t)
             /\ refused' = refused \cup {t}
             /\ UNCHANGED <<object, maker, got, failed>>

Make(t) == /\ Waits(t) /\ object = None /\ maker = None
           /\ maker' = t
           /\ UNCHANGED <<object, got, failed, refused>>

Made(t) == /\ maker = t /\ maker' = None
           /\ object' = t
           /\ got' = [got EXCEPT ![t] = t]
           /\ UNCHANGED <<failed, refused>>

MakeFails(t) == /\ maker = t /\ maker' = None
                /\ failed' = failed \cup {t}
                /\ UNCHANGED <<object, got, refused>>

Share(t) == /\ Waits(t) /\ object # None
            /\ got' = [got EXCEPT ![t] = object]
            /\ UNCHANGED <<object, maker, failed, refused>>

Next == \E t \in Triggers :
          Refuse(t) \/ Make(t) \/ Made(t) \/ MakeFails(t) \/ Share(t)

Spec == Init /\ [][Next]_vars
=============================================================================
