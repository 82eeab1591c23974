---------------------------- MODULE MCGoInstance ----------------------------
(* Instances of GoInstance for TLC: two background tasks, named t1 and t2. *)
EXTENDS GoInstanceInv

CONSTANTS t1, t2
=============================================================================
