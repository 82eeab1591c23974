----------------------------- MODULE MCWorkflow -----------------------------
(* Instances of Workflow for TLC: two functions that run at the same time,   *)
(* then a wait.                                                              *)
EXTENDS Workflow

CONSTANTS s1, s2, w

MCSteps == {s1, s2, w}
MCAfter == [i \in MCSteps |-> IF i = w THEN {s1, s2} ELSE {}]
=============================================================================
