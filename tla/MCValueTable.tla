---------------------------- MODULE MCValueTable ----------------------------
(* Model values for ValueTable: one value of each kind that matters.       *)
EXTENDS ValueTable, TLC

CONSTANTS obj, str, big, r1, r2

MCValues == {obj, str, big}
MCKind   == (obj :> "object") @@ (str :> "string") @@ (big :> "bigint")
MCResults == MCValues \cup {"global", "0", "NaN", "num"}
Symmetry == Permutations(Slots)
=============================================================================
