----------------------------- MODULE ByteStream -----------------------------
(***************************************************************************)
(* What a streamed response body promises its reader: the bytes arrive in  *)
(* the order they were written, none is invented, skipped or repeated, and *)
(* the stream ends in one of three ways that the reader can tell apart.    *)
(* It is complete only when the writer has finished and every byte has     *)
(* been read; a writer that fails makes the stream fail.                   *)
(***************************************************************************)
EXTENDS Naturals, Sequences, SequencesExt

VARIABLES written,   \* every byte written so far
          delivered, \* the bytes the reader has been given
          writer,    \* "writing", "finished" or "failed"
          outcome    \* "open", "complete", "failed" or "cancelled"

vars == <<written, delivered, writer, outcome>>

Init == written = <<>> /\ delivered = <<>> /\ writer = "writing" /\ outcome = "open"

\* The writer adds bytes; what it adds after a cancellation is lost.
Write == /\ writer = "writing" /\ outcome \in {"open", "cancelled"}
         /\ Len(written') > Len(written) /\ IsPrefix(written, written')
         /\ UNCHANGED <<delivered, writer, outcome>>

Finish == /\ writer = "writing" /\ writer' \in {"finished", "failed"}
          /\ UNCHANGED <<written, delivered, outcome>>

\* The reader is given the next bytes; the last of them may end the stream.
Deliver == /\ outcome = "open"
           /\ IsStrictPrefix(delivered, delivered') /\ IsPrefix(delivered', written)
           /\ outcome' \in {"open"} \cup
                (IF writer = "finished" /\ delivered' = written THEN {"complete"} ELSE {})
           /\ UNCHANGED <<written, writer>>

Complete == /\ outcome = "open" /\ writer = "finished" /\ delivered = written
            /\ outcome' = "complete"
            /\ UNCHANGED <<written, delivered, writer>>

Fail == /\ outcome = "open" /\ writer = "failed"
        /\ outcome' = "failed"
        /\ UNCHANGED <<written, delivered, writer>>

Cancel == /\ outcome = "open"
          /\ outcome' = "cancelled"
          /\ UNCHANGED <<written, delivered, writer>>

Next == Write \/ Finish \/ Deliver \/ Complete \/ Fail \/ Cancel

Spec == Init /\ [][Next]_vars
=============================================================================
