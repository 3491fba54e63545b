----------------------------- MODULE MCExecution -----------------------------
(* TLC instances of a batch: runs side by side or one at a time, spawned or forked. *)
EXTENDS Execution

=============================================================================
