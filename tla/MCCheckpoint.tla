---------------------------- MODULE MCCheckpoint ----------------------------
(* Checkpoint for TLC, and its mutants. *)
EXTENDS Checkpoint
=============================================================================
