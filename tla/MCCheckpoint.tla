---------------------------- MODULE MCCheckpoint ----------------------------
(* Checkpoint with interchangeable threads and pages. *)
EXTENDS Checkpoint, TLC

CheckpointSymmetry ==
    Permutations(Mtr) \cup Permutations(Page) \cup Permutations(Checkpointer)
=============================================================================
