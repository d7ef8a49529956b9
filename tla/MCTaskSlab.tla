----------------------------- MODULE MCTaskSlab -----------------------------
(* A small instance of TaskSlab for TLC. *)
EXTENDS TaskSlab, TLC

Symmetry == Permutations(Task)

=============================================================================
