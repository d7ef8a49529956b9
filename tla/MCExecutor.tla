----------------------------- MODULE MCExecutor -----------------------------
(* Small instances of Executor for TLC. *)
EXTENDS Executor, TLC

\* Tasks other than the root, nurseries and registrations are interchangeable.
Symmetry ==
  Permutations(Task \ {Root}) \cup Permutations(Nursery) \cup Permutations(Timer)

=============================================================================
