----------------------------- MODULE MCReactive -----------------------------
(* Two cells x and y, the memo m over both, and effects on them. *)
EXTENDS Reactive

CONSTANTS x, y, m

=============================================================================
