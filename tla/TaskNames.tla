----------------------------- MODULE TaskNames ------------------------------
(***************************************************************************)
(* What the task slab promises, slots and generations left out: the slab   *)
(* that never reused a slot, in which the handle of a task names that task *)
(* until it is reaped and nothing ever after (the guarantee reap_settled   *)
(* claims the free list has not taken away).                               *)
(***************************************************************************)
CONSTANTS Task, NoTask

VARIABLES
  born,     \* the tasks that were spawned
  settled,  \* the tasks that settled
  gone,     \* the tasks that were reaped
  polled    \* the last handle woken, by its task, and what ran

vars == <<born, settled, gone, polled>>

Init == born = {} /\ settled = {} /\ gone = {} /\ polled = <<NoTask, NoTask>>

Spawn(t) ==
  /\ t \notin born
  /\ born' = born \cup {t}
  /\ UNCHANGED <<settled, gone, polled>>

\* A wake runs the task it was meant for, unless that task is finished.
Wake(t) ==
  /\ t \in born
  /\ IF t \in gone \cup settled
     THEN polled' = <<t, NoTask>> /\ UNCHANGED settled
     ELSE polled' = <<t, t>> /\ settled' \in {settled, settled \cup {t}}
  /\ UNCHANGED <<born, gone>>

Reap == gone' = settled /\ UNCHANGED <<born, settled, polled>>

Next == (\E t \in Task : Spawn(t) \/ Wake(t)) \/ Reap

Spec == Init /\ [][Next]_vars

=============================================================================
