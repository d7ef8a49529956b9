------------------------------ MODULE TaskSlab ------------------------------
(***************************************************************************)
(* The slab the executor keeps its tasks in (executor.rs: TaskId, TaskSlot,*)
(* register_task, task_at, poll_task, reap_settled).  Slots are reused, and *)
(* wake lists all over the runtime keep handles of tasks that were reaped  *)
(* long ago; the generation of a slot is what tells such a handle from one  *)
(* of the slot's present task.                                             *)
(***************************************************************************)
EXTENDS Naturals, FiniteSets

CONSTANTS
  Task,      \* every task the program ever spawns (Rc<TaskNode>)
  NoTask     \* the None of Option<Rc<TaskNode>>

ASSUME TaskSlabAssumption == NoTask \notin Task

VARIABLES
  len,         \* Runtime.tasks.len()
  node,        \* TaskSlot.node of every slot below len
  generation,  \* TaskSlot.generation of every slot below len
  free,        \* Runtime.free_slots (a set: any of them may be popped)
  settled,     \* TaskNode.settled: the tasks that settled
  id,          \* the handle register_task answered for a task, as a set of
               \* at most one TaskId; wake lists may hold it forever
  polled,      \* history: the last handle woken, by its task, and what ran
  peak         \* history: the most slots ever occupied at once

vars == <<len, node, generation, free, settled, id, polled, peak>>

Slots == 0..len-1

Occupied == {i \in Slots : node[i] # NoTask}

Spawned == {t \in Task : id[t] # {}}

TaskId(i, g) == [index |-> i, generation |-> g]

-----------------------------------------------------------------------------
\* Seeded fault: the generation is not compared.
task_at_unchecked(h) == IF h.index \in Slots THEN node[h.index] ELSE NoTask

\* The task a handle names, or NoTask when its slot was reaped.
task_at(h) ==
  IF h.index \in Slots /\ generation[h.index] = h.generation
  THEN node[h.index] ELSE NoTask

\* A spawn reuses a freed slot, and grows the slab when there is none.
register_task(t) ==
  /\ id[t] = {}
  /\ \/ \E i \in free :
          /\ free' = free \ {i}
          /\ node' = [node EXCEPT ![i] = t]
          /\ id' = [id EXCEPT ![t] = {TaskId(i, generation[i])}]
          /\ UNCHANGED <<len, generation>>
     \/ /\ free = {}
        /\ len' = len + 1
        /\ node' = [i \in 0..len |-> IF i = len THEN t ELSE node[i]]
        /\ generation' = [i \in 0..len |-> IF i = len THEN 0 ELSE generation[i]]
        /\ id' = [id EXCEPT ![t] = {TaskId(len, 0)}]
        /\ UNCHANGED free
  /\ peak' = IF Cardinality(Occupied) + 1 > peak
             THEN Cardinality(Occupied) + 1 ELSE peak
  /\ UNCHANGED <<settled, polled>>

\* poll_task on the handle of t, which some wake list held.  The driver of an
\* unsettled task runs and suspends again, or settles its task.
poll_task(t) ==
  /\ \E h \in id[t] :
       LET u == task_at(h) IN
       IF u = NoTask \/ u \in settled
       THEN polled' = <<t, NoTask>> /\ UNCHANGED settled
       ELSE polled' = <<t, u>> /\ settled' \in {settled, settled \cup {u}}
  /\ UNCHANGED <<len, node, generation, free, id, peak>>

\* Seeded fault: every slot is reaped.
Reapable_any == Occupied

\* The slots reap_settled takes: those of the settled tasks.
Reapable == {i \in Occupied : node[i] \in settled}

\* Seeded fault: the generation stays as the slot is freed.
Bumped_not == generation

\* The generations reap_settled leaves behind.
Bumped == [i \in Slots |-> IF i \in Reapable THEN generation[i] + 1 ELSE generation[i]]

\* Seeded fault: a reaped slot is not handed back.
Freed_none == free

\* The free list reap_settled leaves behind.
Freed == free \cup Reapable

\* At the macrotask boundary every settled task leaves the slab.
reap_settled ==
  /\ node' = [i \in Slots |-> IF i \in Reapable THEN NoTask ELSE node[i]]
  /\ generation' = Bumped
  /\ free' = Freed
  /\ UNCHANGED <<len, settled, id, polled, peak>>

-----------------------------------------------------------------------------
Init ==
  /\ len = 0
  /\ node = [i \in {} |-> NoTask]
  /\ generation = [i \in {} |-> 0]
  /\ free = {}
  /\ settled = {}
  /\ id = [t \in Task |-> {}]
  /\ polled = <<NoTask, NoTask>>
  /\ peak = 0

Next == (\E t \in Task : register_task(t) \/ poll_task(t)) \/ reap_settled

\* No fairness: every property of the slab is a safety property.
Spec == Init /\ [][Next]_vars

-----------------------------------------------------------------------------
Handles == [index : Nat, generation : Nat]

\* Every field keeps its type.
TypeOK ==
  /\ len \in Nat
  /\ node \in [Slots -> Task \cup {NoTask}]
  /\ generation \in [Slots -> Nat]
  /\ free \subseteq Slots
  /\ settled \subseteq Task
  /\ id \in [Task -> SUBSET Handles]
  /\ polled \in (Task \cup {NoTask}) \X (Task \cup {NoTask})
  /\ peak \in Nat

\* TaskId, "which is what the generation check rules out": waking a handle polls
\* the task it was minted for or nothing, however often its slot was reused.
WakesOnlyItsOwn == polled[2] \in {polled[1], NoTask}

\* task_at and reap_settled: an unsettled task is always found by its handle, so
\* no wake for it is dropped.
UnsettledIsFound ==
  \A t \in Spawned : t \notin settled => \A h \in id[t] : task_at(h) = t

\* free_slots, "keeps a server's per-request spawns from growing it without
\* bound": the slab never has more slots than were occupied at once.
SlabIsPeakSized == len <= peak

\* The reaped tasks: the ones no handle finds any more.
Gone == {t \in Spawned : \A h \in id[t] : task_at(h) = NoTask}

Names == INSTANCE TaskNames WITH born <- Spawned, gone <- Gone

\* reap_settled, "the guarantee the never-reused slab gave for free": with slots
\* reused, handles behave as if no slot ever were.
ReuseIsInvisible == Names!Spec

=============================================================================
