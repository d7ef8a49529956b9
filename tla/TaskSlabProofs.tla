--------------------------- MODULE TaskSlabProofs ---------------------------
(***************************************************************************)
(* Proofs about the task slab, for any set of tasks: handles never name    *)
(* another task, and reusing slots is invisible to whoever holds one.      *)
(***************************************************************************)
EXTENDS TaskSlab, FiniteSetTheorems, TLAPS

\* A handle is minted once per task, for a slot of the slab, and carries the
\* slot's generation only as long as the slot holds its task.
HandlesAreMinted ==
  \A t \in Task : \A h \in id[t] :
    /\ id[t] = {h}
    /\ h.index \in Slots
    /\ h.generation <= generation[h.index]
    /\ h.generation = generation[h.index] => node[h.index] = t

\* The task in a slot holds the handle of the slot's present generation.
OccupantsHoldTheirHandle ==
  \A i \in Slots : node[i] # NoTask => id[node[i]] = {TaskId(i, generation[i])}

\* The free list holds the empty slots, all of them.
FreeIsEmpty == free = {i \in Slots : node[i] = NoTask}

\* Only a settled task is lost to its handle, and only a spawned one settles.
SettledWereSpawned == settled \subseteq Spawned

\* The inductive invariant.
SlabInv ==
  /\ TypeOK
  /\ HandlesAreMinted
  /\ OccupantsHoldTheirHandle
  /\ FreeIsEmpty
  /\ SettledWereSpawned
  /\ UnsettledIsFound
  /\ WakesOnlyItsOwn
  /\ SlabIsPeakSized

-----------------------------------------------------------------------------
\* A handle finds the task it was minted for or nothing.
LEMMA HandleFindsItsOwn ==
  ASSUME TypeOK, HandlesAreMinted, NEW t \in Task, NEW h \in id[t]
  PROVE  task_at(h) \in {t, NoTask}
  BY DEF TypeOK, HandlesAreMinted, task_at

\* A slab without empty slots has as many occupied ones as it has slots.
LEMMA FullSlab ==
  ASSUME TypeOK, FreeIsEmpty, free = {}
  PROVE  Cardinality(Occupied) = len
  <1>1. Occupied = 0..len-1
    BY DEF TypeOK, FreeIsEmpty, Occupied, Slots
  <1>2. len \in Nat
    BY DEF TypeOK
  <1>3. Cardinality(0..len-1) = IF 0 > len-1 THEN 0 ELSE (len-1) - 0 + 1
    BY <1>2, FS_Interval
  <1>. QED BY <1>1, <1>2, <1>3

\* The slots in use are finitely many.
LEMMA OccupiedCardinality ==
  ASSUME TypeOK
  PROVE  Cardinality(Occupied) \in Nat
  <1>1. len \in Nat
    BY DEF TypeOK
  <1>2. IsFiniteSet(0..len-1)
    BY <1>1, FS_Interval
  <1>3. IsFiniteSet(Occupied)
    BY <1>2, FS_Subset DEF Occupied, Slots
  <1>. QED BY <1>3, FS_CardinalityType

\* The empty slab satisfies the invariant.
LEMMA SlabInvInit == Init => SlabInv
  BY DEF Init, SlabInv, TypeOK, HandlesAreMinted, OccupantsHoldTheirHandle,
         FreeIsEmpty, SettledWereSpawned, UnsettledIsFound, WakesOnlyItsOwn,
         SlabIsPeakSized, Slots, Spawned

\* A spawn into a freed slot.
LEMMA RegisterReused ==
  ASSUME SlabInv, NEW t \in Task, id[t] = {}, NEW i \in free,
         free' = free \ {i},
         node' = [node EXCEPT ![i] = t],
         id' = [id EXCEPT ![t] = {TaskId(i, generation[i])}],
         len' = len, generation' = generation, settled' = settled,
         polled' = polled, peak' \in Nat, len' <= peak'
  PROVE  SlabInv'
  <1>. USE TaskSlabAssumption DEF SlabInv
  <1>1. i \in Slots /\ node[i] = NoTask /\ Slots' = Slots
    BY DEF TypeOK, FreeIsEmpty, Slots
  <1>2. TypeOK'
    BY <1>1 DEF TypeOK, Slots, TaskId, Handles
  <1>3. HandlesAreMinted'
    BY <1>1 DEF TypeOK, HandlesAreMinted, TaskId
  <1>4. OccupantsHoldTheirHandle'
    BY <1>1 DEF TypeOK, OccupantsHoldTheirHandle, TaskId
  <1>5. FreeIsEmpty'
    BY <1>1 DEF TypeOK, FreeIsEmpty
  <1>6. SettledWereSpawned'
    BY DEF TypeOK, SettledWereSpawned, Spawned
  <1>7. UnsettledIsFound'
    BY <1>1 DEF TypeOK, HandlesAreMinted, UnsettledIsFound, task_at, Spawned, TaskId
  <1>8. WakesOnlyItsOwn' /\ SlabIsPeakSized'
    BY DEF WakesOnlyItsOwn, SlabIsPeakSized
  <1>. QED BY <1>2, <1>3, <1>4, <1>5, <1>6, <1>7, <1>8

\* A spawn that grows the slab.
LEMMA RegisterGrown ==
  ASSUME SlabInv, NEW t \in Task, id[t] = {}, free = {},
         len' = len + 1,
         node' = [i \in 0..len |-> IF i = len THEN t ELSE node[i]],
         generation' = [i \in 0..len |-> IF i = len THEN 0 ELSE generation[i]],
         id' = [id EXCEPT ![t] = {TaskId(len, 0)}],
         free' = free, settled' = settled, polled' = polled,
         peak' \in Nat, len' <= peak'
  PROVE  SlabInv'
  <1>. USE TaskSlabAssumption DEF SlabInv
  <1>1. len \in Nat /\ Slots' = 0..len /\ Slots = 0..len-1 /\ len \notin Slots
    BY DEF TypeOK, Slots
  <1>2. \A j \in Slots : j \in Slots' /\ node'[j] = node[j]
                         /\ generation'[j] = generation[j]
    BY <1>1
  <1>3. \A j \in Slots' : j = len \/ j \in Slots
    BY <1>1
  <1>4. node'[len] = t /\ generation'[len] = 0 /\ len \in Slots'
    BY <1>1
  <1>5. TypeOK'
    <2>1. node' \in [Slots' -> Task \cup {NoTask}]
      BY <1>1, <1>3 DEF TypeOK
    <2>2. generation' \in [Slots' -> Nat]
      BY <1>1, <1>3 DEF TypeOK
    <2>. QED BY <1>1, <2>1, <2>2 DEF TypeOK, TaskId, Handles
  <1>6. HandlesAreMinted'
    <2>1. ASSUME NEW u \in Task, NEW h \in id'[u], u # t
          PROVE  /\ id'[u] = {h}
                 /\ h.index \in Slots'
                 /\ h.generation <= generation'[h.index]
                 /\ h.generation = generation'[h.index] => node'[h.index] = u
      <3>1. h \in id[u] /\ id'[u] = id[u]
        BY <2>1 DEF TypeOK
      <3>2. h.index \in Slots
        BY <3>1 DEF HandlesAreMinted
      <3>3. generation'[h.index] = generation[h.index] /\ node'[h.index] = node[h.index]
        BY <1>2, <3>2
      <3>4. h.index \in Slots'
        BY <1>2, <3>2
      <3>5. /\ id[u] = {h}
            /\ h.generation <= generation[h.index]
            /\ h.generation = generation[h.index] => node[h.index] = u
        BY <3>1 DEF HandlesAreMinted
      <3>. QED BY <3>1, <3>3, <3>4, <3>5, Zenon
    <2>2. ASSUME NEW h \in id'[t]
          PROVE  /\ id'[t] = {h}
                 /\ h.index \in Slots'
                 /\ h.generation <= generation'[h.index]
                 /\ h.generation = generation'[h.index] => node'[h.index] = t
      <3>1. id'[t] = {TaskId(len, 0)} /\ h = TaskId(len, 0)
        BY DEF TypeOK
      <3>. QED BY <1>4, <3>1 DEF TaskId
    <2>. QED BY <2>1, <2>2 DEF HandlesAreMinted
  <1>7. OccupantsHoldTheirHandle'
    <2>1. \A j \in Slots : node[j] # NoTask => node[j] \in Task /\ node[j] # t
      BY DEF TypeOK, OccupantsHoldTheirHandle
    <2>2. \A j \in Slots : node[j] # NoTask =>
             id'[node[j]] = {TaskId(j, generation[j])}
      BY <2>1 DEF TypeOK, OccupantsHoldTheirHandle
    <2>3. id'[t] = {TaskId(len, 0)}
      BY DEF TypeOK
    <2>. QED BY <1>2, <1>3, <1>4, <2>2, <2>3 DEF OccupantsHoldTheirHandle, TaskId
  <1>8. FreeIsEmpty'
    BY <1>1, <1>2, <1>3, <1>4 DEF TypeOK, FreeIsEmpty
  <1>9. SettledWereSpawned'
    BY DEF TypeOK, SettledWereSpawned, Spawned
  <1>10. UnsettledIsFound'
    <2>1. ASSUME NEW u \in Spawned, u \notin settled, NEW h \in id[u], u # t
          PROVE  task_at(h)' = u
      <3>1. h.index \in Slots
        BY DEF HandlesAreMinted, Spawned
      <3>2. generation'[h.index] = generation[h.index] /\ node'[h.index] = node[h.index]
        BY <1>2, <3>1
      <3>3. task_at(h) = u
        BY <2>1 DEF UnsettledIsFound
      <3>. QED BY <1>2, <3>1, <3>2, <3>3 DEF task_at
    <2>2. ASSUME NEW h, h = TaskId(len, 0)
          PROVE  task_at(h)' = t
      <3>1. h.index = len /\ h.generation = 0
        BY <2>2 DEF TaskId
      <3>. QED BY <1>4, <3>1 DEF task_at
    <2>3. \A u \in Task : id'[u] = IF u = t THEN {TaskId(len, 0)} ELSE id[u]
      BY DEF TypeOK
    <2>4. SUFFICES ASSUME NEW u \in Spawned', u \notin settled, NEW h \in id'[u]
                   PROVE  task_at(h)' = u
      BY DEF UnsettledIsFound
    <2>5. CASE u = t
      BY <2>2, <2>3, <2>5
    <2>6. CASE u # t
      <3>1. u \in Spawned /\ h \in id[u]
        BY <2>3, <2>6 DEF Spawned
      <3>. QED BY <2>1, <2>4, <2>6, <3>1
    <2>. QED BY <2>5, <2>6
  <1>11. WakesOnlyItsOwn' /\ SlabIsPeakSized'
    BY DEF WakesOnlyItsOwn, SlabIsPeakSized
  <1>. QED BY <1>5, <1>6, <1>7, <1>8, <1>9, <1>10, <1>11

\* The peak never falls below the slots in use, nor below the slab it bounds.
LEMMA PeakGrows ==
  ASSUME SlabInv, NEW t \in Task, register_task(t)
  PROVE  peak' \in Nat /\ len' <= peak'
  <1>1. len \in Nat /\ peak \in Nat /\ len <= peak
    BY DEF SlabInv, TypeOK, SlabIsPeakSized
  <1>2. Cardinality(Occupied) \in Nat
    BY OccupiedCardinality DEF SlabInv
  <1>3. CASE free = {}
    <2>1. Cardinality(Occupied) = len
      BY <1>3, FullSlab DEF SlabInv
    <2>2. len' = len + 1
      BY <1>3 DEF register_task
    <2>. QED BY <1>1, <2>1, <2>2 DEF register_task
  <1>4. CASE free # {}
    <2>1. len' = len
      BY <1>4 DEF register_task
    <2>. QED BY <1>1, <1>2, <2>1 DEF register_task
  <1>. QED BY <1>3, <1>4

\* register_task keeps the invariant, whether it reuses a slot or grows the slab.
LEMMA RegisterPreserves ==
  ASSUME SlabInv, NEW t \in Task, register_task(t)
  PROVE  SlabInv'
  <1>1. peak' \in Nat /\ len' <= peak'
    BY PeakGrows
  <1>2. CASE free = {}
    BY <1>1, <1>2, RegisterGrown DEF register_task
  <1>3. CASE free # {}
    <2>1. PICK i \in free : /\ free' = free \ {i}
                            /\ node' = [node EXCEPT ![i] = t]
                            /\ id' = [id EXCEPT ![t] = {TaskId(i, generation[i])}]
                            /\ len' = len /\ generation' = generation
      BY <1>3 DEF register_task
    <2>. QED BY <1>1, <2>1, RegisterReused DEF register_task
  <1>. QED BY <1>2, <1>3

\* Waking a handle runs its own task or nothing.
LEMMA PollPreserves ==
  ASSUME SlabInv, NEW t \in Task, poll_task(t)
  PROVE  SlabInv'
  <1>. USE TaskSlabAssumption DEF SlabInv
  <1>1. PICK h \in id[t] :
          IF task_at(h) = NoTask \/ task_at(h) \in settled
          THEN polled' = <<t, NoTask>> /\ UNCHANGED settled
          ELSE polled' = <<t, task_at(h)>>
               /\ settled' \in {settled, settled \cup {task_at(h)}}
    BY DEF poll_task
  <1>2. task_at(h) \in {t, NoTask}
    BY HandleFindsItsOwn
  <1>3. /\ polled' \in {<<t, NoTask>>, <<t, t>>}
        /\ settled' \in {settled, settled \cup {t}}
    BY <1>1, <1>2
  <1>4. UNCHANGED <<len, node, generation, free, id, peak>>
    BY DEF poll_task
  <1>5. t \in Spawned
    BY <1>1 DEF Spawned
  <1>6. TypeOK'
    BY <1>3, <1>4 DEF TypeOK, Slots
  <1>7. HandlesAreMinted' /\ OccupantsHoldTheirHandle' /\ FreeIsEmpty'
    BY <1>4 DEF HandlesAreMinted, OccupantsHoldTheirHandle, FreeIsEmpty, Slots
  <1>8. SettledWereSpawned' /\ UnsettledIsFound'
    BY <1>3, <1>4, <1>5
       DEF SettledWereSpawned, UnsettledIsFound, task_at, Spawned, Slots
  <1>9. WakesOnlyItsOwn' /\ SlabIsPeakSized'
    BY <1>3, <1>4 DEF WakesOnlyItsOwn, SlabIsPeakSized
  <1>. QED BY <1>6, <1>7, <1>8, <1>9

\* Reaping bumps the generation of every slot it frees, so no handle minted for
\* the slot before finds it again.
LEMMA ReapPreserves ==
  ASSUME SlabInv, reap_settled
  PROVE  SlabInv'
  <1>. USE TaskSlabAssumption DEF SlabInv
  <1>1. /\ UNCHANGED <<len, settled, id, polled, peak>>
        /\ Slots' = Slots
        /\ node' = [i \in Slots |-> IF i \in Reapable THEN NoTask ELSE node[i]]
        /\ generation' = [i \in Slots |->
             IF i \in Reapable THEN generation[i] + 1 ELSE generation[i]]
        /\ free' = free \cup Reapable
    BY DEF reap_settled, Slots, Bumped, Freed
  <1>2. Reapable = {i \in Slots : node[i] # NoTask /\ node[i] \in settled}
    BY DEF Reapable, Occupied
  <1>3. TypeOK'
    BY <1>1, <1>2 DEF TypeOK
  <1>4. HandlesAreMinted'
    BY <1>1, <1>2 DEF TypeOK, HandlesAreMinted, Handles
  <1>5. OccupantsHoldTheirHandle'
    BY <1>1, <1>2 DEF TypeOK, OccupantsHoldTheirHandle, TaskId
  <1>6. FreeIsEmpty'
    BY <1>1, <1>2 DEF TypeOK, FreeIsEmpty
  <1>7. SettledWereSpawned'
    BY <1>1 DEF SettledWereSpawned, Spawned
  <1>8. UnsettledIsFound'
    BY <1>1, <1>2 DEF TypeOK, UnsettledIsFound, HandlesAreMinted, task_at, Spawned
  <1>9. WakesOnlyItsOwn' /\ SlabIsPeakSized'
    BY <1>1 DEF WakesOnlyItsOwn, SlabIsPeakSized
  <1>. QED BY <1>3, <1>4, <1>5, <1>6, <1>7, <1>8, <1>9

\* A step that leaves the slab alone keeps the invariant.
LEMMA StutterPreserves == SlabInv /\ UNCHANGED vars => SlabInv'
  BY DEF SlabInv, vars, TypeOK, HandlesAreMinted, OccupantsHoldTheirHandle,
         FreeIsEmpty, SettledWereSpawned, UnsettledIsFound, WakesOnlyItsOwn,
         SlabIsPeakSized, Slots, Spawned, task_at

\* The invariant holds of every state of the slab.
THEOREM SlabCorrect == Spec => []SlabInv
  <1>1. SlabInv /\ [Next]_vars => SlabInv'
    BY RegisterPreserves, PollPreserves, ReapPreserves, StutterPreserves DEF Next
  <1>. QED BY SlabInvInit, <1>1, PTL DEF Spec

\* TaskId: waking a handle polls the task it was minted for or nothing, however
\* often slots were reused.
THEOREM HandlesNameOneTask == Spec => []WakesOnlyItsOwn
  <1>1. SlabInv => WakesOnlyItsOwn
    BY DEF SlabInv
  <1>. QED BY SlabCorrect, <1>1, PTL

\* task_at: an unsettled task is always found by its handle.
THEOREM WakesAreNotDropped == Spec => []UnsettledIsFound
  <1>1. SlabInv => UnsettledIsFound
    BY DEF SlabInv
  <1>. QED BY SlabCorrect, <1>1, PTL

\* free_slots: the slab is as large as the most tasks ever held at once.
THEOREM SlabStaysSmall == Spec => []SlabIsPeakSized
  <1>1. SlabInv => SlabIsPeakSized
    BY DEF SlabInv
  <1>. QED BY SlabCorrect, <1>1, PTL

-----------------------------------------------------------------------------
(***************************************************************************)
(* The slab with reuse implements the slab without.                        *)
(***************************************************************************)

\* The reaped tasks are the settled ones that left the slab.
LEMMA GoneAreSettled ==
  ASSUME SlabInv
  PROVE  Gone \subseteq settled
  BY TaskSlabAssumption DEF SlabInv, Gone, UnsettledIsFound, Spawned, HandlesAreMinted

\* The empty slab has spawned, settled and reaped nothing.
LEMMA InitRefines == Init => Names!Init
  BY DEF Init, Names!Init, Spawned, Gone

\* register_task spawns one name: minting its handle, also in a reused slot,
\* revives no reaped task.
LEMMA RegisterRefines ==
  ASSUME SlabInv, SlabInv', NEW t \in Task, register_task(t)
  PROVE  Names!Spawn(t)
  <1>. USE TaskSlabAssumption
  <1>1. id[t] = {} /\ UNCHANGED <<settled, polled>>
    BY DEF register_task
  <1>2. PICK h \in Handles : id' = [id EXCEPT ![t] = {h}]
    <2>1. CASE free = {}
      <3>1. id' = [id EXCEPT ![t] = {TaskId(len, 0)}]
        BY <2>1 DEF register_task
      <3>. QED BY <3>1 DEF SlabInv, TypeOK, TaskId, Handles
    <2>2. CASE free # {}
      <3>1. PICK i \in free : id' = [id EXCEPT ![t] = {TaskId(i, generation[i])}]
        BY <2>2 DEF register_task
      <3>2. i \in Nat /\ generation[i] \in Nat
        BY DEF SlabInv, TypeOK, Slots
      <3>. QED BY <3>1, <3>2 DEF TaskId, Handles
    <2>. QED BY <2>1, <2>2
  <1>3. Spawned' = Spawned \cup {t} /\ t \notin Spawned
    BY <1>1, <1>2 DEF SlabInv, TypeOK, Spawned
  <1>4. task_at(h)' # NoTask
    <2>1. id'[t] = {h}
      BY <1>2 DEF SlabInv, TypeOK
    <2>2. t \notin settled
      BY <1>1 DEF SlabInv, SettledWereSpawned, Spawned
    <2>3. task_at(h)' = t
      BY <1>1, <1>3, <2>1, <2>2 DEF SlabInv, UnsettledIsFound
    <2>. QED BY <2>3
  <1>5. \A u \in Spawned : id'[u] = id[u]
    BY <1>1, <1>2, <1>3 DEF SlabInv, TypeOK, Spawned
  <1>6. \A u \in Spawned : \A g \in id[u] : task_at(g)' = NoTask <=> task_at(g) = NoTask
    <2>1. SUFFICES ASSUME NEW u \in Spawned, NEW g \in id[u]
                   PROVE  task_at(g)' = NoTask <=> task_at(g) = NoTask
      OBVIOUS
    <2>2. u \in Task /\ u # t
      BY <1>3 DEF Spawned
    <2>3. g.index \in Slots /\ (g.generation = generation[g.index] => node[g.index] = u)
      BY <2>2 DEF SlabInv, HandlesAreMinted
    <2>4. g.index \in Slots' /\ generation'[g.index] = generation[g.index]
      BY <2>3 DEF register_task, SlabInv, TypeOK, Slots
    <2>5. CASE g.generation = generation[g.index]
      <3>1. node'[g.index] = u
        BY <2>2, <2>3, <2>5 DEF register_task, SlabInv, TypeOK, FreeIsEmpty, Slots
      <3>. QED BY <2>2, <2>3, <2>4, <2>5, <3>1 DEF task_at
    <2>6. CASE g.generation # generation[g.index]
      BY <2>4, <2>6 DEF task_at
    <2>. QED BY <2>5, <2>6
  <1>7. Gone' = Gone
    BY <1>2, <1>3, <1>4, <1>5, <1>6 DEF Gone, SlabInv, TypeOK, Spawned
  <1>. QED BY <1>1, <1>3, <1>7 DEF Names!Spawn

\* poll_task on a handle is a wake of the name it was minted for.
LEMMA PollRefines ==
  ASSUME SlabInv, NEW t \in Task, poll_task(t)
  PROVE  Names!Wake(t)
  <1>. USE TaskSlabAssumption
  <1>1. PICK h \in id[t] :
          IF task_at(h) = NoTask \/ task_at(h) \in settled
          THEN polled' = <<t, NoTask>> /\ UNCHANGED settled
          ELSE polled' = <<t, task_at(h)>>
               /\ settled' \in {settled, settled \cup {task_at(h)}}
    BY DEF poll_task
  <1>2. task_at(h) \in {t, NoTask} /\ id[t] = {h}
    BY HandleFindsItsOwn DEF SlabInv, HandlesAreMinted
  <1>3. t \in Spawned
    BY <1>1 DEF Spawned
  <1>4. UNCHANGED <<Spawned, Gone>>
    BY DEF poll_task, Spawned, Gone, task_at, Slots
  <1>5. t \in Gone <=> task_at(h) = NoTask
    BY <1>2, <1>3 DEF Gone
  <1>6. CASE task_at(h) = NoTask \/ task_at(h) \in settled
    BY <1>1, <1>2, <1>3, <1>4, <1>5, <1>6 DEF Names!Wake
  <1>7. CASE ~(task_at(h) = NoTask \/ task_at(h) \in settled)
    BY <1>1, <1>2, <1>3, <1>4, <1>5, <1>7 DEF Names!Wake
  <1>. QED BY <1>6, <1>7

\* reap_settled retires exactly the settled names.
LEMMA ReapRefines ==
  ASSUME SlabInv, SlabInv', reap_settled
  PROVE  Names!Reap
  <1>. USE TaskSlabAssumption
  <1>1. UNCHANGED <<Spawned, settled, polled, id, Slots>>
    BY DEF reap_settled, Spawned, Slots
  <1>2. Gone' \subseteq settled
    BY <1>1, GoneAreSettled DEF SlabInv, Gone, UnsettledIsFound, Spawned, HandlesAreMinted
  <1>3. ASSUME NEW u \in settled
        PROVE  u \in Gone'
    <2>1. u \in Spawned /\ u \in Task
      BY DEF SlabInv, SettledWereSpawned, Spawned
    <2>2. PICK h \in id[u] : id[u] = {h}
      BY <2>1 DEF Spawned, SlabInv, HandlesAreMinted
    <2>3. h.index \in Slots /\ h.generation <= generation[h.index]
          /\ (h.generation = generation[h.index] => node[h.index] = u)
          /\ h \in Handles
      BY <2>1, <2>2 DEF SlabInv, HandlesAreMinted, TypeOK
    <2>4. h.generation = generation[h.index] => h.index \in Reapable
      BY <2>1, <2>3 DEF Reapable, Occupied
    <2>5. generation'[h.index] # h.generation
      BY <2>3, <2>4 DEF reap_settled, Bumped, SlabInv, TypeOK, Handles
    <2>6. task_at(h)' = NoTask
      BY <2>5 DEF task_at
    <2>. QED BY <1>1, <2>1, <2>2, <2>6 DEF Gone, Spawned
  <1>. QED BY <1>1, <1>2, <1>3 DEF Names!Reap

\* reap_settled: with slots reused, handles behave as if no slot ever were.
THEOREM ReuseRefines == Spec => ReuseIsInvisible
  <1>1. SlabInv /\ SlabInv' /\ [Next]_vars => [Names!Next]_(Names!vars)
    <2>1. ASSUME UNCHANGED vars
          PROVE  UNCHANGED Names!vars
      BY <2>1 DEF vars, Names!vars, Spawned, Gone, task_at, Slots
    <2>. QED BY <2>1, RegisterRefines, PollRefines, ReapRefines DEF Next, Names!Next
  <1>. QED BY SlabCorrect, InitRefines, <1>1, PTL DEF Spec, ReuseIsInvisible, Names!Spec

=============================================================================
