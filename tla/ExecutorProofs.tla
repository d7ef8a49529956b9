--------------------------- MODULE ExecutorProofs ---------------------------
(***************************************************************************)
(* Safety of the executor for any sets of tasks, nurseries and timers: it  *)
(* keeps its types, a cancel reaches the whole extent, a timer keeps its   *)
(* first verdict, and the latch of a nursery holds its first failure.      *)
(***************************************************************************)
EXTENDS Executor, TLAPS

-----------------------------------------------------------------------------
(***************************************************************************)
(* Types: every field of the runtime, of a task, of a nursery and of a     *)
(* timer holds a value of its type in every reachable state, and every     *)
(* leaf future has the operands its poll reads.                            *)
(***************************************************************************)
\* The ambient nursery of a task is a nursery or absent.
LEMMA AmbientType ==
  ASSUME TypeOK, NEW t \in Task
  PROVE  Ambient(t) \in Nursery \cup {None}
  BY DEF TypeOK, NodeTypes, FutureTypes, Ambient

\* The rest of a non-empty sequence has its type.
LEMMA TailType ==
  ASSUME NEW S, NEW q \in Seq(S), q # <<>>
  PROVE  Tail(q) \in Seq(S)
  OBVIOUS

\* Two sequences over one set make a sequence over it.
LEMMA ConcatType ==
  ASSUME NEW S, NEW q \in Seq(S), NEW r \in Seq(S)
  PROVE  q \o r \in Seq(S)
  OBVIOUS

\* A wake list of tasks may be put on the microtask queue.
LEMMA WakeType ==
  ASSUME NEW q \in Seq(Task)
  PROVE  q \in Seq(OptTask)
  BY DEF OptTask

\* Parking a task leaves wake lists of tasks.
LEMMA ParkOnType ==
  ASSUME NEW list \in [Task -> Seq(Task)], NEW t \in Task, NEW on
  PROVE  ParkOn(list, t, on) \in [Task -> Seq(Task)]
  BY DEF ParkOn

\* CancelSignal::park leaves wake lists of tasks.
LEMMA ParkOnSignalType ==
  ASSUME TypeOK, NEW t \in Task
  PROVE  ParkOnSignal(t) \in [Nursery -> Seq(Task)]
  BY AmbientType DEF TypeOK, NurseryTypes, ParkOnSignal

\* unpark_from leaves a wake list.
LEMMA UnparkType ==
  ASSUME NEW list \in Seq(OptTask), NEW t \in Task
  PROVE  Unpark(list, t) \in Seq(OptTask)
  BY DEF Unpark, OptTask

\* A suspending poll leaves a stack of tasks.
LEMMA SuspendType ==
  ASSUME TypeOK, NEW t \in Task, Current(t)
  PROVE  Tail(stack) \in Seq(Task)
  BY TailType DEF TypeOK, LoopTypes, Current

\* A future that answers leaves no leaf behind.
LEMMA ResumeType ==
  ASSUME FutureTypes, NEW t \in Task, leaf' = [leaf EXCEPT ![t] = "none"]
  PROVE  leaf' \in [Task -> Leaves]
  BY DEF FutureTypes, Leaves

\* A future that panics leaves no leaf and a failure unwinding.
LEMMA RaiseType ==
  ASSUME FutureTypes, NEW t \in Task, NEW f \in Failures, Raise(t, f)
  PROVE  leaf' \in [Task -> Leaves] /\ raising' \in [Task -> Failures]
  BY ResumeType DEF FutureTypes, Raise

\* A settled task's outcome continues as a value or as a failure.
LEMMA DeliverType ==
  ASSUME TypeOK, NEW t \in Task, NEW u \in Task, Deliver(t, u)
  PROVE  leaf' \in [Task -> Leaves] /\ raising' \in [Task -> Failures]
  <1>1. CASE failure[u] = "none"
    BY <1>1, ResumeType DEF TypeOK, FutureTypes, Deliver, Resume
  <1>2. CASE failure[u] # "none"
    <2>1. failure[u] \in Failures
      BY DEF TypeOK, NodeTypes
    <2>2. Raise(t, failure[u])
      BY <1>2 DEF Deliver
    <2>. QED BY <2>1, <2>2, RaiseType DEF TypeOK
  <1>. QED BY <1>1, <1>2

\* A task may be queued.
LEMMA WakeOneType ==
  ASSUME NEW q \in Seq(OptTask), NEW t \in Task
  PROVE  Append(q, t) \in Seq(OptTask)
  BY DEF OptTask

\* Parking on the fail latch leaves wake lists of tasks.
LEMMA DrainParksOnFailType ==
  ASSUME TypeOK, NEW t \in Task, NEW n \in Nursery
  PROVE  DrainParksOnFail(n, t) \in [Nursery -> Seq(Task)]
  BY DEF TypeOK, NurseryTypes, DrainParksOnFail

\* The empty and the one-element sequences have their type.
LEMMA ShortType ==
  ASSUME NEW S
  PROVE  <<>> \in Seq(S) /\ \A x \in S : <<x>> \in Seq(S)
  OBVIOUS

\* Draining one wake list leaves wake lists.
LEMMA ClearedType ==
  ASSUME NEW I, NEW S, NEW f \in [I -> Seq(S)], NEW i
  PROVE  [f EXCEPT ![i] = <<>>] \in [I -> Seq(S)]
  <1>1. <<>> \in Seq(S)
    BY ShortType
  <1>. QED BY <1>1

-----------------------------------------------------------------------------
\* TypeOK is preserved by YieldOnce::poll.
LEMMA YieldPollTypes ==
  ASSUME TypeOK, NEW t \in Task, YieldOnce_poll(t)
  PROVE  TypeOK'
  <1>1. NodeTypes'
    BY DEF TypeOK, YieldOnce_poll, nodeVars, NodeTypes
  <1>2. FutureTypes'
    <2>1. leaf' \in [Task -> Leaves]
      BY ResumeType DEF TypeOK, YieldOnce_poll, Resume, FutureTypes
    <2>. QED BY <2>1 DEF TypeOK, YieldOnce_poll, FutureTypes
  <1>3. NurseryTypes'
    BY DEF TypeOK, YieldOnce_poll, nurseryVars, NurseryTypes
  <1>4. TimerTypes'
    BY DEF TypeOK, YieldOnce_poll, timerVars, TimerTypes
  <1>5. LoopTypes'
    <2>1. stack' \in Seq(Task)
      BY SuspendType DEF TypeOK, YieldOnce_poll, Polling, Suspend, LoopTypes
    <2>2. microtasks' \in Seq(OptTask)
      BY WakeOneType DEF TypeOK, YieldOnce_poll, LoopTypes
    <2>. QED BY <2>1, <2>2 DEF TypeOK, YieldOnce_poll, LoopTypes
  <1>6. Operands'
    BY DEF TypeOK, YieldOnce_poll, futureVars, Resume, FutureTypes, Operands
  <1>. QED BY <1>1, <1>2, <1>3, <1>4, <1>5, <1>6 DEF TypeOK

\* TypeOK is preserved by TaskJoin::poll.
LEMMA JoinPollTypes ==
  ASSUME TypeOK, NEW t \in Task, TaskJoin_poll(t)
  PROVE  TypeOK'
  <1>1. NodeTypes'
    <2>1. waiters' \in {waiters, ParkOn(waiters, t, {group[t][1]})}
      BY DEF TypeOK, TaskJoin_poll, NodeTypes
    <2>a. waiters \in [Task -> Seq(Task)]
      BY DEF TypeOK, NodeTypes
    <2>b. ParkOn(waiters, t, {group[t][1]}) \in [Task -> Seq(Task)]
      BY <2>a, ParkOnType
    <2>2. waiters' \in [Task -> Seq(Task)]
      BY <2>1, <2>a, <2>b
    <2>. QED BY <2>1, <2>2 DEF TypeOK, TaskJoin_poll, NodeTypes
  <1>2. FutureTypes'
    <2>1. group[t][1] \in Task
      BY DEF TypeOK, TaskJoin_poll, Polling, Operands, FutureTypes
    <2>2. leaf' \in [Task -> Leaves] /\ raising' \in [Task -> Failures]
      BY <2>1, DeliverType DEF TypeOK, TaskJoin_poll, FutureTypes
    <2>. QED BY <2>1, <2>2 DEF TypeOK, TaskJoin_poll, FutureTypes
  <1>3. NurseryTypes'
    BY DEF TypeOK, TaskJoin_poll, nurseryVars, NurseryTypes
  <1>4. TimerTypes'
    BY DEF TypeOK, TaskJoin_poll, timerVars, TimerTypes
  <1>5. LoopTypes'
    <2>1. stack' \in Seq(Task)
      BY SuspendType DEF TypeOK, TaskJoin_poll, Polling, Suspend, LoopTypes
    <2>. QED BY <2>1 DEF TypeOK, TaskJoin_poll, LoopTypes
  <1>6. Operands'
    BY DEF TypeOK, TaskJoin_poll, futureVars, Deliver, Resume, Raise,
       FutureTypes, Operands
  <1>. QED BY <1>1, <1>2, <1>3, <1>4, <1>5, <1>6 DEF TypeOK

\* TypeOK is preserved by AllSettledOrAnyFailed::poll.
LEMMA SettleAllPollTypes ==
  ASSUME TypeOK, NEW t \in Task, AllSettledOrAnyFailed_poll(t)
  PROVE  TypeOK'
  <1>1. NodeTypes'
    <2>1. waiters' \in [Task -> Seq(Task)]
      BY ParkOnType DEF TypeOK, AllSettledOrAnyFailed_poll, NodeTypes
    <2>2. observed' \in [Task -> BOOLEAN]
      BY DEF TypeOK, AllSettledOrAnyFailed_poll, ObserveAll, NodeTypes
    <2>. QED BY <2>1, <2>2 DEF TypeOK, AllSettledOrAnyFailed_poll,
      NodeTypes
  <1>2. FutureTypes'
    <2>1. \A i \in DOMAIN group[t] : failure[group[t][i]] \in Failures
      BY DEF TypeOK, AllSettledOrAnyFailed_poll, NodeTypes, FutureTypes
    <2>2. leaf' \in [Task -> Leaves] /\ raising' \in [Task -> Failures]
      BY <2>1, ResumeType, RaiseType DEF TypeOK, AllSettledOrAnyFailed_poll,
         Resume, FutureTypes
    <2>. QED BY <2>1, <2>2 DEF TypeOK, AllSettledOrAnyFailed_poll,
      FutureTypes
  <1>3. NurseryTypes'
    BY DEF TypeOK, AllSettledOrAnyFailed_poll, nurseryVars, NurseryTypes
  <1>4. TimerTypes'
    BY DEF TypeOK, AllSettledOrAnyFailed_poll, timerVars, TimerTypes
  <1>5. LoopTypes'
    <2>1. stack' \in Seq(Task)
      BY SuspendType DEF TypeOK, AllSettledOrAnyFailed_poll, Polling,
         Suspend, LoopTypes
    <2>. QED BY <2>1 DEF TypeOK, AllSettledOrAnyFailed_poll,
      LoopTypes
  <1>6. Operands'
    BY DEF TypeOK, AllSettledOrAnyFailed_poll, futureVars, Resume, Raise,
       FutureTypes, Operands
  <1>. QED BY <1>1, <1>2, <1>3, <1>4, <1>5, <1>6 DEF TypeOK

\* TypeOK is preserved by AnySettled::poll.
LEMMA RacePollTypes ==
  ASSUME TypeOK, NEW t \in Task, AnySettled_poll(t)
  PROVE  TypeOK'
  <1>1. NodeTypes'
    <2>1. waiters' \in [Task -> Seq(Task)]
      BY ParkOnType DEF TypeOK, AnySettled_poll, NodeTypes
    <2>2. observed' \in [Task -> BOOLEAN]
      BY DEF TypeOK, AnySettled_poll, ObserveAll, NodeTypes
    <2>. QED BY <2>1, <2>2 DEF TypeOK, AnySettled_poll, NodeTypes
  <1>2. FutureTypes'
    <2>1. \A i \in DOMAIN group[t] : group[t][i] \in Task
      BY DEF TypeOK, AnySettled_poll, FutureTypes
    <2>2. leaf' \in [Task -> Leaves] /\ raising' \in [Task -> Failures]
      BY <2>1, DeliverType DEF TypeOK, AnySettled_poll, FutureTypes
    <2>3. got' \in [Task -> OptTask]
      BY <2>1 DEF TypeOK, AnySettled_poll, OptTask, FutureTypes
    <2>. QED BY <2>1, <2>2, <2>3 DEF TypeOK, AnySettled_poll,
      FutureTypes
  <1>3. NurseryTypes'
    BY DEF TypeOK, AnySettled_poll, nurseryVars, NurseryTypes
  <1>4. TimerTypes'
    BY DEF TypeOK, AnySettled_poll, timerVars, TimerTypes
  <1>5. LoopTypes'
    <2>1. stack' \in Seq(Task)
      BY SuspendType DEF TypeOK, AnySettled_poll, Polling, Suspend,
         LoopTypes
    <2>. QED BY <2>1 DEF TypeOK, AnySettled_poll, LoopTypes
  <1>6. Operands'
    BY DEF TypeOK, AnySettled_poll, futureVars, Deliver, Resume, Raise,
       FutureTypes, Operands
  <1>. QED BY <1>1, <1>2, <1>3, <1>4, <1>5, <1>6 DEF TypeOK

\* TypeOK is preserved by Sleep::poll.
LEMMA SleepPollTypes ==
  ASSUME TypeOK, NEW t \in Task, Sleep_poll(t)
  PROVE  TypeOK'
  <1>1. NodeTypes'
    BY DEF TypeOK, Sleep_poll, nodeVars, NodeTypes
  <1>2. FutureTypes'
    <2>1. leaf' \in [Task -> Leaves] /\ raising' \in [Task -> Failures]
      BY ResumeType, RaiseType DEF TypeOK, Sleep_poll, Resume, Failures,
         FutureTypes
    <2>2. slot' \in [Task -> Timer \cup {None}]
      BY DEF TypeOK, Sleep_poll, FutureTypes
    <2>. QED BY <2>1, <2>2 DEF TypeOK, Sleep_poll, FutureTypes
  <1>3. NurseryTypes'
    <2>1. cancelWaiters' \in [Nursery -> Seq(Task)]
      BY ParkOnSignalType DEF TypeOK, Sleep_poll, NurseryTypes
    <2>. QED BY <2>1 DEF TypeOK, Sleep_poll, NurseryTypes
  <1>4. TimerTypes'
    BY DEF TypeOK, Sleep_poll, OptTask, TimerTypes
  <1>5. LoopTypes'
    <2>1. stack' \in Seq(Task)
      BY SuspendType DEF TypeOK, Sleep_poll, Polling, Suspend, LoopTypes
    <2>. QED BY <2>1 DEF TypeOK, Sleep_poll, LoopTypes
  <1>6. Operands'
    BY DEF TypeOK, Sleep_poll, futureVars, Resume, Raise, FutureTypes,
       Polling, Operands
  <1>. QED BY <1>1, <1>2, <1>3, <1>4, <1>5, <1>6 DEF TypeOK

\* TypeOK is preserved by TimerWait::poll.
LEMMA TimerPollTypes ==
  ASSUME TypeOK, NEW t \in Task, TimerWait_poll(t)
  PROVE  TypeOK'
  <1>1. NodeTypes'
    BY DEF TypeOK, TimerWait_poll, nodeVars, NodeTypes
  <1>2. FutureTypes'
    <2>1. leaf' \in [Task -> Leaves] /\ raising' \in [Task -> Failures]
      BY ResumeType, RaiseType DEF TypeOK, TimerWait_poll, Resume, Failures,
         FutureTypes
    <2>. QED BY <2>1 DEF TypeOK, TimerWait_poll, FutureTypes
  <1>3. NurseryTypes'
    <2>1. cancelWaiters' \in [Nursery -> Seq(Task)]
      BY ParkOnSignalType DEF TypeOK, TimerWait_poll, NurseryTypes
    <2>. QED BY <2>1 DEF TypeOK, TimerWait_poll, NurseryTypes
  <1>4. TimerTypes'
    <2>1. \A s \in Timer : Unpark(timerWaiters[s], t) \in Seq(OptTask)
      BY UnparkType DEF TypeOK, TimerTypes
    <2>2. \A s \in Timer : Append(timerWaiters[s], t) \in Seq(OptTask)
      BY WakeOneType DEF TypeOK, TimerTypes
    <2>3. \/ timerWaiters' = timerWaiters
          \/ timerWaiters' = [timerWaiters EXCEPT ![slot[t]] = Unpark(@, t)]
          \/ timerWaiters' = [timerWaiters EXCEPT ![slot[t]] = Append(@, t)]
      BY DEF TypeOK, TimerWait_poll, TimerTypes
    <2>4. [timerWaiters EXCEPT ![slot[t]] = Unpark(@, t)] \in [Timer -> Seq(OptTask)]
      BY <2>1 DEF TypeOK, TimerTypes
    <2>5. [timerWaiters EXCEPT ![slot[t]] = Append(@, t)] \in [Timer -> Seq(OptTask)]
      BY <2>2 DEF TypeOK, TimerTypes
    <2>6. timerWaiters' \in [Timer -> Seq(OptTask)]
      BY <2>3, <2>4, <2>5 DEF TypeOK, TimerTypes
    <2>. QED BY <2>1, <2>2, <2>3, <2>4, <2>5, <2>6 DEF TypeOK,
      TimerWait_poll, TimerTypes
  <1>5. LoopTypes'
    <2>1. stack' \in Seq(Task)
      BY SuspendType DEF TypeOK, TimerWait_poll, Polling, Suspend, LoopTypes
    <2>. QED BY <2>1 DEF TypeOK, TimerWait_poll, LoopTypes
  <1>6. Operands'
    BY DEF TypeOK, TimerWait_poll, futureVars, Resume, Raise, FutureTypes,
       Polling, Operands
  <1>. QED BY <1>1, <1>2, <1>3, <1>4, <1>5, <1>6 DEF TypeOK

\* TypeOK is preserved by a turn of nursery_run's drain.
LEMMA DrainTypes ==
  ASSUME TypeOK, NEW t \in Task, nursery_run_drain(t)
  PROVE  TypeOK'
  <1>1. NodeTypes'
    <2>1. waiters' \in {waiters, ParkOn(waiters, t, {children[Head(frames[t])][index[t]]})}
      BY DEF TypeOK, nursery_run_drain, NodeTypes
    <2>a. waiters \in [Task -> Seq(Task)]
      BY DEF TypeOK, NodeTypes
    <2>b. ParkOn(waiters, t, {children[Head(frames[t])][index[t]]}) \in [Task -> Seq(Task)]
      BY <2>a, ParkOnType
    <2>2. waiters' \in [Task -> Seq(Task)]
      BY <2>1, <2>a, <2>b
    <2>3. observed' \in [Task -> BOOLEAN]
      BY DEF TypeOK, nursery_run_drain, Absorb, ObserveAll, NodeTypes
    <2>. QED BY <2>1, <2>2, <2>3 DEF TypeOK, nursery_run_drain,
      NodeTypes
  <1>2. FutureTypes'
    <2>1. Tail(frames[t]) \in Seq(Nursery)
      BY TailType DEF TypeOK, nursery_run_drain, Operands, Polling,
         FutureTypes
    <2>2. leaf' \in [Task -> Leaves] /\ raising' \in [Task -> Failures]
      BY ResumeType, RaiseType DEF TypeOK, nursery_run_drain, Resume,
         Failures, FutureTypes
    <2>3. index' \in [Task -> Nat \ {0}]
      BY DEF TypeOK, nursery_run_drain, FutureTypes
    <2>4. frames' \in [Task -> Seq(Nursery)]
      BY <2>1 DEF TypeOK, nursery_run_drain, FutureTypes
    <2>. QED BY <2>1, <2>2, <2>3, <2>4 DEF TypeOK, nursery_run_drain,
      FutureTypes
  <1>3. NurseryTypes'
    <2>1. failWaiters' = failWaiters \/ \E n \in Nursery : failWaiters' = DrainParksOnFail(n, t)
      BY DEF TypeOK, nursery_run_drain, Operands, Polling, FutureTypes,
         NurseryTypes
    <2>2. failWaiters' \in [Nursery -> Seq(Task)]
      BY <2>1, DrainParksOnFailType DEF TypeOK, NurseryTypes
    <2>. QED BY <2>1, <2>2 DEF TypeOK, nursery_run_drain,
      NurseryTypes
  <1>4. TimerTypes'
    BY DEF TypeOK, nursery_run_drain, timerVars, TimerTypes
  <1>5. LoopTypes'
    <2>1. stack' \in Seq(Task)
      BY SuspendType DEF TypeOK, nursery_run_drain, Polling, Suspend,
         LoopTypes
    <2>. QED BY <2>1 DEF TypeOK, nursery_run_drain, LoopTypes
  <1>6. Operands'
    BY DEF TypeOK, nursery_run_drain, futureVars, Resume, Raise, FutureTypes,
       Operands
  <1>. QED BY <1>1, <1>2, <1>3, <1>4, <1>5, <1>6 DEF TypeOK

\* TypeOK is preserved by spawn_in.
LEMMA SpawnTypes ==
  ASSUME TypeOK, NEW t \in Task, spawn_in(t)
  PROVE  TypeOK'
  <1>1. NodeTypes'
    BY AmbientType DEF TypeOK, spawn_in, NurseryTypes, NodeTypes
  <1>2. FutureTypes'
    BY DEF TypeOK, spawn_in, Operation, FutureTypes
  <1>3. NurseryTypes'
    BY AmbientType DEF TypeOK, spawn_in, NurseryTypes
  <1>4. TimerTypes'
    BY DEF TypeOK, spawn_in, timerVars, TimerTypes
  <1>5. LoopTypes'
    BY DEF TypeOK, spawn_in, LoopTypes
  <1>6. Operands'
    BY DEF TypeOK, spawn_in, futureVars, Operands
  <1>. QED BY <1>1, <1>2, <1>3, <1>4, <1>5, <1>6 DEF TypeOK

\* TypeOK is preserved by a nursery call (nursery_new).
LEMMA NurseryNewTypes ==
  ASSUME TypeOK, NEW t \in Task, nursery_new(t)
  PROVE  TypeOK'
  <1>1. NodeTypes'
    BY DEF TypeOK, nursery_new, nodeVars, NodeTypes
  <1>2. FutureTypes'
    BY DEF TypeOK, nursery_new, Operation, FutureTypes
  <1>3. NurseryTypes'
    BY AmbientType DEF TypeOK, nursery_new, Aborted, NurseryTypes
  <1>4. TimerTypes'
    BY DEF TypeOK, nursery_new, timerVars, TimerTypes
  <1>5. LoopTypes'
    BY DEF TypeOK, nursery_new, loopVars, LoopTypes
  <1>6. Operands'
    BY DEF TypeOK, nursery_new, futureVars, FutureTypes, Operands
  <1>. QED BY <1>1, <1>2, <1>3, <1>4, <1>5, <1>6 DEF TypeOK

\* TypeOK is preserved by OwnedNursery::new (nursery_new_detached).
LEMMA DetachedTypes ==
  ASSUME TypeOK, NEW t \in Task, nursery_new_detached(t)
  PROVE  TypeOK'
  <1>1. NodeTypes'
    BY DEF TypeOK, nursery_new_detached, nodeVars, NodeTypes
  <1>2. FutureTypes'
    BY DEF TypeOK, nursery_new_detached, Operation, FutureTypes
  <1>3. NurseryTypes'
    BY DEF TypeOK, nursery_new_detached, NurseryTypes
  <1>4. TimerTypes'
    BY DEF TypeOK, nursery_new_detached, timerVars, TimerTypes
  <1>5. LoopTypes'
    BY DEF TypeOK, nursery_new_detached, loopVars, LoopTypes
  <1>6. Operands'
    BY DEF TypeOK, nursery_new_detached, futureVars, FutureTypes, Operands
  <1>. QED BY <1>1, <1>2, <1>3, <1>4, <1>5, <1>6 DEF TypeOK

\* TypeOK is preserved by a call of cancel.
LEMMA CancelTypes ==
  ASSUME TypeOK, NEW t \in Task, cancel(t)
  PROVE  TypeOK'
  <1>1. NodeTypes'
    BY DEF TypeOK, cancel, nodeVars, NodeTypes
  <1>2. FutureTypes'
    BY DEF TypeOK, cancel, Operation, FutureTypes
  <1>3. NurseryTypes'
    BY DEF TypeOK, cancel, nurseryVars, NurseryTypes
  <1>4. TimerTypes'
    BY DEF TypeOK, cancel, timerVars, TimerTypes
  <1>5. LoopTypes'
    BY DEF TypeOK, cancel, NurseryTypes, LoopTypes
  <1>6. Operands'
    BY DEF TypeOK, cancel, futureVars, FutureTypes, Operands
  <1>. QED BY <1>1, <1>2, <1>3, <1>4, <1>5, <1>6 DEF TypeOK

\* TypeOK is preserved by a call of timer.
LEMMA TimerCallTypes ==
  ASSUME TypeOK, NEW t \in Task, timer(t)
  PROVE  TypeOK'
  <1>1. NodeTypes'
    BY DEF TypeOK, timer, nodeVars, NodeTypes
  <1>2. FutureTypes'
    BY DEF TypeOK, timer, Operation, FutureTypes
  <1>3. NurseryTypes'
    BY DEF TypeOK, timer, nurseryVars, NurseryTypes
  <1>4. TimerTypes'
    BY DEF TypeOK, timer, TimerTypes
  <1>5. LoopTypes'
    BY DEF TypeOK, timer, loopVars, LoopTypes
  <1>6. Operands'
    BY DEF TypeOK, timer, futureVars, FutureTypes, Operands
  <1>. QED BY <1>1, <1>2, <1>3, <1>4, <1>5, <1>6 DEF TypeOK

\* TypeOK is preserved by a panic.
LEMMA PanicTypes ==
  ASSUME TypeOK, NEW t \in Task, panic(t)
  PROVE  TypeOK'
  <1>1. NodeTypes'
    BY DEF TypeOK, panic, nodeVars, NodeTypes
  <1>2. FutureTypes'
    BY DEF TypeOK, panic, Operation, Failures, FutureTypes
  <1>3. NurseryTypes'
    BY DEF TypeOK, panic, nurseryVars, NurseryTypes
  <1>4. TimerTypes'
    BY DEF TypeOK, panic, timerVars, TimerTypes
  <1>5. LoopTypes'
    BY DEF TypeOK, panic, loopVars, LoopTypes
  <1>6. Operands'
    BY DEF TypeOK, panic, futureVars, Operation, Running, FutureTypes,
       Operands
  <1>. QED BY <1>1, <1>2, <1>3, <1>4, <1>5, <1>6 DEF TypeOK

\* TypeOK is preserved by a guarded_async that catches.
LEMMA GuardTypes ==
  ASSUME TypeOK, NEW t \in Task, guarded_async(t)
  PROVE  TypeOK'
  <1>1. NodeTypes'
    BY DEF TypeOK, guarded_async, nodeVars, NodeTypes
  <1>2. FutureTypes'
    BY DEF TypeOK, guarded_async, Failures, FutureTypes
  <1>3. NurseryTypes'
    BY DEF TypeOK, guarded_async, nurseryVars, NurseryTypes
  <1>4. TimerTypes'
    BY DEF TypeOK, guarded_async, timerVars, TimerTypes
  <1>5. LoopTypes'
    BY DEF TypeOK, guarded_async, loopVars, LoopTypes
  <1>6. Operands'
    BY DEF TypeOK, guarded_async, futureVars, FutureTypes, Operands
  <1>. QED BY <1>1, <1>2, <1>3, <1>4, <1>5, <1>6 DEF TypeOK

\* TypeOK is preserved by the call of a leaf future with proper operands.
LEMMA AwaitTypes ==
  ASSUME TypeOK, NEW t \in Task, 
         NEW kind \in Leaves \ {"drain"}, NEW on \in Seq(Task), NEW s \in Timer \cup {None},
         kind \in {"join", "settle_all", "race"} => on # <<>>,
         kind = "timer" => s # None,
         fuel' \in [Task -> Nat], raising[t] = "none",
         Await(t, kind, on, s)
  PROVE  TypeOK'
  <1>1. NodeTypes'
    BY DEF TypeOK, Await, nodeVars, NodeTypes
  <1>2. FutureTypes'
    BY DEF TypeOK, Await, FutureTypes
  <1>3. NurseryTypes'
    BY DEF TypeOK, Await, nurseryVars, NurseryTypes
  <1>4. TimerTypes'
    BY DEF TypeOK, Await, timerVars, TimerTypes
  <1>5. LoopTypes'
    BY DEF TypeOK, Await, loopVars, LoopTypes
  <1>6. Operands'
    BY DEF TypeOK, Await, futureVars, FutureTypes, Operands
  <1>. QED BY <1>1, <1>2, <1>3, <1>4, <1>5, <1>6 DEF TypeOK

\* TypeOK is preserved by the wakes Nursery::fail and settle owe after the cancel.
LEMMA FailWakeTypes ==
  ASSUME TypeOK, fail_wake
  PROVE  TypeOK'
  <1>1. NodeTypes'
    BY DEF TypeOK, fail_wake, nodeVars, NodeTypes
  <1>2. FutureTypes'
    BY DEF TypeOK, fail_wake, futureVars, FutureTypes
  <1>3. NurseryTypes'
    BY DEF TypeOK, fail_wake, nurseryVars, NurseryTypes
  <1>4. TimerTypes'
    BY DEF TypeOK, fail_wake, timerVars, TimerTypes
  <1>5. LoopTypes'
    BY WakeType, ConcatType DEF TypeOK, fail_wake, LoopTypes
  <1>6. Operands'
    BY DEF TypeOK, fail_wake, futureVars, FutureTypes, Operands
  <1>. QED BY <1>1, <1>2, <1>3, <1>4, <1>5, <1>6 DEF TypeOK

\* TypeOK is preserved by drain_microtasks taking one task.
LEMMA PopTypes ==
  ASSUME TypeOK, drain_microtasks
  PROVE  TypeOK'
  <1>1. NodeTypes'
    BY DEF TypeOK, drain_microtasks, nodeVars, NodeTypes
  <1>2. FutureTypes'
    BY DEF TypeOK, drain_microtasks, futureVars, FutureTypes
  <1>3. NurseryTypes'
    BY DEF TypeOK, drain_microtasks, nurseryVars, NurseryTypes
  <1>4. TimerTypes'
    BY DEF TypeOK, drain_microtasks, timerVars, TimerTypes
  <1>5. LoopTypes'
    BY DEF TypeOK, drain_microtasks, Pollable, OptTask, LoopTypes
  <1>6. Operands'
    BY DEF TypeOK, drain_microtasks, futureVars, FutureTypes, Operands
  <1>. QED BY <1>1, <1>2, <1>3, <1>4, <1>5, <1>6 DEF TypeOK

\* TypeOK is preserved by report_unobserved_failures.
LEMMA ReportTypes ==
  ASSUME TypeOK, report_unobserved_failures
  PROVE  TypeOK'
  <1>1. NodeTypes'
    BY DEF TypeOK, report_unobserved_failures, NodeTypes
  <1>2. FutureTypes'
    BY DEF TypeOK, report_unobserved_failures, futureVars, FutureTypes
  <1>3. NurseryTypes'
    BY DEF TypeOK, report_unobserved_failures, nurseryVars, NurseryTypes
  <1>4. TimerTypes'
    BY DEF TypeOK, report_unobserved_failures, timerVars, TimerTypes
  <1>5. LoopTypes'
    BY DEF TypeOK, report_unobserved_failures, LoopTypes
  <1>6. Operands'
    BY DEF TypeOK, report_unobserved_failures, futureVars, FutureTypes,
       Operands
  <1>. QED BY <1>1, <1>2, <1>3, <1>4, <1>5, <1>6 DEF TypeOK

\* TypeOK is preserved by the loop's exit.
LEMMA ExitTypes ==
  ASSUME TypeOK, exit_loop
  PROVE  TypeOK'
  <1>1. NodeTypes'
    BY DEF TypeOK, exit_loop, nodeVars, NodeTypes
  <1>2. FutureTypes'
    BY DEF TypeOK, exit_loop, futureVars, FutureTypes
  <1>3. NurseryTypes'
    BY DEF TypeOK, exit_loop, nurseryVars, NurseryTypes
  <1>4. TimerTypes'
    BY DEF TypeOK, exit_loop, timerVars, TimerTypes
  <1>5. LoopTypes'
    BY DEF TypeOK, exit_loop, LoopTypes
  <1>6. Operands'
    BY DEF TypeOK, exit_loop, futureVars, FutureTypes, Operands
  <1>. QED BY <1>1, <1>2, <1>3, <1>4, <1>5, <1>6 DEF TypeOK

\* TypeOK is preserved by TimerHandle::cancel.
LEMMA TimerCancelTypes ==
  ASSUME TypeOK, NEW t \in Task, timer_cancel(t)
  PROVE  TypeOK'
  <1>1. NodeTypes' /\ NurseryTypes'
    BY DEF TypeOK, timer_cancel, nodeVars, nurseryVars, NodeTypes, NurseryTypes
  <1>2. FutureTypes'
    BY DEF TypeOK, timer_cancel, Operation, FutureTypes
  <1>3. PICK s \in Timer :
          IF Cancellable(s)
          THEN /\ slotState' = [slotState EXCEPT ![s] = "cancelled"]
               /\ microtasks' = microtasks \o timerWaiters[s]
               /\ timerWaiters' = [timerWaiters EXCEPT ![s] = <<>>]
          ELSE UNCHANGED <<slotState, microtasks, timerWaiters>>
    BY DEF timer_cancel, TimerHandles
  <1>4. TimerTypes'
    <2>1. CASE Cancellable(s)
      <3>1. timerWaiters' \in [Timer -> Seq(OptTask)]
        <4>1. [timerWaiters EXCEPT ![s] = <<>>] \in [Timer -> Seq(OptTask)]
          BY ClearedType DEF TypeOK, TimerTypes
        <4>. QED BY <1>3, <2>1, <4>1
      <3>. QED BY <1>3, <2>1, <3>1 DEF TypeOK, timer_cancel, TimerTypes
    <2>2. CASE ~Cancellable(s)
      BY <1>3, <2>2 DEF TypeOK, timer_cancel, TimerTypes
    <2>. QED BY <2>1, <2>2
  <1>5. microtasks' \in Seq(OptTask)
    <2>1. CASE Cancellable(s)
      <3>1. timerWaiters[s] \in Seq(OptTask)
        BY DEF TypeOK, TimerTypes
      <3>. QED BY <1>3, <2>1, <3>1, ConcatType DEF TypeOK, LoopTypes
    <2>2. CASE ~Cancellable(s)
      BY <1>3, <2>2 DEF TypeOK, LoopTypes
    <2>. QED BY <2>1, <2>2
  <1>6. LoopTypes'
    BY <1>5 DEF TypeOK, timer_cancel, LoopTypes
  <1>7. Operands'
    BY DEF TypeOK, timer_cancel, Operands
  <1>. QED BY <1>1, <1>2, <1>4, <1>6, <1>7 DEF TypeOK

\* TypeOK is preserved by advance_timers firing one registration.
LEMMA FireTypes ==
  ASSUME TypeOK, fire_timer
  PROVE  TypeOK'
  <1>1. NodeTypes' /\ FutureTypes' /\ NurseryTypes' /\ Operands'
    BY DEF TypeOK, fire_timer, nodeVars, futureVars, nurseryVars, NodeTypes,
       FutureTypes, NurseryTypes, Operands
  <1>2. PICK s \in Timer :
          /\ slotState' = [slotState EXCEPT ![s] = "fired"]
          /\ microtasks' = microtasks \o
               (IF sleeper[s] # None THEN <<sleeper[s]>> ELSE timerWaiters[s])
          /\ timerWaiters' = [timerWaiters EXCEPT ![s] = <<>>]
    BY DEF fire_timer
  <1>3. TimerTypes'
    BY <1>2 DEF TypeOK, fire_timer, TimerTypes
  <1>4. (IF sleeper[s] # None THEN <<sleeper[s]>> ELSE timerWaiters[s]) \in Seq(OptTask)
    BY DEF TypeOK, TimerTypes
  <1>5. microtasks' \in Seq(OptTask)
    BY <1>2, <1>4, ConcatType DEF TypeOK, LoopTypes
  <1>6. LoopTypes'
    BY <1>5 DEF TypeOK, fire_timer, LoopTypes
  <1>. QED BY <1>1, <1>3, <1>6 DEF TypeOK

\* TypeOK is preserved by one visit of Nursery::cancel.
LEMMA CancelVisitTypes ==
  ASSUME TypeOK, Nursery_cancel
  PROVE  TypeOK'
  <1>1. NodeTypes' /\ FutureTypes' /\ TimerTypes' /\ Operands'
    BY DEF TypeOK, Nursery_cancel, nodeVars, futureVars, timerVars, NodeTypes,
       FutureTypes, TimerTypes, Operands
  <1>. DEFINE n == Head(sweep)
  <1>2. n \in Nursery /\ Tail(sweep) \in Seq(Nursery)
    BY TailType DEF TypeOK, LoopTypes, Nursery_cancel
  <1>3. cancelWaiters[n] \in Seq(OptTask) /\ descendants[n] \in Seq(Nursery)
    BY <1>2, WakeType DEF TypeOK, NurseryTypes
  <1>4. CASE cancelled[n]
    BY <1>1, <1>2, <1>4 DEF TypeOK, Nursery_cancel, NurseryTypes, LoopTypes
  <1>5. CASE ~cancelled[n]
    <2>0. cancelWaiters' \in [Nursery -> Seq(Task)]
      <3>1. [cancelWaiters EXCEPT ![n] = <<>>] \in [Nursery -> Seq(Task)]
        BY ClearedType DEF TypeOK, NurseryTypes
      <3>. QED BY <1>5, <3>1 DEF Nursery_cancel
    <2>1. NurseryTypes'
      BY <1>2, <1>5, <2>0 DEF TypeOK, Nursery_cancel, NurseryTypes
    <2>2. microtasks' \in Seq(OptTask)
      BY <1>3, <1>5, ConcatType DEF TypeOK, Nursery_cancel, LoopTypes
    <2>3. sweep' \in Seq(Nursery)
      BY <1>2, <1>3, <1>5, ConcatType DEF Nursery_cancel, CancelReach
    <2>4. LoopTypes'
      BY <2>2, <2>3 DEF TypeOK, Nursery_cancel, LoopTypes
    <2>. QED BY <1>1, <2>1, <2>4 DEF TypeOK
  <1>. QED BY <1>4, <1>5

\* TaskNode::settle keeps the types of all it writes, whatever the poll that
\* ended the task did to its future.
LEMMA SettleTypes ==
  ASSUME TypeOK, NEW t \in Task, NEW f \in Failures, Current(t), settle(t, f)
  PROVE  NodeTypes' /\ LoopTypes' /\ TimerTypes' /\ (UNCHANGED ended => NurseryTypes')
  <1>1. TimerTypes'
    BY DEF TypeOK, settle, timerVars, TimerTypes
  <1>2. NodeTypes'
    BY DEF TypeOK, settle, NodeTypes
  <1>3. UNCHANGED ended => NurseryTypes'
    <2>1. failed' \in [Nursery -> OptTask]
      BY DEF TypeOK, settle, NurseryTypes, OptTask
    <2>2. failWaiters' \in [Nursery -> Seq(Task)]
      <3>1. [failWaiters EXCEPT ![owner[t]] = <<>>] \in [Nursery -> Seq(Task)]
        BY ClearedType DEF TypeOK, NurseryTypes
      <3>. QED BY <3>1 DEF TypeOK, settle, NurseryTypes
    <2>. QED BY <2>1, <2>2 DEF TypeOK, settle, NurseryTypes
  <1>4. stack' \in Seq(Task) /\ settleLog' \in Seq(Task)
    BY SuspendType DEF TypeOK, settle, LoopTypes
  <1>5. WokenBySettle(t) \in Seq(Task)
    BY DEF TypeOK, NodeTypes, WokenBySettle
  <1>6. microtasks' \in Seq(OptTask)
    BY <1>5, WakeType, ConcatType DEF TypeOK, settle, LoopTypes
  <1>7. sweep' \in Seq(Nursery)
    <2>1. owner[t] # None => <<owner[t]>> \in Seq(Nursery)
      BY ShortType DEF TypeOK, NodeTypes
    <2>. QED BY <2>1 DEF TypeOK, settle, LoopTypes
  <1>8. tail' \in Seq(Task)
    <2>1. CASE owner[t] # None
      <3>1. failWaiters[owner[t]] \in Seq(Task)
        BY <2>1 DEF TypeOK, NodeTypes, NurseryTypes
      <3>2. failWaiters[owner[t]] \o WokenBySettle(t) \in Seq(Task)
        BY <3>1, <1>5, ConcatType
      <3>. QED BY <3>2 DEF TypeOK, settle, LoopTypes
    <2>2. CASE owner[t] = None
      BY <2>2 DEF TypeOK, settle, LoopTypes
    <2>. QED BY <2>1, <2>2
  <1>9. LoopTypes'
    BY <1>4, <1>6, <1>7, <1>8 DEF TypeOK, settle, LoopTypes
  <1>. QED BY <1>1, <1>2, <1>3, <1>9

\* TypeOK is preserved by a return of the task's code.
LEMMA ReturnTypes ==
  ASSUME TypeOK, NEW t \in Task, Return(t)
  PROVE  TypeOK'
  <1>1. CASE frames[t] # <<>>
    <2>1. NodeTypes' /\ NurseryTypes' /\ TimerTypes' /\ LoopTypes'
      BY <1>1 DEF TypeOK, Return, nodeVars, nurseryVars, timerVars, loopVars,
         NodeTypes, NurseryTypes, TimerTypes, LoopTypes
    <2>2. FutureTypes'
      <3>1. leaf' \in [Task -> Leaves]
        BY <1>1 DEF TypeOK, Return, FutureTypes, Leaves
      <3>2. index' \in [Task -> Nat \ {0}]
        <4>1. DrainStart \in Nat \ {0}
          BY DEF DrainStart
        <4>. QED BY <1>1, <4>1 DEF TypeOK, Return, FutureTypes
      <3>. QED BY <3>1, <3>2 DEF TypeOK, Return, FutureTypes
    <2>3. Operands'
      BY <1>1 DEF TypeOK, Return, Running, FutureTypes, Operands
    <2>. QED BY <2>1, <2>2, <2>3 DEF TypeOK
  <1>2. CASE frames[t] = <<>>
    <2>1. Current(t) /\ settle(t, "none") /\ UNCHANGED futureVars /\ UNCHANGED ended
      BY <1>2 DEF Return, Running, futureVars
    <2>2. NodeTypes' /\ LoopTypes' /\ TimerTypes' /\ NurseryTypes'
      BY <2>1, SettleTypes DEF Failures
    <2>3. FutureTypes' /\ Operands'
      BY <2>1 DEF TypeOK, futureVars, FutureTypes, Operands
    <2>. QED BY <2>2, <2>3 DEF TypeOK
  <1>. QED BY <1>1, <1>2

\* TypeOK is preserved by a failure unwinding through nursery_run or out of the task.
LEMMA UnwindTypes ==
  ASSUME TypeOK, NEW t \in Task, Unwind(t)
  PROVE  TypeOK'
  <1>1. CASE frames[t] # <<>>
    <2>1. Head(frames[t]) \in Nursery /\ Tail(frames[t]) \in Seq(Nursery)
      BY <1>1, TailType DEF TypeOK, FutureTypes
    <2>2. TimerTypes'
      BY <1>1 DEF TypeOK, Unwind, timerVars, TimerTypes
    <2>3. NodeTypes'
      BY <1>1 DEF TypeOK, Unwind, NodeTypes, Absorb, ObserveAll
    <2>4. NurseryTypes'
      BY <1>1, <2>1 DEF TypeOK, Unwind, NurseryTypes
    <2>5. LoopTypes'
      BY <1>1, <2>1, ShortType DEF TypeOK, Unwind, LoopTypes, BodyFailureCancels
    <2>6. FutureTypes'
      BY <1>1, <2>1 DEF TypeOK, Unwind, FutureTypes
    <2>7. Operands'
      BY <1>1 DEF TypeOK, Unwind, FutureTypes, Operands
    <2>. QED BY <2>2, <2>3, <2>4, <2>5, <2>6, <2>7 DEF TypeOK
  <1>2. CASE frames[t] = <<>>
    <2>1. raising[t] \in Failures
      BY DEF TypeOK, FutureTypes
    <2>2. Current(t) /\ settle(t, raising[t]) /\ UNCHANGED ended
      BY <1>2 DEF Unwind
    <2>3. NodeTypes' /\ LoopTypes' /\ TimerTypes' /\ NurseryTypes'
      BY <2>1, <2>2, SettleTypes
    <2>4. FutureTypes' /\ Operands'
      BY <1>2 DEF TypeOK, Unwind, FutureTypes, Operands, Failures
    <2>. QED BY <2>3, <2>4 DEF TypeOK
  <1>. QED BY <1>1, <1>2

\* TypeOK is preserved by each of the six calls of a leaf future.
LEMMA CallTypes ==
  ASSUME TypeOK, NEW t \in Task,
         \/ sleep(t) \/ yield_now(t) \/ await(t)
         \/ settle_all(t) \/ race(t) \/ timer_wait(t)
  PROVE  TypeOK'
  <1>1. fuel' \in [Task -> Nat] /\ raising[t] = "none"
    <2>1. \E name : Operation(t, name)
      BY DEF sleep, yield_now, await, settle_all, race, timer_wait
    <2>. QED BY <2>1 DEF TypeOK, FutureTypes, Operation, Running
  <1>2. \A u, v \in Task : <<>> \in Seq(Task) /\ <<u>> \in Seq(Task) /\ <<u, v>> \in Seq(Task)
    OBVIOUS
  <1>3. CASE sleep(t) \/ yield_now(t)
    BY <1>1, <1>2, <1>3, AwaitTypes DEF sleep, yield_now, Leaves
  <1>4. CASE await(t)
    BY <1>1, <1>2, <1>4, AwaitTypes DEF await, Others, Leaves
  <1>5. CASE settle_all(t) \/ race(t)
    <2>1. PICK u \in Task, v \in Task, kind \in {"settle_all", "race"} :
            Await(t, kind, <<u, v>>, None)
      BY <1>5 DEF settle_all, race, Others
    <2>2. kind \in Leaves \ {"drain"} /\ kind # "timer"
      BY DEF Leaves
    <2>3. <<u, v>> \in Seq(Task) /\ <<u, v>> # <<>>
      OBVIOUS
    <2>. QED BY <1>1, <2>1, <2>2, <2>3, AwaitTypes
  <1>6. CASE timer_wait(t)
    <2>1. PICK s \in Timer : Await(t, "timer", <<>>, s)
      BY <1>6 DEF timer_wait, TimerHandles
    <2>. QED BY <1>1, <1>2, <2>1, AwaitTypes, ExecutorAssumption DEF Leaves
  <1>. QED BY <1>3, <1>4, <1>5, <1>6

\* TypeOK holds when block_on has spawned the root.
LEMMA TypeInit == Init => TypeOK
  <1>. SUFFICES ASSUME Init PROVE TypeOK
    OBVIOUS
  <1>1. NodeTypes
    BY ExecutorAssumption DEF Init, NodeTypes, Failures
  <1>2. FutureTypes
    BY ExecutorAssumption DEF Init, FutureTypes, Leaves, Failures, OptTask
  <1>3. NurseryTypes
    BY DEF Init, NurseryTypes, OptTask
  <1>4. TimerTypes
    BY DEF Init, TimerTypes, OptTask
  <1>5. LoopTypes
    BY ExecutorAssumption DEF Init, LoopTypes
  <1>6. Operands
    BY DEF Init, Operands
  <1>. QED BY <1>1, <1>2, <1>3, <1>4, <1>5, <1>6 DEF TypeOK

\* TypeOK is preserved by a step that changes nothing.
LEMMA StutterTypes ==
  ASSUME TypeOK, UNCHANGED vars
  PROVE  TypeOK'
  BY DEF TypeOK, vars, nodeVars, futureVars, nurseryVars, timerVars, loopVars,
     NodeTypes, FutureTypes, NurseryTypes, TimerTypes, LoopTypes, Operands

\* TypeOK is preserved by every step of the executor.
LEMMA TypeStep == TypeOK /\ [Next]_vars => TypeOK'
  <1>. SUFFICES ASSUME TypeOK, [Next]_vars PROVE TypeOK'
    OBVIOUS
  <1>1. ASSUME NEW t \in Task, Operations(t) PROVE TypeOK'
    BY <1>1, SpawnTypes, NurseryNewTypes, DetachedTypes, CancelTypes, CallTypes,
       TimerCallTypes, TimerCancelTypes, PanicTypes, GuardTypes, ReturnTypes,
       UnwindTypes DEF Operations
  <1>2. ASSUME NEW t \in Task, Polls(t) PROVE TypeOK'
    BY <1>2, YieldPollTypes, JoinPollTypes, SettleAllPollTypes, RacePollTypes,
       SleepPollTypes, TimerPollTypes, DrainTypes DEF Polls
  <1>3. CASE Loop
    BY <1>3, CancelVisitTypes, FailWakeTypes, PopTypes, ReportTypes, FireTypes,
       ExitTypes DEF Loop
  <1>4. CASE UNCHANGED vars
    BY <1>4, StutterTypes
  <1>. QED BY <1>1, <1>2, <1>3, <1>4 DEF Next, Terminated

\* Executor.TypeOK holds throughout, for any numbers of tasks, nurseries and
\* timers and any fuel.
THEOREM TypeCorrect == Spec => []TypeOK
  BY TypeInit, TypeStep, PTL DEF Spec

-----------------------------------------------------------------------------
(***************************************************************************)
(* Ranges of sequences.                                                    *)
(***************************************************************************)

\* What a concatenated wake list holds.
LEMMA RangeConcat ==
  ASSUME NEW S, NEW q \in Seq(S), NEW r \in Seq(S)
  PROVE  Range(q \o r) = Range(q) \cup Range(r)
  <1>1. ASSUME NEW x \in Range(q \o r) PROVE x \in Range(q) \cup Range(r)
    <2>1. PICK i \in 1..Len(q) + Len(r) : x = (q \o r)[i]
      BY <1>1 DEF Range
    <2>2. CASE i <= Len(q)
      <3>1. i \in DOMAIN q /\ x = q[i]
        BY <2>1, <2>2
      <3>. QED BY <3>1 DEF Range
    <2>3. CASE i > Len(q)
      <3>1. i - Len(q) \in DOMAIN r /\ x = r[i - Len(q)]
        BY <2>1, <2>3
      <3>. QED BY <3>1 DEF Range
    <2>. QED BY <2>2, <2>3
  <1>2. ASSUME NEW x \in Range(q) PROVE x \in Range(q \o r)
    <2>1. PICK i \in DOMAIN q : x = q[i]
      BY <1>2 DEF Range
    <2>2. i \in DOMAIN (q \o r) /\ (q \o r)[i] = x
      BY <2>1
    <2>. QED BY <2>2 DEF Range
  <1>3. ASSUME NEW x \in Range(r) PROVE x \in Range(q \o r)
    <2>1. PICK i \in DOMAIN r : x = r[i]
      BY <1>3 DEF Range
    <2>2. Len(q) + i \in DOMAIN (q \o r) /\ (q \o r)[Len(q) + i] = x
      BY <2>1
    <2>. QED BY <2>2 DEF Range
  <1>. QED BY <1>1, <1>2, <1>3

\* What an extended list holds.
LEMMA RangeAppend ==
  ASSUME NEW S, NEW q \in Seq(S), NEW x \in S
  PROVE  Range(Append(q, x)) = Range(q) \cup {x}
  <1>1. ASSUME NEW y \in Range(Append(q, x)) PROVE y \in Range(q) \cup {x}
    <2>1. PICK i \in 1..Len(q) + 1 : y = Append(q, x)[i]
      BY <1>1 DEF Range
    <2>2. CASE i = Len(q) + 1
      BY <2>1, <2>2
    <2>3. CASE i # Len(q) + 1
      <3>1. i \in DOMAIN q /\ y = q[i]
        BY <2>1, <2>3
      <3>. QED BY <3>1 DEF Range
    <2>. QED BY <2>2, <2>3
  <1>2. ASSUME NEW y \in Range(q) PROVE y \in Range(Append(q, x))
    <2>1. PICK i \in DOMAIN q : y = q[i]
      BY <1>2 DEF Range
    <2>2. i \in DOMAIN Append(q, x) /\ Append(q, x)[i] = y
      BY <2>1
    <2>. QED BY <2>2 DEF Range
  <1>3. x \in Range(Append(q, x))
    <2>1. Len(q) + 1 \in DOMAIN Append(q, x) /\ Append(q, x)[Len(q) + 1] = x
      OBVIOUS
    <2>. QED BY <2>1 DEF Range
  <1>. QED BY <1>1, <1>2, <1>3

\* A list that is not empty holds its head and the rest.
LEMMA RangeHead ==
  ASSUME NEW S, NEW q \in Seq(S), q # <<>>
  PROVE  Range(q) = {Head(q)} \cup Range(Tail(q))
  <1>1. ASSUME NEW x \in Range(q) PROVE x \in {Head(q)} \cup Range(Tail(q))
    <2>1. PICK i \in DOMAIN q : x = q[i]
      BY <1>1 DEF Range
    <2>2. CASE i = 1
      BY <2>1, <2>2
    <2>3. CASE i # 1
      <3>1. i - 1 \in DOMAIN Tail(q) /\ Tail(q)[i - 1] = x
        BY <2>1, <2>3
      <3>. QED BY <3>1 DEF Range
    <2>. QED BY <2>2, <2>3
  <1>2. Head(q) \in Range(q)
    <2>1. 1 \in DOMAIN q /\ q[1] = Head(q)
      OBVIOUS
    <2>. QED BY <2>1 DEF Range
  <1>3. ASSUME NEW x \in Range(Tail(q)) PROVE x \in Range(q)
    <2>1. PICK i \in DOMAIN Tail(q) : x = Tail(q)[i]
      BY <1>3 DEF Range
    <2>2. i + 1 \in DOMAIN q /\ q[i + 1] = x
      BY <2>1
    <2>. QED BY <2>2 DEF Range
  <1>. QED BY <1>1, <1>2, <1>3

\* An empty list holds nothing.
LEMMA RangeEmpty == Range(<<>>) = {}
  BY DEF Range

-----------------------------------------------------------------------------
(***************************************************************************)
(* A cancel reaches its extent.                                            *)
(***************************************************************************)

\* The nurseries form a forest: ancestors is the reflexive order of nesting
\* among the nurseries created so far.
ExtentTree ==
  /\ \A n \in Nursery \ born : ancestors[n] = {}
  /\ \A n \in born : n \in ancestors[n] /\ ancestors[n] \subseteq born
  /\ \A m, n \in born : n \in ancestors[m] => ancestors[n] \subseteq ancestors[m]
  /\ \A m, n \in born : n \in ancestors[m] /\ m \in ancestors[n] => m = n

\* From a nursery towards any nursery nested in it, the next one on the way is
\* on its descendants list, or was cancelled.
NextOnTheWay(n, m, c) ==
  /\ c # n /\ n \in ancestors[c] /\ c \in ancestors[m]
  /\ c \in Range(descendants[n]) \/ cancelled[c]

CancelRoutes ==
  \A m, n \in born : n \in ancestors[m] /\ n # m =>
    \E c \in born : NextOnTheWay(n, m, c)

\* Between a cancelled nursery and one nested in it that is not cancelled yet,
\* the running Nursery::cancel has still to visit a nursery it will cancel.
ToBeVisited(n, m, q) ==
  /\ q \in ancestors[m] /\ n \in ancestors[q]
  /\ ~cancelled[q] /\ q \in Range(sweep)

CancelUnderWay ==
  \A m, n \in born : n \in ancestors[m] /\ cancelled[n] =>
    cancelled[m] \/ \E q \in born : ToBeVisited(n, m, q)

\* The inductive invariant.
ExtentInv == ExtentTree /\ CancelRoutes /\ CancelUnderWay

extentVars == <<born, ancestors, cancelled, descendants>>

\* A step that leaves the nurseries alone, and at most starts a cancel where
\* none is running, keeps the invariant.
LEMMA ExtentKept ==
  ASSUME ExtentInv, UNCHANGED extentVars, sweep' = sweep \/ sweep = <<>>
  PROVE  ExtentInv'
  <1>1. ExtentTree' /\ CancelRoutes'
    BY DEF ExtentInv, ExtentTree, CancelRoutes, NextOnTheWay, extentVars
  <1>2. CASE sweep' = sweep
    BY <1>1, <1>2 DEF ExtentInv, CancelUnderWay, ToBeVisited, extentVars
  <1>3. CASE sweep = <<>>
    <2>1. \A m, n \in born : n \in ancestors[m] /\ cancelled[n] => cancelled[m]
      BY <1>3, RangeEmpty DEF ExtentInv, CancelUnderWay, ToBeVisited
    <2>2. CancelUnderWay'
      BY <2>1 DEF CancelUnderWay, extentVars
    <2>. QED BY <1>1, <2>2 DEF ExtentInv
  <1>. QED BY <1>2, <1>3

\* A new nursery, nested in none or in one whose extent it joins, keeps the
\* invariant: it is cancelled at birth, or on its parent's descendants list.
LEMMA ExtentGrows ==
  ASSUME TypeOK, ExtentInv, sweep = <<>>, UNCHANGED sweep,
         NEW n \in Nursery \ born, NEW above \in SUBSET born,
         born' = born \cup {n},
         ancestors' = [ancestors EXCEPT ![n] = {n} \cup above],
         \A a \in born \ {n} : cancelled'[a] = cancelled[a],
         \A a \in above : cancelled[a] => cancelled'[n],
         \A a \in born : Range(descendants[a]) \subseteq Range(descendants'[a]),
         above # {} => \E p \in born :
           above = ancestors[p] /\ (n \in Range(descendants'[p]) \/ cancelled'[n])
  PROVE  ExtentInv'
  <1>1. /\ ancestors'[n] = {n} \cup above
        /\ \A a \in Nursery \ {n} : ancestors'[a] = ancestors[a]
    BY DEF TypeOK, NurseryTypes
  <1>2. born \subseteq Nursery /\ n \notin born
    BY DEF TypeOK, NurseryTypes
  <1>3. \A a \in above : ancestors[a] \subseteq above
    BY DEF ExtentInv, ExtentTree
  <1>4. \A a \in born : n \notin ancestors[a]
    BY <1>2 DEF ExtentInv, ExtentTree
  <1>5. ExtentTree'
    BY <1>1, <1>2, <1>3, <1>4 DEF ExtentInv, ExtentTree
  <1>6. ASSUME NEW x \in born', NEW y \in born', y \in ancestors'[x], y # x
        PROVE  \E c \in born' : NextOnTheWay(y, x, c)'
    <2>1. y \in born
      BY <1>1, <1>2, <1>4, <1>6
    <2>2. CASE x \in born
      <3>1. PICK c \in born : NextOnTheWay(y, x, c)
        BY <1>1, <1>2, <1>6, <2>1, <2>2 DEF ExtentInv, CancelRoutes
      <3>2. NextOnTheWay(y, x, c)'
        BY <1>1, <1>2, <2>1, <2>2, <3>1 DEF NextOnTheWay
      <3>. QED BY <3>2
    <2>3. CASE x = n
      <3>1. y \in above
        BY <1>1, <1>6, <2>3
      <3>2. PICK p \in born :
              above = ancestors[p] /\ (n \in Range(descendants'[p]) \/ cancelled'[n])
        BY <3>1
      <3>3. CASE y = p
        <4>1. NextOnTheWay(y, x, n)'
          BY <1>1, <1>2, <2>1, <2>3, <3>1, <3>2, <3>3 DEF NextOnTheWay
        <4>. QED BY <4>1
      <3>4. CASE y # p
        <4>1. PICK c \in born : NextOnTheWay(y, p, c)
          BY <2>1, <3>1, <3>2, <3>4 DEF ExtentInv, CancelRoutes
        <4>2. NextOnTheWay(y, x, c)'
          BY <1>1, <1>2, <2>1, <2>3, <3>2, <4>1 DEF NextOnTheWay
        <4>. QED BY <4>2
      <3>. QED BY <3>3, <3>4
    <2>. QED BY <2>2, <2>3
  <1>7. CancelRoutes'
    BY <1>6 DEF CancelRoutes
  <1>8. \A a, b \in born : b \in ancestors[a] /\ cancelled[b] => cancelled[a]
    BY RangeEmpty DEF ExtentInv, CancelUnderWay, ToBeVisited
  <1>9. CancelUnderWay'
    BY <1>1, <1>2, <1>4, <1>8 DEF CancelUnderWay
  <1>. QED BY <1>5, <1>7, <1>9 DEF ExtentInv

\* The ambient nursery, if there is one, contributes its own extent to a new
\* nursery; nursery_new keeps the invariant.
LEMMA NurseryNewExtent ==
  ASSUME TypeOK, ExtentInv, NEW t \in Task, nursery_new(t)
  PROVE  ExtentInv'
  <1>. DEFINE parent == Ambient(t)
              above == IF parent = None THEN {} ELSE ancestors[parent]
  <1>1. PICK n \in Nursery \ born :
          /\ born' = born \cup {n}
          /\ ancestors' = [ancestors EXCEPT ![n] = {n} \cup above]
          /\ cancelled' = [cancelled EXCEPT ![n] = Aborted(t)]
          /\ descendants' = IF parent = None \/ Aborted(t) THEN descendants
                            ELSE [descendants EXCEPT ![parent] = Append(@, n)]
    BY DEF nursery_new
  <1>2. sweep = <<>> /\ UNCHANGED sweep
    BY DEF nursery_new, Operation, Running, Current, Quiet, loopVars
  <1>3. parent \in Nursery \cup {None}
    BY AmbientType
  <1>4. above \subseteq born
    BY <1>3 DEF TypeOK, NurseryTypes, ExtentInv, ExtentTree
  <1>5. cancelled'[n] = Aborted(t) /\ \A a \in born \ {n} : cancelled'[a] = cancelled[a]
    BY <1>1 DEF TypeOK, NurseryTypes
  <1>6. \A a \in above : cancelled[a] => cancelled'[n]
    BY <1>5 DEF Aborted, IsCancelled
  <1>7. ASSUME parent # None, ~Aborted(t)
        PROVE  /\ Range(descendants'[parent]) = Range(descendants[parent]) \cup {n}
               /\ \A a \in Nursery \ {parent} : descendants'[a] = descendants[a]
    <2>1. parent \in Nursery /\ descendants[parent] \in Seq(Nursery)
      BY <1>3, <1>7 DEF TypeOK, NurseryTypes
    <2>2. descendants' = [descendants EXCEPT ![parent] = Append(@, n)]
      BY <1>1, <1>7
    <2>3. descendants'[parent] = Append(descendants[parent], n)
      BY <2>1, <2>2 DEF TypeOK, NurseryTypes
    <2>4. Range(Append(descendants[parent], n)) = Range(descendants[parent]) \cup {n}
      BY <2>1, RangeAppend
    <2>. QED BY <2>2, <2>3, <2>4 DEF TypeOK, NurseryTypes
  <1>8. \A a \in born : Range(descendants[a]) \subseteq Range(descendants'[a])
    <2>1. CASE parent = None \/ Aborted(t)
      BY <1>1, <2>1
    <2>2. CASE parent # None /\ ~Aborted(t)
      BY <1>7, <2>2 DEF TypeOK, NurseryTypes
    <2>. QED BY <2>1, <2>2
  <1>9. above # {} => \E p \in born :
          above = ancestors[p] /\ (n \in Range(descendants'[p]) \/ cancelled'[n])
    <2>. SUFFICES ASSUME above # {}
         PROVE  /\ parent \in born /\ above = ancestors[parent]
                /\ n \in Range(descendants'[parent]) \/ cancelled'[n]
      OBVIOUS
    <2>1. parent \in born /\ above = ancestors[parent] /\ parent # None
      BY <1>3 DEF ExtentInv, ExtentTree
    <2>. QED BY <1>5, <1>7, <2>1
  <1>. HIDE DEF above
  <1>. QED BY <1>1, <1>2, <1>4, <1>5, <1>6, <1>8, <1>9, ExtentGrows

\* A detached nursery starts a tree of its own.
LEMMA DetachedExtent ==
  ASSUME TypeOK, ExtentInv, NEW t \in Task, nursery_new_detached(t)
  PROVE  ExtentInv'
  <1>1. PICK n \in Nursery \ born :
          born' = born \cup {n} /\ ancestors' = [ancestors EXCEPT ![n] = {n} \cup {}]
    BY DEF nursery_new_detached
  <1>2. sweep = <<>> /\ UNCHANGED <<sweep, cancelled, descendants>>
    BY DEF nursery_new_detached, Operation, Running, Current, Quiet, loopVars
  <1>3. {} \in SUBSET born
    OBVIOUS
  <1>. QED BY <1>1, <1>2, <1>3, ExtentGrows

\* One visit of Nursery::cancel: a nursery it cancels hands over to the next
\* ones on the way, a nursery it finds cancelled was not the one to visit.
LEMMA CancelVisitExtent ==
  ASSUME TypeOK, ExtentInv, Nursery_cancel
  PROVE  ExtentInv'
  <1>. DEFINE h == Head(sweep)
  <1>1. h \in Nursery /\ Range(sweep) = {h} \cup Range(Tail(sweep))
    BY RangeHead DEF TypeOK, LoopTypes, Nursery_cancel
  <1>2. UNCHANGED <<born, ancestors, descendants>>
    BY DEF Nursery_cancel
  <1>3. CASE cancelled[h]
    <2>1. UNCHANGED cancelled /\ sweep' = Tail(sweep)
      BY <1>3 DEF Nursery_cancel
    <2>2. ExtentTree' /\ CancelRoutes'
      BY <1>2, <2>1 DEF ExtentInv, ExtentTree, CancelRoutes, NextOnTheWay
    <2>3. ASSUME NEW n \in born, NEW m \in born, NEW q \in born, ToBeVisited(n, m, q)
          PROVE  ToBeVisited(n, m, q)'
      BY <1>1, <1>2, <1>3, <2>1, <2>3 DEF ToBeVisited
    <2>4. CancelUnderWay'
      BY <1>2, <2>1, <2>3 DEF ExtentInv, CancelUnderWay
    <2>. QED BY <2>2, <2>4 DEF ExtentInv
  <1>4. CASE ~cancelled[h]
    <2>1. cancelled' = [cancelled EXCEPT ![h] = TRUE] /\ sweep' = descendants[h] \o Tail(sweep)
      BY <1>4 DEF Nursery_cancel, CancelReach
    <2>2. cancelled'[h] /\ \A a \in Nursery \ {h} : cancelled'[a] = cancelled[a]
      BY <1>1, <2>1 DEF TypeOK, NurseryTypes
    <2>3. Range(sweep') = Range(descendants[h]) \cup Range(Tail(sweep))
      <3>1. descendants[h] \in Seq(Nursery) /\ Tail(sweep) \in Seq(Nursery)
        BY <1>1, TailType DEF TypeOK, NurseryTypes, LoopTypes, Nursery_cancel
      <3>. QED BY <2>1, <3>1, RangeConcat
    <2>4. ExtentTree'
      BY <1>2 DEF ExtentInv, ExtentTree
    <2>5. CancelRoutes'
      <3>1. ASSUME NEW n \in born, NEW m \in born, NEW c \in born, NextOnTheWay(n, m, c)
            PROVE  NextOnTheWay(n, m, c)'
        BY <1>2, <2>2, <3>1 DEF NextOnTheWay, TypeOK, NurseryTypes
      <3>. QED BY <1>2, <3>1 DEF ExtentInv, CancelRoutes
    <2>6. ASSUME NEW n \in born, NEW m \in born, NEW q \in born,
                 ToBeVisited(n, m, q), q # h
          PROVE  ToBeVisited(n, m, q)'
      BY <1>1, <1>2, <2>2, <2>3, <2>6 DEF ToBeVisited, TypeOK, NurseryTypes
    <2>7. ASSUME NEW n \in born, NEW m \in born, h \in born,
                 n \in ancestors[h], h \in ancestors[m], ~cancelled'[m]
          PROVE  \E q \in born : ToBeVisited(n, m, q)'
      <3>1. h # m /\ ~cancelled[m]
        BY <2>2, <2>7 DEF TypeOK, NurseryTypes
      <3>2. PICK c \in born : NextOnTheWay(h, m, c)
        BY <2>7, <3>1 DEF ExtentInv, CancelRoutes
      <3>3. n \in ancestors[c] /\ h \notin {c}
        BY <2>7, <3>2 DEF ExtentInv, ExtentTree, NextOnTheWay
      <3>4. CASE ~cancelled[c]
        <4>1. ToBeVisited(n, m, c)'
          BY <1>2, <2>2, <2>3, <3>2, <3>3, <3>4
             DEF ToBeVisited, NextOnTheWay, TypeOK, NurseryTypes
        <4>. QED BY <4>1
      <3>5. CASE cancelled[c]
        <4>1. PICK q \in born : ToBeVisited(c, m, q)
          BY <3>1, <3>2, <3>5 DEF ExtentInv, CancelUnderWay, NextOnTheWay
        <4>2. q # h
          BY <2>7, <3>2, <4>1 DEF ExtentInv, ExtentTree, NextOnTheWay, ToBeVisited
        <4>3. ToBeVisited(c, m, q)'
          BY <2>6, <4>1, <4>2
        <4>4. n \in ancestors[q]
          BY <3>3, <4>1 DEF ExtentInv, ExtentTree, ToBeVisited
        <4>5. ToBeVisited(n, m, q)'
          BY <1>2, <4>3, <4>4 DEF ToBeVisited
        <4>. QED BY <4>5
      <3>. QED BY <3>4, <3>5
    <2>8. ASSUME NEW m \in born, NEW n \in born,
                 n \in ancestors[m], cancelled'[n], ~cancelled'[m]
          PROVE  \E q \in born : ToBeVisited(n, m, q)'
      <3>1. CASE n = h
        BY <2>7, <2>8, <3>1 DEF ExtentInv, ExtentTree
      <3>2. CASE n # h
        <4>1. cancelled[n] /\ ~cancelled[m]
          BY <2>2, <2>8, <3>2 DEF TypeOK, NurseryTypes
        <4>2. PICK q \in born : ToBeVisited(n, m, q)
          BY <2>8, <4>1 DEF ExtentInv, CancelUnderWay
        <4>3. CASE q = h
          BY <2>7, <2>8, <4>2, <4>3 DEF ToBeVisited
        <4>4. CASE q # h
          BY <2>6, <4>2, <4>4
        <4>. QED BY <4>3, <4>4
      <3>. QED BY <3>1, <3>2
    <2>9. CancelUnderWay'
      BY <1>2, <2>8 DEF CancelUnderWay
    <2>. QED BY <2>4, <2>5, <2>9 DEF ExtentInv
  <1>. QED BY <1>3, <1>4

\* Only nursery calls, OwnedNursery::new and Nursery::cancel touch the extents;
\* any other step at most starts a cancel where none is running.
LEMMA OthersKeepExtents ==
  ASSUME NEW t \in Task, Operations(t) \/ Polls(t),
         ~nursery_new(t), ~nursery_new_detached(t)
  PROVE  UNCHANGED extentVars /\ (sweep' = sweep \/ sweep = <<>>)
  <1>. USE DEF extentVars
  <1>1. CASE spawn_in(t)
    BY <1>1 DEF spawn_in
  <1>2. CASE cancel(t)
    BY <1>2 DEF cancel, Operation, Running, Current, Quiet, nurseryVars
  <1>3. CASE sleep(t) \/ yield_now(t) \/ await(t) \/ settle_all(t) \/ race(t) \/ timer_wait(t)
    <2>1. UNCHANGED nurseryVars /\ UNCHANGED loopVars
      BY <1>3 DEF sleep, yield_now, await, settle_all, race, timer_wait, Await
    <2>. QED BY <2>1 DEF nurseryVars, loopVars
  <1>4. CASE timer(t) \/ timer_cancel(t) \/ panic(t) \/ guarded_async(t)
    BY <1>4 DEF timer, timer_cancel, panic, guarded_async, nurseryVars, loopVars
  <1>5. CASE Return(t)
    BY <1>5 DEF Return, Running, Current, Quiet, settle, nurseryVars, loopVars
  <1>6. CASE Unwind(t)
    BY <1>6 DEF Unwind, Current, Quiet, settle
  <1>7. CASE YieldOnce_poll(t) \/ TaskJoin_poll(t)
    BY <1>7 DEF YieldOnce_poll, TaskJoin_poll, nurseryVars
  <1>8. CASE AllSettledOrAnyFailed_poll(t) \/ AnySettled_poll(t)
    BY <1>8 DEF AllSettledOrAnyFailed_poll, AnySettled_poll, nurseryVars
  <1>9. CASE Sleep_poll(t) \/ TimerWait_poll(t) \/ nursery_run_drain(t)
    BY <1>9 DEF Sleep_poll, TimerWait_poll, nursery_run_drain
  <1>. QED BY <1>1, <1>2, <1>3, <1>4, <1>5, <1>6, <1>7, <1>8, <1>9
           DEF Operations, Polls

\* Every step keeps the extents and the cancel's progress through them.
LEMMA ExtentStep == TypeOK /\ ExtentInv /\ [Next]_vars => ExtentInv'
  <1>. SUFFICES ASSUME TypeOK, ExtentInv, [Next]_vars PROVE ExtentInv'
    OBVIOUS
  <1>1. ASSUME NEW t \in Task, Operations(t) \/ Polls(t) PROVE ExtentInv'
    <2>1. CASE nursery_new(t)
      BY <2>1, NurseryNewExtent
    <2>2. CASE nursery_new_detached(t)
      BY <2>2, DetachedExtent
    <2>3. CASE ~nursery_new(t) /\ ~nursery_new_detached(t)
      BY <1>1, <2>3, OthersKeepExtents, ExtentKept
    <2>. QED BY <2>1, <2>2, <2>3
  <1>2. CASE Nursery_cancel
    BY <1>2, CancelVisitExtent
  <1>3. CASE \/ fail_wake \/ drain_microtasks \/ report_unobserved_failures
             \/ fire_timer \/ exit_loop
    <2>1. UNCHANGED extentVars /\ UNCHANGED sweep
      BY <1>3 DEF fail_wake, drain_microtasks, report_unobserved_failures, fire_timer,
         exit_loop, nurseryVars, extentVars
    <2>. QED BY <2>1, ExtentKept
  <1>4. CASE UNCHANGED vars
    <2>1. UNCHANGED extentVars /\ UNCHANGED sweep
      BY <1>4 DEF vars, nurseryVars, loopVars, extentVars
    <2>. QED BY <2>1, ExtentKept
  <1>. QED BY <1>1, <1>2, <1>3, <1>4 DEF Next, Loop, Terminated

\* The program starts without a nursery.
LEMMA ExtentInit == Init => ExtentInv
  BY DEF Init, ExtentInv, ExtentTree, CancelRoutes, CancelUnderWay

\* A cancel that has returned left no nursery to visit.
LEMMA ExtentImplies == ExtentInv => CancelReachesExtent
  BY RangeEmpty DEF ExtentInv, CancelUnderWay, ToBeVisited, CancelReachesExtent, Quiet

\* Nursery::cancel and nursery_new: whenever no cancel is running, every nursery
\* nested in a cancelled one, to any depth and whenever it was created, is
\* cancelled.
THEOREM CancelReaches == Spec => []CancelReachesExtent
  <1>1. TypeOK /\ ExtentInv /\ [Next]_vars => (TypeOK /\ ExtentInv)'
    BY TypeStep, ExtentStep
  <1>. QED BY <1>1, TypeInit, ExtentInit, ExtentImplies, PTL DEF Spec

-----------------------------------------------------------------------------
(***************************************************************************)
(* A timer keeps its first verdict.                                        *)
(***************************************************************************)

\* The registration of a sleep is its own: no timer handle and no other sleep
\* shares it.
SleepsOwnTheirSlot ==
  \A t \in Task : leaf[t] = "sleep" /\ slot[t] # None =>
    slotState[slot[t]] # "free" /\ sleeper[slot[t]] = t

\* What the steps that have nothing to do with registrations leave alone.
SlotsKept ==
  /\ UNCHANGED <<slot, slotState, sleeper>>
  /\ \A t \in Task : leaf'[t] = "sleep" => leaf[t] = "sleep"

\* What TimerFirstSettlementWins asks of one step.
VerdictsKept ==
  \A s \in TimerHandles : slotState[s] # "armed" => slotState'[s] = slotState[s]

\* The steps that touch a registration keep sleeps apart from timers.
LEMMA SlotSteps ==
  ASSUME TypeOK, SleepsOwnTheirSlot, NEW t \in Task,
         timer(t) \/ timer_cancel(t) \/ fire_timer
  PROVE  SleepsOwnTheirSlot' /\ VerdictsKept
  <1>1. UNCHANGED <<leaf, slot, sleeper>>
    BY DEF timer, timer_cancel, fire_timer, futureVars
  <1>2. CASE timer(t)
    <2>1. PICK s \in Timer : slotState[s] = "free" /\ slotState' = [slotState EXCEPT ![s] = "armed"]
      BY <1>2 DEF timer
    <2>2. \A r \in Timer : slotState'[r] = (IF r = s THEN "armed" ELSE slotState[r])
      BY <2>1 DEF TypeOK, TimerTypes
    <2>3. SleepsOwnTheirSlot'
      BY <1>1, <2>2 DEF SleepsOwnTheirSlot, TypeOK, FutureTypes
    <2>4. VerdictsKept
      BY <2>1, <2>2 DEF VerdictsKept, TimerHandles
    <2>. QED BY <2>3, <2>4
  <1>3. CASE timer_cancel(t) \/ fire_timer
    <2>1. UNCHANGED slotState \/
            \E s \in Timer, v \in {"cancelled", "fired"} :
              slotState[s] = "armed" /\ slotState' = [slotState EXCEPT ![s] = v]
      BY <1>3 DEF timer_cancel, fire_timer, TimerHandles, Cancellable
    <2>2. CASE UNCHANGED slotState
      BY <1>1, <2>2 DEF SleepsOwnTheirSlot, VerdictsKept
    <2>3. ASSUME NEW s \in Timer, NEW v \in {"cancelled", "fired"}, slotState[s] = "armed",
                 slotState' = [slotState EXCEPT ![s] = v]
          PROVE  SleepsOwnTheirSlot' /\ VerdictsKept
      <3>1. \A r \in Timer : slotState'[r] = (IF r = s THEN v ELSE slotState[r])
        BY <2>3 DEF TypeOK, TimerTypes
      <3>2. SleepsOwnTheirSlot'
        BY <1>1, <3>1 DEF SleepsOwnTheirSlot, TypeOK, FutureTypes
      <3>3. VerdictsKept
        BY <2>3, <3>1 DEF VerdictsKept, TimerHandles
      <3>. QED BY <3>2, <3>3
    <2>. QED BY <2>1, <2>2, <2>3
  <1>. QED BY <1>2, <1>3

\* A poll of Sleep gives back or takes a registration of its own only.
LEMMA SleepKeepsVerdicts ==
  ASSUME TypeOK, SleepsOwnTheirSlot, NEW t \in Task, Sleep_poll(t)
  PROVE  SleepsOwnTheirSlot' /\ VerdictsKept
  <1>0. leaf[t] = "sleep" /\ t # None
    BY ExecutorAssumption DEF Sleep_poll, Polling
  <1>1. CASE SlotsKept
    BY <1>1 DEF SlotsKept, SleepsOwnTheirSlot, VerdictsKept
  <1>2. ASSUME NEW s \in Timer, slot[t] = s, leaf' = [leaf EXCEPT ![t] = "none"],
               slotState' = [slotState EXCEPT ![s] = "free"],
               sleeper' = [sleeper EXCEPT ![s] = None],
               slot' = [slot EXCEPT ![t] = None]
        PROVE  SleepsOwnTheirSlot' /\ VerdictsKept
    <2>1. sleeper[s] = t
      BY <1>0, <1>2, ExecutorAssumption DEF SleepsOwnTheirSlot
    <2>2. \A r \in Timer \ {s} : slotState'[r] = slotState[r] /\ sleeper'[r] = sleeper[r]
      BY <1>2 DEF TypeOK, TimerTypes
    <2>3. leaf'[t] = "none" /\ \A u \in Task \ {t} : leaf'[u] = leaf[u] /\ slot'[u] = slot[u]
      BY <1>2 DEF TypeOK, FutureTypes
    <2>4. ASSUME NEW u \in Task, leaf'[u] = "sleep", slot'[u] # None
          PROVE  slotState'[slot'[u]] # "free" /\ sleeper'[slot'[u]] = u
      <3>1. u # t /\ leaf[u] = "sleep" /\ slot'[u] = slot[u] /\ slot[u] # None
        BY <2>3, <2>4
      <3>2. slotState[slot[u]] # "free" /\ sleeper[slot[u]] = u /\ slot[u] \in Timer
        BY <3>1 DEF SleepsOwnTheirSlot, TypeOK, FutureTypes
      <3>3. slot[u] # s
        BY <2>1, <3>1, <3>2
      <3>. QED BY <2>2, <3>1, <3>2, <3>3
    <2>5. VerdictsKept
      BY <1>0, <2>1, <2>2 DEF VerdictsKept, TimerHandles
    <2>. QED BY <2>4, <2>5 DEF SleepsOwnTheirSlot
  <1>3. ASSUME NEW s \in Timer, slotState[s] = "free", UNCHANGED leaf,
               slotState' = [slotState EXCEPT ![s] = "armed"],
               sleeper' = [sleeper EXCEPT ![s] = t],
               slot' = [slot EXCEPT ![t] = s]
        PROVE  SleepsOwnTheirSlot' /\ VerdictsKept
    <2>1. slotState'[s] = "armed" /\ sleeper'[s] = t
      BY <1>3 DEF TypeOK, TimerTypes
    <2>2. \A r \in Timer \ {s} : slotState'[r] = slotState[r] /\ sleeper'[r] = sleeper[r]
      BY <1>3 DEF TypeOK, TimerTypes
    <2>3. slot'[t] = s /\ \A u \in Task \ {t} : slot'[u] = slot[u]
      BY <1>3 DEF TypeOK, FutureTypes
    <2>4. SleepsOwnTheirSlot'
      BY <1>3, <2>1, <2>2, <2>3 DEF SleepsOwnTheirSlot, TypeOK, FutureTypes
    <2>5. VerdictsKept
      BY <1>3, <2>2 DEF VerdictsKept, TimerHandles
    <2>. QED BY <2>4, <2>5
  <1>4. CASE slot[t] = None /\ Aborted(t)
    <2>1. leaf' = [leaf EXCEPT ![t] = "none"] /\ UNCHANGED <<slotState, sleeper>>
          /\ slot' = [slot EXCEPT ![t] = None]
      BY <1>4 DEF Sleep_poll, Raise
    <2>2. SlotsKept
      BY <1>4, <2>1 DEF SlotsKept, TypeOK, FutureTypes
    <2>. QED BY <1>1, <2>2
  <1>5. CASE slot[t] = None /\ ~Aborted(t)
    BY <1>3, <1>5 DEF Sleep_poll
  <1>6. CASE slot[t] # None /\ (Aborted(t) \/ slotState[slot[t]] = "fired")
    <2>1. slot[t] \in Timer
      BY <1>6 DEF TypeOK, FutureTypes
    <2>. QED BY <1>2, <1>6, <2>1 DEF Sleep_poll, Raise, Resume
  <1>7. CASE slot[t] # None /\ ~Aborted(t) /\ slotState[slot[t]] # "fired"
    <2>1. SlotsKept
      BY <1>7 DEF Sleep_poll, SlotsKept
    <2>. QED BY <1>1, <2>1
  <1>. QED BY <1>4, <1>5, <1>6, <1>7

\* The calls of leaf futures start without a registration of their own.
LEMMA CallsKeepVerdicts ==
  ASSUME TypeOK, SleepsOwnTheirSlot, NEW t \in Task, NEW kind, NEW on, NEW s,
         Await(t, kind, on, s), kind = "sleep" => s = None
  PROVE  SleepsOwnTheirSlot' /\ VerdictsKept
  <1>1. UNCHANGED <<slotState, sleeper>>
    BY DEF Await, timerVars
  <1>2. /\ leaf'[t] = kind /\ slot'[t] = s
        /\ \A u \in Task \ {t} : leaf'[u] = leaf[u] /\ slot'[u] = slot[u]
    BY DEF Await, TypeOK, FutureTypes
  <1>. QED BY <1>1, <1>2 DEF SleepsOwnTheirSlot, VerdictsKept

\* Every other step leaves the registrations alone.
LEMMA OthersKeepSlots ==
  ASSUME TypeOK, NEW t \in Task,
         \/ spawn_in(t) \/ nursery_new(t) \/ nursery_new_detached(t) \/ cancel(t)
         \/ panic(t) \/ guarded_async(t) \/ Return(t) \/ Unwind(t)
         \/ YieldOnce_poll(t) \/ TaskJoin_poll(t) \/ AllSettledOrAnyFailed_poll(t)
         \/ AnySettled_poll(t) \/ TimerWait_poll(t) \/ nursery_run_drain(t)
  PROVE  SlotsKept
  <1>1. UNCHANGED <<slot, slotState, sleeper>>
    BY DEF spawn_in, nursery_new, nursery_new_detached, cancel, panic, guarded_async,
       Return, Unwind, settle, YieldOnce_poll, TaskJoin_poll, AllSettledOrAnyFailed_poll,
       AnySettled_poll, TimerWait_poll, nursery_run_drain, timerVars
  <1>2. leaf' = leaf \/ \E kind \in {"none", "drain"} : leaf' = [leaf EXCEPT ![t] = kind]
    BY DEF spawn_in, nursery_new, nursery_new_detached, cancel, panic, guarded_async,
       Return, Unwind, YieldOnce_poll, TaskJoin_poll, AllSettledOrAnyFailed_poll,
       AnySettled_poll, TimerWait_poll, nursery_run_drain, Deliver, Resume, Raise
  <1>. QED BY <1>1, <1>2 DEF SlotsKept, TypeOK, FutureTypes

\* Every step keeps sleeps apart from timers and leaves verdicts standing.
LEMMA VerdictStep ==
  TypeOK /\ SleepsOwnTheirSlot /\ [Next]_vars => SleepsOwnTheirSlot' /\ VerdictsKept
  <1>. SUFFICES ASSUME TypeOK, SleepsOwnTheirSlot, [Next]_vars
       PROVE  SleepsOwnTheirSlot' /\ VerdictsKept
    OBVIOUS
  <1>0. SlotsKept => SleepsOwnTheirSlot' /\ VerdictsKept
    BY DEF SlotsKept, SleepsOwnTheirSlot, VerdictsKept
  <1>1. ASSUME NEW t \in Task, Operations(t) \/ Polls(t)
        PROVE  SleepsOwnTheirSlot' /\ VerdictsKept
    <2>1. CASE timer(t) \/ timer_cancel(t)
      BY <2>1, SlotSteps
    <2>2. CASE Sleep_poll(t)
      BY <2>2, SleepKeepsVerdicts
    <2>3. CASE sleep(t) \/ yield_now(t) \/ await(t) \/ settle_all(t) \/ race(t) \/ timer_wait(t)
      <3>1. \E kind, on, s : Await(t, kind, on, s) /\ (kind = "sleep" => s = None)
        <4>1. CASE sleep(t) \/ yield_now(t)
          BY <4>1 DEF sleep, yield_now
        <4>2. CASE await(t)
          BY <4>2 DEF await
        <4>4. CASE timer_wait(t)
          <5>1. PICK s : Await(t, "timer", <<>>, s)
            BY <4>4 DEF timer_wait
          <5>2. "timer" = "sleep" => s = None
            OBVIOUS
          <5>. QED BY <5>1, <5>2
        <4>3. CASE settle_all(t) \/ race(t)
          BY <4>3 DEF settle_all, race
        <4>. QED BY <2>3, <4>1, <4>2, <4>3, <4>4
      <3>. QED BY <3>1, CallsKeepVerdicts
    <2>. QED BY <1>0, <1>1, <2>1, <2>2, <2>3, OthersKeepSlots DEF Operations, Polls
  <1>2. CASE fire_timer
    <2>1. Root \in Task
      BY ExecutorAssumption
    <2>. QED BY <1>2, <2>1, SlotSteps
  <1>3. CASE \/ Nursery_cancel \/ fail_wake \/ drain_microtasks
             \/ report_unobserved_failures \/ exit_loop \/ UNCHANGED vars
    <2>1. SlotsKept
      BY <1>3 DEF Nursery_cancel, fail_wake, drain_microtasks, SlotsKept,
         report_unobserved_failures, exit_loop, vars, futureVars, timerVars
    <2>. QED BY <1>0, <2>1
  <1>. QED BY <1>1, <1>2, <1>3 DEF Next, Loop, Terminated

\* TimerBody::settle: whatever cancels, fires, aborts and sleeps follow, a timer
\* that has fired or was cancelled keeps that verdict.
THEOREM TimersKeepTheirVerdict == Spec => TimerFirstSettlementWins
  <1>1. Init => SleepsOwnTheirSlot
    BY DEF Init, SleepsOwnTheirSlot
  <1>2. TypeOK /\ SleepsOwnTheirSlot /\ [Next]_vars =>
          /\ (TypeOK /\ SleepsOwnTheirSlot)'
          /\ [\A s \in TimerHandles :
                slotState[s] # "armed" => slotState'[s] = slotState[s]]_vars
    BY TypeStep, VerdictStep DEF VerdictsKept
  <1>. QED BY <1>1, <1>2, TypeInit, PTL DEF Spec, TimerFirstSettlementWins

-----------------------------------------------------------------------------
(***************************************************************************)
(* The fail latch holds the first failure.                                 *)
(***************************************************************************)

\* The tasks being polled are live and each is polled once (poll_task takes the
\* driver out of the node); the tasks in the log of settlements have settled.
PollsAreLive ==
  /\ \A i \in DOMAIN stack : status[stack[i]] = "live"
  /\ \A i, j \in DOMAIN stack : stack[i] = stack[j] => i = j
  /\ \A i \in DOMAIN settleLog : status[settleLog[i]] = "settled"

\* Tasks register with, and run in, nurseries that exist.
NurseriesExist ==
  /\ \A t \in Task : owner[t] # None => owner[t] \in born
  /\ \A t \in Task : \A i \in DOMAIN frames[t] : frames[t][i] \in born
  /\ \A n \in Nursery \ born : failed[n] = None

\* The latch of a joined nursery is free until its first failure, and holds the
\* earliest one from then on.
LatchIsFirst ==
  \A n \in born : ~detached[n] =>
    /\ failed[n] = None <=> FailuresOf(n) = {}
    /\ \A i \in FailuresOf(n) :
         (\A j \in FailuresOf(n) : i <= j) => failed[n] = settleLog[i]

\* A nursery whose latch is taken is cancelled, or next to be.
LatchCancels ==
  \A n \in Nursery : failed[n] # None => cancelled[n] \/ n \in Range(sweep)

\* The inductive invariant.
LatchInv == PollsAreLive /\ NurseriesExist /\ LatchIsFirst /\ LatchCancels

\* The latches, the log and what they are about.
latchVars == <<status, failure, owner, settleLog, failed, born, detached>>

\* A step that leaves the latches alone keeps them first.
LEMMA LatchKept ==
  ASSUME LatchIsFirst, UNCHANGED latchVars
  PROVE  LatchIsFirst'
  <1>1. \A n : FailuresOf(n)' = FailuresOf(n)
    BY DEF FailuresOf, latchVars
  <1>. QED BY <1>1 DEF LatchIsFirst, latchVars

\* Leaving the poll of the innermost task keeps the others live, also when that
\* task has settled.
LEMMA PollEnds ==
  ASSUME TypeOK, PollsAreLive, stack # <<>>, stack' = Tail(stack),
         \A u \in Task \ {Head(stack)} : status'[u] = status[u]
  PROVE  /\ \A i \in DOMAIN stack' : status'[stack'[i]] = "live"
         /\ \A i, j \in DOMAIN stack' : stack'[i] = stack'[j] => i = j
  <1>1. \A i \in DOMAIN stack' : i + 1 \in DOMAIN stack /\ stack'[i] = stack[i + 1]
    BY DEF TypeOK, LoopTypes
  <1>2. 1 \in DOMAIN stack /\ Head(stack) = stack[1]
    BY DEF TypeOK, LoopTypes
  <1>3. ASSUME NEW i \in DOMAIN stack' PROVE status'[stack'[i]] = "live"
    <2>0. i \in Nat \ {0}
      BY DEF TypeOK, LoopTypes
    <2>1. stack'[i] = stack[i + 1] /\ i + 1 \in DOMAIN stack /\ i + 1 # 1
      BY <1>1, <2>0
    <2>2. stack[i + 1] \in Task /\ stack[i + 1] # Head(stack)
      BY <1>2, <2>1 DEF TypeOK, LoopTypes, PollsAreLive
    <2>. QED BY <2>1, <2>2 DEF PollsAreLive
  <1>4. ASSUME NEW i \in DOMAIN stack', NEW j \in DOMAIN stack', stack'[i] = stack'[j]
        PROVE  i = j
    <2>0. i \in Nat /\ j \in Nat
      BY DEF TypeOK, LoopTypes
    <2>1. i + 1 = j + 1
      BY <1>1, <1>4 DEF PollsAreLive
    <2>. QED BY <2>0, <2>1
  <1>. QED BY <1>3, <1>4

\* TaskNode::settle takes the latch if it is free, and never from an earlier
\* failure.
LEMMA SettleLatches ==
  ASSUME TypeOK, LatchInv, NEW t \in Task, NEW f \in Failures, Current(t), settle(t, f)
  PROVE  PollsAreLive' /\ LatchIsFirst' /\ LatchCancels'
         /\ (UNCHANGED frames => NurseriesExist')
  <1>. DEFINE k == Len(settleLog) + 1
  <1>0. Head(stack) = t /\ stack # <<>> /\ status[t] = "live" /\ sweep = <<>>
    <2>1. Head(stack) = t /\ stack # <<>> /\ sweep = <<>>
      BY DEF Current, Quiet
    <2>2. 1 \in DOMAIN stack /\ stack[1] = t
      BY <2>1 DEF TypeOK, LoopTypes
    <2>. QED BY <2>1, <2>2 DEF LatchInv, PollsAreLive
  <1>1. /\ status'[t] = "settled" /\ failure'[t] = f
        /\ \A u \in Task \ {t} : status'[u] = status[u] /\ failure'[u] = failure[u]
    BY DEF settle, TypeOK, NodeTypes
  <1>2. /\ DOMAIN settleLog' = (DOMAIN settleLog) \cup {k}
        /\ settleLog'[k] = t
        /\ \A i \in DOMAIN settleLog : settleLog'[i] = settleLog[i] /\ settleLog[i] \in Task
        /\ \A i \in DOMAIN settleLog : i \in Nat /\ i < k
    BY DEF settle, TypeOK, LoopTypes
  <1>3. \A i \in DOMAIN settleLog : settleLog[i] # t
    BY <1>0 DEF LatchInv, PollsAreLive
  <1>4. PollsAreLive'
    <2>1. stack' = Tail(stack)
      BY DEF settle
    <2>2. \A i \in DOMAIN settleLog' : status'[settleLog'[i]] = "settled"
      BY <1>1, <1>2 DEF LatchInv, PollsAreLive
    <2>. QED BY <1>0, <1>1, <2>1, <2>2, PollEnds DEF LatchInv, PollsAreLive
  <1>5. UNCHANGED <<owner, born, detached, cancelled>>
    BY DEF settle
  <1>6. \A n : FailuresOf(n)' = FailuresOf(n) \cup
                (IF owner[t] = n /\ f = "panic" THEN {k} ELSE {})
    BY <1>1, <1>2, <1>3, <1>5 DEF FailuresOf
  <1>7. \A n : \A i \in FailuresOf(n) : i \in DOMAIN settleLog
    BY DEF FailuresOf
  <1>. DEFINE latches == owner[t] # None /\ f = "panic" /\ ~detached[owner[t]]
                         /\ failed[owner[t]] = None
  <1>8. CASE latches
    <2>1. owner[t] \in born /\ owner[t] \in Nursery
      BY <1>8 DEF LatchInv, NurseriesExist, TypeOK, NurseryTypes
    <2>2. failed' = [failed EXCEPT ![owner[t]] = t] /\ sweep' = <<owner[t]>>
      BY <1>8 DEF settle, LatchFree
    <2>3. failed'[owner[t]] = t /\ \A n \in Nursery \ {owner[t]} : failed'[n] = failed[n]
      BY <2>1, <2>2 DEF TypeOK, NurseryTypes
    <2>4. LatchCancels'
      <3>1. owner[t] \in Range(sweep')
        BY <2>2 DEF Range
      <3>. QED BY <1>0, <1>5, <2>3, <3>1, RangeEmpty DEF LatchInv, LatchCancels
    <2>5. ASSUME NEW n \in born, ~detached[n]
          PROVE  /\ failed'[n] = None <=> FailuresOf(n)' = {}
                 /\ \A i \in FailuresOf(n)' :
                      (\A j \in FailuresOf(n)' : i <= j) => failed'[n] = settleLog'[i]
      <3>1. CASE n = owner[t]
        <4>1. FailuresOf(n)' = {k}
          BY <1>6, <1>8, <2>5, <3>1 DEF LatchInv, LatchIsFirst
        <4>2. failed'[n] = t /\ t # None
          BY <2>3, <3>1, ExecutorAssumption
        <4>. QED BY <1>2, <4>1, <4>2
      <3>2. CASE n # owner[t]
        <4>1. FailuresOf(n)' = FailuresOf(n)
          BY <1>6, <3>2
        <4>2. failed'[n] = failed[n]
          BY <2>3, <3>2 DEF TypeOK, NurseryTypes
        <4>. QED BY <1>2, <1>7, <2>5, <4>1, <4>2 DEF LatchInv, LatchIsFirst
      <3>. QED BY <3>1, <3>2
    <2>6. LatchIsFirst'
      BY <1>5, <2>5 DEF LatchIsFirst
    <2>7. UNCHANGED frames => NurseriesExist'
      BY <1>5, <2>1, <2>3 DEF LatchInv, NurseriesExist
    <2>. QED BY <1>4, <2>4, <2>6, <2>7
  <1>9. CASE ~latches
    <2>1. UNCHANGED <<failed, sweep>>
      BY <1>9 DEF settle, LatchFree
    <2>2. LatchCancels'
      BY <1>5, <2>1 DEF LatchInv, LatchCancels
    <2>3. ASSUME NEW n \in born, ~detached[n]
          PROVE  /\ failed'[n] = None <=> FailuresOf(n)' = {}
                 /\ \A i \in FailuresOf(n)' :
                      (\A j \in FailuresOf(n)' : i <= j) => failed'[n] = settleLog'[i]
      <3>1. CASE owner[t] = n /\ f = "panic"
        <4>1. failed[n] # None
          BY <1>9, <2>3, <3>1, ExecutorAssumption DEF TypeOK, NurseryTypes
        <4>2. PICK m \in FailuresOf(n) : TRUE
          BY <2>3, <4>1 DEF LatchInv, LatchIsFirst
        <4>3. FailuresOf(n)' = FailuresOf(n) \cup {k}
          BY <1>6, <3>1
        <4>4. ASSUME NEW i \in FailuresOf(n)', \A j \in FailuresOf(n)' : i <= j
              PROVE  failed'[n] = settleLog'[i]
          <5>1. m \in DOMAIN settleLog /\ m < k /\ m \in Nat /\ i <= m
            BY <1>2, <1>7, <4>3, <4>4
          <5>2. i # k
            BY <5>1
          <5>3. i \in FailuresOf(n) /\ i \in DOMAIN settleLog
            BY <1>7, <4>3, <4>4, <5>2
          <5>4. failed[n] = settleLog[i]
            BY <2>3, <4>3, <4>4, <5>3 DEF LatchInv, LatchIsFirst
          <5>. QED BY <1>2, <2>1, <5>3, <5>4
        <4>. QED BY <2>1, <4>1, <4>3, <4>4
      <3>2. CASE ~(owner[t] = n /\ f = "panic")
        <4>1. FailuresOf(n)' = FailuresOf(n)
          BY <1>6, <3>2
        <4>. QED BY <1>2, <1>7, <2>1, <2>3, <4>1 DEF LatchInv, LatchIsFirst
      <3>. QED BY <3>1, <3>2
    <2>4. LatchIsFirst'
      BY <1>5, <2>3 DEF LatchIsFirst
    <2>5. UNCHANGED frames => NurseriesExist'
      BY <1>5, <2>1 DEF LatchInv, NurseriesExist
    <2>. QED BY <1>4, <2>2, <2>4, <2>5
  <1>. QED BY <1>8, <1>9

\* A step that leaves the latches alone, does not change who is polled beyond
\* leaving the innermost poll, and starts a cancel only where none is running.
LEMMA LatchFrame ==
  ASSUME TypeOK, LatchInv, UNCHANGED latchVars,
         stack' = stack \/ (stack # <<>> /\ stack' = Tail(stack)),
         UNCHANGED cancelled, sweep' = sweep \/ sweep = <<>>
  PROVE  /\ PollsAreLive' /\ LatchIsFirst' /\ LatchCancels'
         /\ UNCHANGED frames => NurseriesExist'
  <1>1. LatchIsFirst'
    BY LatchKept DEF LatchInv
  <1>2. LatchCancels'
    BY RangeEmpty DEF LatchInv, LatchCancels, latchVars
  <1>3. UNCHANGED frames => NurseriesExist'
    BY DEF LatchInv, NurseriesExist, latchVars
  <1>4. CASE stack' = stack
    <2>1. PollsAreLive'
      BY <1>4 DEF LatchInv, PollsAreLive, latchVars
    <2>. QED BY <1>1, <1>2, <1>3, <2>1
  <1>5. CASE stack # <<>> /\ stack' = Tail(stack)
    <2>1. PollsAreLive'
      BY <1>5, PollEnds DEF LatchInv, PollsAreLive, latchVars
    <2>. QED BY <1>1, <1>2, <1>3, <2>1
  <1>. QED BY <1>4, <1>5

\* The innermost nursery_run leaves the stack of frames.
LEMMA FramePopped ==
  ASSUME TypeOK, NurseriesExist, NEW t \in Task, frames[t] # <<>>,
         UNCHANGED <<owner, born, failed>>, frames' = [frames EXCEPT ![t] = Tail(@)]
  PROVE  NurseriesExist'
  <1>1. \A i \in DOMAIN Tail(frames[t]) : Tail(frames[t])[i] \in born
    <2>1. frames[t] \in Seq(Nursery)
      BY DEF TypeOK, FutureTypes
    <2>2. \A i \in DOMAIN Tail(frames[t]) :
            i + 1 \in DOMAIN frames[t] /\ Tail(frames[t])[i] = frames[t][i + 1]
      BY <2>1
    <2>. QED BY <2>2 DEF NurseriesExist
  <1>2. frames'[t] = Tail(frames[t]) /\ \A u \in Task \ {t} : frames'[u] = frames[u]
    BY DEF TypeOK, FutureTypes
  <1>. QED BY <1>1, <1>2 DEF NurseriesExist

\* The nursery of a task's extent exists.
LEMMA AmbientExists ==
  ASSUME TypeOK, NurseriesExist, NEW t \in Task
  PROVE  Ambient(t) # None => Ambient(t) \in born
  <1>1. frames[t] # <<>> => 1 \in DOMAIN frames[t] /\ Head(frames[t]) = frames[t][1]
    BY DEF TypeOK, FutureTypes
  <1>. QED BY <1>1 DEF Ambient, NurseriesExist

\* A spawn: the new task is polled at once, and was in no log.
LEMMA SpawnLatches ==
  ASSUME TypeOK, LatchInv, NEW t \in Task, spawn_in(t)
  PROVE  LatchInv'
  <1>1. PICK u \in Task, n \in {Ambient(t)} \cup {m \in born : detached[m]} :
          /\ status[u] = "unborn"
          /\ status' = [status EXCEPT ![u] = "live"]
          /\ owner' = [owner EXCEPT ![u] = n]
          /\ stack' = <<u>> \o stack
    BY DEF spawn_in
  <1>2. UNCHANGED <<failure, settleLog, failed, born, detached, cancelled, sweep, frames>>
    BY DEF spawn_in
  <1>3. /\ status'[u] = "live" /\ owner'[u] = n
        /\ \A v \in Task \ {u} : status'[v] = status[v] /\ owner'[v] = owner[v]
    BY <1>1 DEF TypeOK, NodeTypes
  <1>4. /\ 1 \in DOMAIN stack' /\ stack'[1] = u
        /\ \A i \in DOMAIN stack' : i \in Nat
        /\ \A i \in DOMAIN stack' \ {1} :
             i - 1 \in DOMAIN stack /\ stack'[i] = stack[i - 1] /\ stack[i - 1] \in Task
    BY <1>1 DEF TypeOK, LoopTypes
  <1>5. \A i \in DOMAIN stack : stack[i] # u
    BY <1>1 DEF LatchInv, PollsAreLive
  <1>6. PollsAreLive'
    <2>1. \A i \in DOMAIN stack' : status'[stack'[i]] = "live"
      BY <1>3, <1>4, <1>5 DEF LatchInv, PollsAreLive
    <2>2. ASSUME NEW i \in DOMAIN stack', NEW j \in DOMAIN stack', stack'[i] = stack'[j]
          PROVE  i = j
      <3>1. CASE i = 1 \/ j = 1
        BY <1>4, <1>5, <2>2, <3>1
      <3>2. CASE i # 1 /\ j # 1
        <4>1. i - 1 = j - 1 /\ i \in Nat /\ j \in Nat
          BY <1>4, <2>2, <3>2 DEF LatchInv, PollsAreLive
        <4>. QED BY <4>1
      <3>. QED BY <3>1, <3>2
    <2>3. \A i \in DOMAIN settleLog : settleLog[i] \in Task /\ settleLog[i] # u
      BY <1>1 DEF LatchInv, PollsAreLive, TypeOK, LoopTypes
    <2>. QED BY <1>2, <1>3, <2>1, <2>2, <2>3 DEF LatchInv, PollsAreLive
  <1>7. NurseriesExist'
    <2>1. n # None => n \in born
      BY <1>1, AmbientExists DEF LatchInv
    <2>. QED BY <1>2, <1>3, <2>1 DEF LatchInv, NurseriesExist
  <1>8. LatchIsFirst'
    <2>1. \A i \in DOMAIN settleLog : owner'[settleLog[i]] = owner[settleLog[i]]
      BY <1>1, <1>3 DEF LatchInv, PollsAreLive, TypeOK, LoopTypes
    <2>2. \A m : FailuresOf(m)' = FailuresOf(m)
      BY <1>2, <2>1 DEF FailuresOf
    <2>. QED BY <1>2, <2>2 DEF LatchInv, LatchIsFirst
  <1>9. LatchCancels'
    BY <1>2 DEF LatchInv, LatchCancels
  <1>. QED BY <1>6, <1>7, <1>8, <1>9 DEF LatchInv

\* A new nursery has no task, so no failure and a free latch.
LEMMA NewNurseryLatches ==
  ASSUME TypeOK, LatchInv, NEW t \in Task, nursery_new(t) \/ nursery_new_detached(t)
  PROVE  LatchInv'
  <1>1. PICK n \in Nursery \ born :
          /\ born' = born \cup {n}
          /\ \A m \in Nursery \ {n} : cancelled'[m] = cancelled[m] /\ detached'[m] = detached[m]
          /\ frames' = frames \/ frames' = [frames EXCEPT ![t] = <<n>> \o @]
    BY DEF nursery_new, nursery_new_detached, TypeOK, NurseryTypes
  <1>2. UNCHANGED <<status, failure, owner, settleLog, failed, stack, sweep>>
    BY DEF nursery_new, nursery_new_detached, nodeVars, loopVars
  <1>3. PollsAreLive'
    BY <1>2 DEF LatchInv, PollsAreLive
  <1>4. \A u \in Task : \A i \in DOMAIN frames'[u] : frames'[u][i] \in born'
    <2>1. CASE frames' = frames
      BY <1>1, <2>1 DEF LatchInv, NurseriesExist
    <2>2. CASE frames' = [frames EXCEPT ![t] = <<n>> \o @]
      <3>1. frames'[t] = <<n>> \o frames[t] /\ \A u \in Task \ {t} : frames'[u] = frames[u]
        BY <2>2 DEF TypeOK, FutureTypes
      <3>2. frames[t] \in Seq(Nursery)
        BY DEF TypeOK, FutureTypes
      <3>3. ASSUME NEW i \in DOMAIN (<<n>> \o frames[t])
            PROVE  (<<n>> \o frames[t])[i] \in born'
        <4>1. CASE i = 1
          BY <1>1, <3>2, <4>1
        <4>2. CASE i # 1
          <5>1. i - 1 \in DOMAIN frames[t] /\ (<<n>> \o frames[t])[i] = frames[t][i - 1]
            BY <3>2, <4>2
          <5>. QED BY <1>1, <5>1 DEF LatchInv, NurseriesExist
        <4>. QED BY <4>1, <4>2
      <3>. QED BY <1>1, <3>1, <3>3 DEF LatchInv, NurseriesExist
    <2>. QED BY <1>1, <2>1, <2>2
  <1>5. NurseriesExist'
    BY <1>1, <1>2, <1>4 DEF LatchInv, NurseriesExist
  <1>6. \A m : FailuresOf(m)' = FailuresOf(m)
    BY <1>2 DEF FailuresOf
  <1>7. FailuresOf(n) = {} /\ failed[n] = None
    <2>1. n # None
      BY ExecutorAssumption
    <2>2. \A i \in DOMAIN settleLog : owner[settleLog[i]] # n
      BY <2>1 DEF LatchInv, NurseriesExist, TypeOK, LoopTypes
    <2>. QED BY <2>2 DEF FailuresOf, LatchInv, NurseriesExist
  <1>8. LatchIsFirst'
    BY <1>1, <1>2, <1>6, <1>7 DEF LatchInv, LatchIsFirst, TypeOK, NurseryTypes
  <1>9. LatchCancels'
    BY <1>1, <1>2, <1>7 DEF LatchInv, LatchCancels
  <1>. QED BY <1>3, <1>5, <1>8, <1>9 DEF LatchInv

\* Nursery::cancel drops a nursery from its list only when it is cancelled.
LEMMA CancelVisitLatches ==
  ASSUME TypeOK, LatchInv, Nursery_cancel
  PROVE  LatchInv'
  <1>. DEFINE h == Head(sweep)
  <1>1. h \in Nursery /\ Range(sweep) = {h} \cup Range(Tail(sweep))
    BY RangeHead DEF TypeOK, LoopTypes, Nursery_cancel
  <1>2. UNCHANGED latchVars /\ UNCHANGED <<stack, frames>>
    BY DEF Nursery_cancel, nodeVars, futureVars, latchVars
  <1>3. cancelled'[h] /\ Range(Tail(sweep)) \subseteq Range(sweep')
        /\ \A n \in Nursery : cancelled[n] => cancelled'[n]
    <2>1. CASE cancelled[h]
      BY <2>1 DEF Nursery_cancel
    <2>2. CASE ~cancelled[h]
      <3>1. cancelled' = [cancelled EXCEPT ![h] = TRUE] /\ sweep' = descendants[h] \o Tail(sweep)
        BY <2>2 DEF Nursery_cancel, CancelReach
      <3>2. descendants[h] \in Seq(Nursery) /\ Tail(sweep) \in Seq(Nursery)
        BY <1>1, TailType DEF TypeOK, NurseryTypes, LoopTypes, Nursery_cancel
      <3>3. Range(sweep') = Range(descendants[h]) \cup Range(Tail(sweep))
        BY <3>1, <3>2, RangeConcat
      <3>4. \A n \in Nursery : cancelled'[n] = (n = h \/ cancelled[n])
        BY <3>1 DEF TypeOK, NurseryTypes
      <3>. QED BY <1>1, <3>3, <3>4
    <2>. QED BY <2>1, <2>2
  <1>4. LatchCancels'
    BY <1>1, <1>2, <1>3 DEF LatchInv, LatchCancels, latchVars
  <1>5. LatchIsFirst'
    BY <1>2, LatchKept DEF LatchInv
  <1>6. PollsAreLive' /\ NurseriesExist'
    BY <1>2 DEF LatchInv, PollsAreLive, NurseriesExist, latchVars
  <1>. QED BY <1>4, <1>5, <1>6 DEF LatchInv

\* drain_microtasks polls a live task or nothing.
LEMMA PopLatches ==
  ASSUME TypeOK, LatchInv, drain_microtasks
  PROVE  LatchInv'
  <1>1. UNCHANGED latchVars /\ UNCHANGED <<frames, cancelled, sweep>>
    BY DEF drain_microtasks, latchVars, nodeVars, futureVars, nurseryVars
  <1>2. stack' = <<>> \/ \E u : stack' = <<u>> /\ status[u] = "live"
    BY DEF drain_microtasks, Pollable
  <1>3. PollsAreLive'
    BY <1>1, <1>2 DEF LatchInv, PollsAreLive, latchVars
  <1>4. NurseriesExist' /\ LatchCancels'
    BY <1>1 DEF LatchInv, NurseriesExist, LatchCancels, latchVars
  <1>. QED BY <1>1, <1>3, <1>4, LatchKept DEF LatchInv

\* A return or a failure leaves a task through settle, or a nursery_run.
LEMMA EndLatches ==
  ASSUME TypeOK, LatchInv, NEW t \in Task, Return(t) \/ Unwind(t)
  PROVE  LatchInv'
  <1>1. CASE frames[t] = <<>>
    <2>1. \E f \in Failures : Current(t) /\ settle(t, f)
      BY <1>1 DEF Return, Unwind, Running, Failures, TypeOK, FutureTypes
    <2>2. UNCHANGED frames
      BY <1>1 DEF Return, Unwind
    <2>. QED BY <2>1, <2>2, SettleLatches DEF LatchInv
  <1>2. CASE frames[t] # <<>> /\ Return(t)
    <2>1. UNCHANGED latchVars /\ UNCHANGED <<stack, frames, cancelled, sweep>>
      BY <1>2 DEF Return, latchVars, nodeVars, nurseryVars, loopVars
    <2>. QED BY <2>1, LatchFrame DEF LatchInv
  <1>3. CASE frames[t] # <<>> /\ Unwind(t)
    <2>1. UNCHANGED latchVars /\ UNCHANGED <<stack, cancelled>> /\ sweep = <<>>
      BY <1>3 DEF Unwind, Current, Quiet, latchVars
    <2>2. frames' = [frames EXCEPT ![t] = Tail(@)] /\ UNCHANGED <<owner, born, failed>>
      BY <1>3 DEF Unwind
    <2>3. NurseriesExist'
      BY <1>3, <2>2, FramePopped DEF LatchInv
    <2>. QED BY <2>1, <2>3, LatchFrame DEF LatchInv
  <1>. QED BY <1>1, <1>2, <1>3

\* The polls of leaf futures resume or suspend their task.
LEMMA PollsLatches ==
  ASSUME TypeOK, LatchInv, NEW t \in Task, Polls(t)
  PROVE  LatchInv'
  <1>1. UNCHANGED latchVars /\ UNCHANGED <<cancelled, sweep>>
    <2>1. CASE YieldOnce_poll(t) \/ TaskJoin_poll(t)
      BY <2>1 DEF YieldOnce_poll, TaskJoin_poll, latchVars, nodeVars, nurseryVars
    <2>2. CASE AllSettledOrAnyFailed_poll(t) \/ AnySettled_poll(t)
      BY <2>2 DEF AllSettledOrAnyFailed_poll, AnySettled_poll, latchVars, nurseryVars
    <2>3. CASE Sleep_poll(t) \/ TimerWait_poll(t) \/ nursery_run_drain(t)
      BY <2>3 DEF Sleep_poll, TimerWait_poll, nursery_run_drain, latchVars, nodeVars
    <2>. QED BY <2>1, <2>2, <2>3 DEF Polls
  <1>2. Current(t)
    BY DEF Polls, YieldOnce_poll, TaskJoin_poll, AllSettledOrAnyFailed_poll,
       AnySettled_poll, Sleep_poll, TimerWait_poll, nursery_run_drain, Polling
  <1>3. stack # <<>> /\ (stack' = stack \/ stack' = Tail(stack))
    <2>1. CASE YieldOnce_poll(t) \/ TaskJoin_poll(t)
      BY <1>2, <2>1 DEF YieldOnce_poll, TaskJoin_poll, Suspend, Current
    <2>2. CASE AllSettledOrAnyFailed_poll(t) \/ AnySettled_poll(t)
      BY <1>2, <2>2 DEF AllSettledOrAnyFailed_poll, AnySettled_poll, Suspend, Current
    <2>3. CASE Sleep_poll(t) \/ TimerWait_poll(t) \/ nursery_run_drain(t)
      BY <1>2, <2>3 DEF Sleep_poll, TimerWait_poll, nursery_run_drain, Suspend, Current
    <2>. QED BY <2>1, <2>2, <2>3 DEF Polls
  <1>4. CASE UNCHANGED frames
    BY <1>1, <1>3, <1>4, LatchFrame DEF LatchInv
  <1>5. CASE frames' # frames
    <2>1. nursery_run_drain(t)
      BY <1>5 DEF Polls, YieldOnce_poll, TaskJoin_poll, AllSettledOrAnyFailed_poll,
         AnySettled_poll, Sleep_poll, TimerWait_poll
    <2>2. frames[t] # <<>>
      BY <2>1 DEF TypeOK, Operands, nursery_run_drain, Polling
    <2>3. frames' = [frames EXCEPT ![t] = Tail(@)]
      BY <1>5, <2>1 DEF nursery_run_drain
    <2>4. NurseriesExist'
      BY <1>1, <2>2, <2>3, FramePopped DEF LatchInv, latchVars
    <2>. QED BY <1>1, <1>3, <2>4, LatchFrame DEF LatchInv
  <1>. QED BY <1>4, <1>5

\* Every step keeps the latches first and cancels what they stand for.
LEMMA LatchStep == TypeOK /\ LatchInv /\ [Next]_vars => LatchInv'
  <1>. SUFFICES ASSUME TypeOK, LatchInv, [Next]_vars PROVE LatchInv'
    OBVIOUS
  <1>1. ASSUME NEW t \in Task, Operations(t) PROVE LatchInv'
    <2>1. CASE spawn_in(t)
      BY <2>1, SpawnLatches
    <2>2. CASE nursery_new(t) \/ nursery_new_detached(t)
      BY <2>2, NewNurseryLatches
    <2>3. CASE Return(t) \/ Unwind(t)
      BY <2>3, EndLatches
    <2>4. CASE sleep(t) \/ yield_now(t) \/ await(t) \/ settle_all(t) \/ race(t) \/ timer_wait(t)
      <3>1. UNCHANGED <<nodeVars, nurseryVars, loopVars, frames>>
        BY <2>4 DEF sleep, yield_now, await, settle_all, race, timer_wait, Await
      <3>2. UNCHANGED latchVars /\ UNCHANGED <<stack, cancelled, sweep, frames>>
        BY <3>1 DEF latchVars, nodeVars, nurseryVars, loopVars
      <3>. QED BY <3>2, LatchFrame DEF LatchInv
    <2>5. CASE cancel(t) \/ timer(t) \/ timer_cancel(t) \/ panic(t) \/ guarded_async(t)
      <3>1. /\ UNCHANGED latchVars /\ UNCHANGED <<stack, cancelled, frames>>
            /\ sweep' = sweep \/ sweep = <<>>
        BY <2>5 DEF cancel, timer, timer_cancel, panic, guarded_async, Operation, Running,
           Current, Quiet, latchVars, nodeVars, nurseryVars, loopVars
      <3>. QED BY <3>1, LatchFrame DEF LatchInv
    <2>. QED BY <1>1, <2>1, <2>2, <2>3, <2>4, <2>5 DEF Operations
  <1>2. ASSUME NEW t \in Task, Polls(t) PROVE LatchInv'
    BY <1>2, PollsLatches
  <1>3. CASE Nursery_cancel
    BY <1>3, CancelVisitLatches
  <1>4. CASE drain_microtasks
    BY <1>4, PopLatches
  <1>5. CASE fail_wake \/ report_unobserved_failures \/ fire_timer \/ exit_loop \/ UNCHANGED vars
    <2>1. UNCHANGED latchVars /\ UNCHANGED <<stack, cancelled, sweep, frames>>
      BY <1>5 DEF fail_wake, report_unobserved_failures, fire_timer, exit_loop, vars,
         latchVars, nodeVars, futureVars, nurseryVars, loopVars
    <2>. QED BY <2>1, LatchFrame DEF LatchInv
  <1>. QED BY <1>1, <1>2, <1>3, <1>4, <1>5 DEF Next, Loop, Terminated

\* block_on starts with the root on the stack and nothing settled.
LEMMA LatchInit == Init => LatchInv
  BY ExecutorAssumption DEF Init, LatchInv, PollsAreLive, NurseriesExist, LatchIsFirst,
     LatchCancels, FailuresOf

\* Nursery::fail: in every reachable state the latch of a joined nursery holds
\* the earliest-settled failure of its tasks, and that failure has cancelled
\* the nursery.
THEOREM FirstFailureIsKept == Spec => []FirstFailureWins
  <1>1. TypeOK /\ LatchInv /\ [Next]_vars => (TypeOK /\ LatchInv)'
    BY TypeStep, LatchStep
  <1>2. TypeOK /\ LatchInv => FirstFailureWins
    BY RangeEmpty DEF TypeOK, NurseryTypes, LatchInv, LatchIsFirst, LatchCancels,
       FirstFailureWins, Quiet
  <1>. QED BY <1>1, <1>2, TypeInit, LatchInit, PTL DEF Spec

=============================================================================
