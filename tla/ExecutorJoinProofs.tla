------------------------- MODULE ExecutorJoinProofs -------------------------
(***************************************************************************)
(* Joins, wakes and the end of the loop, for any sets of tasks, nurseries  *)
(* and timers: a join returns when its extent is settled, no failure is    *)
(* silent, no wake is lost, and what follows from that at the boundary of  *)
(* the microtask queue.                                                    *)
(***************************************************************************)
EXTENDS ExecutorProofs

-----------------------------------------------------------------------------
(***************************************************************************)
(* The parts of the inductive invariants.                                  *)
(***************************************************************************)

\* A nursery_run runs once, on one task, and its nursery is open until then;
\* a nursery that none runs in never ends.
RunsAreOpen ==
  /\ \A t \in Task : \A i \in DOMAIN frames[t] :
       ended[frames[t][i]] = "open" /\ ~detached[frames[t][i]]
  /\ \A t, u \in Task : \A i \in DOMAIN frames[t], j \in DOMAIN frames[u] :
       frames[t][i] = frames[u][j] => t = u /\ i = j
  /\ \A n \in Nursery : detached[n] \/ n \notin born => ended[n] = "open"
  /\ \A n \in Nursery \ born : ~detached[n]

\* A nursery's children are the tasks it owns.
ChildrenAreOwned ==
  /\ \A n \in Nursery : \A i \in DOMAIN children[n] :
       owner[children[n][i]] = n /\ status[children[n][i]] # "unborn"
  /\ \A t \in Task : owner[t] # None => t \in Range(children[owner[t]])

\* A drain has passed settled children only, each of them once.
DrainedAreSettled ==
  \A t \in Task : leaf[t] = "drain" =>
    /\ index[t] <= Len(children[Head(frames[t])]) + 1
    /\ \A i \in DOMAIN children[Head(frames[t])] :
         i < index[t] => Settled(children[Head(frames[t])][i])

\* A task fails by settling.
FailuresAreLogged ==
  \A t \in Task : failure[t] # "none" => Settled(t) /\ t \in Range(settleLog)

\* A live task of a nursery that has ended is cancelled, or next to be.
OrphansAreDoomed ==
  \A t \in Task :
    status[t] = "live" /\ owner[t] # None /\ ended[owner[t]] # "open"
      => cancelled[owner[t]] \/ owner[t] \in Range(sweep)

\* A failure that no nursery latches is observed, or reported: by a detached
\* nursery at once, for a free task when the queue is exhausted.
FailuresAreKnown ==
  \A t \in Task : failure[t] = "panic" =>
    /\ owner[t] # None /\ detached[owner[t]] => observed[t] \/ reported[t]
    /\ pc \in {"macro", "done"} /\ owner[t] = None => observed[t] \/ reported[t]

\* The loop leaves the queue when it has nothing to poll and no cancel runs,
\* and the program when no timer is left.
LoopIsIdle ==
  /\ pc # "drain" => Quiet /\ stack = <<>> /\ microtasks = <<>>
  /\ pc = "done" => \A s \in Timer : slotState[s] # "armed"

\* A timer wait holds a timer; the registration of a sleep is armed or fired.
TimersAreKnown ==
  /\ \A t \in Task : leaf[t] = "timer" => slot[t] \in TimerHandles
  /\ \A s \in Timer : sleeper[s] # None => slotState[s] \in {"armed", "fired"}

\* The tasks another waits for exist; a plain await waits for one.
GroupsAreKnown ==
  \A t \in Task :
    /\ leaf[t] = "join" => DOMAIN group[t] = {1}
    /\ \A u \in Range(group[t]) : status[u] # "unborn"

-----------------------------------------------------------------------------
(***************************************************************************)
(* Parked tasks.                                                           *)
(***************************************************************************)

\* u is suspended at the same future, in the same frames, as before.
FutureKept(u) ==
  /\ leaf'[u] = leaf[u] /\ group'[u] = group[u] /\ slot'[u] = slot[u]
  /\ index'[u] = index[u] /\ frames'[u] = frames[u] /\ owner'[u] = owner[u]

\* Every event that has not happened still has u on its list, unless u has been
\* woken.
ParkingKept(u) ==
  \/ InFlight(u)'
  \/ /\ \A v \in Task : Settled(v) => Settled(v)' /\ failure'[v] = failure[v]
     /\ \A v \in Task : ~Settled(v) /\ u \in Range(waiters[v]) =>
          ~Settled(v)' /\ u \in Range(waiters'[v])
     /\ \A n \in Nursery : failed[n] = None /\ u \in Range(failWaiters[n]) =>
          failed'[n] = None /\ u \in Range(failWaiters'[n])
     /\ \A n \in Nursery : \A i \in DOMAIN children[n] :
          i \in DOMAIN children'[n] /\ children'[n][i] = children[n][i]
     /\ \A n \in born : ~cancelled[n] /\ u \in Range(cancelWaiters[n]) =>
          ~cancelled'[n] /\ u \in Range(cancelWaiters'[n])
     /\ \A s \in Timer : slotState[s] = "armed" /\ sleeper[s] = u =>
          slotState'[s] = "armed" /\ sleeper'[s] = u
     /\ \A s \in Timer :
          slotState[s] = "armed" /\ sleeper[s] = None /\ u \in Range(timerWaiters[s]) =>
            /\ slotState'[s] = "armed" /\ sleeper'[s] = None
            /\ u \in Range(timerWaiters'[s])

\* What waiting is about.
parkVars == <<status, failure, waiters, failed, failWaiters, children, cancelled,
              cancelWaiters, slotState, sleeper, timerWaiters>>

\* A task that waits properly goes on waiting properly, or is woken.
LEMMA StillWaits ==
  ASSUME TypeOK, TypeOK', NurseriesExist, TimersAreKnown, NEW u \in Task, WaitsProperly(u),
         FutureKept(u), ParkingKept(u)
  PROVE  InFlight(u)' \/ WaitsProperly(u)'
  <1>1. CASE InFlight(u)'
    BY <1>1
  <1>. SUFFICES ASSUME ~InFlight(u)' PROVE WaitsProperly(u)'
    BY <1>1
  <1>2. Ambient(u)' = Ambient(u)
    BY DEF Ambient, FutureKept
  <1>3. SignalArmed(u) => SignalArmed(u)'
    <2>1. Ambient(u) # None => Ambient(u) \in born
      BY AmbientExists
    <2>. QED BY <1>2, <2>1 DEF SignalArmed, ParkingKept
  <1>4. \A v \in Range(group[u]) : v \in Task
    BY DEF TypeOK, FutureTypes, Range
  <1>5. CASE leaf[u] \in {"join", "race"}
    <2>1. \A v \in Range(group[u]) : ~Settled(v) /\ u \in Range(waiters[v])
      BY <1>5 DEF WaitsProperly
    <2>2. \A v \in Range(group'[u]) : ~Settled(v)' /\ u \in Range(waiters'[v])
      BY <1>4, <2>1 DEF FutureKept, ParkingKept
    <2>. QED BY <1>5, <2>2 DEF WaitsProperly, FutureKept
  <1>6. CASE leaf[u] = "settle_all"
    <2>1. /\ \E v \in Range(group[u]) : ~Settled(v)
          /\ \A v \in Range(group[u]) :
               IF Settled(v) THEN failure[v] = "none" ELSE u \in Range(waiters[v])
      BY <1>6 DEF WaitsProperly
    <2>2. \A v \in Range(group'[u]) :
            IF Settled(v)' THEN failure'[v] = "none" ELSE u \in Range(waiters'[v])
      BY <1>4, <2>1 DEF FutureKept, ParkingKept
    <2>3. \E v \in Range(group'[u]) : ~Settled(v)'
      BY <1>4, <2>1 DEF FutureKept, ParkingKept
    <2>. QED BY <1>6, <2>2, <2>3 DEF WaitsProperly, FutureKept
  <1>7. CASE leaf[u] = "sleep"
    <2>1. /\ slot[u] # None /\ slotState[slot[u]] = "armed" /\ sleeper[slot[u]] = u
          /\ SignalArmed(u)
      BY <1>7 DEF WaitsProperly
    <2>2. slot[u] \in Timer
      BY <2>1 DEF TypeOK, FutureTypes
    <2>. QED BY <1>3, <1>7, <2>1, <2>2 DEF WaitsProperly, FutureKept, ParkingKept
  <1>8. CASE leaf[u] = "timer"
    <2>1. /\ slotState[slot[u]] = "armed" /\ u \in Range(timerWaiters[slot[u]])
          /\ SignalArmed(u)
      BY <1>8 DEF WaitsProperly
    <2>2. slot[u] \in Timer /\ sleeper[slot[u]] = None
      BY <1>8 DEF TimersAreKnown, TimerHandles
    <2>. QED BY <1>3, <1>8, <2>1, <2>2 DEF WaitsProperly, FutureKept, ParkingKept
  <1>9. CASE leaf[u] = "drain"
    <2>1. PICK n \in Nursery : n = Head(frames[u])
      BY <1>9 DEF TypeOK, FutureTypes, Operands
    <2>a. index[u] <= Len(children[n])
      BY <1>9, <2>1 DEF WaitsProperly
    <2>b. index[u] \in Nat \ {0}
      BY DEF TypeOK, FutureTypes
    <2>c. children[n] \in Seq(Task)
      BY DEF TypeOK, NurseryTypes
    <2>2. PICK i \in DOMAIN children[n] : i = index[u]
      BY <2>a, <2>b, <2>c
    <2>3. PICK c \in Task : c = children[n][i]
      BY <2>2 DEF TypeOK, NurseryTypes
    <2>4. /\ failed[n] = None /\ u \in Range(failWaiters[n])
          /\ ~Settled(c) /\ u \in Range(waiters[c])
      BY <1>9, <2>1, <2>2, <2>3 DEF WaitsProperly
    <2>5. i \in DOMAIN children'[n] /\ children'[n][i] = c
      BY <2>2, <2>3 DEF ParkingKept
    <2>6. /\ failed'[n] = None /\ u \in Range(failWaiters'[n])
          /\ ~Settled(c)' /\ u \in Range(waiters'[c])
      BY <2>4 DEF ParkingKept
    <2>7. leaf'[u] = "drain" /\ Head(frames'[u]) = n /\ index'[u] = i
      BY <1>9, <2>1, <2>2 DEF FutureKept
    <2>8. i <= Len(children'[n])
      BY <2>5 DEF TypeOK, NurseryTypes
    <2>. QED BY <2>5, <2>6, <2>7, <2>8 DEF WaitsProperly
  <1>. QED BY <1>5, <1>6, <1>7, <1>8, <1>9 DEF WaitsProperly

\* The tasks that the queue and the owed wakes hold stay among them.
LEMMA WakesAdd ==
  ASSUME TypeOK, NEW w \in Seq(OptTask), microtasks' = microtasks \o w,
         UNCHANGED tail, NEW u
  PROVE  /\ InFlight(u) => InFlight(u)'
         /\ u \in Range(w) => InFlight(u)'
BY RangeConcat DEF TypeOK, LoopTypes, InFlight

\* Parking adds to the lists it parks on, and to no other.
LEMMA ParkOnHolds ==
  ASSUME NEW list \in [Task -> Seq(Task)], NEW t \in Task, NEW on, NEW v \in Task
  PROVE  /\ Range(list[v]) \subseteq Range(ParkOn(list, t, on)[v])
         /\ v \in on => t \in Range(ParkOn(list, t, on)[v])
<1>1. CASE v \in on
  <2>1. ParkOn(list, t, on)[v] = Append(list[v], t)
    BY <1>1 DEF ParkOn
  <2>. QED BY <2>1, RangeAppend
<1>2. CASE v \notin on
  BY <1>2 DEF ParkOn
<1>. QED BY <1>1, <1>2

\* CancelSignal::park adds to the list of the task's own extent.
LEMMA ParkOnSignalHolds ==
  ASSUME TypeOK, NEW t \in Task
  PROVE  /\ \A n \in Nursery : Range(cancelWaiters[n]) \subseteq Range(ParkOnSignal(t)[n])
         /\ Ambient(t) # None => t \in Range(ParkOnSignal(t)[Ambient(t)])
<1>1. CASE Ambient(t) = None
  BY <1>1 DEF ParkOnSignal
<1>2. CASE Ambient(t) # None
  <2>1. Ambient(t) \in Nursery
    BY <1>2, AmbientType
  <2>2. /\ ParkOnSignal(t)[Ambient(t)] = Append(cancelWaiters[Ambient(t)], t)
        /\ \A n \in Nursery \ {Ambient(t)} : ParkOnSignal(t)[n] = cancelWaiters[n]
    BY <1>2, <2>1 DEF ParkOnSignal, TypeOK, NurseryTypes
  <2>3. Range(Append(cancelWaiters[Ambient(t)], t)) = Range(cancelWaiters[Ambient(t)]) \cup {t}
    BY <2>1, RangeAppend DEF TypeOK, NurseryTypes
  <2>. QED BY <2>1, <2>2, <2>3
<1>. QED BY <1>1, <1>2

\* A step of the loop that polls nobody out of turn: every suspended task was
\* suspended before, and what it waits for is kept.
LEMMA LoopKeepsWakes ==
  ASSUME TypeOK, TypeOK', NurseriesExist, TimersAreKnown, NoLostWake,
         \A u \in Task : (Suspended(u)' => Suspended(u)) /\ FutureKept(u),
         \A u \in Task : InFlight(u) /\ Suspended(u)' => InFlight(u)',
         \A u \in Task : ParkingKept(u)
  PROVE  NoLostWake'
BY StillWaits DEF NoLostWake

\* A step of the polled task t: it stays polled, or has settled, or leaves its
\* poll with its wake in order; what the others wait for is kept.
LEMMA TurnKeepsWakes ==
  ASSUME TypeOK, TypeOK', NurseriesExist, TimersAreKnown, NoLostWake, NEW t \in Task, Current(t),
         stack' = stack \/ stack' = Tail(stack),
         stack' = stack \/ ~(status'[t] = "live") \/ InFlight(t)' \/ WaitsProperly(t)',
         \A u \in Task \ {t} : status'[u] = "live" => status[u] = "live",
         \A u \in Task \ {t} : FutureKept(u) /\ ParkingKept(u),
         \A u \in Task : InFlight(u) => InFlight(u)'
  PROVE  NoLostWake'
<1>1. stack # <<>> /\ Head(stack) = t
  BY DEF Current
<1>2. Range(stack) = {t} \cup Range(Tail(stack))
  BY <1>1, RangeHead DEF TypeOK, LoopTypes
<1>3. ASSUME NEW u \in Task, Suspended(u)' PROVE InFlight(u)' \/ WaitsProperly(u)'
  <2>1. CASE u = t
    BY <1>2, <1>3, <2>1 DEF Suspended
  <2>2. CASE u # t
    <3>1. Suspended(u)
      BY <1>2, <1>3, <2>2 DEF Suspended
    <3>2. InFlight(u) \/ WaitsProperly(u)
      BY <3>1 DEF NoLostWake
    <3>. QED BY <2>2, <3>2, StillWaits
  <2>. QED BY <2>1, <2>2
<1>. QED BY <1>3 DEF NoLostWake

-----------------------------------------------------------------------------
(***************************************************************************)
(* Registrations and groups.                                               *)
(***************************************************************************)

\* Only timer, TimerHandle::cancel, Sleep::poll, TimerHandle::wait and
\* fire_timer touch a registration or who waits for it.
LEMMA TimersStayKnown ==
  ASSUME TypeOK, SleepsOwnTheirSlot, TimersAreKnown, NEW t \in Task,
         \/ timer(t) \/ timer_cancel(t) \/ timer_wait(t) \/ Sleep_poll(t)
         \/ sleep(t) \/ yield_now(t) \/ await(t) \/ settle_all(t) \/ race(t)
         \/ TimerWait_poll(t) \/ fire_timer
  PROVE  TimersAreKnown'
<1>. USE DEF TypeOK, TimerTypes, FutureTypes
<1>1. CASE timer(t)
  <2>1. PICK s \in Timer : slotState[s] = "free" /\ slotState' = [slotState EXCEPT ![s] = "armed"]
    BY <1>1 DEF timer
  <2>2. UNCHANGED <<leaf, slot, sleeper>>
    BY <1>1 DEF timer
  <2>. QED BY <2>1, <2>2 DEF TimersAreKnown, TimerHandles
<1>2. CASE timer_cancel(t)
  <2>1. UNCHANGED <<leaf, slot, sleeper>>
    BY <1>2 DEF timer_cancel
  <2>2. CASE UNCHANGED slotState
    BY <2>1, <2>2 DEF TimersAreKnown, TimerHandles
  <2>3. CASE ~UNCHANGED slotState
    <3>1. PICK s \in TimerHandles : slotState' = [slotState EXCEPT ![s] = "cancelled"]
      BY <1>2, <2>3 DEF timer_cancel
    <3>2. \A r \in Timer : slotState'[r] = IF r = s THEN "cancelled" ELSE slotState[r]
      BY <3>1 DEF TimerHandles
    <3>. QED BY <2>1, <3>1, <3>2 DEF TimersAreKnown, TimerHandles
  <2>. QED BY <2>2, <2>3
<1>3. CASE timer_wait(t)
  <2>1. PICK s \in TimerHandles : Await(t, "timer", <<>>, s)
    BY <1>3 DEF timer_wait
  <2>2. UNCHANGED <<slotState, sleeper>> /\ slot'[t] = s
        /\ \A u \in Task \ {t} : leaf'[u] = leaf[u] /\ slot'[u] = slot[u]
    BY <2>1 DEF Await, timerVars
  <2>. QED BY <2>1, <2>2 DEF TimersAreKnown, TimerHandles
<1>4. CASE Sleep_poll(t)
  <2>0. leaf[t] = "sleep" /\ t # None
    BY <1>4, ExecutorAssumption DEF Sleep_poll, Polling
  <2>1. CASE UNCHANGED <<slotState, sleeper, slot>>
    <3>1. \A u \in Task : leaf'[u] = "timer" => leaf[u] = "timer"
      BY <1>4 DEF Sleep_poll, Raise, Resume
    <3>. QED BY <2>1, <3>1 DEF TimersAreKnown, TimerHandles
  <2>2. ASSUME NEW s \in Timer, slotState[s] = "free", UNCHANGED leaf,
               slotState' = [slotState EXCEPT ![s] = "armed"],
               sleeper' = [sleeper EXCEPT ![s] = t],
               slot' = [slot EXCEPT ![t] = s]
        PROVE  TimersAreKnown'
    <3>1. \A u \in Task : leaf[u] = "timer" => slot[u] # s /\ slot'[u] = slot[u]
      BY <2>0, <2>2 DEF TimersAreKnown, TimerHandles
    <3>. QED BY <2>2, <3>1 DEF TimersAreKnown, TimerHandles
  <2>3. ASSUME NEW s \in Timer, slot[t] = s, leaf' = [leaf EXCEPT ![t] = "none"],
               slotState' = [slotState EXCEPT ![s] = "free"],
               sleeper' = [sleeper EXCEPT ![s] = None],
               slot' = [slot EXCEPT ![t] = None]
        PROVE  TimersAreKnown'
    <3>1. sleeper[s] = t
      BY <2>0, <2>3, ExecutorAssumption DEF SleepsOwnTheirSlot
    <3>2. \A u \in Task : leaf'[u] = "timer" =>
            leaf[u] = "timer" /\ slot[u] # s /\ slot'[u] = slot[u]
      BY <2>0, <2>3, <3>1 DEF TimersAreKnown, TimerHandles
    <3>. QED BY <2>3, <3>2 DEF TimersAreKnown, TimerHandles
  <2>4. CASE slot[t] = None
    <3>1. CASE Aborted(t)
      BY <1>4, <2>1, <2>4, <3>1 DEF Sleep_poll
    <3>2. CASE ~Aborted(t)
      BY <1>4, <2>2, <2>4, <3>2 DEF Sleep_poll
    <3>. QED BY <3>1, <3>2
  <2>5. CASE slot[t] # None
    <3>1. slot[t] \in Timer
      BY <2>5
    <3>2. CASE UNCHANGED <<slotState, sleeper, slot>>
      BY <2>1, <3>2
    <3>3. CASE ~UNCHANGED <<slotState, sleeper, slot>>
      BY <1>4, <2>3, <2>5, <3>1, <3>3 DEF Sleep_poll, Raise, Resume
    <3>. QED BY <3>2, <3>3
  <2>. QED BY <2>4, <2>5
<1>5. CASE sleep(t) \/ yield_now(t) \/ await(t) \/ settle_all(t) \/ race(t)
  <2>1. \E kind \in {"sleep", "yield", "join", "settle_all", "race"} : \E on, s : Await(t, kind, on, s)
    BY <1>5 DEF sleep, yield_now, await, settle_all, race
  <2>2. /\ leaf'[t] # "timer" /\ UNCHANGED <<slotState, sleeper>>
        /\ \A u \in Task \ {t} : leaf'[u] = leaf[u] /\ slot'[u] = slot[u]
    BY <2>1 DEF Await, timerVars
  <2>. QED BY <2>2 DEF TimersAreKnown, TimerHandles
<1>6. CASE TimerWait_poll(t)
  <2>1. UNCHANGED <<slotState, sleeper, slot>>
    BY <1>6 DEF TimerWait_poll
  <2>2. \A u \in Task : leaf'[u] = "timer" => leaf[u] = "timer"
    BY <1>6 DEF TimerWait_poll, Resume, Raise
  <2>. QED BY <2>1, <2>2 DEF TimersAreKnown, TimerHandles
<1>7. CASE fire_timer
  <2>1. PICK s \in Timer : slotState[s] = "armed" /\ slotState' = [slotState EXCEPT ![s] = "fired"]
    BY <1>7 DEF fire_timer
  <2>2. UNCHANGED <<leaf, slot, sleeper>>
    BY <1>7 DEF fire_timer, futureVars
  <2>. QED BY <2>1, <2>2 DEF TimersAreKnown, TimerHandles
<1>. QED BY <1>1, <1>2, <1>3, <1>4, <1>5, <1>6, <1>7

\* Every step keeps the registrations known.
LEMMA TimersKnownStep ==
  TypeOK /\ SleepsOwnTheirSlot /\ TimersAreKnown /\ [Next]_vars => TimersAreKnown'
<1>. SUFFICES ASSUME TypeOK, SleepsOwnTheirSlot, TimersAreKnown, [Next]_vars
     PROVE  TimersAreKnown'
  OBVIOUS
<1>0. ASSUME UNCHANGED <<slot, slotState, sleeper>>,
             \A u \in Task : leaf'[u] = "timer" => leaf[u] = "timer"
      PROVE  TimersAreKnown'
  BY <1>0 DEF TimersAreKnown, TimerHandles
<1>1. ASSUME NEW t \in Task,
             \/ spawn_in(t) \/ nursery_new(t) \/ nursery_new_detached(t) \/ cancel(t)
             \/ panic(t) \/ guarded_async(t) \/ Return(t) \/ Unwind(t)
             \/ YieldOnce_poll(t) \/ TaskJoin_poll(t) \/ AllSettledOrAnyFailed_poll(t)
             \/ AnySettled_poll(t) \/ nursery_run_drain(t)
      PROVE  TimersAreKnown'
  <2>1. UNCHANGED <<slot, slotState, sleeper>>
    BY <1>1 DEF spawn_in, nursery_new, nursery_new_detached, cancel, panic, guarded_async,
       Return, Unwind, settle, YieldOnce_poll, TaskJoin_poll, AllSettledOrAnyFailed_poll,
       AnySettled_poll, nursery_run_drain, timerVars
  <2>2. leaf' = leaf \/ \E kind \in {"none", "drain"} : leaf' = [leaf EXCEPT ![t] = kind]
    BY <1>1 DEF spawn_in, nursery_new, nursery_new_detached, cancel, panic, guarded_async,
       Return, Unwind, YieldOnce_poll, TaskJoin_poll, AllSettledOrAnyFailed_poll,
       AnySettled_poll, nursery_run_drain, Deliver, Resume, Raise
  <2>3. \A u \in Task : leaf'[u] = "timer" => leaf[u] = "timer"
    BY <2>2 DEF TypeOK, FutureTypes
  <2>. QED BY <1>0, <2>1, <2>3
<1>2. ASSUME NEW t \in Task, Operations(t) \/ Polls(t) PROVE TimersAreKnown'
  BY <1>1, <1>2, TimersStayKnown DEF Operations, Polls
<1>3. CASE fire_timer
  BY <1>3, TimersStayKnown, ExecutorAssumption
<1>4. CASE \/ Nursery_cancel \/ fail_wake \/ drain_microtasks
           \/ report_unobserved_failures \/ exit_loop \/ UNCHANGED vars
  BY <1>0, <1>4 DEF Nursery_cancel, fail_wake, drain_microtasks,
     report_unobserved_failures, exit_loop, vars, futureVars, timerVars
<1>. QED BY <1>2, <1>3, <1>4 DEF Next, Loop, Terminated

\* A task that was spawned stays spawned, and one that settled stays settled.
LEMMA StatusGrows ==
  ASSUME TypeOK, LatchInv, [Next]_vars, NEW u \in Task
  PROVE  /\ status[u] # "unborn" => status'[u] # "unborn"
         /\ Settled(u) => Settled(u)' /\ failure'[u] = failure[u]
<1>. USE DEF TypeOK, NodeTypes, Settled
<1>1. ASSUME NEW t \in Task, spawn_in(t)
      PROVE  \A v \in Task : status[v] # "unborn" => status'[v] = status[v] /\ failure'[v] = failure[v]
  BY <1>1 DEF spawn_in
<1>2. ASSUME NEW t \in Task, Return(t) \/ Unwind(t), ~UNCHANGED <<status, failure>>
      PROVE  /\ ~Settled(t) /\ Settled(t)'
             /\ \A v \in Task \ {t} : status'[v] = status[v] /\ failure'[v] = failure[v]
  <2>1. PICK f : Current(t) /\ settle(t, f)
    BY <1>2 DEF Return, Unwind, Running, nodeVars
  <2>2. stack # <<>> /\ Head(stack) = t
    BY <2>1 DEF Current
  <2>3. 1 \in DOMAIN stack /\ stack[1] = t
    BY <2>2 DEF LoopTypes
  <2>4. status[t] = "live"
    BY <2>3 DEF LatchInv, PollsAreLive
  <2>. QED BY <2>1, <2>4 DEF settle
<1>3. ASSUME NEW t \in Task, Operations(t) \/ Polls(t),
             ~spawn_in(t), ~Return(t), ~Unwind(t)
      PROVE  UNCHANGED <<status, failure>>
  <2>1. CASE \/ sleep(t) \/ yield_now(t) \/ await(t) \/ settle_all(t) \/ race(t) \/ timer_wait(t)
    BY <2>1 DEF sleep, yield_now, await, settle_all, race, timer_wait, Await, nodeVars
  <2>2. CASE \/ nursery_new(t) \/ nursery_new_detached(t) \/ cancel(t) \/ timer(t)
             \/ timer_cancel(t) \/ panic(t) \/ guarded_async(t)
    BY <2>2 DEF nursery_new, nursery_new_detached, cancel, timer, timer_cancel, panic,
       guarded_async, nodeVars
  <2>3. CASE Polls(t)
    BY <2>3 DEF Polls, YieldOnce_poll, TaskJoin_poll, AllSettledOrAnyFailed_poll,
       AnySettled_poll, Sleep_poll, TimerWait_poll, nursery_run_drain, nodeVars
  <2>. QED BY <1>3, <2>1, <2>2, <2>3 DEF Operations
<1>4. CASE Loop \/ UNCHANGED vars
  BY <1>4 DEF Loop, Nursery_cancel, fail_wake, drain_microtasks,
     report_unobserved_failures, fire_timer, exit_loop, vars, nodeVars
<1>5. ASSUME NEW t \in Task, Operations(t) \/ Polls(t)
      PROVE  /\ status[u] # "unborn" => status'[u] # "unborn"
             /\ Settled(u) => Settled(u)' /\ failure'[u] = failure[u]
  BY <1>1, <1>2, <1>3, <1>5
<1>. QED BY <1>4, <1>5 DEF Next, Terminated

\* A leaf future is called with tasks that exist, and keeps them.
LEMMA GroupsKnownStep ==
  TypeOK /\ LatchInv /\ GroupsAreKnown /\ [Next]_vars => GroupsAreKnown'
<1>. SUFFICES ASSUME TypeOK, LatchInv, GroupsAreKnown, [Next]_vars
     PROVE  GroupsAreKnown'
  OBVIOUS
<1>1. \A u \in Task : status[u] # "unborn" => status'[u] # "unborn"
  BY StatusGrows
<1>2. \A t \in Task : \A u \in Range(group[t]) : u \in Task
  BY DEF TypeOK, FutureTypes, Range
<1>3. ASSUME UNCHANGED group, \A u \in Task : leaf'[u] = "join" => leaf[u] = "join"
      PROVE  GroupsAreKnown'
  BY <1>1, <1>2, <1>3 DEF GroupsAreKnown
<1>4. ASSUME NEW t \in Task, NEW kind, NEW on, NEW s, Await(t, kind, on, s),
             kind = "join" => DOMAIN on = {1},
             \A u \in Range(on) : u \in Task /\ status[u] # "unborn"
      PROVE  GroupsAreKnown'
  <2>1. /\ leaf'[t] = kind /\ group'[t] = on
        /\ \A u \in Task \ {t} : leaf'[u] = leaf[u] /\ group'[u] = group[u]
    BY <1>4 DEF Await, TypeOK, FutureTypes
  <2>. QED BY <1>1, <1>2, <1>4, <2>1 DEF GroupsAreKnown
<1>5. Range(<<>>) = {} /\ \A u : Range(<<u>>) = {u} /\ DOMAIN <<u>> = {1}
  BY DEF Range
<1>6. \A u, v : Range(<<u, v>>) = {u, v}
  BY DEF Range
<1>7. ASSUME NEW t \in Task, Operations(t) \/ Polls(t) PROVE GroupsAreKnown'
  <2>1. CASE sleep(t) \/ yield_now(t)
    BY <1>4, <1>5, <2>1 DEF sleep, yield_now
  <2>2. CASE await(t)
    <3>1. PICK u \in Others(t) : Await(t, "join", <<u>>, None)
      BY <2>2 DEF await
    <3>. QED BY <1>4, <1>5, <3>1 DEF Others
  <2>3. CASE settle_all(t) \/ race(t)
    <3>1. PICK u \in Others(t), v \in Others(t), kind \in {"settle_all", "race"} :
            Await(t, kind, <<u, v>>, None)
      BY <2>3 DEF settle_all, race
    <3>. QED BY <1>4, <1>6, <3>1 DEF Others
  <2>4. CASE timer_wait(t)
    <3>1. PICK s \in TimerHandles : Await(t, "timer", <<>>, s)
      BY <2>4 DEF timer_wait
    <3>. QED BY <1>4, <1>5, <3>1
  <2>5. CASE \/ spawn_in(t) \/ nursery_new(t) \/ nursery_new_detached(t) \/ cancel(t)
             \/ panic(t) \/ guarded_async(t) \/ Return(t) \/ Unwind(t) \/ timer(t)
             \/ timer_cancel(t) \/ Polls(t)
    <3>1. UNCHANGED group
      BY <2>5 DEF spawn_in, nursery_new, nursery_new_detached, cancel, panic,
         guarded_async, Return, Unwind, timer, timer_cancel, Polls, YieldOnce_poll,
         TaskJoin_poll, AllSettledOrAnyFailed_poll, AnySettled_poll, Sleep_poll,
         TimerWait_poll, nursery_run_drain
    <3>2. leaf' = leaf \/ \E kind \in {"none", "drain"} : leaf' = [leaf EXCEPT ![t] = kind]
      BY <2>5 DEF spawn_in, nursery_new, nursery_new_detached, cancel, panic,
         guarded_async, Return, Unwind, timer, timer_cancel, Polls, YieldOnce_poll,
         TaskJoin_poll, AllSettledOrAnyFailed_poll, AnySettled_poll, Sleep_poll,
         TimerWait_poll, nursery_run_drain, Deliver, Resume, Raise
    <3>. QED BY <1>3, <3>1, <3>2 DEF TypeOK, FutureTypes
  <2>. QED BY <1>7, <2>1, <2>2, <2>3, <2>4, <2>5 DEF Operations
<1>8. CASE Loop \/ UNCHANGED vars
  BY <1>3, <1>8 DEF Loop, Nursery_cancel, fail_wake, drain_microtasks,
     report_unobserved_failures, fire_timer, exit_loop, vars, futureVars
<1>. QED BY <1>7, <1>8 DEF Next, Terminated

-----------------------------------------------------------------------------
(***************************************************************************)
(* No step loses a wake.                                                   *)
(***************************************************************************)

\* What the lemmas below start from.
WakeInv ==
  /\ TypeOK /\ SleepsOwnTheirSlot /\ ExtentInv /\ LatchInv
  /\ TimersAreKnown /\ GroupsAreKnown
  /\ NoLostWake

\* A task that computes, calls a leaf future, or returns or fails through a
\* nursery_run stays polled and wakes nobody.
LEMMA ComputingKeepsWakes ==
  ASSUME WakeInv, TypeOK', NEW t \in Task, Current(t),
         UNCHANGED <<status, failure, waiters, failed, failWaiters, children, cancelWaiters,
                     sleeper, timerWaiters, microtasks, tail, stack>>,
         \A n \in born : cancelled'[n] = cancelled[n],
         \A s \in Timer : slotState[s] = "armed" => slotState'[s] = "armed",
         \A u \in Task \ {t} : FutureKept(u)
  PROVE  NoLostWake'
<1>1. \A u \in Task : ParkingKept(u)
  BY DEF ParkingKept, Settled
<1>2. \A u \in Task : InFlight(u) => InFlight(u)'
  BY DEF InFlight
<1>. QED BY <1>1, <1>2, TurnKeepsWakes DEF WakeInv, LatchInv

\* The operations that are such a computation.
LEMMA CallsKeepWakes ==
  ASSUME WakeInv, TypeOK', NEW t \in Task,
         \/ nursery_new(t) \/ nursery_new_detached(t) \/ cancel(t)
         \/ sleep(t) \/ yield_now(t) \/ await(t) \/ settle_all(t) \/ race(t)
         \/ timer(t) \/ timer_wait(t) \/ panic(t) \/ guarded_async(t)
         \/ (Return(t) \/ Unwind(t)) /\ frames[t] # <<>>
  PROVE  NoLostWake'
<1>. USE DEF WakeInv, TypeOK, FutureTypes, FutureKept
<1>1. CASE nursery_new(t)
  <2>1. PICK n \in Nursery \ born :
          /\ cancelled' = [cancelled EXCEPT ![n] = Aborted(t)]
          /\ frames' = [frames EXCEPT ![t] = <<n>> \o @]
    BY <1>1 DEF nursery_new
  <2>2. \A m \in born : cancelled'[m] = cancelled[m]
    BY <2>1 DEF NurseryTypes
  <2>3. Current(t) /\ \A u \in Task \ {t} : FutureKept(u)
    BY <1>1, <2>1 DEF nursery_new, Operation, Running, nodeVars
  <2>. QED BY <1>1, <2>2, <2>3, ComputingKeepsWakes
       DEF nursery_new, nodeVars, timerVars, loopVars
<1>2. CASE nursery_new_detached(t) \/ cancel(t) \/ panic(t) \/ guarded_async(t)
  <2>1. Current(t) /\ \A u \in Task \ {t} : FutureKept(u)
    BY <1>2 DEF nursery_new_detached, cancel, panic, guarded_async, Operation, Running, nodeVars
  <2>. QED BY <1>2, <2>1, ComputingKeepsWakes
       DEF nursery_new_detached, cancel, panic, guarded_async, nodeVars, nurseryVars,
           timerVars, loopVars
<1>3. CASE sleep(t) \/ yield_now(t) \/ await(t) \/ settle_all(t) \/ race(t) \/ timer_wait(t)
  <2>1. Current(t) /\ \E kind, on, s : Await(t, kind, on, s)
    BY <1>3 DEF sleep, yield_now, await, settle_all, race, timer_wait, Operation, Running
  <2>2. \A u \in Task \ {t} : FutureKept(u)
    BY <2>1 DEF Await, nodeVars
  <2>. QED BY <2>1, <2>2, ComputingKeepsWakes
       DEF Await, nodeVars, nurseryVars, timerVars, loopVars
<1>4. CASE timer(t)
  <2>1. Current(t) /\ \A u \in Task \ {t} : FutureKept(u)
    BY <1>4 DEF timer, Operation, Running, nodeVars
  <2>2. \A s \in Timer : slotState[s] = "armed" => slotState'[s] = "armed"
    BY <1>4 DEF timer, TimerTypes
  <2>. QED BY <1>4, <2>1, <2>2, ComputingKeepsWakes
       DEF timer, nodeVars, nurseryVars, loopVars
<1>5. CASE Return(t) /\ frames[t] # <<>>
  <2>1. Current(t) /\ \A u \in Task \ {t} : FutureKept(u)
    BY <1>5 DEF Return, Running, nodeVars
  <2>. QED BY <1>5, <2>1, ComputingKeepsWakes
       DEF Return, nodeVars, nurseryVars, timerVars, loopVars
<1>6. CASE Unwind(t) /\ frames[t] # <<>>
  <2>1. Current(t) /\ \A u \in Task \ {t} : FutureKept(u)
    BY <1>6 DEF Unwind
  <2>. QED BY <1>6, <2>1, ComputingKeepsWakes DEF Unwind, timerVars
<1>. QED BY <1>1, <1>2, <1>3, <1>4, <1>5, <1>6

\* The innermost task of the stack is live.
LEMMA CurrentIsLive ==
  ASSUME TypeOK, LatchInv, NEW t \in Task, Current(t)
  PROVE  status[t] = "live" /\ stack # <<>> /\ Head(stack) = t
<1>1. stack # <<>> /\ Head(stack) = t
  BY DEF Current
<1>2. 1 \in DOMAIN stack /\ stack[1] = t
  BY <1>1 DEF TypeOK, LoopTypes
<1>. QED BY <1>1, <1>2 DEF LatchInv, PollsAreLive

\* TaskNode::settle moves the settled task's waiters, and with a latched failure
\* those of the latch, to the queue or to the wakes owed after the cancel.
LEMMA SettleKeepsWakes ==
  ASSUME WakeInv, TypeOK', NEW t \in Task, NEW f, Current(t), settle(t, f),
         \A u \in Task \ {t} : FutureKept(u)
  PROVE  NoLostWake'
<1>. DEFINE latches == owner[t] # None /\ f = "panic" /\ ~detached[owner[t]] /\ LatchFree(owner[t])
<1>0. TypeOK /\ LatchInv /\ NurseriesExist
  BY DEF WakeInv, LatchInv
<1>1. status[t] = "live"
  BY <1>0, CurrentIsLive
<1>2. /\ status' = [status EXCEPT ![t] = "settled"] /\ failure' = [failure EXCEPT ![t] = f]
      /\ waiters' = [waiters EXCEPT ![t] = <<>>] /\ stack' = Tail(stack)
      /\ UNCHANGED <<children, cancelled, cancelWaiters, slotState, sleeper, timerWaiters>>
  BY DEF settle, timerVars
<1>3. status'[t] = "settled" /\ \A u \in Task \ {t} : status'[u] = status[u]
  BY <1>0, <1>2 DEF TypeOK, NodeTypes
<1>4. tail = <<>> /\ sweep = <<>>
  BY DEF Current, Quiet
<1>5. waiters[t] \in Seq(Task) /\ waiters[t] \in Seq(OptTask)
  BY <1>0, WakeType DEF TypeOK, NodeTypes
<1>6. CASE latches
  <2>1. owner[t] \in Nursery
    BY <1>0, <1>6 DEF TypeOK, NodeTypes
  <2>2. /\ failed' = [failed EXCEPT ![owner[t]] = t]
        /\ failWaiters' = [failWaiters EXCEPT ![owner[t]] = <<>>]
        /\ tail' = failWaiters[owner[t]] \o waiters[t]
        /\ UNCHANGED microtasks
    BY <1>6 DEF settle, WokenBySettle
  <2>3. failWaiters[owner[t]] \in Seq(Task)
    BY <1>0, <2>1 DEF TypeOK, NurseryTypes
  <2>4. Range(tail') = Range(failWaiters[owner[t]]) \cup Range(waiters[t])
    BY <1>5, <2>2, <2>3, RangeConcat
  <2>5. \A u \in Task : InFlight(u) => InFlight(u)'
    BY <1>4, <2>2, RangeEmpty DEF InFlight
  <2>6. ASSUME NEW u \in Task \ {t} PROVE ParkingKept(u)
    <3>1. CASE u \in Range(waiters[t]) \/ u \in Range(failWaiters[owner[t]])
      BY <2>4, <3>1 DEF ParkingKept, InFlight
    <3>2. CASE u \notin Range(waiters[t]) /\ u \notin Range(failWaiters[owner[t]])
      <4>1. \A v \in Task : ~Settled(v) /\ u \in Range(waiters[v]) =>
              ~Settled(v)' /\ u \in Range(waiters'[v])
        BY <1>0, <1>2, <1>3, <3>2 DEF Settled, TypeOK, NodeTypes
      <4>2. \A n \in Nursery : failed[n] = None /\ u \in Range(failWaiters[n]) =>
              failed'[n] = None /\ u \in Range(failWaiters'[n])
        BY <1>0, <2>2, <3>2 DEF TypeOK, NurseryTypes
      <4>3. \A v \in Task : Settled(v) => Settled(v)' /\ failure'[v] = failure[v]
        BY <1>0, <1>1, <1>2, <1>3 DEF Settled, TypeOK, NodeTypes
      <4>. QED BY <1>2, <4>1, <4>2, <4>3 DEF ParkingKept
    <3>. QED BY <3>1, <3>2
  <2>. QED BY <1>0, <1>2, <1>3, <2>5, <2>6, TurnKeepsWakes DEF WakeInv
<1>7. CASE ~latches
  <2>1. microtasks' = microtasks \o waiters[t] /\ UNCHANGED <<failed, failWaiters, tail>>
    BY <1>7 DEF settle, WokenBySettle
  <2>2. \A u \in Task : /\ InFlight(u) => InFlight(u)'
                        /\ u \in Range(waiters[t]) => InFlight(u)'
    BY <1>0, <1>5, <2>1, WakesAdd
  <2>3. ASSUME NEW u \in Task \ {t} PROVE ParkingKept(u)
    <3>1. CASE u \in Range(waiters[t])
      BY <2>2, <3>1 DEF ParkingKept
    <3>2. CASE u \notin Range(waiters[t])
      <4>1. \A v \in Task : ~Settled(v) /\ u \in Range(waiters[v]) =>
              ~Settled(v)' /\ u \in Range(waiters'[v])
        BY <1>0, <1>2, <1>3, <3>2 DEF Settled, TypeOK, NodeTypes
      <4>2. \A v \in Task : Settled(v) => Settled(v)' /\ failure'[v] = failure[v]
        BY <1>0, <1>1, <1>2, <1>3 DEF Settled, TypeOK, NodeTypes
      <4>. QED BY <1>2, <2>1, <4>1, <4>2 DEF ParkingKept
    <3>. QED BY <3>1, <3>2
  <2>. QED BY <1>0, <1>2, <1>3, <2>2, <2>3, TurnKeepsWakes DEF WakeInv
<1>. QED BY <1>6, <1>7

\* A spawned task is polled at once, inside its spawner's poll.
LEMMA SpawnKeepsWakes ==
  ASSUME WakeInv, TypeOK', NEW t \in Task, spawn_in(t)
  PROVE  NoLostWake'
<1>0. TypeOK /\ LatchInv /\ NurseriesExist /\ TimersAreKnown /\ NoLostWake
  BY DEF WakeInv, LatchInv
<1>1. PICK u \in Task, n \in {Ambient(t)} \cup {m \in born : detached[m]} :
        /\ status[u] = "unborn"
        /\ status' = [status EXCEPT ![u] = "live"]
        /\ owner' = [owner EXCEPT ![u] = n]
        /\ children' = IF n = None THEN children
                       ELSE [children EXCEPT ![n] = Append(@, u)]
        /\ stack' = <<u>> \o stack
  BY DEF spawn_in
<1>2. \A v \in Task : Settled(v)' <=> Settled(v)
  BY <1>0, <1>1 DEF Settled, TypeOK, NodeTypes
<1>3. \A m \in Nursery : \A i \in DOMAIN children[m] :
        i \in DOMAIN children'[m] /\ children'[m][i] = children[m][i]
  BY <1>0, <1>1 DEF TypeOK, NurseryTypes
<1>4. \A v \in Task \ {u} : FutureKept(v) /\ ParkingKept(v)
  <2>1. \A v \in Task \ {u} : FutureKept(v)
    BY <1>0, <1>1 DEF spawn_in, FutureKept, TypeOK, NodeTypes
  <2>. QED BY <1>2, <1>3, <2>1 DEF spawn_in, ParkingKept, timerVars
<1>5. ASSUME NEW v \in Task, Suspended(v)' PROVE InFlight(v)' \/ WaitsProperly(v)'
  <2>1. stack \in Seq(Task) /\ <<u>> \in Seq(Task)
    BY <1>0 DEF TypeOK, LoopTypes
  <2>2. Range(stack') = Range(<<u>>) \cup Range(stack)
    BY <1>1, <2>1, RangeConcat
  <2>3. u \in Range(<<u>>)
    BY DEF Range
  <2>4. v # u /\ Suspended(v)
    <3>1. v # u /\ v \notin Range(stack)
      BY <1>5, <2>2, <2>3 DEF Suspended
    <3>2. status'[v] = status[v]
      BY <1>0, <1>1, <3>1 DEF TypeOK, NodeTypes
    <3>. QED BY <1>5, <3>1, <3>2 DEF Suspended
  <2>5. InFlight(v) \/ WaitsProperly(v)
    BY <1>0, <2>4 DEF NoLostWake
  <2>6. InFlight(v) => InFlight(v)'
    BY DEF InFlight, spawn_in
  <2>. QED BY <1>0, <1>4, <2>4, <2>5, <2>6, StillWaits
<1>. QED BY <1>5 DEF NoLostWake

\* Nursery::cancel wakes the waiters of every nursery it cancels.
LEMMA CancelVisitKeepsWakes ==
  ASSUME WakeInv, TypeOK', Nursery_cancel
  PROVE  NoLostWake'
<1>0. TypeOK /\ LatchInv /\ NurseriesExist /\ TimersAreKnown /\ NoLostWake
  BY DEF WakeInv, LatchInv
<1>1. PICK n \in Nursery : n = Head(sweep)
  BY <1>0 DEF Nursery_cancel, TypeOK, LoopTypes
<1>2. /\ UNCHANGED <<status, failure, waiters, failed, failWaiters, children, slotState,
                     sleeper, timerWaiters, tail, stack>>
      /\ \A u \in Task : FutureKept(u)
  BY DEF Nursery_cancel, nodeVars, futureVars, timerVars, FutureKept
<1>3. \A u \in Task : Suspended(u)' => Suspended(u)
  BY <1>2 DEF Suspended
<1>4. CASE cancelled[n]
  <2>1. UNCHANGED <<cancelled, cancelWaiters, microtasks>>
    BY <1>1, <1>4 DEF Nursery_cancel
  <2>2. \A u \in Task : ParkingKept(u) /\ (InFlight(u) => InFlight(u)')
    BY <1>2, <2>1 DEF ParkingKept, InFlight, Settled
  <2>. QED BY <1>0, <1>2, <1>3, <2>2, LoopKeepsWakes
<1>5. CASE ~cancelled[n]
  <2>1. /\ cancelled' = [cancelled EXCEPT ![n] = TRUE]
        /\ microtasks' = microtasks \o cancelWaiters[n]
        /\ cancelWaiters' = [cancelWaiters EXCEPT ![n] = <<>>]
    BY <1>1, <1>5 DEF Nursery_cancel
  <2>2. cancelWaiters[n] \in Seq(OptTask)
    BY <1>0, WakeType DEF TypeOK, NurseryTypes
  <2>3. \A u \in Task : /\ InFlight(u) => InFlight(u)'
                        /\ u \in Range(cancelWaiters[n]) => InFlight(u)'
    BY <1>0, <1>2, <2>1, <2>2, WakesAdd
  <2>4. ASSUME NEW u \in Task PROVE ParkingKept(u)
    <3>1. CASE u \in Range(cancelWaiters[n])
      BY <2>3, <3>1 DEF ParkingKept
    <3>2. CASE u \notin Range(cancelWaiters[n])
      <4>1. \A m \in born : ~cancelled[m] /\ u \in Range(cancelWaiters[m]) =>
              ~cancelled'[m] /\ u \in Range(cancelWaiters'[m])
        BY <1>0, <2>1, <3>2 DEF TypeOK, NurseryTypes
      <4>. QED BY <1>2, <4>1 DEF ParkingKept, Settled
    <3>. QED BY <3>1, <3>2
  <2>. QED BY <1>0, <1>2, <1>3, <2>3, <2>4, LoopKeepsWakes
<1>. QED BY <1>4, <1>5

\* The wakes owed after a cancel join the queue.
LEMMA FailWakeKeepsWakes ==
  ASSUME WakeInv, TypeOK', fail_wake
  PROVE  NoLostWake'
<1>0. TypeOK /\ NurseriesExist /\ TimersAreKnown /\ NoLostWake
  BY DEF WakeInv, LatchInv
<1>1. UNCHANGED parkVars /\ UNCHANGED stack /\ \A u \in Task : FutureKept(u)
  BY DEF fail_wake, nodeVars, futureVars, nurseryVars, timerVars, parkVars, FutureKept
<1>2. \A u \in Task : ParkingKept(u) /\ (Suspended(u)' => Suspended(u))
  BY <1>1 DEF ParkingKept, parkVars, Settled, Suspended
<1>3. tail \in Seq(OptTask) /\ microtasks \in Seq(OptTask)
  BY <1>0, WakeType DEF TypeOK, LoopTypes
<1>4. Range(microtasks') = Range(microtasks) \cup Range(tail)
  BY <1>3, RangeConcat DEF fail_wake
<1>5. \A u \in Task : InFlight(u) => InFlight(u)'
  BY <1>4 DEF InFlight
<1>. QED BY <1>0, <1>1, <1>2, <1>5, LoopKeepsWakes

\* drain_microtasks drops a wake only when it polls the task, or when the task
\* is not there to be polled.
LEMMA PopKeepsWakes ==
  ASSUME WakeInv, TypeOK', drain_microtasks
  PROVE  NoLostWake'
<1>0. TypeOK /\ NurseriesExist /\ TimersAreKnown /\ NoLostWake
  BY DEF WakeInv, LatchInv
<1>. DEFINE h == Head(microtasks)
<1>1. UNCHANGED parkVars /\ UNCHANGED tail /\ \A u \in Task : FutureKept(u)
  BY DEF drain_microtasks, nodeVars, futureVars, nurseryVars, timerVars, parkVars, FutureKept
<1>2. Range(microtasks) = {h} \cup Range(Tail(microtasks)) /\ h \in OptTask
  BY <1>0, RangeHead DEF drain_microtasks, TypeOK, LoopTypes
<1>3. stack = <<>> /\ stack' = IF Pollable(h) THEN <<h>> ELSE <<>>
  BY DEF drain_microtasks
<1>4. \A u \in Task : ParkingKept(u) /\ (Suspended(u)' => Suspended(u))
  BY <1>1, <1>3, RangeEmpty DEF ParkingKept, parkVars, Settled, Suspended
<1>5. ASSUME NEW u \in Task, InFlight(u), Suspended(u)' PROVE InFlight(u)'
  <2>1. u # h
    <3>1. CASE Pollable(h)
      <4>1. h \in Range(<<h>>)
        BY DEF Range
      <4>. QED BY <1>3, <1>5, <3>1, <4>1 DEF Suspended
    <3>2. CASE ~Pollable(h)
      BY <1>1, <1>5, <3>2, ExecutorAssumption DEF Pollable, Suspended, parkVars
    <3>. QED BY <3>1, <3>2
  <2>2. microtasks' = Tail(microtasks) /\ tail' = tail
    BY DEF drain_microtasks
  <2>. QED BY <1>2, <1>5, <2>1, <2>2 DEF InFlight
<1>. QED BY <1>0, <1>1, <1>4, <1>5, LoopKeepsWakes

\* A timer that settles wakes whoever waits for it: the sleeping task, or the
\* tasks in TimerHandle::wait.
LEMMA SettledTimerWakes ==
  ASSUME TypeOK, NEW s \in Timer, NEW w \in Seq(OptTask), NEW u \in Task,
         slotState'[s] # "armed", UNCHANGED <<sleeper, tail>>,
         \A r \in Timer \ {s} : slotState'[r] = slotState[r],
         microtasks' = microtasks \o w, timerWaiters' = [timerWaiters EXCEPT ![s] = <<>>],
         sleeper[s] = u => u \in Range(w),
         sleeper[s] = None /\ u \in Range(timerWaiters[s]) => u \in Range(w),
         UNCHANGED <<status, failure, waiters, failed, failWaiters, children, cancelled,
                     cancelWaiters>>
  PROVE  ParkingKept(u) /\ (InFlight(u) => InFlight(u)')
<1>1. (InFlight(u) => InFlight(u)') /\ (u \in Range(w) => InFlight(u)')
  BY WakesAdd
<1>2. CASE u \notin Range(w)
  <2>1. \A r \in Timer \ {s} : timerWaiters'[r] = timerWaiters[r]
    BY DEF TypeOK, TimerTypes
  <2>. QED BY <1>1, <1>2, <2>1 DEF ParkingKept, Settled
<1>. QED BY <1>1, <1>2 DEF ParkingKept

\* TimerHandle::cancel.
LEMMA TimerCancelKeepsWakes ==
  ASSUME WakeInv, TypeOK', NEW t \in Task, timer_cancel(t)
  PROVE  NoLostWake'
<1>0. TypeOK /\ LatchInv /\ NurseriesExist /\ TimersAreKnown /\ NoLostWake
  BY DEF WakeInv, LatchInv
<1>1. /\ Current(t) /\ UNCHANGED <<nodeVars, nurseryVars, sleeper, stack, tail>>
      /\ \A u \in Task \ {t} : FutureKept(u)
  BY <1>0 DEF timer_cancel, Operation, Running, FutureKept, nodeVars
<1>2. PICK s \in TimerHandles :
        IF Cancellable(s)
        THEN /\ slotState' = [slotState EXCEPT ![s] = "cancelled"]
             /\ microtasks' = microtasks \o timerWaiters[s]
             /\ timerWaiters' = [timerWaiters EXCEPT ![s] = <<>>]
        ELSE UNCHANGED <<slotState, microtasks, timerWaiters>>
  BY DEF timer_cancel
<1>3. s \in Timer /\ sleeper[s] = None
  BY DEF TimerHandles
<1>4. ASSUME NEW u \in Task PROVE ParkingKept(u) /\ (InFlight(u) => InFlight(u)')
  <2>1. CASE Cancellable(s)
    <3>1. timerWaiters[s] \in Seq(OptTask)
      BY <1>0, <1>3 DEF TypeOK, TimerTypes
    <3>2. slotState'[s] # "armed" /\ \A r \in Timer \ {s} : slotState'[r] = slotState[r]
      BY <1>0, <1>2, <1>3, <2>1 DEF TypeOK, TimerTypes
    <3>3. u # None
      BY ExecutorAssumption
    <3>. QED BY <1>0, <1>1, <1>2, <1>3, <2>1, <3>1, <3>2, <3>3, SettledTimerWakes
         DEF nodeVars, nurseryVars
  <2>2. CASE ~Cancellable(s)
    BY <1>1, <1>2, <2>2 DEF ParkingKept, InFlight, Settled, nodeVars, nurseryVars
  <2>. QED BY <2>1, <2>2
<1>. QED BY <1>0, <1>1, <1>4, TurnKeepsWakes DEF nodeVars

\* fire_timer.
LEMMA FireKeepsWakes ==
  ASSUME WakeInv, TypeOK', fire_timer
  PROVE  NoLostWake'
<1>0. TypeOK /\ NurseriesExist /\ TimersAreKnown /\ NoLostWake
  BY DEF WakeInv, LatchInv
<1>1. /\ UNCHANGED <<nodeVars, nurseryVars, sleeper, stack, tail>>
      /\ \A u \in Task : FutureKept(u) /\ (Suspended(u)' => Suspended(u))
  BY DEF fire_timer, FutureKept, nodeVars, futureVars, Suspended
<1>2. PICK s \in Timer :
        /\ slotState' = [slotState EXCEPT ![s] = "fired"]
        /\ microtasks' = microtasks \o
             (IF sleeper[s] # None THEN <<sleeper[s]>> ELSE timerWaiters[s])
        /\ timerWaiters' = [timerWaiters EXCEPT ![s] = <<>>]
  BY DEF fire_timer
<1>. DEFINE w == IF sleeper[s] # None THEN <<sleeper[s]>> ELSE timerWaiters[s]
<1>3. w \in Seq(OptTask)
  BY <1>0 DEF TypeOK, TimerTypes
<1>4. slotState'[s] # "armed" /\ \A r \in Timer \ {s} : slotState'[r] = slotState[r]
  BY <1>0, <1>2 DEF TypeOK, TimerTypes
<1>5. ASSUME NEW u \in Task
      PROVE  /\ sleeper[s] = u => u \in Range(w)
             /\ sleeper[s] = None /\ u \in Range(timerWaiters[s]) => u \in Range(w)
  <2>1. u # None /\ u \in Range(<<u>>)
    BY ExecutorAssumption DEF Range
  <2>. QED BY <2>1
<1>6. microtasks' = microtasks \o w
  BY <1>2
<1>. HIDE DEF w
<1>7. \A u \in Task : ParkingKept(u) /\ (InFlight(u) => InFlight(u)')
  BY <1>0, <1>1, <1>2, <1>3, <1>4, <1>5, <1>6, SettledTimerWakes DEF nodeVars, nurseryVars
<1>. QED BY <1>0, <1>1, <1>7, LoopKeepsWakes

\* A poll that only adds to wake lists keeps what the others wait for.
LEMMA AddingKeeps ==
  ASSUME NEW u \in Task, UNCHANGED <<status, failure, failed, children, cancelled>>,
         \A v \in Task : Range(waiters[v]) \subseteq Range(waiters'[v]),
         \A n \in Nursery : Range(failWaiters[n]) \subseteq Range(failWaiters'[n]),
         \A n \in born : Range(cancelWaiters[n]) \subseteq Range(cancelWaiters'[n]),
         \A s \in Timer : slotState[s] = "armed" /\ sleeper[s] = u =>
           slotState'[s] = "armed" /\ sleeper'[s] = u,
         \A s \in Timer :
           slotState[s] = "armed" /\ sleeper[s] = None /\ u \in Range(timerWaiters[s]) =>
             /\ slotState'[s] = "armed" /\ sleeper'[s] = None
             /\ u \in Range(timerWaiters'[s])
  PROVE  ParkingKept(u)
BY DEF ParkingKept, Settled

\* YieldOnce::poll queues its task before it suspends it.
LEMMA YieldKeepsWakes ==
  ASSUME WakeInv, TypeOK', NEW t \in Task, YieldOnce_poll(t)
  PROVE  NoLostWake'
<1>0. TypeOK /\ NurseriesExist /\ TimersAreKnown /\ NoLostWake
  BY DEF WakeInv, LatchInv
<1>1. Current(t) /\ UNCHANGED <<nodeVars, nurseryVars, timerVars, tail>>
  BY DEF YieldOnce_poll, Polling
<1>2. \A u \in Task \ {t} : FutureKept(u) /\ ParkingKept(u)
  BY <1>0, <1>1 DEF YieldOnce_poll, Resume, FutureKept, ParkingKept, Settled, nodeVars,
     nurseryVars, timerVars, TypeOK, FutureTypes
<1>3. CASE Yielded(t)
  <2>1. UNCHANGED <<microtasks, stack>>
    BY <1>3 DEF YieldOnce_poll
  <2>2. \A u \in Task : InFlight(u) => InFlight(u)'
    BY <1>1, <2>1 DEF InFlight
  <2>. QED BY <1>0, <1>1, <1>2, <2>1, <2>2, TurnKeepsWakes DEF nodeVars
<1>4. CASE ~Yielded(t)
  <2>1. microtasks' = Append(microtasks, t) /\ stack' = Tail(stack)
    BY <1>4 DEF YieldOnce_poll, Suspend
  <2>2. microtasks \in Seq(OptTask) /\ t \in OptTask
    BY <1>0 DEF TypeOK, LoopTypes, OptTask
  <2>3. Range(microtasks') = Range(microtasks) \cup {t}
    BY <2>1, <2>2, RangeAppend
  <2>4. InFlight(t)' /\ \A u \in Task : InFlight(u) => InFlight(u)'
    BY <1>1, <2>3 DEF InFlight
  <2>. QED BY <1>0, <1>1, <1>2, <2>1, <2>4, TurnKeepsWakes DEF nodeVars
<1>. QED BY <1>3, <1>4

\* The three joins park on every task they wait for, and answer at once if that
\* would be too late.
LEMMA JoinsKeepWakes ==
  ASSUME WakeInv, TypeOK', NEW t \in Task,
         TaskJoin_poll(t) \/ AllSettledOrAnyFailed_poll(t) \/ AnySettled_poll(t)
  PROVE  NoLostWake'
<1>0. TypeOK /\ NurseriesExist /\ TimersAreKnown /\ GroupsAreKnown /\ NoLostWake
  BY DEF WakeInv, LatchInv
<1>1. /\ Current(t) /\ UNCHANGED <<status, failure, owner, group, slot, index, frames,
                                   nurseryVars, timerVars, microtasks, tail>>
  BY DEF TaskJoin_poll, AllSettledOrAnyFailed_poll, AnySettled_poll, Polling
<1>2. \A u \in Task \ {t} : leaf'[u] = leaf[u]
  BY <1>0 DEF TaskJoin_poll, AllSettledOrAnyFailed_poll, AnySettled_poll, Deliver, Resume,
     Raise, TypeOK, FutureTypes
<1>3. \A v \in Range(group[t]) : v \in Task
  BY <1>0 DEF TypeOK, FutureTypes, Range
<1>4. PICK on \in SUBSET Task :
        \/ waiters' = waiters /\ stack' = stack
        \/ /\ waiters' = ParkOn(waiters, t, on) /\ stack' = Tail(stack) /\ leaf' = leaf
           /\ \/ /\ leaf[t] \in {"join", "race"} /\ on = Range(group[t])
                 /\ \A v \in Range(group[t]) : ~Settled(v)
              \/ /\ leaf[t] = "settle_all"
                 /\ on = PendingOf(group[t])
                 /\ \A v \in Range(group[t]) : ~Failed(v)
                 /\ \E v \in Range(group[t]) : ~Settled(v)
  <2>1. CASE TaskJoin_poll(t)
    <3>1. leaf[t] = "join" /\ DOMAIN group[t] = {1}
      BY <1>0, <2>1 DEF TaskJoin_poll, Polling, GroupsAreKnown
    <3>2. Range(group[t]) = {group[t][1]}
      BY <3>1 DEF Range
    <3>3. {group[t][1]} \in SUBSET Task
      BY <1>3, <3>2
    <3>. QED BY <2>1, <3>1, <3>2, <3>3 DEF TaskJoin_poll, Suspend
  <2>2. CASE AllSettledOrAnyFailed_poll(t)
    <3>1. leaf[t] = "settle_all" /\ PendingOf(group[t]) \in SUBSET Task
      BY <1>3, <2>2 DEF AllSettledOrAnyFailed_poll, Polling, PendingOf
    <3>2. CASE \E i \in DOMAIN group[t] : Failed(group[t][i])
      BY <2>2, <3>1, <3>2 DEF AllSettledOrAnyFailed_poll
    <3>3. CASE ~\E i \in DOMAIN group[t] : Failed(group[t][i])
      <4>1. \A v \in Range(group[t]) : ~Failed(v)
        BY <3>3 DEF Range
      <4>2. CASE \A v \in Range(group[t]) : Settled(v)
        BY <2>2, <3>1, <3>3, <4>2 DEF AllSettledOrAnyFailed_poll
      <4>3. CASE ~\A v \in Range(group[t]) : Settled(v)
        BY <2>2, <3>1, <3>3, <4>1, <4>3 DEF AllSettledOrAnyFailed_poll, Suspend
      <4>. QED BY <4>2, <4>3
    <3>. QED BY <3>2, <3>3
  <2>3. CASE AnySettled_poll(t)
    <3>1. leaf[t] = "race" /\ Range(group[t]) \in SUBSET Task
      BY <1>3, <2>3 DEF AnySettled_poll, Polling
    <3>2. CASE \E i \in DOMAIN group[t] : Settled(group[t][i])
      BY <2>3, <3>1, <3>2 DEF AnySettled_poll
    <3>3. CASE ~\E i \in DOMAIN group[t] : Settled(group[t][i])
      <4>1. \A v \in Range(group[t]) : ~Settled(v)
        BY <3>3 DEF Range
      <4>. QED BY <2>3, <3>1, <3>3, <4>1 DEF AnySettled_poll, Suspend
    <3>. QED BY <3>2, <3>3
  <2>. QED BY <2>1, <2>2, <2>3
<1>5. waiters \in [Task -> Seq(Task)]
  BY <1>0 DEF TypeOK, NodeTypes
<1>6. \A v \in Task : Range(waiters[v]) \subseteq Range(waiters'[v])
  BY <1>4, <1>5, ParkOnHolds
<1>7. \A u \in Task \ {t} : FutureKept(u) /\ ParkingKept(u)
  BY <1>1, <1>2, <1>6, AddingKeeps DEF FutureKept, nurseryVars, timerVars
<1>8. stack' = stack \/ (stack' = Tail(stack) /\ WaitsProperly(t)')
  <2>1. SUFFICES ASSUME stack' # stack PROVE stack' = Tail(stack) /\ WaitsProperly(t)'
    OBVIOUS
  <2>2. \A v \in on : t \in Range(waiters'[v])
    BY <1>4, <1>5, <2>1, ParkOnHolds
  <2>3. leaf' = leaf /\ stack' = Tail(stack) /\ group' = group
    BY <1>1, <1>4, <2>1
  <2>4. CASE leaf[t] = "settle_all"
    <3>1. \A v \in Range(group[t]) :
            IF Settled(v) THEN failure[v] = "none" ELSE t \in Range(waiters'[v])
      BY <1>4, <2>1, <2>2, <2>4 DEF PendingOf, Failed
    <3>2. \E v \in Range(group[t]) : ~Settled(v)
      BY <1>4, <2>1, <2>4
    <3>. QED BY <1>1, <2>3, <2>4, <3>1, <3>2 DEF WaitsProperly, Settled
  <2>5. CASE leaf[t] # "settle_all"
    BY <1>1, <1>4, <2>1, <2>2, <2>3, <2>5 DEF WaitsProperly, Settled
  <2>. QED BY <2>3, <2>4, <2>5
<1>9. \A u \in Task : InFlight(u) => InFlight(u)'
  BY <1>1 DEF InFlight
<1>. QED BY <1>0, <1>1, <1>7, <1>8, <1>9, TurnKeepsWakes

\* A future that parks on a signal that has not fired will be woken by it.
LEMMA ParkingArms ==
  ASSUME TypeOK, ExtentInv, NurseriesExist, NEW t \in Task, ~Aborted(t),
         UNCHANGED <<frames, owner, cancelled>>, cancelWaiters' = ParkOnSignal(t)
  PROVE  SignalArmed(t)'
<1>1. Ambient(t)' = Ambient(t)
  BY DEF Ambient
<1>2. Ambient(t) # None => ~cancelled[Ambient(t)] /\ t \in Range(cancelWaiters'[Ambient(t)])
  <2>1. Ambient(t) # None => Ambient(t) \in born /\ Ambient(t) \in ancestors[Ambient(t)]
    BY AmbientExists DEF ExtentInv, ExtentTree
  <2>. QED BY <2>1, ParkOnSignalHolds DEF Aborted, IsCancelled
<1>. QED BY <1>1, <1>2 DEF SignalArmed

\* Sleep::poll: a sleep that suspends holds an armed registration of its own.
LEMMA SleepKeepsWakes ==
  ASSUME WakeInv, TypeOK', NEW t \in Task, Sleep_poll(t)
  PROVE  NoLostWake'
<1>0. TypeOK /\ ExtentInv /\ SleepsOwnTheirSlot /\ NurseriesExist /\ TimersAreKnown /\ NoLostWake
  BY DEF WakeInv, LatchInv
<1>1. /\ Current(t) /\ leaf[t] = "sleep" /\ t # None
      /\ UNCHANGED <<nodeVars, group, index, frames, children, cancelled, failed, failWaiters,
                     timerWaiters, microtasks, tail>>
  BY ExecutorAssumption DEF Sleep_poll, Polling
<1>2. \A u \in Task : InFlight(u) => InFlight(u)'
  BY <1>1 DEF InFlight
<1>3. CASE Aborted(t) \/ (slot[t] # None /\ slotState[slot[t]] = "fired")
  <2>1. /\ UNCHANGED <<cancelWaiters, stack>> /\ leaf' = [leaf EXCEPT ![t] = "none"]
        /\ slotState' = IF slot[t] = None THEN slotState
                        ELSE [slotState EXCEPT ![slot[t]] = "free"]
        /\ sleeper' = IF slot[t] = None THEN sleeper
                      ELSE [sleeper EXCEPT ![slot[t]] = None]
        /\ slot' = [slot EXCEPT ![t] = None]
    BY <1>3 DEF Sleep_poll, Raise, Resume
  <2>2. slot[t] # None => slot[t] \in Timer /\ sleeper[slot[t]] = t
    BY <1>0, <1>1 DEF SleepsOwnTheirSlot, TypeOK, FutureTypes
  <2>3. \A u \in Task \ {t} : FutureKept(u) /\ ParkingKept(u)
    <3>1. \A s \in Timer : s # slot[t] => slotState'[s] = slotState[s] /\ sleeper'[s] = sleeper[s]
      BY <1>0, <2>1 DEF TypeOK, TimerTypes
    <3>2. \A u \in Task \ {t} : FutureKept(u)
      BY <1>0, <1>1, <2>1 DEF FutureKept, nodeVars, TypeOK, FutureTypes
    <3>3. ASSUME NEW u \in Task \ {t}, NEW s \in Timer, sleeper[s] = u \/ sleeper[s] = None
          PROVE  slotState'[s] = slotState[s] /\ sleeper'[s] = sleeper[s]
      BY <1>1, <2>2, <3>1, <3>3, ExecutorAssumption
    <3>. QED BY <1>1, <2>1, <3>2, <3>3, AddingKeeps DEF nodeVars
  <2>. QED BY <1>0, <1>1, <1>2, <2>1, <2>3, TurnKeepsWakes DEF nodeVars
<1>4. CASE ~Aborted(t) /\ slot[t] = None
  <2>1. PICK s \in Timer :
          /\ slotState[s] = "free"
          /\ slotState' = [slotState EXCEPT ![s] = "armed"]
          /\ sleeper' = [sleeper EXCEPT ![s] = t]
          /\ slot' = [slot EXCEPT ![t] = s]
    BY <1>4 DEF Sleep_poll
  <2>2. cancelWaiters' = ParkOnSignal(t) /\ stack' = Tail(stack) /\ UNCHANGED leaf
    BY <1>4 DEF Sleep_poll, Suspend
  <2>3. /\ \A r \in Timer \ {s} : slotState'[r] = slotState[r] /\ sleeper'[r] = sleeper[r]
        /\ slotState'[s] = "armed" /\ sleeper'[s] = t /\ slot'[t] = s
    BY <1>0, <2>1 DEF TypeOK, TimerTypes, FutureTypes
  <2>4. \A u \in Task \ {t} : FutureKept(u)
    BY <1>0, <1>1, <2>1, <2>2 DEF FutureKept, nodeVars, TypeOK, FutureTypes
  <2>5. \A n \in born : Range(cancelWaiters[n]) \subseteq Range(cancelWaiters'[n])
    BY <1>0, <2>2, ParkOnSignalHolds DEF TypeOK, NurseryTypes
  <2>6. \A u \in Task \ {t} : ParkingKept(u)
    BY <1>1, <2>1, <2>3, <2>5, AddingKeeps DEF nodeVars
  <2>7. SignalArmed(t)'
    BY <1>0, <1>1, <1>4, <2>2, ParkingArms DEF nodeVars
  <2>8. WaitsProperly(t)'
    BY <1>1, <2>2, <2>3, <2>7, ExecutorAssumption DEF WaitsProperly
  <2>. QED BY <1>0, <1>1, <1>2, <2>2, <2>4, <2>6, <2>8, TurnKeepsWakes DEF nodeVars
<1>5. CASE ~Aborted(t) /\ slot[t] # None /\ slotState[slot[t]] # "fired"
  <2>1. /\ cancelWaiters' = ParkOnSignal(t) /\ stack' = Tail(stack)
        /\ UNCHANGED <<leaf, slot, slotState, sleeper>>
    BY <1>5 DEF Sleep_poll, Suspend
  <2>2. \A u \in Task : FutureKept(u)
    BY <1>1, <2>1 DEF FutureKept, nodeVars
  <2>3. \A n \in born : Range(cancelWaiters[n]) \subseteq Range(cancelWaiters'[n])
    BY <1>0, <2>1, ParkOnSignalHolds DEF TypeOK, NurseryTypes
  <2>4. \A u \in Task : ParkingKept(u)
    BY <1>1, <2>1, <2>3, AddingKeeps DEF nodeVars
  <2>5. SignalArmed(t)'
    BY <1>0, <1>1, <1>5, <2>1, ParkingArms DEF nodeVars
  <2>6. slotState[slot[t]] = "armed" /\ sleeper[slot[t]] = t
    <3>1. slot[t] \in Timer /\ sleeper[slot[t]] = t
      BY <1>0, <1>1, <1>5 DEF SleepsOwnTheirSlot, TypeOK, FutureTypes
    <3>. QED BY <1>0, <1>1, <1>5, <3>1 DEF TimersAreKnown
  <2>7. WaitsProperly(t)'
    BY <1>1, <1>5, <2>1, <2>5, <2>6 DEF WaitsProperly
  <2>. QED BY <1>0, <1>1, <1>2, <2>1, <2>2, <2>4, <2>7, TurnKeepsWakes DEF nodeVars
<1>. QED BY <1>3, <1>4, <1>5 DEF Sleep_poll

\* unpark_from takes the entries of one task only.
LEMMA UnparkKeeps ==
  ASSUME NEW list \in Seq(OptTask), NEW t \in Task, NEW u \in Task \ {t},
         u \in Range(list)
  PROVE  u \in Range(Unpark(list, t))
<1>1. PICK i \in DOMAIN list : list[i] = u
  BY DEF Range
<1>2. i \in DOMAIN Unpark(list, t) /\ Unpark(list, t)[i] = u
  BY <1>1 DEF Unpark
<1>. QED BY <1>2 DEF Range

\* TimerHandle::wait parks on the timer and on the signal.
LEMMA TimerWaitKeepsWakes ==
  ASSUME WakeInv, TypeOK', NEW t \in Task, TimerWait_poll(t)
  PROVE  NoLostWake'
<1>0. TypeOK /\ ExtentInv /\ NurseriesExist /\ TimersAreKnown /\ NoLostWake
  BY DEF WakeInv, LatchInv
<1>1. /\ Current(t) /\ leaf[t] = "timer"
      /\ UNCHANGED <<nodeVars, group, slot, index, frames, children, cancelled, failed,
                     failWaiters, slotState, sleeper, microtasks, tail>>
  BY DEF TimerWait_poll, Polling
<1>2. \A u \in Task : InFlight(u) => InFlight(u)'
  BY <1>1 DEF InFlight
<1>3. PICK s \in Timer : s = slot[t]
  BY <1>0, <1>1 DEF TimersAreKnown, TimerHandles
<1>4. timerWaiters \in [Timer -> Seq(OptTask)] /\ t \in OptTask
  BY <1>0 DEF TypeOK, TimerTypes, OptTask
<1>5. \A u \in Task \ {t} : leaf'[u] = leaf[u]
  BY <1>0 DEF TimerWait_poll, Raise, Resume, TypeOK, FutureTypes
<1>6. \A u \in Task \ {t} : FutureKept(u)
  BY <1>1, <1>5 DEF FutureKept, nodeVars
<1>7. CASE slotState[s] # "armed" \/ Aborted(t)
  <2>1. /\ UNCHANGED <<cancelWaiters, stack>>
        /\ \/ timerWaiters' = timerWaiters
           \/ timerWaiters' = [timerWaiters EXCEPT ![s] = Unpark(@, t)]
    BY <1>3, <1>7 DEF TimerWait_poll
  <2>2. \A u \in Task \ {t} : \A r \in Timer :
          u \in Range(timerWaiters[r]) => u \in Range(timerWaiters'[r])
    BY <1>4, <2>1, UnparkKeeps
  <2>3. \A u \in Task \ {t} : ParkingKept(u)
    BY <1>1, <2>1, <2>2, AddingKeeps DEF nodeVars
  <2>. QED BY <1>0, <1>1, <1>2, <1>6, <2>1, <2>3, TurnKeepsWakes DEF nodeVars
<1>8. CASE slotState[s] = "armed" /\ ~Aborted(t)
  <2>1. /\ timerWaiters' = [timerWaiters EXCEPT ![s] = Append(@, t)]
        /\ cancelWaiters' = ParkOnSignal(t) /\ stack' = Tail(stack) /\ UNCHANGED leaf
    BY <1>3, <1>8 DEF TimerWait_poll, Suspend
  <2>2. /\ \A r \in Timer : Range(timerWaiters[r]) \subseteq Range(timerWaiters'[r])
        /\ t \in Range(timerWaiters'[s])
    <3>1. timerWaiters'[s] = Append(timerWaiters[s], t)
          /\ \A r \in Timer \ {s} : timerWaiters'[r] = timerWaiters[r]
      BY <1>4, <2>1
    <3>2. Range(timerWaiters'[s]) = Range(timerWaiters[s]) \cup {t}
      BY <1>4, <3>1, RangeAppend
    <3>. QED BY <3>1, <3>2
  <2>3. \A n \in born : Range(cancelWaiters[n]) \subseteq Range(cancelWaiters'[n])
    BY <1>0, <2>1, ParkOnSignalHolds DEF TypeOK, NurseryTypes
  <2>4. \A u \in Task \ {t} : ParkingKept(u)
    BY <1>1, <2>2, <2>3, AddingKeeps DEF nodeVars
  <2>5. SignalArmed(t)'
    BY <1>0, <1>1, <1>8, <2>1, ParkingArms DEF nodeVars
  <2>6. WaitsProperly(t)'
    BY <1>1, <1>3, <1>8, <2>1, <2>2, <2>5 DEF WaitsProperly
  <2>. QED BY <1>0, <1>1, <1>2, <1>6, <2>1, <2>4, <2>6, TurnKeepsWakes DEF nodeVars
<1>. QED BY <1>7, <1>8

\* NodeJoin::poll parks the drain of nursery_run on the child it waits for and
\* on the latch of the nursery.
LEMMA DrainKeepsWakes ==
  ASSUME WakeInv, TypeOK', NEW t \in Task, nursery_run_drain(t)
  PROVE  NoLostWake'
<1>0. TypeOK /\ NurseriesExist /\ TimersAreKnown /\ NoLostWake
  BY DEF WakeInv, LatchInv
<1>1. /\ Current(t) /\ leaf[t] = "drain"
      /\ UNCHANGED <<status, failure, owner, group, slot, children, cancelled, failed,
                     cancelWaiters, timerVars, microtasks, tail>>
  BY DEF nursery_run_drain, Polling
<1>2. \A u \in Task : InFlight(u) => InFlight(u)'
  BY <1>1 DEF InFlight
<1>3. \A u \in Task \ {t} : FutureKept(u)
  <2>1. \A u \in Task \ {t} : leaf'[u] = leaf[u] /\ index'[u] = index[u] /\ frames'[u] = frames[u]
    BY <1>0 DEF nursery_run_drain, Raise, Resume, TypeOK, FutureTypes
  <2>. QED BY <1>1, <2>1 DEF FutureKept
<1>4. PICK n \in Nursery : n = Head(frames[t])
  BY <1>0, <1>1 DEF TypeOK, FutureTypes, Operands
<1>5. CASE UNCHANGED <<waiters, failWaiters, stack>>
  <2>1. \A u \in Task : ParkingKept(u)
    BY <1>1, <1>5 DEF ParkingKept, Settled, timerVars
  <2>. QED BY <1>0, <1>1, <1>2, <1>3, <1>5, <2>1, TurnKeepsWakes
<1>6. CASE ~UNCHANGED <<waiters, failWaiters, stack>>
  <2>1. PICK i \in DOMAIN children[n] : i = index[t]
    <3>1. ~Drained(n, index[t])
      BY <1>4, <1>6 DEF nursery_run_drain
    <3>2. index[t] \in Nat \ {0}
      BY <1>0 DEF TypeOK, FutureTypes
    <3>3. children[n] \in Seq(Task)
      BY <1>0 DEF TypeOK, NurseryTypes
    <3>4. Len(children[n]) \in Nat /\ DOMAIN children[n] = 1..Len(children[n])
      BY <3>3
    <3>. QED BY <3>1, <3>2, <3>4 DEF Drained
  <2>2. PICK c \in Task : c = children[n][i]
    BY <1>0 DEF TypeOK, NurseryTypes
  <2>3. /\ failed[n] = None /\ ~Settled(c)
        /\ failWaiters' = [failWaiters EXCEPT ![n] = Append(@, t)]
        /\ waiters' = ParkOn(waiters, t, {c})
        /\ stack' = Tail(stack) /\ UNCHANGED <<leaf, index, frames>>
    BY <1>4, <1>6, <2>1, <2>2 DEF nursery_run_drain, DrainParksOnFail, Suspend
  <2>4. /\ \A v \in Task : Range(waiters[v]) \subseteq Range(waiters'[v])
        /\ t \in Range(waiters'[c])
    BY <1>0, <2>3, ParkOnHolds DEF TypeOK, NodeTypes
  <2>5. /\ \A m \in Nursery : Range(failWaiters[m]) \subseteq Range(failWaiters'[m])
        /\ t \in Range(failWaiters'[n])
    <3>1. failWaiters'[n] = Append(failWaiters[n], t) /\ failWaiters[n] \in Seq(Task)
          /\ \A m \in Nursery \ {n} : failWaiters'[m] = failWaiters[m]
      BY <1>0, <2>3 DEF TypeOK, NurseryTypes
    <3>2. Range(failWaiters'[n]) = Range(failWaiters[n]) \cup {t}
      BY <3>1, RangeAppend
    <3>. QED BY <3>1, <3>2
  <2>6. \A u \in Task : ParkingKept(u)
    BY <1>1, <2>4, <2>5, AddingKeeps DEF timerVars
  <2>7. leaf'[t] = "drain" /\ Head(frames'[t]) = n /\ index'[t] = i /\ failed'[n] = None
    BY <1>1, <1>4, <2>1, <2>3
  <2>8. i <= Len(children'[n]) /\ children'[n][i] = c /\ ~Settled(c)'
    BY <1>0, <1>1, <2>2, <2>3 DEF TypeOK, NurseryTypes, Settled
  <2>9. WaitsProperly(t)'
    BY <2>4, <2>5, <2>7, <2>8 DEF WaitsProperly
  <2>. QED BY <1>0, <1>1, <1>2, <1>3, <2>3, <2>6, <2>9, TurnKeepsWakes
<1>. QED BY <1>5, <1>6

\* A task that returns or fails out of its own code settles.
LEMMA EndKeepsWakes ==
  ASSUME WakeInv, TypeOK', NEW t \in Task, Return(t) \/ Unwind(t), frames[t] = <<>>
  PROVE  NoLostWake'
<1>1. \E f : Current(t) /\ settle(t, f)
  BY DEF Return, Unwind, Running
<1>2. UNCHANGED <<leaf, group, slot, index, frames, owner>>
  BY DEF Return, Unwind, settle
<1>. QED BY <1>1, <1>2, SettleKeepsWakes DEF FutureKept

\* What is left of the loop wakes nobody and drops no wake.
LEMMA BoundaryKeepsWakes ==
  ASSUME WakeInv, TypeOK', report_unobserved_failures \/ exit_loop \/ UNCHANGED vars
  PROVE  NoLostWake'
<1>1. UNCHANGED parkVars /\ UNCHANGED <<microtasks, tail, stack>>
      /\ \A u \in Task : FutureKept(u)
  BY DEF report_unobserved_failures, exit_loop, vars, nodeVars, futureVars, nurseryVars,
     timerVars, loopVars, parkVars, FutureKept
<1>2. \A u \in Task : /\ ParkingKept(u) /\ (Suspended(u)' => Suspended(u))
                      /\ InFlight(u) => InFlight(u)'
  BY <1>1 DEF ParkingKept, parkVars, Settled, Suspended, InFlight
<1>. QED BY <1>1, <1>2, LoopKeepsWakes DEF WakeInv, LatchInv

\* The inductive step of WakeInv.
LEMMA WakeStep == WakeInv /\ [Next]_vars => WakeInv'
<1>. SUFFICES ASSUME WakeInv, [Next]_vars PROVE WakeInv'
  OBVIOUS
<1>1. TypeOK' /\ SleepsOwnTheirSlot' /\ ExtentInv' /\ LatchInv'
  BY TypeStep, VerdictStep, ExtentStep, LatchStep DEF WakeInv
<1>2. TimersAreKnown' /\ GroupsAreKnown'
  BY TimersKnownStep, GroupsKnownStep DEF WakeInv
<1>3. ASSUME NEW t \in Task, Operations(t) PROVE NoLostWake'
  <2>1. CASE spawn_in(t)
    BY <1>1, <2>1, SpawnKeepsWakes
  <2>2. CASE timer_cancel(t)
    BY <1>1, <2>2, TimerCancelKeepsWakes
  <2>3. CASE (Return(t) \/ Unwind(t)) /\ frames[t] = <<>>
    BY <1>1, <2>3, EndKeepsWakes
  <2>. QED BY <1>1, <1>3, <2>1, <2>2, <2>3, CallsKeepWakes DEF Operations
<1>4. ASSUME NEW t \in Task, Polls(t) PROVE NoLostWake'
  BY <1>1, <1>4, YieldKeepsWakes, JoinsKeepWakes, SleepKeepsWakes, TimerWaitKeepsWakes,
     DrainKeepsWakes DEF Polls
<1>5. ASSUME Loop \/ UNCHANGED vars PROVE NoLostWake'
  BY <1>1, <1>5, CancelVisitKeepsWakes, FailWakeKeepsWakes, PopKeepsWakes, FireKeepsWakes,
     BoundaryKeepsWakes DEF Loop
<1>6. NoLostWake'
  BY <1>3, <1>4, <1>5 DEF Next, Terminated
<1>. QED BY <1>1, <1>2, <1>6 DEF WakeInv

\* The root is being polled when the loop starts.
LEMMA WakeInit == Init => WakeInv
<1>. SUFFICES ASSUME Init PROVE WakeInv
  OBVIOUS
<1>1. TypeOK /\ ExtentInv /\ LatchInv
  BY TypeInit, ExtentInit, LatchInit
<1>2. SleepsOwnTheirSlot /\ TimersAreKnown
  BY DEF Init, SleepsOwnTheirSlot, TimersAreKnown
<1>3. GroupsAreKnown
  BY RangeEmpty DEF Init, GroupsAreKnown
<1>4. NoLostWake
  <2>1. \A u \in Task : status[u] = "live" => u = Root
    BY DEF Init
  <2>2. Root \in Range(stack)
    BY DEF Init, Range
  <2>. QED BY <2>1, <2>2 DEF NoLostWake, Suspended
<1>. QED BY <1>1, <1>2, <1>3, <1>4 DEF WakeInv

\* TaskNode::settle, Nursery::cancel and fail, fire_timer and TimerBody::settle
\* against every park_on: for any number of tasks, nurseries and timers, a
\* suspended task is queued, or what it waits for is outstanding and holds it.
THEOREM NoWakeIsLost == Spec => []NoLostWake
<1>1. WakeInv => NoLostWake
  BY DEF WakeInv
<1>. QED BY <1>1, WakeInit, WakeStep, PTL DEF Spec

-----------------------------------------------------------------------------
(***************************************************************************)
(* The boundary of the microtask queue, and the end of the program.        *)
(***************************************************************************)

\* Only a spawn registers a child.
LEMMA ChildrenStep == TypeOK /\ LatchInv /\ ChildrenAreOwned /\ [Next]_vars => ChildrenAreOwned'
<1>. SUFFICES ASSUME TypeOK, LatchInv, ChildrenAreOwned, [Next]_vars PROVE ChildrenAreOwned'
  OBVIOUS
<1>1. \A u \in Task : status[u] # "unborn" => status'[u] # "unborn"
  BY StatusGrows
<1>2. \A n \in Nursery : \A i \in DOMAIN children[n] : children[n][i] \in Task
  BY DEF TypeOK, NurseryTypes
<1>3. ASSUME NEW t \in Task, spawn_in(t) PROVE ChildrenAreOwned'
  <2>1. PICK u \in Task, n \in {Ambient(t)} \cup {m \in born : detached[m]} :
          /\ status[u] = "unborn" /\ status' = [status EXCEPT ![u] = "live"]
          /\ owner' = [owner EXCEPT ![u] = n]
          /\ children' = IF n = None THEN children
                         ELSE [children EXCEPT ![n] = Append(@, u)]
    BY <1>3 DEF spawn_in
  <2>2. n # None => n \in Nursery
    BY AmbientType DEF TypeOK, NurseryTypes
  <2>3. owner'[u] = n /\ status'[u] = "live" /\ \A v \in Task \ {u} : owner'[v] = owner[v]
    BY <2>1 DEF TypeOK, NodeTypes
  <2>4. \A m \in Nursery : \A i \in DOMAIN children[m] : children[m][i] # u
    BY <2>1 DEF ChildrenAreOwned
  <2>5. CASE n = None
    BY <1>1, <1>2, <2>1, <2>3, <2>4, <2>5 DEF ChildrenAreOwned
  <2>6. CASE n # None
    <3>1. children[n] \in Seq(Task) /\ children'[n] = Append(children[n], u)
          /\ \A m \in Nursery \ {n} : children'[m] = children[m]
      BY <2>1, <2>2, <2>6 DEF TypeOK, NurseryTypes
    <3>2. ASSUME NEW m \in Nursery, NEW i \in DOMAIN children'[m]
          PROVE  owner'[children'[m][i]] = m /\ status'[children'[m][i]] # "unborn"
      <4>1. CASE i \in DOMAIN children[m] /\ children'[m][i] = children[m][i]
        BY <1>1, <1>2, <2>3, <2>4, <4>1 DEF ChildrenAreOwned
      <4>2. CASE m = n /\ children'[m][i] = u
        BY <2>3, <4>2
      <4>. QED BY <3>1, <3>2, <4>1, <4>2
    <3>3. Range(children'[n]) = Range(children[n]) \cup {u}
      BY <3>1, RangeAppend
    <3>4. ASSUME NEW v \in Task \ {u}, owner'[v] # None
          PROVE  v \in Range(children'[owner'[v]])
      <4>1. owner'[v] = owner[v] /\ owner[v] \in Nursery
        BY <2>3, <3>4 DEF TypeOK, NodeTypes
      <4>2. v \in Range(children[owner[v]])
        BY <3>4, <4>1 DEF ChildrenAreOwned
      <4>3. CASE owner[v] = n
        BY <3>3, <4>1, <4>2, <4>3
      <4>4. CASE owner[v] # n
        BY <3>1, <4>1, <4>2, <4>4
      <4>. QED BY <4>3, <4>4
    <3>5. u \in Range(children'[owner'[u]])
      BY <2>3, <3>3
    <3>. QED BY <3>2, <3>4, <3>5 DEF ChildrenAreOwned
  <2>. QED BY <2>5, <2>6
<1>4. ASSUME UNCHANGED <<owner, children>> PROVE ChildrenAreOwned'
  BY <1>1, <1>2, <1>4 DEF ChildrenAreOwned
<1>5. ASSUME NEW t \in Task, Operations(t), ~spawn_in(t) PROVE UNCHANGED <<owner, children>>
  <2>1. CASE sleep(t) \/ yield_now(t) \/ await(t) \/ settle_all(t) \/ race(t) \/ timer_wait(t)
    BY <2>1 DEF sleep, yield_now, await, settle_all, race, timer_wait, Await, nodeVars, nurseryVars
  <2>2. CASE nursery_new(t) \/ nursery_new_detached(t) \/ cancel(t) \/ timer(t) \/ timer_cancel(t)
             \/ panic(t) \/ guarded_async(t) \/ Return(t) \/ Unwind(t)
    BY <2>2 DEF nursery_new, nursery_new_detached, cancel, timer, timer_cancel, panic,
       guarded_async, Return, Unwind, settle, nodeVars, nurseryVars
  <2>. QED BY <1>5, <2>1, <2>2 DEF Operations
<1>6. ASSUME NEW t \in Task, Polls(t) PROVE UNCHANGED <<owner, children>>
  BY <1>6 DEF Polls, YieldOnce_poll, TaskJoin_poll, AllSettledOrAnyFailed_poll,
     AnySettled_poll, Sleep_poll, TimerWait_poll, nursery_run_drain, nodeVars, nurseryVars
<1>7. ASSUME Loop \/ UNCHANGED vars PROVE UNCHANGED <<owner, children>>
  BY <1>7 DEF Loop, Nursery_cancel, fail_wake, drain_microtasks, report_unobserved_failures,
     fire_timer, exit_loop, vars, nodeVars, nurseryVars
<1>. QED BY <1>3, <1>4, <1>5, <1>6, <1>7 DEF Next, Terminated

\* Polls happen while the queue is drained, and every step of a poll leaves the
\* loop where it is.
LEMMA PollsAreInTheDrain ==
  ASSUME NEW t \in Task, Operations(t) \/ Polls(t)
  PROVE  Current(t) /\ pc = "drain" /\ pc' = "drain"
<1>1. CASE sleep(t) \/ yield_now(t) \/ await(t) \/ settle_all(t) \/ race(t) \/ timer_wait(t)
  BY <1>1 DEF sleep, yield_now, await, settle_all, race, timer_wait, Await, loopVars,
     Operation, Running, Current
<1>2. CASE spawn_in(t) \/ nursery_new(t) \/ nursery_new_detached(t) \/ cancel(t) \/ timer(t)
           \/ timer_cancel(t) \/ panic(t)
  BY <1>2 DEF spawn_in, nursery_new, nursery_new_detached, cancel, timer, timer_cancel,
     panic, loopVars, Operation, Running, Current
<1>3. CASE guarded_async(t) \/ Return(t) \/ Unwind(t)
  BY <1>3 DEF guarded_async, Return, Unwind, settle, loopVars, Running, Current
<1>4. CASE Polls(t)
  BY <1>4 DEF Polls, YieldOnce_poll, TaskJoin_poll, AllSettledOrAnyFailed_poll,
     AnySettled_poll, Sleep_poll, TimerWait_poll, nursery_run_drain, Polling, Current
<1>. QED BY <1>1, <1>2, <1>3, <1>4 DEF Operations

\* The loop leaves the queue only when it is exhausted.
LEMMA IdleStep == LoopIsIdle /\ [Next]_vars => LoopIsIdle'
<1>. SUFFICES ASSUME LoopIsIdle, [Next]_vars PROVE LoopIsIdle'
  OBVIOUS
<1>1. ASSUME NEW t \in Task, Operations(t) \/ Polls(t) PROVE LoopIsIdle'
  BY <1>1, PollsAreInTheDrain DEF LoopIsIdle
<1>2. ASSUME Nursery_cancel \/ fail_wake \/ drain_microtasks \/ fire_timer PROVE LoopIsIdle'
  BY <1>2 DEF Nursery_cancel, fail_wake, drain_microtasks, fire_timer, LoopIsIdle, Quiet
<1>3. ASSUME report_unobserved_failures PROVE LoopIsIdle'
  BY <1>3 DEF report_unobserved_failures, LoopIsIdle, Quiet, Exhausted
<1>4. ASSUME exit_loop PROVE LoopIsIdle'
  BY <1>4 DEF exit_loop, LoopIsIdle, Quiet, timerVars
<1>5. ASSUME UNCHANGED vars PROVE LoopIsIdle'
  BY <1>5 DEF vars, timerVars, loopVars, LoopIsIdle, Quiet
<1>. QED BY <1>1, <1>2, <1>3, <1>4, <1>5 DEF Next, Loop, Terminated

\* The invariant of the boundary.
BoundaryInv == WakeInv /\ ChildrenAreOwned /\ LoopIsIdle

LEMMA BoundaryInit == Init => BoundaryInv
<1>. SUFFICES ASSUME Init PROVE BoundaryInv
  OBVIOUS
<1>. QED BY WakeInit DEF Init, BoundaryInv, ChildrenAreOwned, LoopIsIdle

LEMMA BoundaryStep == BoundaryInv /\ [Next]_vars => BoundaryInv'
BY WakeStep, ChildrenStep, IdleStep DEF BoundaryInv, WakeInv

\* At the boundary no task is queued or being polled, so a live one waits
\* properly.
LEMMA AtTheBoundary ==
  ASSUME BoundaryInv, pc \in {"macro", "done"}, NEW t \in Task, status[t] = "live"
  PROVE  WaitsProperly(t)
<1>1. Range(stack) = {} /\ Range(microtasks) = {} /\ Range(tail) = {}
  BY RangeEmpty DEF BoundaryInv, LoopIsIdle, Quiet
<1>. QED BY <1>1 DEF BoundaryInv, WakeInv, NoLostWake, Suspended, InFlight

\* Nursery::cancel: by the time the microtask queue is exhausted, no sleep or
\* timer wait is left suspended anywhere in a cancelled extent, however deep
\* and whenever it was entered.
THEOREM CancelledWaitsEnd == Spec => []CancelIsPrompt
<1>1. BoundaryInv => CancelIsPrompt
  <2>. SUFFICES ASSUME BoundaryInv, pc \in {"macro", "done"},
                       NEW t \in Task, status[t] = "live", leaf[t] \in {"sleep", "timer"},
                       Aborted(t)
                PROVE  FALSE
    BY DEF CancelIsPrompt
  <2>1. Ambient(t) # None /\ ~cancelled[Ambient(t)]
    BY AtTheBoundary DEF WaitsProperly, SignalArmed, Aborted
  <2>2. Ambient(t) \in born /\ ancestors[Ambient(t)] \subseteq born
    BY <2>1, AmbientExists DEF BoundaryInv, WakeInv, LatchInv, ExtentInv, ExtentTree
  <2>3. PICK a \in ancestors[Ambient(t)] : cancelled[a]
    BY DEF Aborted, IsCancelled
  <2>4. CancelReachesExtent /\ Quiet
    BY ExtentImplies DEF BoundaryInv, WakeInv, LoopIsIdle
  <2>. QED BY <2>1, <2>2, <2>3, <2>4 DEF CancelReachesExtent
<1>. QED BY <1>1, BoundaryInit, BoundaryStep, PTL DEF Spec

\* block_on, advance_timers: when the program ends, a task that is still live
\* joins one that is live too; none sleeps, is queued, or could answer.
THEOREM NothingRunnableIsLeft == Spec => []ExitLeavesNothingRunnable
<1>1. BoundaryInv => ExitLeavesNothingRunnable
  <2>. SUFFICES ASSUME BoundaryInv, pc = "done", NEW t \in Task, status[t] = "live"
                PROVE  \/ /\ leaf[t] \in {"join", "race", "settle_all"}
                          /\ \E u \in Range(group[t]) : status[u] = "live"
                       \/ /\ leaf[t] = "drain"
                          /\ \E c \in Range(children[Head(frames[t])]) : status[c] = "live"
    BY DEF ExitLeavesNothingRunnable
  <2>0. TypeOK /\ WaitsProperly(t)
    BY AtTheBoundary DEF BoundaryInv, WakeInv
  <2>1. \A s \in Timer : slotState[s] # "armed"
    BY DEF BoundaryInv, LoopIsIdle
  <2>2. \A u \in Task : status[u] # "unborn" /\ ~Settled(u) => status[u] = "live"
    BY <2>0 DEF TypeOK, NodeTypes, Settled
  <2>3. CASE leaf[t] \in {"join", "race", "settle_all"}
    <3>1. \E u \in Range(group[t]) : ~Settled(u)
      <4>1. group[t] # <<>> /\ group[t] \in Seq(Task)
        BY <2>0, <2>3 DEF TypeOK, Operands, FutureTypes
      <4>2. Head(group[t]) \in Range(group[t])
        BY <4>1, RangeHead
      <4>. QED BY <2>0, <2>3, <4>2 DEF WaitsProperly
    <3>2. \A u \in Range(group[t]) : u \in Task /\ status[u] # "unborn"
      BY <2>0 DEF BoundaryInv, WakeInv, GroupsAreKnown, TypeOK, FutureTypes, Range
    <3>. QED BY <2>2, <2>3, <3>1, <3>2
  <2>4. CASE leaf[t] \in {"sleep", "timer"}
    BY <2>0, <2>1, <2>4 DEF WaitsProperly, TypeOK, FutureTypes, Operands
  <2>5. CASE leaf[t] = "drain"
    <3>1. PICK n \in Nursery : n = Head(frames[t])
      BY <2>0, <2>5 DEF TypeOK, FutureTypes, Operands
    <3>2. index[t] \in DOMAIN children[n] /\ ~Settled(children[n][index[t]])
      BY <2>0, <2>5, <3>1 DEF WaitsProperly, TypeOK, FutureTypes, NurseryTypes
    <3>3. PICK c \in Task : c = children[n][index[t]]
      BY <2>0, <3>2 DEF TypeOK, NurseryTypes
    <3>4. status[c] # "unborn" /\ c \in Range(children[n])
      BY <3>2, <3>3 DEF BoundaryInv, ChildrenAreOwned, Range
    <3>. QED BY <2>2, <2>5, <3>1, <3>2, <3>3, <3>4
  <2>. QED BY <2>0, <2>3, <2>4, <2>5 DEF WaitsProperly
<1>. QED BY <1>1, BoundaryInit, BoundaryStep, PTL DEF Spec

-----------------------------------------------------------------------------
(***************************************************************************)
(* A join returns when its extent has settled, and no failure is silent.   *)
(***************************************************************************)

\* The parts that the steps below keep together.
JoinParts ==
  /\ RunsAreOpen /\ DrainedAreSettled /\ FailuresAreLogged
  /\ OrphansAreDoomed /\ FailuresAreKnown /\ JoinedBeforeReturn

\* The inductive invariant.
JoinInv == TypeOK /\ LatchInv /\ ChildrenAreOwned /\ LoopIsIdle /\ JoinParts

joinVars == <<status, failure, owner, children, born, detached, frames, ended, settleLog>>

\* A drain that was not started by the step is where it was.
DrainsKept ==
  \A u \in Task : leaf'[u] = "drain" => leaf[u] = "drain" /\ index'[u] = index[u]

\* What has been observed or reported stays so.
KnownGrows ==
  \A u \in Task : observed[u] \/ reported[u] => observed'[u] \/ reported'[u]

\* A nursery that is cancelled, or next to be, stays so.
DoomGrows ==
  \A n \in Nursery :
    cancelled[n] \/ n \in Range(sweep) => cancelled'[n] \/ n \in Range(sweep')

\* A step that leaves the joins alone.
LEMMA JoinsKept ==
  ASSUME TypeOK, JoinParts, UNCHANGED joinVars, DrainsKept, KnownGrows, DoomGrows,
         pc' \in {"macro", "done"} => pc \in {"macro", "done"}
  PROVE  JoinParts'
<1>1. RunsAreOpen' /\ FailuresAreLogged' /\ JoinedBeforeReturn'
  BY DEF JoinParts, joinVars, RunsAreOpen, FailuresAreLogged, JoinedBeforeReturn, Settled
<1>2. DrainedAreSettled'
  BY DEF JoinParts, joinVars, DrainsKept, DrainedAreSettled, Settled
<1>3. OrphansAreDoomed'
  BY DEF JoinParts, joinVars, DoomGrows, OrphansAreDoomed, TypeOK, NodeTypes
<1>4. FailuresAreKnown'
  BY DEF JoinParts, joinVars, KnownGrows, FailuresAreKnown
<1>. QED BY <1>1, <1>2, <1>3, <1>4 DEF JoinParts

\* The operations and polls that do.
LEMMA OthersKeepJoins ==
  ASSUME TypeOK, JoinParts, NEW t \in Task,
         \/ cancel(t) \/ sleep(t) \/ yield_now(t) \/ await(t) \/ settle_all(t) \/ race(t)
         \/ timer(t) \/ timer_cancel(t) \/ timer_wait(t) \/ panic(t) \/ guarded_async(t)
         \/ YieldOnce_poll(t) \/ TaskJoin_poll(t) \/ AllSettledOrAnyFailed_poll(t)
         \/ AnySettled_poll(t) \/ Sleep_poll(t) \/ TimerWait_poll(t)
  PROVE  JoinParts'
<1>0. Current(t) /\ sweep = <<>> /\ pc' = "drain"
  BY PollsAreInTheDrain DEF Operations, Polls, Current, Quiet
<1>1. CASE cancel(t) \/ timer(t) \/ timer_cancel(t) \/ panic(t) \/ guarded_async(t)
  <2>1. UNCHANGED joinVars /\ UNCHANGED <<leaf, index, observed, reported, cancelled>>
    BY <1>1 DEF cancel, timer, timer_cancel, panic, guarded_async, joinVars, nodeVars,
       nurseryVars, loopVars
  <2>. QED BY <1>0, <2>1, RangeEmpty, JoinsKept DEF DrainsKept, KnownGrows, DoomGrows
<1>2. CASE sleep(t) \/ yield_now(t) \/ await(t) \/ settle_all(t) \/ race(t) \/ timer_wait(t)
  <2>1. \E kind \in Leaves \ {"drain"} : \E on, s : Await(t, kind, on, s)
    BY <1>2 DEF sleep, yield_now, await, settle_all, race, timer_wait, Leaves
  <2>2. UNCHANGED joinVars /\ UNCHANGED <<index, observed, reported, cancelled>> /\ DrainsKept
    BY <2>1 DEF Await, joinVars, nodeVars, nurseryVars, loopVars, DrainsKept, TypeOK, FutureTypes
  <2>. QED BY <1>0, <2>2, RangeEmpty, JoinsKept DEF KnownGrows, DoomGrows
<1>3. CASE \/ YieldOnce_poll(t) \/ TaskJoin_poll(t) \/ AllSettledOrAnyFailed_poll(t)
           \/ AnySettled_poll(t) \/ Sleep_poll(t) \/ TimerWait_poll(t)
  <2>1. UNCHANGED joinVars /\ UNCHANGED <<index, reported, cancelled>>
    BY <1>3 DEF YieldOnce_poll, TaskJoin_poll, AllSettledOrAnyFailed_poll, AnySettled_poll,
       Sleep_poll, TimerWait_poll, joinVars, nodeVars, nurseryVars
  <2>2. \A u \in Task : observed[u] => observed'[u]
    BY <1>3 DEF YieldOnce_poll, TaskJoin_poll, AllSettledOrAnyFailed_poll, AnySettled_poll,
       Sleep_poll, TimerWait_poll, nodeVars, ObserveAll, TypeOK, NodeTypes
  <2>3. leaf' = leaf \/ leaf' = [leaf EXCEPT ![t] = "none"]
    BY <1>3 DEF YieldOnce_poll, TaskJoin_poll, AllSettledOrAnyFailed_poll, AnySettled_poll,
       Sleep_poll, TimerWait_poll, Deliver, Resume, Raise
  <2>. QED BY <1>0, <2>1, <2>2, <2>3, RangeEmpty, JoinsKept
       DEF DrainsKept, KnownGrows, DoomGrows, TypeOK, FutureTypes
<1>. QED BY <1>1, <1>2, <1>3

\* The loop reports the failures of free tasks before it leaves the queue.
LEMMA LoopKeepsJoins ==
  ASSUME TypeOK, JoinParts, Loop \/ UNCHANGED vars
  PROVE  JoinParts'
<1>1. CASE Nursery_cancel
  <2>1. UNCHANGED joinVars /\ UNCHANGED <<leaf, index, observed, reported, pc>>
    BY <1>1 DEF Nursery_cancel, joinVars, nodeVars, futureVars
  <2>2. PICK h \in Nursery : h = Head(sweep) /\ Range(sweep) = {h} \cup Range(Tail(sweep))
    BY <1>1, RangeHead DEF Nursery_cancel, TypeOK, LoopTypes
  <2>3. CASE cancelled[h]
    BY <1>1, <2>1, <2>2, <2>3, JoinsKept DEF Nursery_cancel, DrainsKept, KnownGrows, DoomGrows
  <2>4. CASE ~cancelled[h]
    <3>1. cancelled' = [cancelled EXCEPT ![h] = TRUE]
          /\ sweep' = descendants[h] \o Tail(sweep)
      BY <1>1, <2>2, <2>4 DEF Nursery_cancel, CancelReach
    <3>2. Range(sweep') = Range(descendants[h]) \cup Range(Tail(sweep))
      <4>1. descendants[h] \in Seq(Nursery) /\ Tail(sweep) \in Seq(Nursery)
        BY <1>1 DEF Nursery_cancel, TypeOK, NurseryTypes, LoopTypes
      <4>. QED BY <3>1, <4>1, RangeConcat
    <3>3. DoomGrows
      BY <2>2, <3>1, <3>2 DEF DoomGrows, TypeOK, NurseryTypes
    <3>. QED BY <2>1, <3>3, JoinsKept DEF DrainsKept, KnownGrows
  <2>. QED BY <2>3, <2>4
<1>2. CASE fail_wake \/ drain_microtasks \/ fire_timer \/ exit_loop \/ UNCHANGED vars
  <2>1. /\ UNCHANGED joinVars /\ UNCHANGED <<leaf, index, observed, reported, cancelled, sweep>>
        /\ pc' \in {"macro", "done"} => pc \in {"macro", "done"}
    BY <1>2 DEF fail_wake, drain_microtasks, fire_timer, exit_loop, joinVars, vars, nodeVars,
       futureVars, nurseryVars, loopVars
  <2>. QED BY <2>1, JoinsKept DEF DrainsKept, KnownGrows, DoomGrows
<1>3. CASE report_unobserved_failures
  <2>1. /\ UNCHANGED joinVars /\ UNCHANGED <<leaf, index, observed, cancelled, sweep>>
        /\ reported' = [u \in Task |-> reported[u] \/ Unobserved(u)]
    BY <1>3 DEF report_unobserved_failures, joinVars, futureVars, nurseryVars
  <2>2. FailuresAreKnown'
    <3>. SUFFICES ASSUME NEW u \in Task, failure'[u] = "panic"
                  PROVE  /\ owner'[u] # None /\ detached'[owner'[u]] => observed'[u] \/ reported'[u]
                         /\ owner'[u] = None => observed'[u] \/ reported'[u]
      BY DEF FailuresAreKnown
    <3>1. failure[u] = "panic" /\ Settled(u)
      BY <2>1 DEF joinVars, JoinParts, FailuresAreLogged
    <3>. QED BY <2>1, <3>1 DEF joinVars, JoinParts, FailuresAreKnown, Unobserved
  <2>3. RunsAreOpen' /\ FailuresAreLogged' /\ JoinedBeforeReturn' /\ DrainedAreSettled'
        /\ OrphansAreDoomed'
    BY <2>1 DEF JoinParts, joinVars, RunsAreOpen, FailuresAreLogged, JoinedBeforeReturn,
       DrainedAreSettled, OrphansAreDoomed, Settled
  <2>. QED BY <2>2, <2>3 DEF JoinParts
<1>. QED BY <1>1, <1>2, <1>3 DEF Loop

\* A task spawned into a nursery that has ended is a task of a cancelled extent;
\* no task is spawned into one whose join has returned.
LEMMA SpawnKeepsJoins ==
  ASSUME JoinInv, NEW t \in Task, spawn_in(t)
  PROVE  JoinParts'
<1>0. TypeOK /\ JoinParts /\ ChildrenAreOwned /\ NurseriesExist /\ status[t] = "live"
      /\ sweep = <<>> /\ Current(t)
  BY PollsAreInTheDrain, CurrentIsLive DEF JoinInv, LatchInv, Operations, Current, Quiet
<1>1. PICK u \in Task, n \in {Ambient(t)} \cup {m \in born : detached[m]} :
        /\ status[u] = "unborn" /\ status' = [status EXCEPT ![u] = "live"]
        /\ owner' = [owner EXCEPT ![u] = n]
        /\ children' = IF n = None THEN children
                       ELSE [children EXCEPT ![n] = Append(@, u)]
  BY DEF spawn_in
<1>2. UNCHANGED <<failure, observed, reported, leaf, index, frames, born, detached, ended,
                  cancelled, sweep, settleLog, pc>>
  BY DEF spawn_in
<1>3. /\ status'[u] = "live" /\ owner'[u] = n
      /\ \A v \in Task \ {u} : status'[v] = status[v] /\ owner'[v] = owner[v]
      /\ failure[u] = "none"
  BY <1>0, <1>1 DEF TypeOK, NodeTypes, JoinParts, FailuresAreLogged, Settled
<1>4. n # None => n \in Nursery
  BY <1>0, <1>1, AmbientType DEF TypeOK, NurseryTypes
<1>5. \A m \in Nursery :
        \/ children'[m] = children[m]
        \/ m = n /\ children'[m] = Append(children[m], u)
  BY <1>0, <1>1, <1>4 DEF TypeOK, NurseryTypes
<1>6. n # None /\ ended[n] # "open" => n = owner[t]
  <2>1. frames[t] # <<>> => 1 \in DOMAIN frames[t] /\ Head(frames[t]) = frames[t][1]
    BY <1>0 DEF TypeOK, FutureTypes
  <2>. QED BY <1>0, <1>1, <1>4, <2>1 DEF Ambient, JoinParts, RunsAreOpen
<1>7. RunsAreOpen' /\ FailuresAreLogged'
  BY <1>0, <1>1, <1>2, <1>3 DEF JoinParts, RunsAreOpen, FailuresAreLogged, Settled
<1>8. OrphansAreDoomed'
  BY <1>0, <1>2, <1>3, <1>6 DEF JoinParts, OrphansAreDoomed
<1>9. FailuresAreKnown'
  BY <1>0, <1>2, <1>3 DEF JoinParts, FailuresAreKnown
<1>10. JoinedBeforeReturn'
  <2>1. ASSUME NEW m \in born, ended[m] = "ok" PROVE children'[m] = children[m]
    <3>1. m \in Nursery
      BY <1>0 DEF TypeOK, NurseryTypes
    <3>2. m # n
      <4>1. SUFFICES ASSUME m = owner[t] PROVE FALSE
        BY <1>6, <2>1, <3>1, ExecutorAssumption
      <4>2. t \in Range(children[m])
        BY <1>0, <3>1, <4>1, ExecutorAssumption DEF ChildrenAreOwned
      <4>. QED BY <1>0, <2>1, <4>2 DEF JoinParts, JoinedBeforeReturn, Settled
    <3>. QED BY <1>5, <3>1, <3>2
  <2>2. ASSUME NEW v, Settled(v), v \in Task PROVE Settled(v)'
    BY <1>1, <1>3, <2>2 DEF Settled
  <2>3. \A m \in born : \A v \in Range(children[m]) : v \in Task
    BY <1>0 DEF TypeOK, NurseryTypes, Range
  <2>. QED BY <1>0, <1>2, <2>1, <2>2, <2>3 DEF JoinParts, JoinedBeforeReturn
<1>11. DrainedAreSettled'
  <2>. SUFFICES ASSUME NEW v \in Task, leaf[v] = "drain",
                       NEW m \in Nursery, m = Head(frames[v])
                PROVE  /\ index[v] <= Len(children'[m]) + 1
                       /\ \A i \in DOMAIN children'[m] :
                            i < index[v] => status'[children'[m][i]] = "settled"
    <3>1. \A v \in Task : leaf[v] = "drain" => Head(frames[v]) \in Nursery
      BY <1>0 DEF TypeOK, FutureTypes, Operands
    <3>. QED BY <1>2, <3>1 DEF DrainedAreSettled, Settled
  <2>1. /\ index[v] <= Len(children[m]) + 1
        /\ \A i \in DOMAIN children[m] : i < index[v] => Settled(children[m][i])
    BY <1>0 DEF JoinParts, DrainedAreSettled
  <2>2. children[m] \in Seq(Task) /\ index[v] \in Nat
    BY <1>0 DEF TypeOK, NurseryTypes, FutureTypes
  <2>3. \A i \in DOMAIN children[m] : Settled(children[m][i]) => status'[children[m][i]] = "settled"
    BY <1>1, <1>3, <2>2 DEF Settled
  <2>4. CASE children'[m] = children[m]
    BY <2>1, <2>3, <2>4
  <2>5. CASE children'[m] = Append(children[m], u)
    <3>1. Len(children'[m]) = Len(children[m]) + 1
          /\ \A i \in DOMAIN children'[m] : i < index[v] =>
               i \in DOMAIN children[m] /\ children'[m][i] = children[m][i]
      BY <2>1, <2>2, <2>5
    <3>. QED BY <2>1, <2>2, <2>3, <3>1
  <2>. QED BY <1>5, <2>4, <2>5
<1>. QED BY <1>7, <1>8, <1>9, <1>10, <1>11 DEF JoinParts

\* A new nursery is run by the task that creates it, or by none.
LEMMA NewNurseryKeepsJoins ==
  ASSUME JoinInv, TypeOK', NEW t \in Task, nursery_new(t) \/ nursery_new_detached(t)
  PROVE  JoinParts'
<1>0. TypeOK /\ TypeOK' /\ JoinParts /\ NurseriesExist /\ Running(t)
  BY DEF JoinInv, LatchInv, nursery_new, nursery_new_detached, Operation
<1>1. PICK n \in Nursery \ born :
        /\ born' = born \cup {n}
        /\ \/ frames' = [frames EXCEPT ![t] = <<n>> \o @] /\ UNCHANGED detached
           \/ detached' = [detached EXCEPT ![n] = TRUE] /\ UNCHANGED frames
        /\ \A m \in born : cancelled'[m] = cancelled[m]
  BY <1>0 DEF nursery_new, nursery_new_detached, TypeOK, NurseryTypes
<1>2. UNCHANGED <<status, failure, owner, observed, reported, leaf, index, children, ended,
                  sweep, settleLog, pc>>
  BY DEF nursery_new, nursery_new_detached, nodeVars, loopVars
<1>3. FailuresAreLogged'
  BY <1>0, <1>2 DEF JoinParts, FailuresAreLogged, Settled
<1>4. /\ ended[n] = "open" /\ ~detached[n]
      /\ \A u \in Task : owner[u] # n
      /\ \A u \in Task : \A i \in DOMAIN frames[u] : frames[u][i] # n
  BY <1>0, <1>1, ExecutorAssumption DEF JoinParts, RunsAreOpen, NurseriesExist
<1>5. OrphansAreDoomed'
  BY <1>0, <1>1, <1>2 DEF JoinParts, OrphansAreDoomed, NurseriesExist
<1>6. FailuresAreKnown'
  <2>1. \A u \in Task : owner[u] # None => detached'[owner[u]] = detached[owner[u]]
    BY <1>0, <1>1, <1>4 DEF NurseriesExist, TypeOK, NurseryTypes
  <2>. QED BY <1>0, <1>2, <2>1 DEF JoinParts, FailuresAreKnown
<1>7. JoinedBeforeReturn'
  BY <1>0, <1>1, <1>2, <1>4 DEF JoinParts, JoinedBeforeReturn, Settled
<1>8. DrainedAreSettled'
  <2>1. \A u \in Task : leaf[u] = "drain" => frames'[u] = frames[u]
    BY <1>0, <1>1 DEF Running, TypeOK, FutureTypes
  <2>. QED BY <1>0, <1>2, <2>1 DEF JoinParts, DrainedAreSettled, Settled
<1>9. RunsAreOpen'
  <2>1. CASE UNCHANGED frames
    <3>1. \A m \in Nursery : detached'[m] => detached[m] \/ m = n
      BY <1>0, <1>1 DEF TypeOK, NurseryTypes
    <3>2. \A u \in Task : \A i \in DOMAIN frames[u] : frames[u][i] \in Nursery
      BY <1>0 DEF TypeOK, FutureTypes
    <3>3. \A u \in Task : \A i \in DOMAIN frames[u] : ~detached'[frames[u][i]]
      BY <1>0, <1>4, <3>1, <3>2 DEF JoinParts, RunsAreOpen
    <3>4. \A m \in Nursery : detached'[m] \/ m \notin born' => ended[m] = "open"
      BY <1>0, <1>1, <1>4, <3>1 DEF JoinParts, RunsAreOpen
    <3>5. \A m \in Nursery \ born' : ~detached'[m]
      BY <1>0, <1>1, <3>1 DEF JoinParts, RunsAreOpen
    <3>. QED BY <1>0, <1>2, <2>1, <3>3, <3>4, <3>5 DEF JoinParts, RunsAreOpen
  <2>2. CASE frames' = [frames EXCEPT ![t] = <<n>> \o @] /\ UNCHANGED detached
    <3>1. /\ frames'[t] = <<n>> \o frames[t] /\ frames[t] \in Seq(Nursery)
          /\ \A u \in Task \ {t} : frames'[u] = frames[u]
      BY <1>0, <2>2 DEF TypeOK, FutureTypes
    <3>2. \A i \in DOMAIN frames'[t] :
            IF i = 1 THEN frames'[t][i] = n
            ELSE i - 1 \in DOMAIN frames[t] /\ frames'[t][i] = frames[t][i - 1]
      BY <3>1
    <3>3. \A u \in Task : \A i \in DOMAIN frames'[u] : i \in Nat
      <4>1. \A u \in Task : frames'[u] \in Seq(Nursery)
        BY <1>0 DEF TypeOK, FutureTypes
      <4>. QED BY <4>1
    <3>6. ASSUME NEW u \in Task, NEW i \in DOMAIN frames'[u]
          PROVE  frames'[u][i] = n <=> u = t /\ i = 1
      <4>1. CASE u = t
        BY <1>4, <3>2, <4>1
      <4>2. CASE u # t
        BY <1>4, <3>1, <4>2
      <4>. QED BY <4>1, <4>2
    <3>4. \A u \in Task : \A i \in DOMAIN frames'[u] :
            ended'[frames'[u][i]] = "open" /\ ~detached'[frames'[u][i]]
      BY <1>0, <1>2, <1>4, <2>2, <3>1, <3>2 DEF JoinParts, RunsAreOpen
    <3>5. ASSUME NEW u \in Task, NEW v \in Task,
                 NEW i \in DOMAIN frames'[u], NEW j \in DOMAIN frames'[v],
                 frames'[u][i] = frames'[v][j]
          PROVE  u = v /\ i = j
      <4>1. frames'[u][i] = n <=> u = t /\ i = 1
        BY <3>6
      <4>2. frames'[v][j] = n <=> v = t /\ j = 1
        BY <3>6
      <4>3. CASE frames'[u][i] = n
        BY <3>5, <4>1, <4>2, <4>3
      <4>4. CASE u = t /\ v = t /\ i # 1 /\ j # 1
        BY <1>0, <3>2, <3>3, <3>5, <4>4 DEF JoinParts, RunsAreOpen
      <4>5. CASE u # t /\ v # t
        BY <1>0, <3>1, <3>5, <4>5 DEF JoinParts, RunsAreOpen
      <4>6. CASE u = t /\ v # t /\ i # 1
        <5>1. i - 1 \in DOMAIN frames[t] /\ frames[t][i - 1] = frames[v][j] /\ j \in DOMAIN frames[v]
          BY <3>1, <3>2, <3>5, <4>6
        <5>. QED BY <1>0, <4>6, <5>1 DEF JoinParts, RunsAreOpen
      <4>7. CASE u # t /\ v = t /\ j # 1
        <5>1. j - 1 \in DOMAIN frames[t] /\ frames[t][j - 1] = frames[u][i] /\ i \in DOMAIN frames[u]
          BY <3>1, <3>2, <3>5, <4>7
        <5>. QED BY <1>0, <4>7, <5>1 DEF JoinParts, RunsAreOpen
      <4>. QED BY <3>5, <4>1, <4>2, <4>3, <4>4, <4>5, <4>6, <4>7
    <3>. QED BY <1>0, <1>1, <1>2, <2>2, <3>4, <3>5 DEF JoinParts, RunsAreOpen
  <2>. QED BY <1>1, <2>1, <2>2
<1>. QED BY <1>3, <1>5, <1>6, <1>7, <1>8, <1>9 DEF JoinParts

\* A nursery_run that ends leaves the other runs open.
LEMMA RunEnds ==
  ASSUME TypeOK, TypeOK', NurseriesExist, RunsAreOpen, NEW t \in Task, frames[t] # <<>>, NEW how,
         ended' = [ended EXCEPT ![Head(frames[t])] = how],
         frames' = [frames EXCEPT ![t] = Tail(@)], UNCHANGED <<born, detached>>
  PROVE  /\ RunsAreOpen'
         /\ Head(frames[t]) \in born /\ ~detached[Head(frames[t])]
<1>1. PICK n \in Nursery : n = Head(frames[t]) /\ n = frames[t][1] /\ 1 \in DOMAIN frames[t]
  BY DEF TypeOK, FutureTypes
<1>2. n \in born /\ ~detached[n]
  BY <1>1 DEF NurseriesExist, RunsAreOpen
<1>3. \A m \in Nursery \ {n} : ended'[m] = ended[m]
  BY <1>1 DEF TypeOK, NurseryTypes
<1>4. frames'[t] = Tail(frames[t]) /\ frames[t] \in Seq(Nursery)
      /\ \A u \in Task \ {t} : frames'[u] = frames[u]
  BY DEF TypeOK, FutureTypes
<1>5. \A i \in DOMAIN frames'[t] :
        i \in Nat \ {0} /\ i + 1 \in DOMAIN frames[t] /\ frames'[t][i] = frames[t][i + 1]
  <2>1. \A q \in Seq(Nursery) : q # <<>> =>
          \A i \in DOMAIN Tail(q) :
            i \in Nat \ {0} /\ i + 1 \in DOMAIN q /\ Tail(q)[i] = q[i + 1]
    OBVIOUS
  <2>2. PICK q \in Seq(Nursery) : q = frames[t] /\ q # <<>> /\ frames'[t] = Tail(q)
    BY <1>4
  <2>. QED BY <2>1, <2>2
<1>6. ASSUME NEW u \in Task, NEW i \in DOMAIN frames'[u]
      PROVE  ended'[frames'[u][i]] = "open" /\ ~detached'[frames'[u][i]]
  <2>1. frames'[u][i] \in Nursery
    <3>1. PICK q \in Seq(Nursery) : q = frames'[u]
      BY DEF TypeOK, FutureTypes
    <3>. QED BY <3>1
  <2>2. CASE u = t
    <3>1. i + 1 # 1 /\ i + 1 \in DOMAIN frames[t] /\ frames'[u][i] = frames[t][i + 1]
      BY <1>5, <2>2
    <3>2. frames'[u][i] # n
      BY <1>1, <3>1 DEF RunsAreOpen
    <3>. QED BY <1>3, <2>1, <3>1, <3>2 DEF RunsAreOpen
  <2>3. CASE u # t
    <3>1. frames'[u][i] # n
      BY <1>1, <1>4, <2>3 DEF RunsAreOpen
    <3>. QED BY <1>3, <1>4, <2>1, <2>3, <3>1 DEF RunsAreOpen
  <2>. QED BY <2>2, <2>3
<1>7. ASSUME NEW u \in Task, NEW v \in Task, NEW i \in DOMAIN frames'[u],
             NEW j \in DOMAIN frames'[v], frames'[u][i] = frames'[v][j]
      PROVE  u = v /\ i = j
  <2>1. CASE u = t /\ v = t
    <3>1. i + 1 = j + 1
      BY <1>5, <1>7, <2>1 DEF RunsAreOpen
    <3>. QED BY <1>5, <2>1, <3>1
  <2>2. CASE u = t /\ v # t
    <3>1. i + 1 \in DOMAIN frames[t] /\ frames[t][i + 1] = frames[v][j] /\ j \in DOMAIN frames[v]
      BY <1>4, <1>5, <1>7, <2>2
    <3>. QED BY <2>2, <3>1 DEF RunsAreOpen
  <2>3. CASE u # t /\ v = t
    <3>1. j + 1 \in DOMAIN frames[t] /\ frames[t][j + 1] = frames[u][i] /\ i \in DOMAIN frames[u]
      BY <1>4, <1>5, <1>7, <2>3
    <3>. QED BY <2>3, <3>1 DEF RunsAreOpen
  <2>4. CASE u # t /\ v # t
    BY <1>4, <1>7, <2>4 DEF RunsAreOpen
  <2>. QED BY <2>1, <2>2, <2>3, <2>4
<1>8. \A m \in Nursery : detached'[m] \/ m \notin born' => ended'[m] = "open"
  BY <1>2, <1>3 DEF RunsAreOpen
<1>9. \A m \in Nursery \ born' : ~detached'[m]
  BY DEF RunsAreOpen
<1>. QED BY <1>1, <1>2, <1>6, <1>7, <1>8, <1>9 DEF RunsAreOpen

\* Settling a task reports its failure if its nursery is detached; the latch of
\* a joined one is a cancel on its way.
LEMMA SettleKeepsJoins ==
  ASSUME JoinInv, NEW t \in Task, NEW f, Current(t), settle(t, f),
         UNCHANGED <<frames, ended, leaf, index>>
  PROVE  JoinParts'
<1>0. TypeOK /\ LatchInv /\ JoinParts /\ status[t] = "live" /\ sweep = <<>> /\ pc = "drain"
  BY CurrentIsLive DEF JoinInv, Current, Quiet
<1>1. /\ status' = [status EXCEPT ![t] = "settled"] /\ failure' = [failure EXCEPT ![t] = f]
      /\ settleLog' = Append(settleLog, t)
      /\ reported' = IF owner[t] # None /\ f = "panic" /\ ReportsAtSettle(t)
                     THEN [reported EXCEPT ![t] = TRUE] ELSE reported
      /\ UNCHANGED <<observed, owner, pc, born, detached, children, cancelled>>
  BY DEF settle
<1>2. /\ status'[t] = "settled" /\ failure'[t] = f
      /\ \A u \in Task \ {t} : status'[u] = status[u] /\ failure'[u] = failure[u]
      /\ \A u \in Task : Settled(u) => u # t
      /\ \A u \in Task : Settled(u) => status'[u] = "settled"
  BY <1>0, <1>1 DEF TypeOK, NodeTypes, Settled
<1>3. Range(settleLog') = Range(settleLog) \cup {t}
  BY <1>0, <1>1, RangeAppend DEF TypeOK, LoopTypes
<1>4. \A n \in Nursery : \A i \in DOMAIN children[n] : children[n][i] \in Task
  BY <1>0 DEF TypeOK, NurseryTypes
<1>5. RunsAreOpen'
  BY <1>0, <1>1 DEF JoinParts, RunsAreOpen
<1>6. FailuresAreLogged'
  BY <1>0, <1>2, <1>3 DEF JoinParts, FailuresAreLogged, Settled
<1>7. DrainedAreSettled'
  <2>1. \A v \in Task : leaf[v] = "drain" => Head(frames[v]) \in Nursery
    BY <1>0 DEF TypeOK, FutureTypes, Operands
  <2>. QED BY <1>0, <1>1, <1>2, <1>4, <2>1 DEF JoinParts, DrainedAreSettled, Settled
<1>8. OrphansAreDoomed'
  BY <1>0, <1>1, <1>2, RangeEmpty DEF JoinParts, OrphansAreDoomed
<1>9. FailuresAreKnown'
  <2>1. \A u \in Task : reported[u] => reported'[u]
    BY <1>0, <1>1 DEF TypeOK, NodeTypes
  <2>2. f = "panic" /\ owner[t] # None /\ detached[owner[t]] => observed[t] \/ reported'[t]
    BY <1>0, <1>1 DEF TypeOK, NodeTypes, ReportsAtSettle
  <2>. QED BY <1>0, <1>1, <1>2, <2>1, <2>2 DEF JoinParts, FailuresAreKnown
<1>10. JoinedBeforeReturn'
  <2>1. \A n \in born : \A u \in Range(children[n]) : u \in Task
    BY <1>0, <1>4 DEF TypeOK, NurseryTypes, Range
  <2>. QED BY <1>0, <1>1, <1>2, <2>1 DEF JoinParts, JoinedBeforeReturn, Settled
<1>. QED BY <1>5, <1>6, <1>7, <1>8, <1>9, <1>10 DEF JoinParts

\* A drain the step leaves where it is has passed settled children.
LEMMA DrainsStaySettled ==
  ASSUME DrainedAreSettled, UNCHANGED <<status, children, index>>,
         \A u \in Task : leaf'[u] = "drain" => leaf[u] = "drain" /\ frames'[u] = frames[u]
  PROVE  DrainedAreSettled'
<1>1. ASSUME NEW u \in Task, leaf'[u] = "drain"
      PROVE  /\ index'[u] <= Len(children'[Head(frames'[u])]) + 1
             /\ \A i \in DOMAIN children'[Head(frames'[u])] :
                  i < index'[u] => status'[children'[Head(frames'[u])][i]] = "settled"
  <2>1. leaf[u] = "drain" /\ Head(frames'[u]) = Head(frames[u]) /\ index'[u] = index[u]
    BY <1>1
  <2>2. /\ index[u] <= Len(children[Head(frames[u])]) + 1
        /\ \A i \in DOMAIN children[Head(frames[u])] :
             i < index[u] => status[children[Head(frames[u])][i]] = "settled"
    BY <2>1 DEF DrainedAreSettled, Settled
  <2>. QED BY <2>1, <2>2
<1>. QED BY <1>1 DEF DrainedAreSettled, Settled

\* nursery_run's body returns, and the drain starts at the first child.
LEMMA BodyReturnKeepsJoins ==
  ASSUME JoinInv, NEW t \in Task, Return(t), frames[t] # <<>>
  PROVE  JoinParts'
<1>0. TypeOK /\ JoinParts
  BY DEF JoinInv
<1>1. /\ UNCHANGED joinVars /\ UNCHANGED <<observed, reported, cancelled, sweep, pc>>
      /\ leaf' = [leaf EXCEPT ![t] = "drain"] /\ index' = [index EXCEPT ![t] = 1]
  BY DEF Return, joinVars, nodeVars, nurseryVars, loopVars, DrainStart
<1>2. RunsAreOpen' /\ FailuresAreLogged' /\ JoinedBeforeReturn' /\ OrphansAreDoomed'
      /\ FailuresAreKnown'
  BY <1>0, <1>1 DEF JoinParts, joinVars, RunsAreOpen, FailuresAreLogged, JoinedBeforeReturn,
     Settled, OrphansAreDoomed, FailuresAreKnown
<1>3. DrainedAreSettled'
  <2>1. \A u \in Task \ {t} : leaf'[u] = leaf[u] /\ index'[u] = index[u]
    BY <1>0, <1>1 DEF TypeOK, FutureTypes
  <2>2. Head(frames[t]) \in Nursery /\ index'[t] = 1
    BY <1>0, <1>1 DEF TypeOK, FutureTypes
  <2>3. children[Head(frames[t])] \in Seq(Task)
    BY <1>0, <2>2 DEF TypeOK, NurseryTypes
  <2>4. 1 <= Len(children[Head(frames[t])]) + 1
        /\ \A i \in DOMAIN children[Head(frames[t])] : ~(i < 1)
    BY <2>3
  <2>. QED BY <1>0, <1>1, <2>1, <2>2, <2>4 DEF JoinParts, joinVars, DrainedAreSettled, Settled
<1>. QED BY <1>2, <1>3 DEF JoinParts

\* A failing body cancels its nursery, whose children may go on.
LEMMA BodyFailureKeepsJoins ==
  ASSUME JoinInv, TypeOK', NEW t \in Task, Unwind(t), frames[t] # <<>>
  PROVE  JoinParts'
<1>0. TypeOK /\ JoinParts /\ NurseriesExist /\ sweep = <<>> /\ pc = "drain"
  BY DEF JoinInv, LatchInv, Unwind, Current, Quiet
<1>1. PICK n \in Nursery : n = Head(frames[t])
  BY <1>0 DEF TypeOK, FutureTypes
<1>2. /\ sweep' = <<n>> /\ observed' = Absorb(n)
      /\ ended' = [ended EXCEPT ![n] = "raised"]
      /\ frames' = [frames EXCEPT ![t] = Tail(@)]
      /\ UNCHANGED <<status, failure, owner, reported, leaf, index, born, detached, children,
                     cancelled, settleLog, pc>>
  BY <1>1 DEF Unwind, BodyFailureCancels
<1>3. RunsAreOpen'
  BY <1>0, <1>1, <1>2, RunEnds DEF JoinParts
<1>4. FailuresAreLogged'
  BY <1>0, <1>2 DEF JoinParts, FailuresAreLogged, Settled
<1>5. DrainedAreSettled'
  <2>1. leaf[t] = "none"
    BY <1>0 DEF Unwind, TypeOK, Operands
  <2>2. \A u \in Task : leaf[u] = "drain" => frames'[u] = frames[u]
    BY <1>0, <1>2, <2>1 DEF TypeOK, FutureTypes
  <2>. QED BY <1>0, <1>2, <2>2, DrainsStaySettled DEF JoinParts
<1>6. ended'[n] = "raised" /\ \A m \in Nursery \ {n} : ended'[m] = ended[m]
  BY <1>0, <1>2 DEF TypeOK, NurseryTypes
<1>7. OrphansAreDoomed'
  <2>1. n \in Range(sweep')
    BY <1>2 DEF Range
  <2>. QED BY <1>0, <1>2, <1>6, <2>1, RangeEmpty
       DEF JoinParts, OrphansAreDoomed, TypeOK, NodeTypes
<1>8. FailuresAreKnown'
  <2>1. \A u \in Task : observed[u] => observed'[u]
    BY <1>0, <1>2 DEF Absorb, ObserveAll, TypeOK, NodeTypes
  <2>. QED BY <1>0, <1>2, <2>1 DEF JoinParts, FailuresAreKnown
<1>9. JoinedBeforeReturn'
  <2>1. \A m \in born : ended'[m] = "ok" => ended[m] = "ok"
    BY <1>0, <1>6 DEF TypeOK, NurseryTypes
  <2>. QED BY <1>0, <1>2, <2>1 DEF JoinParts, JoinedBeforeReturn, Settled
<1>. QED BY <1>3, <1>4, <1>5, <1>7, <1>8, <1>9 DEF JoinParts

\* nursery_run's drain returns when every child has settled and none has failed,
\* and gives up on the extent only when the extent is cancelled.
LEMMA DrainKeepsJoins ==
  ASSUME JoinInv, TypeOK', NEW t \in Task, nursery_run_drain(t)
  PROVE  JoinParts'
<1>0. /\ TypeOK /\ JoinParts /\ LatchInv /\ ChildrenAreOwned /\ sweep = <<>> /\ pc = "drain"
      /\ leaf[t] = "drain" /\ frames[t] # <<>>
  BY DEF JoinInv, nursery_run_drain, Polling, Current, Quiet, TypeOK, Operands
<1>1. PICK n \in Nursery : n = Head(frames[t])
  BY <1>0 DEF TypeOK, FutureTypes
<1>2. UNCHANGED <<status, failure, owner, reported, born, detached, children, cancelled, sweep,
                  failed, settleLog, pc>>
  BY DEF nursery_run_drain
<1>3. FailuresAreLogged'
  BY <1>0, <1>2 DEF JoinParts, FailuresAreLogged, Settled
<1>4. FailuresAreKnown'
  <2>1. \A u \in Task : observed[u] => observed'[u]
    BY <1>0 DEF nursery_run_drain, Absorb, ObserveAll, TypeOK, NodeTypes
  <2>. QED BY <1>0, <1>2, <2>1 DEF JoinParts, FailuresAreKnown
<1>5. index[t] \in Nat /\ children[n] \in Seq(Task)
      /\ index[t] <= Len(children[n]) + 1
      /\ \A i \in DOMAIN children[n] : i < index[t] => Settled(children[n][i])
  BY <1>0, <1>1 DEF TypeOK, FutureTypes, NurseryTypes, JoinParts, DrainedAreSettled
<1>6. ASSUME NEW how, ended' = [ended EXCEPT ![n] = how],
             frames' = [frames EXCEPT ![t] = Tail(@)], leaf' = [leaf EXCEPT ![t] = "none"],
             index' = index
      PROVE  RunsAreOpen' /\ DrainedAreSettled' /\ n \in born /\ ~detached[n]
             /\ ended'[n] = how /\ \A m \in Nursery \ {n} : ended'[m] = ended[m]
  <2>1. RunsAreOpen' /\ n \in born /\ ~detached[n]
    BY <1>0, <1>1, <1>2, <1>6, RunEnds DEF JoinParts, LatchInv
  <2>2. \A u \in Task : leaf'[u] = "drain" => leaf[u] = "drain" /\ frames'[u] = frames[u]
    BY <1>0, <1>6 DEF TypeOK, FutureTypes
  <2>3. DrainedAreSettled'
    BY <1>0, <1>2, <1>6, <2>2, DrainsStaySettled DEF JoinParts
  <2>. QED BY <1>0, <1>6, <2>1, <2>3 DEF TypeOK, NurseryTypes
<1>7. CASE failed[n] # None
  <2>1. ended' = [ended EXCEPT ![n] = "raised"] /\ frames' = [frames EXCEPT ![t] = Tail(@)]
        /\ leaf' = [leaf EXCEPT ![t] = "none"] /\ index' = index
    BY <1>1, <1>7 DEF nursery_run_drain, Raise
  <2>2. RunsAreOpen' /\ DrainedAreSettled' /\ ended'[n] = "raised"
        /\ \A m \in Nursery \ {n} : ended'[m] = ended[m]
    BY <1>6, <2>1
  <2>3. cancelled[n]
    BY <1>0, <1>7, RangeEmpty DEF LatchInv, LatchCancels
  <2>4. OrphansAreDoomed'
    BY <1>0, <1>2, <2>2, <2>3 DEF JoinParts, OrphansAreDoomed, TypeOK, NodeTypes
  <2>5. JoinedBeforeReturn'
    <3>1. \A m \in born : ended'[m] = "ok" => ended[m] = "ok"
      BY <1>0, <2>2 DEF TypeOK, NurseryTypes
    <3>. QED BY <1>0, <1>2, <3>1 DEF JoinParts, JoinedBeforeReturn, Settled
  <2>. QED BY <1>3, <1>4, <2>2, <2>4, <2>5 DEF JoinParts
<1>8. CASE failed[n] = None /\ Drained(n, index[t])
  <2>1. ended' = [ended EXCEPT ![n] = "ok"] /\ frames' = [frames EXCEPT ![t] = Tail(@)]
        /\ leaf' = [leaf EXCEPT ![t] = "none"] /\ index' = index
    BY <1>1, <1>8 DEF nursery_run_drain, Resume
  <2>2. RunsAreOpen' /\ DrainedAreSettled' /\ ended'[n] = "ok" /\ n \in born /\ ~detached[n]
        /\ \A m \in Nursery \ {n} : ended'[m] = ended[m]
    BY <1>6, <2>1
  <2>3. \A c \in Range(children[n]) : c \in Task /\ Settled(c) /\ owner[c] = n
    <3>1. \A i \in DOMAIN children[n] :
            children[n][i] \in Task /\ Settled(children[n][i]) /\ owner[children[n][i]] = n
      BY <1>0, <1>5, <1>8 DEF Drained, ChildrenAreOwned
    <3>. QED BY <3>1 DEF Range
  <2>4. \A c \in Range(children[n]) : failure[c] # "panic"
    <3>. SUFFICES ASSUME NEW c \in Range(children[n]), failure[c] = "panic" PROVE FALSE
      OBVIOUS
    <3>1. c \in Range(settleLog) /\ owner[c] = n
      BY <1>0, <2>3 DEF JoinParts, FailuresAreLogged
    <3>2. PICK i \in DOMAIN settleLog : settleLog[i] = c
      BY <3>1 DEF Range
    <3>3. i \in FailuresOf(n)
      BY <3>1, <3>2 DEF FailuresOf
    <3>. QED BY <1>0, <1>8, <2>2, <3>3 DEF LatchInv, LatchIsFirst
  <2>5. JoinedBeforeReturn'
    <3>. SUFFICES ASSUME NEW m \in born, ended'[m] = "ok", NEW c \in Range(children[m])
                  PROVE  status[c] = "settled" /\ failure[c] # "panic"
      BY <1>2 DEF JoinedBeforeReturn, Settled
    <3>1. CASE m = n
      BY <2>3, <2>4, <3>1 DEF Settled
    <3>2. CASE m # n
      BY <1>0, <2>2, <3>2 DEF JoinParts, JoinedBeforeReturn, Settled, TypeOK, NurseryTypes
    <3>. QED BY <3>1, <3>2
  <2>6. OrphansAreDoomed'
    <3>1. ASSUME NEW u \in Task, status[u] = "live", owner[u] # None PROVE owner[u] # n
      <4>1. SUFFICES ASSUME owner[u] = n PROVE FALSE
        OBVIOUS
      <4>2. u \in Range(children[n])
        BY <1>0, <3>1, <4>1 DEF ChildrenAreOwned
      <4>. QED BY <2>3, <3>1, <4>2 DEF Settled
    <3>. QED BY <1>0, <1>2, <2>2, <3>1 DEF JoinParts, OrphansAreDoomed, TypeOK, NodeTypes
  <2>. QED BY <1>3, <1>4, <2>2, <2>5, <2>6 DEF JoinParts
<1>9. CASE failed[n] = None /\ ~Drained(n, index[t])
  <2>1. /\ UNCHANGED <<ended, frames, leaf>>
        /\ \/ index' = index
           \/ /\ index' = [index EXCEPT ![t] = @ + 1]
              /\ Settled(children[n][index[t]])
    BY <1>1, <1>9 DEF nursery_run_drain
  <2>2. RunsAreOpen' /\ OrphansAreDoomed' /\ JoinedBeforeReturn'
    BY <1>0, <1>2, <2>1 DEF JoinParts, RunsAreOpen, OrphansAreDoomed, JoinedBeforeReturn, Settled
  <2>3. DrainedAreSettled'
    <3>1. CASE index' = index
      BY <1>0, <1>2, <2>1, <3>1 DEF JoinParts, DrainedAreSettled, Settled
    <3>2. CASE index' = [index EXCEPT ![t] = @ + 1] /\ Settled(children[n][index[t]])
      <4>1. index'[t] = index[t] + 1 /\ \A u \in Task \ {t} : index'[u] = index[u]
        BY <1>0, <3>2 DEF TypeOK, FutureTypes
      <4>2. /\ index[t] + 1 <= Len(children[n]) + 1
            /\ \A i \in DOMAIN children[n] : i < index[t] + 1 => Settled(children[n][i])
        BY <1>5, <1>9, <3>2 DEF Drained
      <4>. QED BY <1>0, <1>1, <1>2, <2>1, <4>1, <4>2 DEF JoinParts, DrainedAreSettled, Settled
    <3>. QED BY <2>1, <3>1, <3>2
  <2>. QED BY <1>3, <1>4, <2>2, <2>3 DEF JoinParts
<1>. QED BY <1>7, <1>8, <1>9

\* The inductive step of JoinInv.
LEMMA JoinStep == JoinInv /\ [Next]_vars => JoinInv'
<1>. SUFFICES ASSUME JoinInv, [Next]_vars PROVE JoinInv'
  OBVIOUS
<1>0. TypeOK /\ LatchInv /\ JoinParts
  BY DEF JoinInv
<1>1. TypeOK' /\ LatchInv' /\ ChildrenAreOwned' /\ LoopIsIdle'
  BY TypeStep, LatchStep, ChildrenStep, IdleStep DEF JoinInv
<1>2. ASSUME NEW t \in Task, (Return(t) \/ Unwind(t)) /\ frames[t] = <<>> PROVE JoinParts'
  <2>1. \E f : Current(t) /\ settle(t, f)
    BY <1>2 DEF Return, Unwind, Running
  <2>2. UNCHANGED <<frames, ended, leaf, index>>
    BY <1>2 DEF Return, Unwind
  <2>. QED BY <2>1, <2>2, SettleKeepsJoins
<1>3. ASSUME NEW t \in Task, Operations(t) \/ Polls(t) PROVE JoinParts'
  <2>1. CASE spawn_in(t)
    BY <2>1, SpawnKeepsJoins
  <2>2. CASE nursery_new(t) \/ nursery_new_detached(t)
    BY <1>1, <2>2, NewNurseryKeepsJoins
  <2>3. CASE Return(t)
    BY <1>2, <2>3, BodyReturnKeepsJoins
  <2>4. CASE Unwind(t)
    BY <1>1, <1>2, <2>4, BodyFailureKeepsJoins
  <2>5. CASE nursery_run_drain(t)
    BY <1>1, <2>5, DrainKeepsJoins
  <2>. QED BY <1>0, <1>3, <2>1, <2>2, <2>3, <2>4, <2>5, OthersKeepJoins DEF Operations, Polls
<1>4. ASSUME Loop \/ UNCHANGED vars PROVE JoinParts'
  BY <1>0, <1>4, LoopKeepsJoins
<1>5. JoinParts'
  BY <1>3, <1>4 DEF Next, Terminated
<1>. QED BY <1>1, <1>5 DEF JoinInv

LEMMA JoinInit == Init => JoinInv
<1>. SUFFICES ASSUME Init PROVE JoinInv
  OBVIOUS
<1>1. TypeOK /\ LatchInv /\ ChildrenAreOwned /\ LoopIsIdle
  BY TypeInit, BoundaryInit DEF BoundaryInv, WakeInv
<1>2. JoinParts
  BY DEF Init, JoinParts, RunsAreOpen, DrainedAreSettled, FailuresAreLogged, OrphansAreDoomed,
     FailuresAreKnown, JoinedBeforeReturn
<1>. QED BY <1>1, <1>2 DEF JoinInv

\* nursery_run: in every reachable state, a nursery that returned its body's
\* value has all its tasks settled, those spawned while it drained included, and
\* none of them failed.
THEOREM JoinsAreComplete == Spec => []JoinedBeforeReturn
<1>1. JoinInv => JoinedBeforeReturn
  BY DEF JoinInv, JoinParts
<1>. QED BY <1>1, JoinInit, JoinStep, PTL DEF Spec

\* nursery_run and Nursery::cancel: whenever no cancel is running, a live task
\* whose nursery has ended belongs to a cancelled extent.
THEOREM OrphansEnd == Spec => []OrphansAreCancelled
<1>1. JoinInv => OrphansAreCancelled
  BY RangeEmpty DEF JoinInv, JoinParts, OrphansAreDoomed, OrphansAreCancelled, Quiet
<1>. QED BY <1>1, JoinInit, JoinStep, PTL DEF Spec

\* report_unobserved and Nursery::fail: when the microtask queue is exhausted, a
\* failure that no nursery latches has been observed or reported.
THEOREM NoFailureIsLost == Spec => []NoFreeFailureIsSilent
<1>1. JoinInv => NoFreeFailureIsSilent
  BY DEF JoinInv, JoinParts, FailuresAreKnown, NoFreeFailureIsSilent
<1>. QED BY <1>1, JoinInit, JoinStep, PTL DEF Spec

=============================================================================
