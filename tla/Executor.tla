------------------------------ MODULE Executor ------------------------------
(***************************************************************************)
(* The single-threaded executor that compiled `async` code runs on         *)
(* (crates/vilan-rt/src/executor.rs): tasks, their wake lists, nurseries   *)
(* with their fail latch and cancellation, sleeps and timers, the joins,   *)
(* and the loop that drains the microtask queue to exhaustion before it    *)
(* fires one timer.                                                        *)
(*                                                                         *)
(* What the tasks compute is left open: whenever a task is being polled    *)
(* and is not suspended, it may perform any operation of Ops, return or    *)
(* panic.  Everything a program can observe of the executor is decided by  *)
(* the order of these operations, so the model covers every program of at  *)
(* most Fuel operations per task.                                          *)
(*                                                                         *)
(* A task identity stands for the slab handle of its task; module TaskSlab *)
(* shows that a handle never names another task than the one it was minted *)
(* for, also after its slot is reused.                                     *)
(***************************************************************************)
EXTENDS Naturals, Sequences, Functions

CONSTANTS
  Task,      \* identities of tasks (Rc<TaskNode>)
  Root,      \* the task block_on spawns for the body of `main`
  Nursery,   \* identities of nurseries (Rc<NurseryBody>)
  Timer,     \* identities of deadline-list registrations (Rc<TimerSlot>)
  None,      \* the absent value of every Option
  Fuel,      \* bound: operations one task may perform
  Ops        \* the operations the program uses

OpNames == {"spawn", "nursery", "detached", "cancel", "sleep", "yield", "await",
            "settle_all", "race", "timer", "timer_cancel", "timer_wait",
            "panic", "guard"}

ASSUME ExecutorAssumption ==
  /\ Root \in Task
  /\ None \notin Task /\ None \notin Nursery /\ None \notin Timer
  /\ Fuel \in Nat
  /\ Ops \subseteq OpNames

VARIABLES
  \* TaskNode
  status,        \* "unborn", "live" or "settled" (TaskNode.settled)
  failure,       \* TaskNode.failure: "none", "panic" or "cancelled"
  observed,      \* TaskNode.observed
  owner,         \* TaskNode.nursery
  waiters,       \* TaskNode.waiters: tasks to enqueue when this one settles
  reported,      \* TaskNode.reported
  \* the future each task is suspended at, and the frames around it
  leaf,          \* the leaf future, "none" between two suspensions
  group,         \* the tasks a join, settle_all or race waits for
  slot,          \* the registration of a Sleep or a TimerWait
  index,         \* nursery_run's drain index
  parked,        \* TimerWait.parked, YieldOnce.yielded
  frames,        \* nursery_run calls on the task's stack, innermost first
  raising,       \* the failure unwinding through those frames
  fuel,
  got,           \* the task whose outcome the last race answered
  \* NurseryBody
  born, detached, ancestors, children, cancelled, failed,
  failWaiters, cancelWaiters, descendants,
  ended,         \* how its nursery_run ended: "open", "ok" or "raised"
  \* TimerSlot and TimerBody
  slotState,     \* "free", "armed", "fired" or "cancelled"
  sleeper,       \* the task a Sleep's action wakes; None for a Timer
  timerWaiters,  \* TimerBody.waiters
  \* Runtime
  microtasks, stack, pc,
  sweep,         \* nurseries a running Nursery::cancel has still to visit
  tail,          \* wakes Nursery::fail and settle still owe once it is done
  settleLog      \* history: tasks in the order they settled

nodeVars    == <<status, failure, observed, owner, waiters, reported>>
futureVars  == <<leaf, group, slot, index, parked, frames, raising, fuel, got>>
nurseryVars == <<born, detached, ancestors, children, cancelled, failed,
                 failWaiters, cancelWaiters, descendants, ended>>
timerVars   == <<slotState, sleeper, timerWaiters>>
loopVars    == <<microtasks, stack, pc, sweep, tail, settleLog>>
vars == <<nodeVars, futureVars, nurseryVars, timerVars, loopVars>>

-----------------------------------------------------------------------------
(***************************************************************************)
(* State predicates and helpers.                                           *)
(***************************************************************************)

\* No Nursery::cancel is under way: its recursion is one synchronous call, so
\* nothing else happens while it runs.
Quiet == sweep = <<>> /\ tail = <<>>

\* RUNTIME.current is the innermost poll on the stack (a spawn polls its task
\* inside the spawning task's own poll).
Current(t) == Quiet /\ pc = "drain" /\ stack # <<>> /\ t = Head(stack)

\* t is being polled and its code, not a leaf future, has control.
Running(t) == Current(t) /\ leaf[t] = "none" /\ raising[t] = "none"

\* t is being polled and control is in the poll of leaf future kind.
Polling(t, kind) == Current(t) /\ leaf[t] = kind /\ raising[t] = "none"

Operation(t, name) ==
  /\ Running(t)
  /\ name \in Ops
  /\ fuel[t] > 0
  /\ fuel' = [fuel EXCEPT ![t] = @ - 1]

\* The nursery of the dynamic extent t runs in: the innermost nursery_run, or
\* the one its spawn registered with.
Ambient(t) == IF frames[t] = <<>> THEN owner[t] ELSE Head(frames[t])

\* The parent chain is walked upwards; ancestors holds its closure.
IsCancelled(n) == \E a \in ancestors[n] : cancelled[a]

\* CancelSignal::aborted on the signal a leaf future of t captured.
Aborted(t) == Ambient(t) # None /\ IsCancelled(Ambient(t))

\* Seeded fault: a leaf future forgets to park on its cancel signal.
ParkOnSignal_missing(t) == cancelWaiters

\* CancelSignal::park.
ParkOnSignal(t) ==
  IF Ambient(t) = None THEN cancelWaiters
  ELSE [cancelWaiters EXCEPT ![Ambient(t)] = Append(@, t)]

ParkOn(list, t, on) ==
  [u \in Task |-> IF u \in on THEN Append(list[u], t) ELSE list[u]]

ObserveAll(on) == [u \in Task |-> observed[u] \/ u \in on]

\* poll answers Pending: the driver goes back into its node.
Suspend == stack' = Tail(stack)

\* A leaf's poll answers Ready: the task's code continues in the same poll.
Resume(t) == leaf' = [leaf EXCEPT ![t] = "none"]

\* The leaf panics out of the poll with failure f.
Raise(t, f) ==
  /\ leaf' = [leaf EXCEPT ![t] = "none"]
  /\ raising' = [raising EXCEPT ![t] = f]

-----------------------------------------------------------------------------
(***************************************************************************)
(* Settling, failing and cancelling.                                       *)
(***************************************************************************)

\* Seeded fault: a later failure overwrites the latch.
LatchFree_always(n) == TRUE

\* Nursery::fail keeps the earliest failure only.
LatchFree(n) == failed[n] = None

\* Seeded fault: settling wakes nobody.
WokenBySettle_none(t) == <<>>

\* The continuations TaskNode::settle enqueues.
WokenBySettle(t) == waiters[t]

\* Seeded fault: a detached nursery absorbs failures like a joined one.
ReportsAtSettle_never(t) == FALSE

\* Nursery::fail on a detached nursery reports a failure nobody observed.
ReportsAtSettle(t) == detached[owner[t]] /\ ~observed[t]

\* TaskNode::settle with failure f, after the poll that ended t returned.  A
\* real failure of an owned task goes through Nursery::fail first: latch,
\* cancel (the sweep), then the fail-wake; t's own waiters are woken last.
settle(t, f) ==
  /\ status' = [status EXCEPT ![t] = "settled"]
  /\ failure' = [failure EXCEPT ![t] = f]
  /\ waiters' = [waiters EXCEPT ![t] = <<>>]
  /\ settleLog' = Append(settleLog, t)
  /\ stack' = Tail(stack)
  /\ IF owner[t] # None /\ f = "panic" /\ ~detached[owner[t]] /\ LatchFree(owner[t])
     THEN /\ failed' = [failed EXCEPT ![owner[t]] = t]
          /\ failWaiters' = [failWaiters EXCEPT ![owner[t]] = <<>>]
          /\ sweep' = <<owner[t]>>
          /\ tail' = failWaiters[owner[t]] \o WokenBySettle(t)
          /\ UNCHANGED microtasks
     ELSE /\ microtasks' = microtasks \o WokenBySettle(t)
          /\ UNCHANGED <<failed, failWaiters, sweep, tail>>
  /\ reported' = IF owner[t] # None /\ f = "panic" /\ ReportsAtSettle(t)
                 THEN [reported EXCEPT ![t] = TRUE] ELSE reported
  /\ UNCHANGED <<observed, owner, pc, born, detached, ancestors, children,
                 cancelled, cancelWaiters, descendants, timerVars>>

\* Seeded fault: cancel stops at the nursery it was called on.
CancelReach_self(n) == <<>>

\* The nurseries Nursery::cancel recurses into, in order.
CancelReach(n) == descendants[n]

\* One visit of Nursery::cancel: a nursery already cancelled is left alone, any
\* other wakes its cancel waiters and hands over to its descendants.
Nursery_cancel ==
  /\ sweep # <<>>
  /\ LET n == Head(sweep) IN
     IF cancelled[n]
     THEN /\ sweep' = Tail(sweep)
          /\ UNCHANGED <<cancelled, cancelWaiters, microtasks>>
     ELSE /\ cancelled' = [cancelled EXCEPT ![n] = TRUE]
          /\ microtasks' = microtasks \o cancelWaiters[n]
          /\ cancelWaiters' = [cancelWaiters EXCEPT ![n] = <<>>]
          /\ sweep' = CancelReach(n) \o Tail(sweep)
  /\ UNCHANGED <<nodeVars, futureVars, born, detached, ancestors, children, failed,
                 failWaiters, descendants, ended, timerVars, stack, pc, tail,
                 settleLog>>

\* The cancel has returned into Nursery::fail: the drain's fail-wake, then the
\* settled task's own waiters.
fail_wake ==
  /\ sweep = <<>> /\ tail # <<>>
  /\ microtasks' = microtasks \o tail
  /\ tail' = <<>>
  /\ UNCHANGED <<nodeVars, futureVars, nurseryVars, timerVars, stack, pc, sweep,
                 settleLog>>

-----------------------------------------------------------------------------
(***************************************************************************)
(* What a running task may do.                                             *)
(***************************************************************************)

\* `async body`: the task registers with the nursery of the extent (or of an
\* OwnedNursery::enter around the spawn), then runs to its first suspension.
spawn_in(t) ==
  /\ Operation(t, "spawn")
  /\ \E u \in Task, n \in {Ambient(t)} \cup {m \in born : detached[m]} :
       /\ status[u] = "unborn"
       /\ status' = [status EXCEPT ![u] = "live"]
       /\ owner' = [owner EXCEPT ![u] = n]
       /\ children' = IF n = None THEN children
                      ELSE [children EXCEPT ![n] = Append(@, u)]
       /\ stack' = <<u>> \o stack
  /\ UNCHANGED <<failure, observed, waiters, reported, leaf, group, slot, index,
                 parked, frames, raising, got, born, detached, ancestors,
                 cancelled, failed, failWaiters, cancelWaiters, descendants, ended,
                 timerVars, microtasks, pc, sweep, tail, settleLog>>

\* `nursery(body)`: __nursery_new chained to the ambient nursery, then the body
\* runs inside nursery_run.
nursery_new(t) ==
  /\ Operation(t, "nursery")
  /\ \E n \in Nursery \ born : LET parent == Ambient(t) IN
       /\ born' = born \cup {n}
       /\ ancestors' = [ancestors EXCEPT
            ![n] = {n} \cup (IF parent = None THEN {} ELSE ancestors[parent])]
       /\ cancelled' = [cancelled EXCEPT ![n] = Aborted(t)]
       /\ descendants' = IF parent = None \/ Aborted(t) THEN descendants
                         ELSE [descendants EXCEPT ![parent] = Append(@, n)]
       /\ frames' = [frames EXCEPT ![t] = <<n>> \o @]
  /\ UNCHANGED <<nodeVars, leaf, group, slot, index, parked, raising, got, detached,
                 children, failed, failWaiters, cancelWaiters, ended, timerVars,
                 loopVars>>

\* OwnedNursery::new.
nursery_new_detached(t) ==
  /\ Operation(t, "detached")
  /\ \E n \in Nursery \ born :
       /\ born' = born \cup {n}
       /\ detached' = [detached EXCEPT ![n] = TRUE]
       /\ ancestors' = [ancestors EXCEPT ![n] = {n}]
  /\ UNCHANGED <<nodeVars, leaf, group, slot, index, parked, frames, raising, got,
                 children, cancelled, failed, failWaiters, cancelWaiters,
                 descendants, ended, timerVars, loopVars>>

\* n.cancel() through any handle, OwnedNursery::cancel and its drop.
cancel(t) ==
  /\ Operation(t, "cancel")
  /\ \E n \in born : sweep' = <<n>>
  /\ UNCHANGED <<nodeVars, leaf, group, slot, index, parked, frames, raising, got,
                 nurseryVars, timerVars, microtasks, stack, pc, tail, settleLog>>

\* A call of one of the leaf futures; its first poll follows in the same poll.
Await(t, kind, on, s) ==
  /\ leaf' = [leaf EXCEPT ![t] = kind]
  /\ group' = [group EXCEPT ![t] = on]
  /\ slot' = [slot EXCEPT ![t] = s]
  /\ parked' = [parked EXCEPT ![t] = FALSE]
  /\ UNCHANGED <<nodeVars, index, frames, raising, got, nurseryVars, timerVars,
                 loopVars>>

Others(t) == {u \in Task \ {t} : status[u] # "unborn"}

sleep(t) ==
  /\ Operation(t, "sleep")
  /\ \E s \in Timer : slotState[s] = "free"
  /\ Await(t, "sleep", <<>>, None)

yield_now(t) == Operation(t, "yield") /\ Await(t, "yield", <<>>, None)

await(t) ==
  /\ Operation(t, "await")
  /\ \E u \in Others(t) : Await(t, "join", <<u>>, None)

settle_all(t) ==
  /\ Operation(t, "settle_all")
  /\ \E u, v \in Others(t) : u # v /\ Await(t, "settle_all", <<u, v>>, None)

race(t) ==
  /\ Operation(t, "race")
  /\ \E u, v \in Others(t) : u # v /\ Await(t, "race", <<u, v>>, None)

TimerHandles == {s \in Timer : slotState[s] # "free" /\ sleeper[s] = None}

\* timer(ms).
timer(t) ==
  /\ Operation(t, "timer")
  /\ \E s \in Timer :
       /\ slotState[s] = "free"
       /\ slotState' = [slotState EXCEPT ![s] = "armed"]
  /\ UNCHANGED <<nodeVars, leaf, group, slot, index, parked, frames, raising, got,
                 nurseryVars, sleeper, timerWaiters, loopVars>>

\* Seeded fault: a fired timer can still be cancelled.
Cancellable_fired(s) == slotState[s] # "cancelled"

\* TimerHandle::cancel returns early on a settled timer.
Cancellable(s) == slotState[s] = "armed"

\* TimerHandle::cancel, with TimerBody::settle(false).
timer_cancel(t) ==
  /\ Operation(t, "timer_cancel")
  /\ \E s \in TimerHandles :
       IF Cancellable(s)
       THEN /\ slotState' = [slotState EXCEPT ![s] = "cancelled"]
            /\ microtasks' = microtasks \o timerWaiters[s]
            /\ timerWaiters' = [timerWaiters EXCEPT ![s] = <<>>]
       ELSE UNCHANGED <<slotState, microtasks, timerWaiters>>
  /\ UNCHANGED <<nodeVars, leaf, group, slot, index, parked, frames, raising, got,
                 nurseryVars, sleeper, stack, pc, sweep, tail, settleLog>>

\* TimerHandle::wait.
timer_wait(t) ==
  /\ Operation(t, "timer_wait")
  /\ \E s \in TimerHandles : Await(t, "timer", <<>>, s)

\* panic(..): the failure starts to unwind.
panic(t) ==
  /\ Operation(t, "panic")
  /\ raising' = [raising EXCEPT ![t] = "panic"]
  /\ UNCHANGED <<nodeVars, leaf, group, slot, index, parked, frames, got,
                 nurseryVars, timerVars, loopVars>>

\* The position of the first child nursery_run waits for.
DrainStart == 1

\* The code of t returns: out of the innermost nursery body, whose drain
\* starts, or out of the task.
Return(t) ==
  /\ Running(t)
  /\ \/ /\ frames[t] # <<>>
        /\ leaf' = [leaf EXCEPT ![t] = "drain"]
        /\ index' = [index EXCEPT ![t] = DrainStart]
        /\ UNCHANGED <<nodeVars, nurseryVars, timerVars, loopVars>>
     \/ /\ frames[t] = <<>>
        /\ settle(t, "none")
        /\ UNCHANGED <<leaf, index, ended>>
  /\ UNCHANGED <<group, slot, parked, frames, raising, fuel, got>>

\* Seeded fault: a failing body leaves its extent running.
BodyFailureCancels_not(n) == <<>>

\* nursery_run: a failing body cancels the nursery.
BodyFailureCancels(n) == <<n>>

\* nursery_run's failure path: every child is absorbed (observed).
Absorb(n) == ObserveAll(Range(children[n]))

\* A failure unwinds: through a nursery_run, which cancels and absorbs its
\* extent and raises on, or out of the task, which settles with it.
Unwind(t) ==
  /\ Current(t) /\ raising[t] # "none"
  /\ \/ /\ frames[t] # <<>>
        /\ sweep' = BodyFailureCancels(Head(frames[t]))
        /\ observed' = Absorb(Head(frames[t]))
        /\ ended' = [ended EXCEPT ![Head(frames[t])] = "raised"]
        /\ frames' = [frames EXCEPT ![t] = Tail(@)]
        /\ UNCHANGED <<status, failure, owner, waiters, reported, raising, born,
                       detached, ancestors, children, cancelled, failed,
                       failWaiters, cancelWaiters, descendants, timerVars,
                       microtasks, stack, pc, tail, settleLog>>
     \/ /\ frames[t] = <<>>
        /\ settle(t, raising[t])
        /\ raising' = [raising EXCEPT ![t] = "none"]
        /\ UNCHANGED <<frames, ended>>
  /\ UNCHANGED <<leaf, group, slot, index, parked, fuel, got>>

\* guarded_async around any part of the task catches a panic, and lets a
\* cancellation travel on.
guarded_async(t) ==
  /\ Current(t) /\ raising[t] = "panic" /\ "guard" \in Ops
  /\ raising' = [raising EXCEPT ![t] = "none"]
  /\ UNCHANGED <<nodeVars, leaf, group, slot, index, parked, frames, fuel, got,
                 nurseryVars, timerVars, loopVars>>

-----------------------------------------------------------------------------
(***************************************************************************)
(* Polls of the leaf futures.                                              *)
(***************************************************************************)

Settled(u) == status[u] = "settled"
Failed(u) == Settled(u) /\ failure[u] # "none"

\* Seeded fault: a yield that forgets it has yielded.
Yielded_never(t) == FALSE

\* YieldOnce.yielded.
Yielded(t) == parked[t]

\* Pending exactly once: the first poll puts the task at the end of the queue.
YieldOnce_poll(t) ==
  /\ Polling(t, "yield")
  /\ IF Yielded(t)
     THEN Resume(t) /\ UNCHANGED <<parked, microtasks, stack>>
     ELSE /\ parked' = [parked EXCEPT ![t] = TRUE]
          /\ microtasks' = Append(microtasks, t)
          /\ Suspend
          /\ UNCHANGED leaf
  /\ UNCHANGED <<nodeVars, group, slot, index, frames, raising, fuel, got,
                 nurseryVars, timerVars, pc, sweep, tail, settleLog>>

\* The outcome of settled task u continues in t, its value or its failure.
Deliver(t, u) ==
  IF failure[u] = "none" THEN Resume(t) /\ UNCHANGED raising ELSE Raise(t, failure[u])

TaskJoin_poll(t) ==
  /\ Polling(t, "join")
  /\ LET u == group[t][1] IN
     /\ observed' = [observed EXCEPT ![u] = TRUE]
     /\ IF Settled(u)
        THEN Deliver(t, u) /\ UNCHANGED <<waiters, stack>>
        ELSE /\ waiters' = ParkOn(waiters, t, {u})
             /\ Suspend
             /\ UNCHANGED <<leaf, raising>>
  /\ UNCHANGED <<status, failure, owner, reported, group, slot, index, parked, frames,
                 fuel, got, nurseryVars, timerVars, microtasks, pc, sweep, tail,
                 settleLog>>

\* Seeded fault: the tasks are awaited one at a time.
PendingOf_first(list) ==
  {list[i] : i \in {j \in DOMAIN list :
     ~Settled(list[j]) /\ \A k \in 1..j-1 : Settled(list[k])}}

\* The tasks AllSettledOrAnyFailed parks on.
PendingOf(list) == {u \in Range(list) : ~Settled(u)}

\* Ready once every task settled or any of them failed; the failure raised is
\* the first one in list order.
AllSettledOrAnyFailed_poll(t) ==
  /\ Polling(t, "settle_all")
  /\ observed' = ObserveAll(Range(group[t]))
  /\ IF \E i \in DOMAIN group[t] : Failed(group[t][i])
     THEN /\ \E i \in DOMAIN group[t] :
               /\ Failed(group[t][i])
               /\ \A j \in 1..i-1 : ~Failed(group[t][j])
               /\ Raise(t, failure[group[t][i]])
          /\ UNCHANGED <<waiters, stack>>
     ELSE IF \A u \in Range(group[t]) : Settled(u)
     THEN Resume(t) /\ UNCHANGED <<waiters, raising, stack>>
     ELSE /\ waiters' = ParkOn(waiters, t, PendingOf(group[t]))
          /\ Suspend
          /\ UNCHANGED <<leaf, raising>>
  /\ UNCHANGED <<status, failure, owner, reported, group, slot, index, parked, frames,
                 fuel, got, nurseryVars, timerVars, microtasks, pc, sweep, tail,
                 settleLog>>

\* Ready once any task settled; the answer is the first settled one in list
\* order.
AnySettled_poll(t) ==
  /\ Polling(t, "race")
  /\ observed' = ObserveAll(Range(group[t]))
  /\ IF \E i \in DOMAIN group[t] : Settled(group[t][i])
     THEN /\ \E i \in DOMAIN group[t] :
               /\ Settled(group[t][i])
               /\ \A j \in 1..i-1 : ~Settled(group[t][j])
               /\ Deliver(t, group[t][i])
               /\ got' = [got EXCEPT ![t] = group[t][i]]
          /\ UNCHANGED <<waiters, stack>>
     ELSE /\ waiters' = ParkOn(waiters, t, Range(group[t]))
          /\ Suspend
          /\ UNCHANGED <<leaf, raising, got>>
  /\ UNCHANGED <<status, failure, owner, reported, group, slot, index, parked, frames,
                 fuel, nurseryVars, timerVars, microtasks, pc, sweep, tail,
                 settleLog>>

\* The abort is consulted before the timer; a sleep that ends gives its
\* registration back.
Sleep_poll(t) ==
  /\ Polling(t, "sleep")
  /\ \/ /\ Aborted(t) \/ (slot[t] # None /\ slotState[slot[t]] = "fired")
        /\ IF Aborted(t) THEN Raise(t, "cancelled") ELSE Resume(t) /\ UNCHANGED raising
        /\ slotState' = IF slot[t] = None THEN slotState
                        ELSE [slotState EXCEPT ![slot[t]] = "free"]
        /\ sleeper' = IF slot[t] = None THEN sleeper
                      ELSE [sleeper EXCEPT ![slot[t]] = None]
        /\ slot' = [slot EXCEPT ![t] = None]
        /\ UNCHANGED <<cancelWaiters, stack>>
     \/ /\ ~Aborted(t) /\ slot[t] = None
        /\ \E s \in Timer :
             /\ slotState[s] = "free"
             /\ slotState' = [slotState EXCEPT ![s] = "armed"]
             /\ sleeper' = [sleeper EXCEPT ![s] = t]
             /\ slot' = [slot EXCEPT ![t] = s]
        /\ cancelWaiters' = ParkOnSignal(t)
        /\ Suspend
        /\ UNCHANGED <<leaf, raising>>
     \/ /\ ~Aborted(t) /\ slot[t] # None /\ slotState[slot[t]] # "fired"
        /\ cancelWaiters' = ParkOnSignal(t)
        /\ Suspend
        /\ UNCHANGED <<leaf, raising, slot, slotState, sleeper>>
  /\ UNCHANGED <<nodeVars, group, index, parked, frames, fuel, got, born, detached,
                 ancestors, children, cancelled, failed, failWaiters, descendants,
                 ended, timerWaiters, microtasks, pc, sweep, tail, settleLog>>

\* Seeded fault: the whole list is cleared.
Unpark_all(list, t) == <<>>

\* unpark_from: t's entries leave the list (None stands for a removed entry;
\* waking it polls nothing).
Unpark(list, t) == [i \in DOMAIN list |-> IF list[i] = t THEN None ELSE list[i]]

\* A settled timer answers from its memo; an abort rejects this waiter only
\* and leaves the timer running.
TimerWait_poll(t) ==
  /\ Polling(t, "timer")
  /\ LET s == slot[t] IN
     \/ /\ slotState[s] # "armed"
        /\ Resume(t)
        /\ UNCHANGED <<timerWaiters, cancelWaiters, parked, raising, stack>>
     \/ /\ slotState[s] = "armed" /\ Aborted(t)
        /\ timerWaiters' = IF parked[t]
                           THEN [timerWaiters EXCEPT ![s] = Unpark(@, t)]
                           ELSE timerWaiters
        /\ Raise(t, "cancelled")
        /\ UNCHANGED <<cancelWaiters, parked, stack>>
     \/ /\ slotState[s] = "armed" /\ ~Aborted(t)
        /\ timerWaiters' = [timerWaiters EXCEPT ![s] = Append(@, t)]
        /\ cancelWaiters' = ParkOnSignal(t)
        /\ parked' = [parked EXCEPT ![t] = TRUE]
        /\ Suspend
        /\ UNCHANGED <<leaf, raising>>
  /\ UNCHANGED <<nodeVars, group, slot, index, frames, fuel, got, born, detached,
                 ancestors, children, cancelled, failed, failWaiters, descendants,
                 ended, slotState, sleeper, microtasks, pc, sweep, tail, settleLog>>

\* Seeded fault: the last child is not waited for.
Drained_early(n, i) == i >= Len(children[n])

\* The drain has seen every child registered so far.
Drained(n, i) == i > Len(children[n])

\* Seeded fault: the drain waits for the child alone.
DrainParksOnFail_not(n, t) == failWaiters

\* NodeJoin parks on the nursery's fail latch besides the child.
DrainParksOnFail(n, t) == [failWaiters EXCEPT ![n] = Append(@, t)]

\* One turn of nursery_run's drain: a latched failure ends the join and is
\* raised with the children absorbed, a drained list returns the body's value,
\* a settled child moves the index on, any other is waited for.
nursery_run_drain(t) ==
  /\ Polling(t, "drain")
  /\ LET n == Head(frames[t])
         c == children[n][index[t]]
     IN
     \/ /\ failed[n] # None
        /\ observed' = Absorb(n)
        /\ ended' = [ended EXCEPT ![n] = "raised"]
        /\ frames' = [frames EXCEPT ![t] = Tail(@)]
        /\ Raise(t, "panic")
        /\ UNCHANGED <<index, waiters, failWaiters, stack>>
     \/ /\ failed[n] = None /\ Drained(n, index[t])
        /\ ended' = [ended EXCEPT ![n] = "ok"]
        /\ frames' = [frames EXCEPT ![t] = Tail(@)]
        /\ Resume(t)
        /\ UNCHANGED <<observed, index, raising, waiters, failWaiters, stack>>
     \/ /\ failed[n] = None /\ ~Drained(n, index[t])
        /\ observed' = [observed EXCEPT ![c] = TRUE]
        /\ IF Settled(c)
           THEN /\ index' = [index EXCEPT ![t] = @ + 1]
                /\ UNCHANGED <<waiters, failWaiters, stack>>
           ELSE /\ failWaiters' = DrainParksOnFail(n, t)
                /\ waiters' = ParkOn(waiters, t, {c})
                /\ Suspend
                /\ UNCHANGED index
        /\ UNCHANGED <<leaf, raising, ended, frames>>
  /\ UNCHANGED <<status, failure, owner, reported, group, slot, parked, fuel, got,
                 born, detached, ancestors, children, cancelled, failed,
                 cancelWaiters, descendants, timerVars, microtasks, pc, sweep, tail,
                 settleLog>>

-----------------------------------------------------------------------------
(***************************************************************************)
(* The loop of block_on.                                                   *)
(***************************************************************************)

\* poll_task finds the task and its driver.
Pollable(id) == id # None /\ status[id] = "live"

drain_microtasks ==
  /\ Quiet /\ pc = "drain" /\ stack = <<>> /\ microtasks # <<>>
  /\ microtasks' = Tail(microtasks)
  /\ stack' = IF Pollable(Head(microtasks)) THEN <<Head(microtasks)>> ELSE <<>>
  /\ UNCHANGED <<nodeVars, futureVars, nurseryVars, timerVars, pc, sweep, tail,
                 settleLog>>

Unobserved(t) == Settled(t) /\ ~observed[t] /\ owner[t] = None

\* Seeded fault: one microtask per turn.
Exhausted_never == TRUE

\* drain_microtasks returns once the queue is empty.
Exhausted == microtasks = <<>>

\* The queue is empty: report_unobserved_failures, then the root's failure
\* ends the loop.
report_unobserved_failures ==
  /\ Quiet /\ pc = "drain" /\ stack = <<>> /\ Exhausted
  /\ reported' = [t \in Task |-> reported[t] \/ Unobserved(t)]
  /\ pc' = IF failure[Root] # "none" THEN "crashed" ELSE "macro"
  /\ UNCHANGED <<status, failure, observed, owner, waiters, futureVars, nurseryVars,
                 timerVars, microtasks, stack, sweep, tail, settleLog>>

\* advance_timers: the one earliest registration fires.  Deadlines are left
\* open, so any armed registration may be the earliest.
fire_timer ==
  /\ pc = "macro"
  /\ \E s \in Timer :
       /\ slotState[s] = "armed"
       /\ slotState' = [slotState EXCEPT ![s] = "fired"]
       /\ microtasks' = microtasks \o
            (IF sleeper[s] # None THEN <<sleeper[s]>> ELSE timerWaiters[s])
       /\ timerWaiters' = [timerWaiters EXCEPT ![s] = <<>>]
  /\ pc' = "drain"
  /\ UNCHANGED <<nodeVars, futureVars, nurseryVars, sleeper, stack, sweep, tail,
                 settleLog>>

\* Nothing is armed: the loop, and the program, end.
exit_loop ==
  /\ pc = "macro"
  /\ \A s \in Timer : slotState[s] # "armed"
  /\ pc' = "done"
  /\ UNCHANGED <<nodeVars, futureVars, nurseryVars, timerVars, microtasks, stack,
                 sweep, tail, settleLog>>

\* The program has ended.
Terminated == pc \in {"done", "crashed"} /\ UNCHANGED vars

-----------------------------------------------------------------------------
\* block_on has spawned the root, which is about to run its body.
Init ==
  /\ status = [t \in Task |-> IF t = Root THEN "live" ELSE "unborn"]
  /\ failure = [t \in Task |-> "none"]
  /\ observed = [t \in Task |-> t = Root]
  /\ owner = [t \in Task |-> None]
  /\ waiters = [t \in Task |-> <<>>]
  /\ reported = [t \in Task |-> FALSE]
  /\ leaf = [t \in Task |-> "none"]
  /\ group = [t \in Task |-> <<>>]
  /\ slot = [t \in Task |-> None]
  /\ index = [t \in Task |-> 1]
  /\ parked = [t \in Task |-> FALSE]
  /\ frames = [t \in Task |-> <<>>]
  /\ raising = [t \in Task |-> "none"]
  /\ fuel = [t \in Task |-> Fuel]
  /\ got = [t \in Task |-> None]
  /\ born = {}
  /\ detached = [n \in Nursery |-> FALSE]
  /\ ancestors = [n \in Nursery |-> {}]
  /\ children = [n \in Nursery |-> <<>>]
  /\ cancelled = [n \in Nursery |-> FALSE]
  /\ failed = [n \in Nursery |-> None]
  /\ failWaiters = [n \in Nursery |-> <<>>]
  /\ cancelWaiters = [n \in Nursery |-> <<>>]
  /\ descendants = [n \in Nursery |-> <<>>]
  /\ ended = [n \in Nursery |-> "open"]
  /\ slotState = [s \in Timer |-> "free"]
  /\ sleeper = [s \in Timer |-> None]
  /\ timerWaiters = [s \in Timer |-> <<>>]
  /\ microtasks = <<>>
  /\ stack = <<Root>>
  /\ pc = "drain"
  /\ sweep = <<>>
  /\ tail = <<>>
  /\ settleLog = <<>>

Operations(t) ==
  \/ spawn_in(t) \/ nursery_new(t) \/ nursery_new_detached(t) \/ cancel(t)
  \/ sleep(t) \/ yield_now(t) \/ await(t) \/ settle_all(t) \/ race(t)
  \/ timer(t) \/ timer_cancel(t) \/ timer_wait(t)
  \/ panic(t) \/ guarded_async(t) \/ Return(t) \/ Unwind(t)

Polls(t) ==
  \/ YieldOnce_poll(t) \/ TaskJoin_poll(t) \/ AllSettledOrAnyFailed_poll(t)
  \/ AnySettled_poll(t) \/ Sleep_poll(t) \/ TimerWait_poll(t)
  \/ nursery_run_drain(t)

Loop ==
  \/ Nursery_cancel \/ fail_wake \/ drain_microtasks
  \/ report_unobserved_failures \/ fire_timer \/ exit_loop

Next == (\E t \in Task : Operations(t) \/ Polls(t)) \/ Loop \/ Terminated

\* One thread runs the loop and every poll, so it is fair to it as a whole: it
\* keeps taking steps as long as there is one to take.
Spec == Init /\ [][Next]_vars /\ WF_vars(Next)

-----------------------------------------------------------------------------
(***************************************************************************)
(* Type correctness.                                                       *)
(***************************************************************************)
Failures == {"none", "panic", "cancelled"}
Leaves == {"none", "yield", "join", "settle_all", "race", "sleep", "timer", "drain"}
OptTask == Task \cup {None}

NodeTypes ==
  /\ status \in [Task -> {"unborn", "live", "settled"}]
  /\ failure \in [Task -> Failures]
  /\ observed \in [Task -> BOOLEAN]
  /\ owner \in [Task -> Nursery \cup {None}]
  /\ waiters \in [Task -> Seq(Task)]
  /\ reported \in [Task -> BOOLEAN]

FutureTypes ==
  /\ leaf \in [Task -> Leaves]
  /\ group \in [Task -> Seq(Task)]
  /\ slot \in [Task -> Timer \cup {None}]
  /\ index \in [Task -> Nat \ {0}]
  /\ parked \in [Task -> BOOLEAN]
  /\ frames \in [Task -> Seq(Nursery)]
  /\ raising \in [Task -> Failures]
  /\ fuel \in [Task -> Nat]
  /\ got \in [Task -> OptTask]

NurseryTypes ==
  /\ born \in SUBSET Nursery
  /\ detached \in [Nursery -> BOOLEAN]
  /\ ancestors \in [Nursery -> SUBSET Nursery]
  /\ children \in [Nursery -> Seq(Task)]
  /\ cancelled \in [Nursery -> BOOLEAN]
  /\ failed \in [Nursery -> OptTask]
  /\ failWaiters \in [Nursery -> Seq(Task)]
  /\ cancelWaiters \in [Nursery -> Seq(Task)]
  /\ descendants \in [Nursery -> Seq(Nursery)]
  /\ ended \in [Nursery -> {"open", "ok", "raised"}]

TimerTypes ==
  /\ slotState \in [Timer -> {"free", "armed", "fired", "cancelled"}]
  /\ sleeper \in [Timer -> OptTask]
  /\ timerWaiters \in [Timer -> Seq(OptTask)]

LoopTypes ==
  /\ microtasks \in Seq(OptTask)
  /\ stack \in Seq(Task)
  /\ pc \in {"drain", "macro", "done", "crashed"}
  /\ sweep \in Seq(Nursery)
  /\ tail \in Seq(Task)
  /\ settleLog \in Seq(Task)

\* The leaf futures with an operand have one: a drain belongs to a nursery_run
\* frame, a join, settle_all or race waits for tasks, a timer wait for a timer;
\* a failure unwinds through code, not through a future.
Operands ==
  \A t \in Task :
    /\ leaf[t] = "drain" => frames[t] # <<>>
    /\ leaf[t] \in {"join", "settle_all", "race"} => group[t] # <<>>
    /\ leaf[t] = "timer" => slot[t] # None
    /\ raising[t] # "none" => leaf[t] = "none"

\* Every field keeps the type its Rust declaration gives it, and a future its
\* operands.
TypeOK ==
  NodeTypes /\ FutureTypes /\ NurseryTypes /\ TimerTypes /\ LoopTypes /\ Operands

-----------------------------------------------------------------------------
(***************************************************************************)
(* Wakes are never lost.                                                   *)
(***************************************************************************)
Suspended(t) == status[t] = "live" /\ t \notin Range(stack)

InFlight(t) == t \in Range(microtasks) \/ t \in Range(tail)

\* The cancel signal of t's extent, if it has one, has not fired and will
\* wake t when it does.
SignalArmed(t) ==
  Ambient(t) # None =>
    ~cancelled[Ambient(t)] /\ t \in Range(cancelWaiters[Ambient(t)])

\* What t waits for has not happened yet, and t is on every list that is
\* drained when it does.
WaitsProperly(t) ==
  \/ /\ leaf[t] \in {"join", "race"}
     /\ \A u \in Range(group[t]) : ~Settled(u) /\ t \in Range(waiters[u])
  \/ /\ leaf[t] = "settle_all"
     /\ \E u \in Range(group[t]) : ~Settled(u)
     /\ \A u \in Range(group[t]) :
          IF Settled(u) THEN failure[u] = "none" ELSE t \in Range(waiters[u])
  \/ /\ leaf[t] = "sleep"
     /\ slot[t] # None /\ slotState[slot[t]] = "armed" /\ sleeper[slot[t]] = t
     /\ SignalArmed(t)
  \/ /\ leaf[t] = "timer"
     /\ slotState[slot[t]] = "armed" /\ t \in Range(timerWaiters[slot[t]])
     /\ SignalArmed(t)
  \/ /\ leaf[t] = "drain"
     /\ failed[Head(frames[t])] = None
     /\ t \in Range(failWaiters[Head(frames[t])])
     /\ index[t] <= Len(children[Head(frames[t])])
     /\ ~Settled(children[Head(frames[t])][index[t]])
     /\ t \in Range(waiters[children[Head(frames[t])][index[t]]])

\* No lost wake-up (TaskNode::settle, Nursery::cancel and fail, fire_timer,
\* TimerBody::settle against every park_on): a suspended task is either
\* already queued for a poll, or what it waits for is still outstanding and
\* holds its id.  No leaf future misses the event it parked for.
NoLostWake == \A t \in Task : Suspended(t) => InFlight(t) \/ WaitsProperly(t)

\* The loop exits only when nothing can run (block_on, advance_timers): a task
\* still live when the program ends is joining a task that is itself still
\* live; none sleeps, is queued, or could answer.
ExitLeavesNothingRunnable ==
  pc = "done" =>
    \A t \in Task : status[t] = "live" =>
      \/ /\ leaf[t] \in {"join", "race", "settle_all"}
         /\ \E u \in Range(group[t]) : status[u] = "live"
      \/ /\ leaf[t] = "drain"
         /\ \E c \in Range(children[Head(frames[t])]) : status[c] = "live"

-----------------------------------------------------------------------------
(***************************************************************************)
(* Nurseries.                                                              *)
(***************************************************************************)
\* The positions of n's real failures in the order of settlement.
FailuresOf(n) ==
  {i \in DOMAIN settleLog :
     owner[settleLog[i]] = n /\ failure[settleLog[i]] = "panic"}

\* Nursery::fail: the latch of a joined nursery holds the earliest-settled real
\* failure of its tasks, never a cancellation echo, and the extent is
\* cancelled by it.
FirstFailureWins ==
  \A n \in born : ~detached[n] =>
    /\ FailuresOf(n) = {} => failed[n] = None
    /\ \A i \in FailuresOf(n) :
         (\A j \in FailuresOf(n) : i <= j) => failed[n] = settleLog[i]
    /\ Quiet /\ failed[n] # None => cancelled[n]

\* Nursery::cancel and nursery_new: a cancelled nursery has every nursery
\* nested in its extent cancelled, the ones created after the cancel included.
CancelReachesExtent ==
  Quiet => \A m, n \in born : n \in ancestors[m] /\ cancelled[n] => cancelled[m]

\* nursery_run: a nursery that returned its body's value has every task that
\* ever registered with it settled, grandchildren included, and none failed.
JoinedBeforeReturn ==
  \A n \in born : ended[n] = "ok" =>
    \A c \in Range(children[n]) : Settled(c) /\ failure[c] # "panic"

\* nursery_run and Nursery::cancel: a task that outlives its nursery (which
\* returned, or raised without waiting for it) is a task of a cancelled extent.
OrphansAreCancelled ==
  Quiet => \A t \in Task :
    status[t] = "live" /\ owner[t] # None /\ ended[owner[t]] # "open"
      => cancelled[owner[t]]

\* Nursery::cancel aborts in-flight waits promptly: when the microtask queue is
\* exhausted, before any timer fires, no sleep or timer wait is left suspended
\* in a cancelled extent.
CancelIsPrompt ==
  pc \in {"macro", "done"} =>
    \A t \in Task : status[t] = "live" /\ leaf[t] \in {"sleep", "timer"} => ~Aborted(t)

\* report_unobserved and Nursery::fail: at the macrotask boundary a real failure
\* of a free task, or of a task of a detached nursery, is observed or reported.
NoFreeFailureIsSilent ==
  pc \in {"macro", "done"} =>
    \A t \in Task :
      failure[t] = "panic" /\ (owner[t] = None \/ detached[owner[t]])
        => observed[t] \/ reported[t]

\* TimerBody::settle: the first settlement of a timer is its verdict forever.
TimerFirstSettlementWins ==
  [][\A s \in TimerHandles : slotState[s] # "armed" => slotState'[s] = slotState[s]]_vars

-----------------------------------------------------------------------------
(***************************************************************************)
(* Liveness.                                                               *)
(***************************************************************************)
\* block_on: a program of finitely many operations ends; no wake, duplicate or
\* stale, keeps the loop turning.
LoopEnds == <>(pc \in {"done", "crashed"})

\* nursery_run: once every registered task has settled, the join ends.
JoinEnds ==
  \A t \in Task :
    (leaf[t] = "drain" /\ \A c \in Range(children[Head(frames[t])]) : Settled(c))
      ~> (leaf[t] # "drain" \/ pc = "crashed")

=============================================================================
