----------------------------- MODULE EventLoop ------------------------------
(***************************************************************************)
(* The macrotask half of the executor's turn (executor.rs: advance_timers, *)
(* earliest_timer, fire_timer, register_timer, IoSource, register_io,      *)
(* poll_io, sole_io_source, advance_macrotasks, run_pending): when the loop *)
(* fires a timer, looks at its I/O sources, sleeps, blocks and exits.      *)
(*                                                                         *)
(* Time is relative: every armed timer carries the ticks left until its    *)
(* deadline, so that a server may run forever in finitely many states.     *)
(* The tasks are reduced to the operations on timers and sources that they *)
(* perform while the microtask queue drains.                               *)
(***************************************************************************)
EXTENDS Integers, Sequences, SequencesExt

CONSTANTS
  Timer,      \* registrations of the deadline list (Rc<TimerSlot>)
  Source,     \* I/O sources (Rc<dyn IoSource>)
  Blocking,   \* the sources whose block() can wait for work
  Interval,   \* IO_POLL_INTERVAL in ticks
  MaxDelay,   \* bound: the longest delay a program asks for, in ticks
  MaxSteps    \* bound: operations the program performs in all

ASSUME EventLoopAssumption ==
  /\ Blocking \subseteq Source
  /\ Interval \in Nat \ {0} /\ MaxDelay \in Nat /\ MaxSteps \in Nat

VARIABLES
  timers,    \* Runtime.timers: the armed ones, by (deadline, sequence)
  left,      \* ticks until the deadline of a timer, 0 once it is due
  unused,    \* the timers not registered yet
  io,        \* Runtime.io
  open,      \* is_live of a source
  ready,     \* the work a source's next poll will find
  fresh,     \* the sources not registered yet
  awake,     \* a macrotask queued tasks that the drain has yet to run
  steps,     \* operations the program has left
  pc,        \* where the loop is
  wake       \* ticks left of the sleep or the block, Forever without a limit

programVars == <<unused, fresh, steps>>
vars == <<timers, left, io, open, ready, awake, pc, wake, programVars>>

Forever == MaxDelay + Interval + 1

-----------------------------------------------------------------------------
(***************************************************************************)
(* What tasks do while the microtask queue drains.                         *)
(***************************************************************************)
Program ==
  /\ pc = "drain" /\ awake /\ steps > 0
  /\ steps' = steps - 1
  /\ UNCHANGED <<awake, pc, wake>>

\* The place of a deadline in the list's firing order: by deadline, then by
\* registration.
Place(i, d) ==
  \A j \in DOMAIN timers : j < i <=> left[timers[j]] <= d

register_timer ==
  /\ Program
  /\ \E s \in unused, d \in 0..MaxDelay :
       /\ unused' = unused \ {s}
       /\ left' = [left EXCEPT ![s] = d]
       /\ \E i \in 1..Len(timers) + 1 :
            Place(i, d) /\ timers' = InsertAt(timers, i, s)
  /\ UNCHANGED <<io, open, ready, fresh>>

\* A cancelled registration is swept before the list is next read.
cancel_timer ==
  /\ Program
  /\ \E i \in DOMAIN timers : timers' = RemoveAt(timers, i)
  /\ UNCHANGED <<left, unused, io, open, ready, fresh>>

register_io ==
  /\ Program
  /\ \E x \in fresh :
       /\ fresh' = fresh \ {x}
       /\ io' = io \cup {x}
       /\ open' = [open EXCEPT ![x] = TRUE]
  /\ UNCHANGED <<timers, left, unused, ready>>

\* A server is closed, a read stops waiting: the source has no more to give.
close_io ==
  /\ Program
  /\ \E x \in io :
       /\ open' = [open EXCEPT ![x] = FALSE]
       /\ ready' = [ready EXCEPT ![x] = FALSE]
  /\ UNCHANGED <<timers, left, unused, io, fresh>>

\* The queue is empty (drain_microtasks returned).
drained ==
  /\ pc = "drain"
  /\ awake' = FALSE
  /\ pc' = "turn"
  /\ UNCHANGED <<timers, left, io, open, ready, wake, programVars>>

-----------------------------------------------------------------------------
(***************************************************************************)
(* advance_macrotasks.                                                     *)
(***************************************************************************)

\* Seeded fault: with sources registered no timer is looked at.
DueAfterPoll_never == FALSE

\* The earliest timer, if there is one, is due.
DueAfterPoll == timers # <<>> /\ left[Head(timers)] = 0

\* fire_timer on the earliest registration; its action queues tasks.
fire ==
  /\ timers' = Tail(timers)
  /\ awake' = TRUE
  /\ pc' = "drain"

\* Seeded fault: dead sources stay in the registry.
Retained_all(closed) == io

\* poll_io keeps the live sources; a poll may have closed some.
Retained(closed) == {x \in io : open[x] /\ x \notin closed}

\* With sources registered the turn starts by polling each of them once and
\* dropping the dead; progress ends the turn.  A source that progressed may
\* have come to its end (the last connection, the last waiting read).
poll_io ==
  /\ pc = "turn" /\ io # {}
  /\ LET progressed == \E x \in io : ready[x] IN
     /\ awake' = progressed
     /\ pc' = IF progressed THEN "drain" ELSE "due"
  /\ ready' = [x \in Source |-> FALSE]
  /\ \E closed \in SUBSET {x \in io : ready[x]} :
       /\ open' = [x \in Source |-> open[x] /\ x \notin closed]
       /\ io' = Retained(closed)
  /\ UNCHANGED <<timers, left, wake, programVars>>

\* No source progressed: the earliest timer fires if it is due.
fire_due ==
  /\ pc = "due" /\ DueAfterPoll
  /\ fire
  /\ UNCHANGED <<left, io, open, ready, wake, programVars>>

\* Seeded fault: a source that can block does so beside others.
Sole_any(x) == x \in io

\* sole_io_source.
Sole(x) == io = {x}

\* Seeded fault: the block has no limit.
BlockLimit_none == Forever

\* A block lasts until the next deadline, or as long as it takes.
BlockLimit == IF timers = <<>> THEN Forever ELSE left[Head(timers)]

\* Seeded fault: an idle turn sleeps until the next deadline.
IdleWait_long == BlockLimit

\* An idle turn sleeps a poll interval, or less if a deadline is nearer.
IdleWait == IF BlockLimit < Interval THEN BlockLimit ELSE Interval

Blockable(x) == x \in Blocking /\ Sole(x) /\ BlockLimit > 0

\* Nothing is due.  If every source died in this turn's poll, the turn goes on
\* as the plain timer step.
none_due ==
  /\ pc = "due" /\ ~DueAfterPoll
  /\ pc' = IF io = {} THEN "turn" ELSE "idle"
  /\ UNCHANGED <<timers, left, io, open, ready, awake, wake, programVars>>

\* A source is left: the loop waits for it when it is the only one and can
\* block, and sleeps otherwise (not at all if a deadline passed meanwhile).
wait_io ==
  /\ pc = "idle"
  /\ IF \E x \in io : Blockable(x)
     THEN pc' = "blocked" /\ wake' = BlockLimit
     ELSE pc' = "asleep" /\ wake' = IdleWait
  /\ UNCHANGED <<timers, left, io, open, ready, awake, programVars>>

\* block() returns when its source has something, or at its limit.
block_returns ==
  /\ pc = "blocked"
  /\ wake = 0 \/ \E x \in io \cap Blocking : ready[x]
  /\ pc' = "drain"
  /\ UNCHANGED <<timers, left, io, open, ready, awake, wake, programVars>>

\* The bounded sleep of an idle turn ends.
sleep_returns ==
  /\ pc = "asleep" /\ wake = 0
  /\ pc' = "drain"
  /\ UNCHANGED <<timers, left, io, open, ready, awake, wake, programVars>>

\* advance_timers: with no source the thread sleeps until the earliest deadline
\* and fires that registration.
advance_timers ==
  /\ pc = "turn" /\ io = {} /\ timers # <<>>
  /\ pc' = "timing"
  /\ wake' = left[Head(timers)]
  /\ UNCHANGED <<timers, left, io, open, ready, awake, programVars>>

fire_slept ==
  /\ pc = "timing" /\ wake = 0
  /\ fire
  /\ UNCHANGED <<left, io, open, ready, wake, programVars>>

\* Seeded fault: only the deadline list keeps the loop running.
NothingLeft_timers == timers = <<>>

\* advance_macrotasks answers false.
NothingLeft == io = {} /\ timers = <<>>

exit_loop ==
  /\ pc = "turn" /\ NothingLeft
  /\ pc' = "done"
  /\ UNCHANGED <<timers, left, io, open, ready, awake, wake, programVars>>

\* The program has ended.
Terminated == pc = "done" /\ UNCHANGED vars

-----------------------------------------------------------------------------
(***************************************************************************)
(* The outside world.                                                      *)
(***************************************************************************)

\* A connection, bytes, a line: a live source has work.
arrive ==
  /\ \E x \in io :
       /\ open[x] /\ ~ready[x]
       /\ ready' = [ready EXCEPT ![x] = TRUE]
  /\ UNCHANGED <<timers, left, io, open, awake, pc, wake, programVars>>

\* saturating_duration_since: a deadline that has passed leaves nothing.
Down(n) == IF n = 0 \/ n = Forever THEN n ELSE n - 1

\* A tick of the clock, at any point of the loop.
tick ==
  /\ pc # "done"
  /\ left' = [s \in Timer |-> Down(left[s])]
  /\ wake' = Down(wake)
  /\ UNCHANGED <<timers, io, open, ready, awake, pc, programVars>>

-----------------------------------------------------------------------------
\* The synchronous body of main, whose end run_pending follows, may register
\* timers and sources as any task may.
Init ==
  /\ timers = <<>>
  /\ left = [s \in Timer |-> 0]
  /\ unused = Timer
  /\ io = {}
  /\ open = [x \in Source |-> FALSE]
  /\ ready = [x \in Source |-> FALSE]
  /\ fresh = Source
  /\ awake = TRUE
  /\ steps = MaxSteps
  /\ pc = "drain"
  /\ wake = 0

Loop ==
  \/ register_timer \/ cancel_timer \/ register_io \/ close_io \/ drained
  \/ poll_io \/ fire_due \/ none_due \/ wait_io
  \/ block_returns \/ sleep_returns \/ advance_timers \/ fire_slept \/ exit_loop

Next == Loop \/ arrive \/ tick \/ Terminated

\* The loop's thread runs whenever it can, and the clock does not stop.  Nothing
\* is assumed of the outside world.
Spec == Init /\ [][Next]_vars /\ WF_vars(Loop) /\ WF_vars(tick)

-----------------------------------------------------------------------------
Waiting == pc \in {"asleep", "blocked", "timing"}

\* block and the waits: the loop never waits past a deadline, so no timer is
\* late for the sake of a source, whichever of the three waits it is in.
NeverWaitsPastADeadline ==
  Waiting => \A i \in DOMAIN timers : wake <= left[timers[i]]

\* IoSource: "a request waits at most a millisecond longer", and "nothing else
\* can wake the loop while it blocks, which is why a second live source turns
\* this off": a loop with a source to watch waits at most one poll interval,
\* unless the wait is that source's own.
SourcesAreWatched ==
  Waiting /\ io # {} =>
    \/ pc = "asleep" /\ wake <= Interval
    \/ pc = "blocked" /\ \E x \in Blocking : io = {x}

\* run_pending and block_on: the loop ends only when nothing can ever happen,
\* no task queued, no timer armed and no source live.
EndsOnlyWhenIdle ==
  pc = "done" => timers = <<>> /\ ~awake /\ \A x \in Source : ~open[x]

\* advance_macrotasks: what arrives at a source is looked at.
ArrivalsAreServed == \A x \in Source : ready[x] ~> ~ready[x]

\* fire_due and fire_slept: once the sources stop progressing, every timer
\* fires or is cancelled.
TimersFire ==
  (\A x \in Source : <>[]~ready[x]) =>
    \A s \in Timer : (s \in Range(timers)) ~> (s \notin Range(timers))

\* is_live: with every source closed for good, the loop ends.
ClosedLoopEnds == <>[](\A x \in Source : ~open[x]) => <>(pc = "done")

=============================================================================
