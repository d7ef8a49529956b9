# Vilan: a TLA+ verification project

Vilan is a programming language with a Rust compiler (`crates/vilan-core`), a
language server (`crates/vilan-lsp`), a command line with a hot-reloading
development server (`crates/vilan-cli`), two back ends (JavaScript, and Rust
through `crates/vilan-rust`), a native runtime (`crates/vilan-rt`) and a standard
library written in Vilan (`vilan/std`). This directory models the parts whose
correctness depends on order, interleaving, cancellation and time: the native
runtime's executor, on which every asynchronous native program runs and which
must behave as the JavaScript helpers of `transformer.rs` do, its stdin reader
and its HTTP server, the scheduler of `std::reactive`, and the language server's
analyses.

Paths below are relative to the repository's root, without the leading `src/`
that PROJECT.json uses.

## Inventory

| part | state | operations | hard because |
|---|---|---|---|
| executor, `crates/vilan-rt/src/executor.rs` | tasks with wake lists, nurseries, deadline list, microtask queue, task slab, I/O registry | spawn, await, settle_all, race, yield, sleep, timer, nursery, cancel, the loop | lost and duplicate wakes, cancellation against settlement, joins over growing lists, stale handles, when to sleep and when to exit |
| `std::task`, `vilan/std/src/task.vl` | the ambient nursery | nursery, OwnedNursery, ambient_signal | the Vilan face of the executor's nurseries |
| stdin, `crates/vilan-rt/src/process.rs` | buffer, queue of reads, reader thread, source | line read, byte read with a wait, pump, poll, block | a second thread, chunk boundaries, cancellation of a read in flight |
| HTTP, `crates/vilan-rt/src/http.rs`, `vilan/std/src/http.vl` | listener, connections with their stage, body and outbox, stop and termination flags | listen, accept, read, dispatch, read a body whole or as a stream, answer, stream, refuse, drain, linger, close, stop, terminate | partial reads and writes, tasks that read a body that is refused, answered or cut meanwhile, closing over unread bytes, hung-up clients |
| `std::reactive` and its stores | cells, subscriptions, owners, turns, deltas | write, settle, derive, effect, release | glitches, re-entrant writes, release during a run, late registrations |
| `std::rpc`, mirrors, `ws` | calls, streams, subscriptions, mirrored stores | call, reply, subscribe, reconnect, apply delta | lost sockets, retries, deltas out of order, stale snapshots |
| language server, `schedule.rs`, `publish.rs`, `world.rs` | documents, versions, analyses in flight | edit, schedule, cancel, publish | stale analyses, diagnostics of an old version published late |
| development server and watch, `hmr.rs`, `hmr_shim.js`, `job.rs` | rounds, clients, child processes | rebuild, push, restart, signal | a change during a build, clients that miss a push, a signal during a spawn |
| compiler: lexer, parser, analyzer, interpreter, emitters, formatter | one compilation | sequential functions | size, not order |
| values, JSON, printing, files, crypto | none | conversions and input/output | JavaScript-compatible formatting |
| packaging and editors | none | scripts and grammars | - |

**How they interact.** Emitted programs call the executor; `http.rs` and
`process.rs` register themselves with it as `IoSource`s and park their futures on
the same wake lists and cancel signals as the executor's own leaf futures.
`std::reactive` defers its settling through `queue_microtask` and gives every
run of a body a detached nursery; `std::rpc` drives its sockets as tasks. The
language server and the development server are separate processes around the
compiler.

What makes each part correct, in a sentence:

- *executor*: no event a task waits for passes it by; a nursery's outcome is its
  first failure; a cancel reaches its whole extent at once; the loop ends when,
  and only when, nothing can happen any more;
- *stdin*: every byte of the input reaches exactly one read, in order, whoever
  is cancelled;
- *HTTP*: a body reaches its readers whole or not at all, a request gets at most one
  answer, which is not lost to the close, and a stopped server ends;
- *reactive*: a settled turn leaves every derived value equal to its definition,
  and nothing of a released owner runs;
- *rpc and mirrors*: a mirror converges to its source over any sequence of
  disconnections;
- *language server*: the diagnostics shown last belong to the last version;
- *development server*: the last change is built and every client reaches it.

The hazards behind these, each at its line, are in PROJECT.json.

## Modules

| module | models | role |
|---|---|---|
| `Executor` | tasks, joins, nurseries, timers, the loop | the core |
| `ExecutorProofs`, `ExecutorJoinProofs` | - | theorems about `Executor`: its types; extents, timers and latches; wakes, joins and failures |
| `TaskSlab` | the generational slab the tasks are kept in | detailed specification |
| `TaskNames` | handles that are never reused | abstract specification, implemented by `TaskSlab` |
| `TaskSlabProofs` | - | theorems about `TaskSlab`, the refinement included |
| `EventLoop` | the macrotask half of a turn: timers, sources, waits, exit | composes timers and I/O sources |
| `EventLoopProofs`, `StdinProofs`, `HttpServerProofs`, `ReactiveProofs`, `LanguageServerProofs` | - | theorems about the module they are named for |
| `Stdin` | the shared stdin reader with its thread and its source | a client of the executor and of the loop |
| `LanguageServer` | analyses from the notification to the diagnostics on the screen | a component of its own |
| `Reactive` | cells, observers, turns and their drains | a component of its own |
| `HttpServer` | the HTTP server under its clients and the handlers of `std::http` | a client of the executor and of the loop |
| `MC...` | - | small instances for TLC: symmetry, inputs, packages, requests |

### Executor

A state is the runtime between two steps of its one thread. `status`, `failure`,
`observed`, `owner`, `waiters` and `reported` are the fields of `TaskNode`; `leaf`
and the variables after it are the leaf future a task is suspended at together
with the `nursery_run` calls on its stack (`frames`, innermost first); `children`,
`cancelled`, `failed`, `failWaiters`, `cancelWaiters` and `descendants` are
`NurseryBody`; `slotState` is the pair of flags of a `TimerSlot`; `microtasks` is
the queue and `stack` the nested polls (a spawn polls its task inside the
spawning task's own poll).

What tasks compute is left open. A task that is being polled and not suspended
may perform any operation of `Ops`, return or panic, so a run covers every program
of at most `Fuel` operations per task. One action is one operation (`spawn_in`,
`nursery_new`, `cancel`, `sleep`, `race`, ...), one poll of a leaf future
(`Sleep_poll`, `TaskJoin_poll`, `nursery_run_drain`, ...), or one step of the loop
(`drain_microtasks`, `report_unobserved_failures`, `fire_timer`, `exit_loop`).
`Nursery::cancel` is recursive in the code; the model visits one nursery per step
(`Nursery_cancel`) with the rest in `sweep`, and nothing else is enabled until it
is done (`Quiet`), as befits one synchronous call. `tail` holds the wakes that
`Nursery::fail` and `settle` make after that call returns.

Abstractions: values and messages are left out, a failure is a panic or a
cancellation; deadlines are open (any armed registration may be the earliest;
`EventLoop` has the deadlines); `ancestors` is the closure of the parent links,
whose weak references change nothing (a parent's frame outlives the nurseries
created in it or its extent is cancelled); `with_finally_async` passes values and
failures through; `queue_microtask` is a spawn followed by a yield; a task does
not await itself; `settle_all` and `race` take two tasks. A removed entry of a
timer's wake list is left as `None`, whose wake polls nothing.

### TaskSlab

`register_task`, `poll_task` on any handle ever minted, and `reap_settled`. The free
list is a set, so the result holds whatever order slots are popped in. `polled` and
`peak` are history. `TaskNames` has no slots: a name is spawned, woken and reaped.
`Executor` uses task identities as names, which is what the refinement justifies.

### EventLoop

Time is relative (ticks to a deadline), so a server that runs forever has finitely
many states. `poll_io`, `fire_due`, `none_due` and `wait_io` are the consecutive
parts of `advance_macrotasks`, with the clock and the outside world free to move
between them: a deadline may pass between the due check and the wait. `timers` is
kept in firing order; the code keeps it unordered and takes the minimum by
deadline and sequence; `Place` is where a new one goes, behind those due at the same
tick. Sources are what `IoSource` says of them: they may have work,
progress, die in a poll, and some can block.

### Stdin

The reader thread, its two channels, the pump, the reads (line, bytes, bytes with a
wait, in any mixture) and `StdinSource`. A byte is text, a carriage return or a newline; decoding is
left out. The pump is one synchronous call on the loop's thread, taken one answer
at a time. The history is two numbers: `position`, how much of the
input the answers given out stand for, and `given`, how many there were.
`Consumed` is the reference the incremental splitting is compared with: where in the
whole input an answer that starts at a position must end, and what it must be.

### HttpServer

A connection is one record: `stage` and `body` are the enumerations `Stage` and
`BodyState` (`StreamEnded` being `Streaming { ended: true }`), `got` and `used` how much
of the client's message has been read and taken out of the inbox, `decoded` what is
held for a reader, `received` what the cap counts, `chunk` and `left` the
`ChunkDecoder`, `waiters` who is parked on the body, `answered`, `headSent` and `ended`
the three flags of an answer, `outbox` whether anything is queued, `linger` the
deadline. `heads` is history: the response heads queued. The functions of `http.rs` that change
one connection (`refuse_with`, `send_head`, `end_bytes`, `close`, `advance_body`,
`lingers`, ...) are operators from a record to its next one
(`feed` is the decoder's loop over the pieces that have arrived, a recursive function of their number), and the actions are the
application's calls, the steps of the server's poll (`begin_poll`, then
`service_read` and `service_write` for each connection, `end_poll`), and the clients.

The application is arbitrary: the handler of a request and another task it spawned
read the body whole or claim it as a stream and read pieces, answer with a body,
without one or with a stream, panic, send on the stream and close it from anywhere,
`on_close` included. They run between polls, and inside one when the server calls
the handler. A client sends one of `Requests`, or only the first of it: what has arrived
at a read is any prefix, and it may leave at any point, after which a read meets
the end and a write may fail. A message is a head and the pieces of its body (a unit of data,
or a line of a chunked body); the text of heads, headers and lines is left out, a head
is one that is served, upgraded or refused. A termination request is seen at the
start of a poll, which is the only place the code looks.

All reads of a run have one `Cap`, where the code takes a limit with each read and the
server's for a body left unread. A cancellation that ends a handler (the `Cancelled` arm of
`respond`) is modelled in its reads of the body, and not in its other waits.

Left out: idle timeouts, the deferred `on_ready`, `stop` called twice (which loses
the first callback), a second termination request (which exits the process),
multipart parsing and the client.

### LanguageServer

`open`, `text` and `doc` are `Backend.documents`, `schedule` is `Schedule.documents`
(generation, ticket, dependency-moved mark, the running analyses), `worlds` the
worlds kept for entries that are not open, `owned` the state of `publish.rs`, `shown`
what the client displays, `tasks` the spawned tasks and suspended handlers with the
point each is at, `gate` the queue of the publish gate. `dropped` is history: the keys
whose schedule went, with a close or with their retired world, and so is `missed`: the files
that were behind when a skip left them so, a pause whose own text was unchanged (`Wake`) or
a sweep that stopped for a notification that brings none (`Sweep`). A step is the code between
two awaits: a notification's handler (`did_open`, `did_change`, ...), the end of a
debounce (`Wake`), the analysis thread reading one file (`Read`), its return, landing,
publishing, retiring worlds, collecting and sweeping dependents. The worlds nothing
lives in any more are found once and then retired one by one, with a wait for the gate
between two of them (`Retire`, `RetireNext`). A sweep notes the revision it answers in the
step that collects the dependents; the code reads it just after.

The data of an analysis is what it read, a function from files to texts, and its
diagnostics stand for that function: a stale diagnostic is one computed from a text
a file no longer has. With "undo" in `Notify` a change may go back to a text the file had,
which `pause_action` finds unchanged; without it every change is a new text, as in the
claim's run. Left out: requests (hover, completion) and the keystroke path that answers
from a landed analysis, repainting with shifted positions, further worlds of a
module that two platforms reach, manifests and package unions, the focus list and
the release of programs, and two spellings of one file.

### Reactive

`stack` is the call stack of the one thread: application code in an ambient turn, a
turn's drain with the wave it took, or an inline notification with its snapshot.
Application code is arbitrary within `Calls`: it writes cells, attaches and disposes
observers, opens nested turns, flushes, hands actions to `at_settle`, writes late
through a captured turn, suspends and throws. `turns` holds the two queues with their
dedup sets and the flags `draining`, `settled` and `scheduled`; `epoch` is the live
epoch of the owner of an effect's runs. There is one memo, over all sources, one
effect, and the effects its runs attach; the first run of one of these is code of the run that
attaches it. `Fires` stands for the four places that read `Subscriber.live` before a run, `Fire` for
the effect's run (`Owner::renew`, then the body) and the memo's refresh. `enqueue` and `kept` are the loops over a
subscriber list: the first puts each one into its queue, the second leaves out the ones
released. Left out: tracked reads and their re-run edge,
the other pipe stages, release hooks that defer, the nursery of a run, the drain's
budget, deltas and stores, Resource, Draft and Optimistic.

## Runs

| run | instance | shows |
|---|---|---|
| ExecutorJoins | 3 tasks, 2 timers, 3 operations each | NoLostWake, ExitLeavesNothingRunnable |
| ExecutorNurseries | 3 tasks, 2 nested nurseries, 1 timer, 3 operations | NoLostWake, FirstFailureWins, CancelReachesExtent, OrphansAreCancelled, JoinedBeforeReturn, CancelIsPrompt, TimerFirstSettlementWins |
| ExecutorLiveness | 3 tasks, 1 nursery (joined or detached), 1 timer, 2 operations | NoFreeFailureIsSilent, LoopEnds, JoinEnds |
| TaskSlab | 4 tasks | WakesOnlyItsOwn, UnsettledIsFound, SlabIsPeakSized, ReuseIsInvisible |
| EventLoop | 2 timers, 2 sources, delays to 3, 5 operations | NeverWaitsPastADeadline, SourcesAreWatched, EndsOnlyWhenIdle, ArrivalsAreServed, TimersFire, ClosedLoopEnds |
| Stdin | 2 readers, 4 inputs of up to 4 bytes, 2 reads each of any kind | AnswersAreTheInput, WatchedWhileWaiting, ReadsEnd |
| HttpServer | 1 connection, 8 requests, cap and slice of 2, 2 tasks, 2 reads and writes | BodyIsTheClients, ReadersAreServed, OneAnswer, DeclinedStaysOnTheWire, AnswerOutlivesTheClose, StopEnds |
| LanguageServer | 1 entry, open at first, and 1 module that may be opened, 2 texts each, edits undone, 3 notifications | ShownIsLanded, OnlySkipsMiss, SupersededIsCancelled |
| Reactive | 2 cells, 1 memo, up to 4 observers, 2 turns, 7 operations | StaleIsInFlight, NothingIsStranded, ParentFirst, OwnedByALiveRun, EffectsFollowDerivations |
| ClaimNoStaleWorld | 2 entries and 1 module, 2 edits | NoStaleWorld refuted |
| ClaimBrokenTurnsDrain | as Reactive | BrokenTurnsDrain refuted |
| ClaimTerminationEndsReads | as HttpServer | TerminationEndsReads refuted |

**Bounds.** `Fuel` bounds the operations of one task. Three are enough to spawn two
tasks and then join them, to open a nursery, spawn in it and cancel it, or to nest
two nurseries; two tasks beside the root are enough for two failures in one
cascade, for a child that spawns a grandchild during the drain, and for a shared
timer with two waiters. `Ops` gives each run the operations its question is about.
`MaxDelay` and `MaxSteps` bound the program of `EventLoop`: with an interval of one
tick a delay of three has deadlines before, at and after the end of an idle sleep.
The inputs of `Stdin` hold a pair of carriage return and newline inside a text, after
another carriage return, and each of the two alone, cut into chunks anywhere; two reads of two readers let a cancelled reader be followed by
another on the same chunk request. The slab needs four tasks for a slot to be used
three times with a stale handle of each earlier use. Connections of `HttpServer` share
nothing but the server's flags, so one is enough for what happens on it; its eight
requests have no body, one of exactly the cap, one declared over it, a chunked one
within it, one that crosses it at its second chunk, one that is malformed, an upgrade
and a refused head with a body behind it, and two reads let a stream's first piece be taken before the
cap is crossed. Its listener closes the stream it hears the end of; a listener that
does nothing leaves the connection as an answer without one does (the claim's run has
both). In `LanguageServer` the entry is open at first, so that three notifications are
enough to open the module and edit both files, to open it, edit one and close either, or
to open it, close the entry, whose world is kept for it, and close the module, which
retires that world; two texts are enough for an edit and its undo, or for an edit of one
file under another's; a second entry appears only in the claim's run. Seven operations
of `Reactive` open a turn inside a turn, write, suspend and write late.

Tasks other than the root, nurseries and timers are interchangeable, so the
executor's and the slab's runs without liveness properties use symmetry.

**Fairness.** `Executor` has weak fairness of its whole next-state relation: one
thread runs the loop and every poll, so it stops only where there is no step. It
does not say which operation a program performs. `EventLoop` has weak fairness of
the loop's thread and of the clock, and none of the outside world: nothing has to
arrive, and TimersFire therefore speaks of the time after sources went quiet
(while a source progresses in every poll, the code fires no timer). `Stdin` has weak
fairness of the two threads, which for the reader thread includes that the blocking
read returns: the terminal or pipe eventually says something or closes. `HttpServer` has weak
fairness of the server's poll, and strong fairness, since they can act only
between polls, of what StopEnds must wait for: handlers answer and streams are
closed in the end (a stream nobody closes keeps a stopped server open, as the
comment on `request_termination` says), clients leave in the end, and the linger
deadline passes. `LanguageServer` and `Reactive` are specified without fairness;
their properties are about states at rest and single steps.

### Where the code and its documentation part

Three runs refute a sentence of the repository's comments.

- `ClaimNoStaleWorld`: `land_world` claims that "no document ever shows diagnostics
  from a stale world". Two entries import a module; the module is edited, and then,
  within the debounce, the entry whose world serves it. The second edit supersedes
  the first under one key, and its sweep covers only the dependents of its own
  file: the other entry keeps the diagnostics of the old module.
- `ClaimBrokenTurnsDrain`: `drain` says that after a throw "the next `set` drains
  normally, this turn included". A throw out of `turn`'s own drain skips the line
  that settles the turn, and a later write through a captured turn is queued and never
  drained.
- `ClaimTerminationEndsReads`: `terminate` says that "a handler still waiting for a
  body ... ends with the connection". It asks for `Reading` and `Draining`; a handler
  that waits for the next piece of a stream is in `Streaming` and is left waiting.

Met while modelling, and not stated as properties:

- an edit undone within the debounce can leave an earlier change unanalysed, also in a
  package with one entry. `on_change` supersedes the pending analysis of the whole world
  (`main.rs:3904`), and `pause_action` then compares the text of the edited document
  alone (3911-3922): a module is edited, the entry is edited and the edit undone, and the
  module's pause is superseded, the entry's unchanged. Nobody analyses the module's edit,
  though 3383-3384 says that in that case "every answer already out there is still
  right". In the same way a document that is opened, edited and restored within
  the debounce is left with no analysis: the edit has cancelled the one its opening
  started, which `document.rs:1890-1895` counts on;
- a sweep stops for any later notification, since "a newer edit has landed and is bringing
  its own sweep" (`main.rs:3228-3232`), but an open and a close move the revision too
  and bring none for the dependents: a change on disk that was about to be swept
  can be left unanalysed. These two are what `OnlySkipsMiss` excepts;
- a wake list entry made twice is not always harmless: a `settle_all` is on the
  lists of both its tasks, and when both settle in one cascade a yield made after
  the first poll is ended early by the second wake;
- `race` answers the first settled task of its list, not the first to settle, though
  its comment says the latter (`executor.rs:857`);
- a detached nursery reports a failure inside `settle`, where the JavaScript helper waits for the
  next macrotask and asks again whether the task was observed;
- a language-server key that is closed and opened again, or whose world is retired and
  comes to life again, counts generations and tickets from
  zero, so a pause of the earlier session can match the new one's numbers:
  `SupersededIsCancelled` excludes those keys (`dropped`), and `ShownIsLanded` speaks of
  sessions without a reopened file;
- the dead worlds are found once, before the waits for the gate that retire them: one
  that a document comes to live in during such a wait is retired all the same. The
  run's three notifications are too few for it;
- a request whose handler panics while its body is being read, or whose body was
  asked for after the answer, is closed at once and not drained or lingered on, so
  that its answer can be lost to a reset (`AnswerOutlivesTheClose` excludes the body
  states `Gone`, `Reading` and `Streaming` for that reason), though `http.vl:319`
  says that an unfinished stream is treated as an unread body is;
- a head that is refused is answered and its connection closed at once, without
  lingering over a body that follows it, so that this answer too can be lost to a
  reset (`AnswerOutlivesTheClose` speaks of requests that were dispatched);
- an `on_close` handler that closes its stream sets a closed connection back to
  `Closing`, so that the server serves it once more and its close handlers run twice.

A nursery that raises, as opposed to one that returns, does not wait for its other
tasks: `OrphansAreCancelled` states what holds of the ones left running.

## Proofs

`tlapm` proves the following for all values of the constants that satisfy the named
assumption of each module:

- `ExecutorAssumption`: the root is a task, `None` is none of the identities, the
  operations are among `OpNames`. The sets of tasks, nurseries and timers may be
  infinite, and `Fuel` is any natural number;
- `TaskSlabAssumption`: `NoTask` is no task;
- `EventLoopAssumption`: some sources can block, the idle interval is a tick at least;
- `StdinAssumption`: finitely many readers, text that holds neither of the two line
  characters, inputs of any length;
- `HttpAssumption`: a declared length is the body's, only plain requests have a framing,
  a read takes at least one unit. Connections, requests and the cap are arbitrary;
- `FramingAssumption`, also of `HttpServer` and cited only by `BodiesAreTheClients` and
  `AnswersOutliveTheClose`: a plain request is one message. A chunked one has its units of
  data in its chunks, as many as the size lines say, and nothing after the line that ends
  it. Every response says "Connection: close" (`http.rs:49`, `745`, `1406`), so a client
  sends one request per connection. It may be malformed anywhere outside its chunks, be of
  any length, cross the cap anywhere, and stop before its end;
- `ReactiveAssumption`: finitely many source cells, the memo not among them. What the
  effect and its children watch is arbitrary, as are the bounds on observers, turns
  and calls;
- `LanguageServer` needs none of `LanguageServerAssumption`: its theorems hold of any
  files, loads and entries.

### Executor

- `TypeCorrect` (`ExecutorProofs`): `Spec => []TypeOK`. The conjunct `Operands`
  makes the invariant inductive: a drain's poll reads the head of `frames`, and a
  timer wait's poll the state of its slot.
- `CancelReaches`: `Spec => []CancelReachesExtent`. The property
  is not inductive while a cancel is under way. `ExtentInv` adds that `ancestors`
  is a tree order (`ExtentTree`), that every nursery that is not cancelled is on the
  descendant list of its parent (`CancelRoutes`), and that the nurseries a running
  cancel still owes are below one in `sweep` (`CancelUnderWay`); when the sweep is
  empty nothing is owed.
- `TimersKeepTheirVerdict`: `Spec => TimerFirstSettlementWins`, from the fact that the
  slot a sleep gives back is its own (`SleepsOwnTheirSlot`) and so never that of a
  `Timer` a program holds.
- `FirstFailureIsKept`: `Spec => []FirstFailureWins`. `LatchInv` adds that only live
  tasks are polled (so none settles twice, `PollsAreLive`), that tasks register
  with existing nurseries (`NurseriesExist`), that the latch is the first entry of
  the settlement history (`LatchIsFirst`) and that a set latch has its nursery
  cancelled or first in the sweep (`LatchCancels`).
- `NoWakeIsLost` (`ExecutorJoinProofs`): `Spec => []NoLostWake`. `NoLostWake` is
  inductive next to `ExtentInv`, `LatchInv` and two facts about operands (`WakeInv`):
  that a wait for a timer names a timer whose registration can still fire
  (`TimersAreKnown`), and that awaited tasks exist (`GroupsAreKnown`). The proof splits
  the steps by whom they can concern: a step of the polled task keeps what others are
  parked on (`ParkingKept`), and a settlement wakes the whole list it clears.
- `CancelledWaitsEnd` and `NothingRunnableIsLeft`: `[]CancelIsPrompt` and
  `[]ExitLeavesNothingRunnable`. `BoundaryInv` adds to `WakeInv` that a nursery's
  children are the tasks it owns and that the loop leaves the queue only with nothing to
  poll, no sweep under way, and the program only with no timer left. What is
  still live then waits on something outstanding, which can only be another live task.
- `JoinsAreComplete`, `OrphansEnd`, `NoFailureIsLost`: `[]JoinedBeforeReturn`,
  `[]OrphansAreCancelled`, `[]NoFreeFailureIsSilent`. `JoinInv` carries the drain: a
  `nursery_run` is on one stack once and its nursery open until it returns
  (`RunsAreOpen`), the drain's index has passed settled children only
  (`DrainedAreSettled`), every failed task is in its nursery's settlement history
  (`FailuresAreLogged`), a live task of an ended nursery is cancelled or next in the
  sweep (`OrphansAreDoomed`), and a failure that nothing latches is observed, reported
  or about to be (`FailuresAreKnown`).

### TaskSlab

- `SlabCorrect`, `HandlesNameOneTask`, `WakesAreNotDropped`, `SlabStaysSmall`: the
  slab's invariant `SlabInv`. A handle is minted below its
  slot's next generation (`HandlesAreMinted`), an occupant's handle carries the
  present one (`OccupantsHoldTheirHandle`), and the free list is the empty slots
  (`FreeIsEmpty`); reaping bumps the generation, so no handle ever finds a later
  occupant.
- `ReuseRefines`: `Spec => ReuseIsInvisible`, the refinement of `TaskNames` under
  the mapping of spawned tasks to names and of tasks no handle finds to retired
  names.

### EventLoop

- `NoWaitPastADeadline`, `EndIsIdle` and, as an action property, `SourcesStayWatched`,
  from `LoopInvariant`. The list of timers stays in firing order under `Place` and
  under the clock, which ages all deadlines alike (`InFiringOrder`), so that its head
  is the bound on a wait; `AtEachPoint` says what the loop knows at each of its
  points: that it is about to wait with timers only, asleep for no more than the
  interval, blocked on a single source, done with nothing left.

### Stdin

- `PendingReadsHoldTheLoop`: `Spec => []WatchedWhileWaiting`, and
  `NoByteIsLost`: `Spec => []AnswersAreTheInput`, from `StdinInvariant`. `OneChunk`
  says that a chunk is under way exactly while one is requested, as the request, in the
  thread's hands or in the channel, `EndIsLast` that the empty chunk comes last, `WaitersWait` that a
  read queues once and has no answer yet, `LoopWatches` that outside the pump a waiting
  read has its chunk requested and its source registered. With these, the bytes in the
  buffer, in the chunk that is coming and in the reader's hands (`Left`) are in every
  state the input from `position` on, whatever reads are cancelled or time out.

### HttpServer

- `HttpInvariant`: each connection is `Sound` under every operator on records. The parts
  relate what the code keeps in different places: a head is queued once, with its mark
  (`AnsweredOnce`); a connection at which no head was dispatched has no tasks at work
  (`Untouched`); who waits for a body is on one that is being read, on a connection
  the server holds (`Waiting`); an answered handler has settled its body (`Answering`);
  a connection lingers over bodies nobody reads any more (`Lingering`); what the decoder
  produced and what the current chunk still promises are within the cap (`Counting`).
- `OneAnswerPerConnection`, `WaitersAreServed`: `[]OneAnswer`, `[]ReadersAreServed`.
- `BodiesAreTheClients`: `Spec => []BodyIsTheClients`. `Placed` ties what a body received to
  the place in the client's message the server has come to. For a declared length it is the
  head and one unit per unit received, and a drain owes the rest (`ByLength`). For a chunked
  body (`ByChunks`) the units received are the units of data among the pieces taken, the
  chunk under way ends where its size line said (`Decoded`), and a body that was read to
  its end ended at the blank line behind the chunk of size 0 (`Ended`). That `feed` keeps
  this over as many pieces as there are is a well-founded induction over how much of the
  inbox is left.
- `AnswersOutliveTheClose`: `Spec => AnswerOutlivesTheClose`. Only the write step of a poll
  closes a connection whose answer is out (`WriteCloses`). It does so under a client that
  hung up, of whose message nothing is then left on the socket (`HungIsSpent`), or where
  there is nothing to linger for; in that case `Placed` says that the last piece of the
  message is off the socket (`LastIsTaken`).
- `DeclinedBodies`: `Spec => DeclinedStaysOnTheWire`.

### Reactive

- `ReactiveInvariant`: `Spec => []ReactiveInv`, which TLC has also checked on the
  instance of the run. `QueuesInStep`: queues hold what their sets say, effects
  in ascending order of id, and derivations in a queue of their own. `Served`: what waits in a
  settled turn is being drained, scheduled or abandoned by a throw, and a turn that says it
  drains has its drain on the stack (`TurnsSound`). `Owners`: the owner of an observer
  is the run of an older effect. `Listed`: every live observer is in the lists of
  the cells it observes, and nobody else is. `Held`: code goes on in a run no later than the
  one under way, and once its effect is disposed in one before it, so that what it
  attaches late is released at once.
- `NoChangeIsLost`: `Spec => []StaleIsInFlight`. The property is inductive next to the
  rest: a write enqueues, or takes into a wave, everyone `Listed`; a run makes its
  observer up to date; a release takes observers out of the queues only as it takes them
  out of `live`; and a drain moves what was queued into its wave.
- `NoWriteIsStranded`, `ParentsGoFirst`, `RunsOwnTheirObservers`: from `Served` with an empty
  stack; from the order of the wave and `Owners`; from the epochs, where the one step
  that ends a run releases exactly its children (`ChildrenAre`).
- `EffectsAfterDerivations`: `Spec => EffectsFollowDerivations`, an action property. It needs
  the invariant: a drain takes effects only when its own queue of derivations is empty, and by
  `StaleIsInFlight` a stale memo is then waiting elsewhere.
- `QueuesMatchTheirSets`: `Spec => []TypeOK`.

### LanguageServer

- `LedgerInvariant`: `Spec => []LedgerInv`, over the tasks, the schedule and the keys whose
  schedule went. `ScheduleTypes`: no registration carries ticket 0, a ticket not yet given
  or a generation not yet reached. `Numbered`: until its key's schedule goes, an analysis
  that has begun has a ticket no other of the key has, or 0 if it began stale; so `finish`,
  which retires by ticket, takes out its own registration and no other's. `Registered`: an
  analysis that runs uncancelled is registered, for the key's present generation; so
  `cancel_older_than`, which cancels registrations, reaches it when the generation moves.
  `Ids`: a task's id is no later than the revision, so a save begins its analysis under
  an id that is new. The lemmas are one per operation of `Schedule`, on any
  tasks and schedule, and then one per action.
- `SupersededAreCancelled`: `Spec => []SupersededIsCancelled`, from `Registered`.
- `ClientShowsTheMergedView`: `Spec => []ShownIsMerged`: the client shows on every file the
  merged view of all owners' last plans. A plan sends the targets it has now and those it
  had; on the others the merged view is the same (`MergedOutside`). No assumption on the
  package is used in any of the three.

The runs do not check the type invariants; `TypeOK` stays in the modules for the
proofs, and is proved for `Executor` and `Reactive` and, as part of the inductive invariant, for
`TaskSlab`, `EventLoop` and `Stdin`.

### What is only model-checked

- `LanguageServer`: OnlySkipsMiss is a claim about the package of its run, one entry and
  one module: with two entries an edit is missed in a third way (`ClaimNoStaleWorld`). It
  excepts the files in `missed`, which are those behind at the time of a skip and no others:
  read at another text by an analysis that a document holds, or by one under way that the
  check before a landing (`WorldIsCurrent`) will not drop for it.
  ShownIsLanded has no
  proof: `ClientShowsTheMergedView` is the half of it that concerns the client; the other
  half, that an owner's last plan was made from what the server still holds for it, is a
  claim about rest, and about sessions as short as the run's (see the worlds retired
  too late above).
- Out of the prover's reach: every liveness property (LoopEnds, JoinEnds,
  ArrivalsAreServed, TimersFire, ClosedLoopEnds, ReadsEnd, StopEnds), and what the
  recursive function over an input `Consumed` (of `Stdin`) computes for inputs of every
  length.

## Plan

1. Done: `Executor`, `TaskSlab` over `TaskNames`, `EventLoop`, `Stdin`, `HttpServer`,
   `LanguageServer`, `Reactive`, the theorems above.
2. Next theorems: of `LanguageServer`, that the revisions of what an owner last published and of
   what it holds never go back.
3. Next modules: `RpcSession` and `Mirror` (frames, reconnect, resubscription, snapshots
   and deltas, refining a mirror that jumps from one state of its source to a later
   one), `HotReload` and `WatchRounds` (builds, pushes to clients that come and go,
   restart rounds and signals), and the Draft, Optimistic and Resource of
   `std::reactive`.

## Not modelled

The compiler: lexer, parser, analyzer, interpreter, formatter, the two emitters and the
documents' semantic queries are most of the repository's lines and are
sequential functions over programs of any size. A small instance of type inference
or of a printer would say little about them; their differential and golden tests are
the better instrument. The modelled lines are for that reason a small share of the
whole.

Also not modelled: formatting and JSON, file access,
cryptography and images, process arguments and exit hooks, editors and packaging.
The JavaScript helpers are the contract of the executor, not a second system; they
are quoted where the two differ.

## Running

    tlc -config ExecutorNurseries.cfg MCExecutor
    tlapm ExecutorProofs.tla
