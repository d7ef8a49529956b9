------------------------------ MODULE Reactive ------------------------------
(***************************************************************************)
(* std::reactive's scheduler (vilan/std/src/reactive.vl): cells, memos and  *)
(* effects; turns, their two queues and their settling; subscriptions and   *)
(* their disposal; the owner of an effect's run.                            *)
(*                                                                         *)
(* The program is one thread.  Its call stack is the variable stack, whose  *)
(* last element runs: application code in some ambient turn, a turn's       *)
(* drain, or an inline notification.  Application code is arbitrary: it     *)
(* writes cells, attaches and disposes observers, opens turns, suspends and *)
(* throws.  A suspended body, a continuation and a microtask run when the   *)
(* stack is empty.                                                         *)
(***************************************************************************)
EXTENDS Naturals, Sequences, SequencesExt, FiniteSets

CONSTANTS
  Sources,     \* the cells application code writes
  Memo,        \* the cell of one derivation, over all the sources
  Watched,     \* the cells the first effect observes
  ChildCells,  \* the cells an effect attached by a run observes
  Calls,       \* the operations application code performs
  MaxId,       \* bound: subscribers ever made
  MaxTurns,    \* bound: turns ever made
  MaxCalls     \* bound: operations application code performs in all

ASSUME ReactiveAssumption ==
  /\ Memo \notin Sources /\ IsFiniteSet(Sources)
  /\ Watched \subseteq Sources \cup {Memo} /\ ChildCells \subseteq Sources \cup {Memo}
  /\ Calls \subseteq {"set", "dispose", "attach", "turn", "flush", "defer", "late", "suspend", "throw"}
  /\ MaxId \in Nat \ {0, 1} /\ MaxTurns \in Nat /\ MaxCalls \in Nat

VARIABLES
  value,           \* the cells' values
  subscribers,     \* by cell: its subscriber list, of ids
  subscriber,      \* by id: the record (the turn its closure captured, its owner)
  live,            \* the ids whose liveness cell is up
  seen,            \* by effect: the values it was last run with
  turns,           \* the turns made, by number
  draining_turns,  \* the stack of turns being drained
  stack,           \* the call stack
  epoch,           \* by effect: the live epoch of the owner of its runs
  calls,           \* operations performed so far
  threw            \* history: whether application code has thrown

graphVars == <<value, subscribers, subscriber, live, seen, epoch>>
vars == <<graphVars, turns, draining_turns, stack, calls, threw>>

Cells == Sources \cup {Memo}
Refresh == 1                      \* the memo's subscriber, the only derivation
Effect == 2                       \* the first effect's
Deferred == 0                     \* an action handed to at_settle, always live
Ids == DOMAIN subscriber
Derived(s) == s = Refresh
Observed(s) == subscriber[s].cells
NoTurn == 0
NoOwner == <<0, 0>>

\* What the memo's pull computes.
Pull(v) == Cardinality({c \in Sources : v[c] = 1})

Top == stack[Len(stack)]
Below == SubSeq(stack, 1, Len(stack) - 1)
Code(t, own, owner) == [f |-> "code", turn |-> t, own |-> own, owner |-> owner, wave |-> <<>>]
Drain(t, own) == [f |-> "drain", turn |-> t, own |-> own, owner |-> NoOwner, wave |-> <<>>]
Inline(wave) == [f |-> "inline", turn |-> NoTurn, own |-> FALSE, owner |-> NoOwner, wave |-> wave]

-----------------------------------------------------------------------------
(***************************************************************************)
(* Turns.                                                                  *)
(***************************************************************************)

\* Turn::new.  The last three are history: whether the body is still going
\* on, whether a throw ended a drain, and what the queues held at a throw.
NewTurn == [pending |-> <<>>, pending_derived |-> <<>>, queued |-> {}, queued_derived |-> {},
            draining |-> FALSE, settled |-> FALSE, scheduled |-> FALSE,
            extent |-> TRUE, broke |-> FALSE, abandoned |-> {}]

is_quiescent(t) == turns[t].pending = <<>> /\ turns[t].pending_derived = <<>>

\* enqueue's ordered insert: after the last entry whose id is not larger.
Inserted_last(q, s) == Append(q, s)
Inserted(q, s) ==
  LET n == Max({0} \cup {k \in DOMAIN q : q[k] <= s}) IN InsertAt(q, n + 1, s)

\* enqueue, one subscriber: by class, once per wave.
Queued(turn, s) ==
  IF Derived(s)
  THEN IF s \in turn.queued_derived THEN turn
       ELSE [turn EXCEPT !.queued_derived = @ \cup {s}, !.pending_derived = Append(@, s)]
  ELSE IF s \in turn.queued THEN turn
       ELSE [turn EXCEPT !.queued = @ \cup {s}, !.pending = Inserted(@, s)]

\* A write after the extent settled schedules one microtask.
Scheduled(turn) ==
  IF turn.settled /\ ~ turn.scheduled /\ ~ turn.draining
  THEN [turn EXCEPT !.scheduled = TRUE] ELSE turn

enqueue(t, list) ==
  LET queued[n \in 0..Len(list)] ==
        IF n = 0 THEN turns[t] ELSE Queued(queued[n - 1], list[n])
  IN  [turns EXCEPT ![t] = Scheduled(queued[Len(list)])]

\* The turn a write or a disposal resolves to: the ambient one, else the one
\* that is draining.
Resolved(t) == IF t # NoTurn THEN t
               ELSE IF draining_turns # <<>> THEN Last(draining_turns) ELSE NoTurn

\* SignalCell::notify, from code whose ambient turn is t, with the stack st.
notify(c, t, st) ==
  IF Resolved(t) # NoTurn
  THEN turns' = enqueue(Resolved(t), subscribers[c]) /\ stack' = st
  ELSE stack' = Append(st, Inline(subscribers[c])) /\ UNCHANGED turns

\* drain, to its loop: nothing when the turn is draining already.
StartDrain(t, own, st) ==
  IF turns[t].draining
  THEN stack' = st /\ UNCHANGED <<turns, draining_turns>>
  ELSE /\ turns' = [turns EXCEPT ![t].draining = TRUE]
       /\ draining_turns' = Append(draining_turns, t)
       /\ stack' = Append(st, Drain(t, own))

-----------------------------------------------------------------------------
(***************************************************************************)
(* Subscriptions and owners.                                               *)
(***************************************************************************)

\* The subscribers a live run of s has registered with its owner.
Children(s) == {d \in Ids : subscriber[d].owner = <<s, epoch[s]>>}

\* release_under: what is kept of a list and of a turn's queues without D.
kept(list, D) ==
  LET k[n \in 0..Len(list)] ==
        IF n = 0 THEN <<>>
        ELSE IF list[n] \in D THEN k[n - 1] ELSE Append(k[n - 1], list[n])
  IN  k[Len(list)]

Scrubbed(turn, D) ==
  [turn EXCEPT !.pending = kept(@, D), !.pending_derived = kept(@, D),
               !.queued = @ \ D, !.queued_derived = @ \ D]

Unlisted(D) == [c \in Cells |-> kept(subscribers[c], D)]

\* The subscribers D are scrubbed, each from the turn its disposal resolves
\* to: for one that an owner took, the turn its closure captured.
ScrubbedTurns(D) ==
  [u \in DOMAIN turns |-> Scrubbed(turns[u], {d \in D : Resolved(subscriber[d].turn) = u})]

-----------------------------------------------------------------------------
(***************************************************************************)
(* The scheduler's steps.                                                  *)
(***************************************************************************)

\* A subscriber is run, from a wave whose rest is already on the stack st:
\* the memo's refresh sets its cell, an effect's run releases the run before
\* it (Owner::renew) and calls the body.  A deferred action is a message sent.
Fire(s, st) ==
  IF s = Deferred
  THEN stack' = st /\ UNCHANGED <<graphVars, turns>>
  ELSE IF Derived(s)
  THEN /\ value' = [value EXCEPT ![Memo] = Pull(value)]
       /\ notify(Memo, subscriber[s].turn, st)
       /\ UNCHANGED <<subscribers, subscriber, live, seen, epoch>>
  ELSE /\ seen' = [seen EXCEPT ![s] = [c \in Observed(s) |-> value[c]]]
       /\ epoch' = [epoch EXCEPT ![s] = @ + 1]
       /\ live' = live \ Children(s)
       /\ subscribers' = Unlisted(Children(s))
       /\ turns' = ScrubbedTurns(Children(s))
       /\ stack' = Append(st, Code(subscriber[s].turn, FALSE, <<s, epoch[s] + 1>>))
       /\ UNCHANGED <<value, subscriber>>

Fires_always(s) == TRUE
Fires_notRunning(s) == s \in live \cup {Deferred} /\ \A n \in DOMAIN stack : stack[n].owner[1] # s
\* Subscriber.live, read before each run: by both phases of drain, by
\* defer_subscriber and by notify, over its snapshot.
Fires(s) == s \in live \cup {Deferred}

\* The next subscriber of a wave, of a drain or of an inline notification.
RunNext ==
  /\ stack # <<>> /\ Top.f \in {"drain", "inline"} /\ Top.wave # <<>>
  /\ LET st == Append(Below, [Top EXCEPT !.wave = Tail(@)])
     IN IF Fires(Head(Top.wave)) THEN Fire(Head(Top.wave), st)
        ELSE stack' = st /\ UNCHANGED <<graphVars, turns>>
  /\ UNCHANGED <<draining_turns, calls>>

\* drain takes a wave of derivations when there are any, else one of effects.
TakesDerived_last(t) == turns[t].pending = <<>>
TakesDerived(t) == turns[t].pending_derived # <<>>

TakeWave ==
  /\ stack # <<>> /\ Top.f = "drain" /\ Top.wave = <<>> /\ ~ is_quiescent(Top.turn)
  /\ LET t == Top.turn IN
     IF TakesDerived(t)
     THEN /\ stack' = Append(Below, [Top EXCEPT !.wave = turns[t].pending_derived])
          /\ turns' = [turns EXCEPT ![t].pending_derived = <<>>, ![t].queued_derived = {}]
     ELSE /\ stack' = Append(Below, [Top EXCEPT !.wave = turns[t].pending])
          /\ turns' = [turns EXCEPT ![t].pending = <<>>, ![t].queued = {}]
  /\ UNCHANGED <<graphVars, draining_turns, calls>>

\* The drain is over; turn and batch then mark their turn settled.
EndDrain ==
  /\ stack # <<>> /\ Top.f = "drain" /\ Top.wave = <<>> /\ is_quiescent(Top.turn)
  /\ turns' = [turns EXCEPT ![Top.turn].draining = FALSE,
                            ![Top.turn].settled = @ \/ Top.own,
                            ![Top.turn].extent = @ /\ ~ Top.own]
  /\ draining_turns' = Front(draining_turns)
  /\ stack' = Below
  /\ UNCHANGED <<graphVars, calls>>

EndInline ==
  /\ stack # <<>> /\ Top.f = "inline" /\ Top.wave = <<>>
  /\ stack' = Below
  /\ UNCHANGED <<graphVars, turns, draining_turns, calls>>

\* Code returns; the body of a turn is followed by its drain.
Return ==
  /\ stack # <<>> /\ Top.f = "code"
  /\ IF Top.own THEN StartDrain(Top.turn, TRUE, Below)
     ELSE stack' = Below /\ UNCHANGED <<turns, draining_turns>>
  /\ UNCHANGED <<graphVars, calls>>

\* The callback enqueue's late path queued; no drain goes on when it runs.
Microtask(t) ==
  /\ stack = <<>> /\ turns[t].scheduled
  /\ turns' = [turns EXCEPT ![t].scheduled = FALSE, ![t].draining = TRUE]
  /\ draining_turns' = Append(draining_turns, t)
  /\ stack' = <<Drain(t, FALSE)>>
  /\ UNCHANGED <<graphVars, calls>>

-----------------------------------------------------------------------------
(***************************************************************************)
(* Application code.                                                       *)
(***************************************************************************)

Call(op) == op \in Calls /\ calls < MaxCalls /\ calls' = calls + 1
InCode == stack # <<>> /\ Top.f = "code"

\* SignalCell::set, to the other of two values.
set(c) ==
  /\ Call("set") /\ InCode
  /\ value' = [value EXCEPT ![c] = 1 - @]
  /\ notify(c, Top.turn, stack)
  /\ UNCHANGED <<subscribers, subscriber, live, seen, epoch, draining_turns>>

\* Subscription::dispose: an effect's release hook releases its runs.
dispose(s) ==
  /\ Call("dispose") /\ InCode /\ s \in live
  /\ LET children == IF Derived(s) THEN {} ELSE Children(s) IN
     /\ live' = live \ ({s} \cup children)
     /\ subscribers' = Unlisted({s} \cup children)
     /\ turns' = [u \in DOMAIN turns |->
                   Scrubbed(ScrubbedTurns(children)[u], IF u = Resolved(Top.turn) THEN {s} ELSE {})]
     /\ epoch' = IF Derived(s) THEN epoch ELSE [epoch EXCEPT ![s] = @ + 1]
  /\ UNCHANGED <<value, subscriber, seen, draining_turns, stack>>

\* Owner::is_disposed, for the owner of the code that runs.
IsDisposed_never(owner) == FALSE
IsDisposed(owner) == epoch[owner[1]] # owner[2]

\* An effect attached by a run of another and taken by the run's owner: at
\* once released when that run is over (Owner::take, defer).  What its first
\* run reads is seen here; the rest of that run is code of the one that attached
\* it, and opens no frame of its own.
attach(c) ==
  /\ Call("attach") /\ InCode /\ Top.owner # NoOwner /\ subscriber[Top.owner[1]].owner = NoOwner
  /\ Cardinality(Ids) < MaxId
  /\ LET s == Cardinality(Ids) + 1
         late == IsDisposed(Top.owner)
     IN /\ subscriber' = Append(subscriber, [turn |-> Top.turn, owner |-> Top.owner, cells |-> {c}])
        /\ seen' = Append(seen, [d \in {c} |-> value[d]])
        /\ epoch' = Append(epoch, 0)
        /\ live' = IF late THEN live ELSE live \cup {s}
        /\ subscribers' = IF late THEN subscribers ELSE [subscribers EXCEPT ![c] = Append(@, s)]
  /\ UNCHANGED <<value, turns, draining_turns, stack>>

\* turn, and batch where no turn is ambient: a body in a fresh turn.
turn ==
  /\ Call("turn") /\ (stack = <<>> \/ InCode) /\ Len(turns) < MaxTurns
  /\ turns' = Append(turns, NewTurn)
  /\ stack' = Append(stack, Code(Len(turns) + 1, TRUE, IF stack = <<>> THEN NoOwner ELSE Top.owner))
  /\ UNCHANGED <<graphVars, draining_turns>>

flush ==
  /\ Call("flush") /\ InCode /\ Top.turn # NoTurn
  /\ StartDrain(Top.turn, FALSE, stack)
  /\ UNCHANGED graphVars

\* at_settle, defer_subscriber: queued where a write would be, else run now.
at_settle ==
  /\ Call("defer") /\ InCode
  /\ turns' = IF Resolved(Top.turn) = NoTurn THEN turns ELSE enqueue(Resolved(Top.turn), <<Deferred>>)
  /\ UNCHANGED <<graphVars, draining_turns, stack>>

\* An event handler that no turn is around; a closure made in a turn that is
\* over; and what comes after a wait in an effect's run.
Event == /\ Call("late") /\ stack = <<>> /\ stack' = <<Code(NoTurn, FALSE, NoOwner)>>
         /\ UNCHANGED <<graphVars, turns, draining_turns>>
Continue(t) == /\ Call("late") /\ stack = <<>> /\ ~ turns[t].extent
               /\ stack' = <<Code(t, FALSE, NoOwner)>>
               /\ UNCHANGED <<graphVars, turns, draining_turns>>
\* The epochs of s that were runs of its body; its disposal opens one more.
Runs(s) == 1..(IF s \in live THEN epoch[s] ELSE epoch[s] - 1)
ContinueRun(s, e) == /\ Call("late") /\ stack = <<>> /\ subscriber[s].owner = NoOwner
                     /\ stack' = <<Code(subscriber[s].turn, FALSE, <<s, e>>)>>
                     /\ UNCHANGED <<graphVars, turns, draining_turns>>

\* The body of a turn awaits; its notifications are held.
Suspend ==
  /\ Call("suspend") /\ Len(stack) = 1 /\ InCode /\ Top.own
  /\ stack' = <<>>
  /\ UNCHANGED <<graphVars, turns, draining_turns>>

Resume(t) ==
  /\ stack = <<>> /\ turns[t].extent
  /\ stack' = <<Code(t, TRUE, NoOwner)>>
  /\ UNCHANGED <<graphVars, turns, draining_turns, calls>>

\* A throw unwinds the stack; every drain on it restores itself.
Frames(t, kind) == {n \in DOMAIN stack : stack[n].turn = t /\ stack[n].f = kind}
Restored_not(t) == turns[t].draining
Restored(t) == turns[t].draining /\ Frames(t, "drain") = {}

Unwound(t) ==
  LET drained == Frames(t, "drain") # {}
      ended == \E n \in DOMAIN stack : stack[n].turn = t /\ stack[n].own
  IN [turns[t] EXCEPT !.draining = Restored(t), !.extent = @ /\ ~ ended, !.broke = @ \/ drained,
                      !.abandoned = @ \cup IF drained \/ ended THEN turns[t].queued \cup turns[t].queued_derived
                                           ELSE {}]

throw ==
  /\ Call("throw") /\ InCode
  /\ turns' = [t \in DOMAIN turns |-> Unwound(t)]
  /\ draining_turns' = <<>>
  /\ stack' = <<>>
  /\ threw' = TRUE
  /\ UNCHANGED graphVars

-----------------------------------------------------------------------------
Init ==
  /\ value = [c \in Cells |-> 0]
  /\ subscribers = [c \in Cells |-> (IF c \in Sources THEN <<Refresh>> ELSE <<>>)
                                    \o (IF c \in Watched THEN <<Effect>> ELSE <<>>)]
  /\ subscriber = <<[turn |-> NoTurn, owner |-> NoOwner, cells |-> Sources],
                    [turn |-> NoTurn, owner |-> NoOwner, cells |-> Watched]>>
  /\ live = {Refresh, Effect}
  /\ seen = <<<<>>, [c \in Watched |-> 0]>>
  /\ epoch = <<0, 1>>
  /\ turns = <<>>
  /\ draining_turns = <<>>
  /\ stack = <<>>
  /\ calls = 0
  /\ threw = FALSE

Scheduler ==
  /\ RunNext \/ TakeWave \/ EndDrain \/ EndInline \/ Return \/ \E t \in DOMAIN turns : Microtask(t)
  /\ UNCHANGED threw

Application ==
  \/ throw
  \/ /\ \/ turn \/ flush \/ at_settle \/ Event \/ Suspend
        \/ \E c \in Sources : set(c)
        \/ \E s \in Ids : dispose(s)
        \/ \E c \in ChildCells : attach(c)
        \/ \E t \in DOMAIN turns : Continue(t) \/ Resume(t)
        \/ \E e \in Runs(Effect) : ContinueRun(Effect, e)
     /\ UNCHANGED threw

\* Nothing runs, nothing is scheduled and no body is waiting.
AtRest == stack = <<>> /\ \A t \in DOMAIN turns : ~ turns[t].scheduled /\ ~ turns[t].extent

Next == Scheduler \/ Application \/ (AtRest /\ UNCHANGED vars)

Spec == Init /\ [][Next]_vars

-----------------------------------------------------------------------------
Waiting(u) == u.queued \cup u.queued_derived

\* The types, and the keyed sets that stand for the queues: "kept in exact
\* step with pending".
TypeOK ==
  /\ value \in [Cells -> 0..Cardinality(Sources)]
  /\ live \subseteq Ids /\ DOMAIN seen = Ids /\ DOMAIN epoch = Ids
  /\ \A c \in Cells : Range(subscribers[c]) \subseteq live
  /\ \A n \in DOMAIN stack : stack[n].turn \in {NoTurn} \cup DOMAIN turns
  /\ \A t \in DOMAIN turns : /\ turns[t].queued = Range(turns[t].pending)
                             /\ turns[t].queued_derived = Range(turns[t].pending_derived)

\* No change is lost: a live observer that was last run with values its cells
\* no longer have, and a memo that is not what its sources make it, is queued
\* in a turn or stands in a wave that is being run.  So whoever the deferring,
\* the deduplication, the disposals and the nested drains pass over, everyone
\* is run on final values in the end.  A throw abandons its wave by design.
InFlight(s) == \/ \E t \in DOMAIN turns : s \in Waiting(turns[t])
               \/ \E n \in DOMAIN stack : s \in Range(stack[n].wave)
UpToDate(s) == IF Derived(s) THEN value[Memo] = Pull(value)
               ELSE \A c \in Observed(s) : seen[s][c] = value[c]

StaleIsInFlight == ~ threw => \A s \in live : UpToDate(s) \/ InFlight(s)

\* And no write sits in a queue for ever: at rest a settled turn has nothing
\* queued but what a throw left there (enqueue's late path, drain's finally).
NothingIsStranded ==
  AtRest => \A t \in DOMAIN turns : turns[t].settled => Waiting(turns[t]) \subseteq turns[t].abandoned

\* Within a settle a run's parent goes before it: an effect that another
\* one's run made is not run when that one, queued with it, is about to
\* release it (enqueue's ordered insert, drain's second phase).
ParentFirst ==
  \A n \in DOMAIN stack : stack[n].f = "drain" =>
    \A i, j \in DOMAIN stack[n].wave :
      i < j /\ stack[n].wave[i] \in Ids => subscriber[stack[n].wave[i]].owner[1] # stack[n].wave[j]

\* What a run made lives as long as the run: no live observer belongs to a run
\* that was released, whenever its code came to register it (Owner::defer,
\* advance, renew), nor to an effect that is disposed, in whatever snapshot,
\* wave or queue that effect still stands: a run it got after its disposal
\* would leave what it attaches with an owner nobody releases (Subscriber.live).
OwnedByALiveRun ==
  \A s \in live : LET owner == subscriber[s].owner IN
    owner # NoOwner => ~ IsDisposed(owner) /\ owner[1] \in live

\* Effects run on settled derivations: when a drain turns to its effects, no
\* memo is stale but one whose refresh waits in another turn or in a wave
\* that an outer frame is running.
EffectsFollowDerivations ==
  [][stack # <<>> /\ Top.f = "drain" /\ Top.wave = <<>> /\ Effect \in turns[Top.turn].queued
       /\ Effect \notin turns'[Top.turn].queued /\ ~ threw' /\ Refresh \in live =>
         \/ UpToDate(Refresh)
         \/ \E t \in DOMAIN turns \ {Top.turn} : Refresh \in Waiting(turns[t])
         \/ \E n \in DOMAIN Below : Refresh \in Range(stack[n].wave)]_vars

\* drain: "What the finally guarantees is that the SCHEDULER survives it - the
\* next set drains normally, this turn included."
BrokenTurnsDrain ==
  AtRest => \A t \in DOMAIN turns : turns[t].broke => Waiting(turns[t]) \subseteq turns[t].abandoned
=============================================================================
