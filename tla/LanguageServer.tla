--------------------------- MODULE LanguageServer ---------------------------
(***************************************************************************)
(* The language server's analyses (crates/vilan-lsp/src: main.rs,           *)
(* schedule.rs, publish.rs): what an edit, a save, an open or a close       *)
(* schedules, how one analysis supersedes another, which results land on    *)
(* which open documents, the sweep of the dependents, and the diagnostics   *)
(* the client is sent.                                                     *)
(*                                                                         *)
(* A file is a model value and a text a number.  An analysis is what it     *)
(* read: a function from the files it loaded to the texts they had then.    *)
(* The diagnostics it publishes on a file stand for that function, so a     *)
(* stale diagnostic is one computed from a text a file no longer has.       *)
(* Each synchronous section of a handler or a task is one step; everything  *)
(* else (other handlers, analysis threads, timers) may run between two.     *)
(***************************************************************************)
EXTENDS Naturals, Sequences, SequencesExt

CONSTANTS
  Files,        \* the source files of one package
  Loads,        \* the files an analysis rooted at a file loads, itself included
  Primary,      \* the entry whose world serves a file; itself for an entry
  OpenFirst,    \* the files open, analysed and at rest when the run starts
  Notify,       \* the notifications the client sends; "undo": changes may restore a text
  MaxText,      \* bound: the texts a file can have are 0..MaxText
  MaxRevision,  \* bound: notifications the client sends
  None

ASSUME LanguageServerAssumption ==
  /\ Loads \in [Files -> SUBSET Files]
  /\ \A f \in Files : f \in Loads[f]
  /\ Primary \in [Files -> Files]
  /\ \A f \in Files : f \in Loads[Primary[f]] /\ Primary[Primary[f]] = Primary[f]
  /\ OpenFirst \subseteq Files
  /\ \A f \in OpenFirst : Primary[f] \in OpenFirst
  /\ Notify \subseteq {"open", "change", "save", "close", "watched", "undo"}
  /\ MaxText \in Nat /\ MaxRevision \in Nat
  /\ None \notin Files

VARIABLES
  open,       \* the keys of Backend.documents
  text,       \* the buffers (and the overlay, for the open ones)
  disk,       \* what the files hold on disk
  revision,   \* Backend.revision, the world revision
  doc,        \* by open file: the analysis the document holds
  schedule,   \* Schedule.documents
  dropped,    \* history: the keys whose schedule went, and counts from zero again
  missed,     \* history: the files that a skip left behind (Wake, Sweep)
  worlds,     \* Backend.worlds: the worlds of entries that are not open
  owned,      \* PublishState.owned and published_revisions, by owner
  shown,      \* the diagnostics the client shows on a file
  session,    \* history: the files closed, and "reopen"
  tasks,      \* the spawned tasks and suspended handlers, by id
  gate        \* those that wait for the publish gate, in order

clientVars == <<open, text, disk, revision, session>>
vars == <<clientVars, doc, schedule, dropped, missed, worlds, owned, shown, tasks, gate>>

Texts == 0..MaxText
Unread == MaxText + 1   \* no captured text: the analysis thread reads the file

\* world::current_text: the overlay of an open buffer, else the disk.
current_text(f) == IF f \in open THEN text[f] ELSE disk[f]

-----------------------------------------------------------------------------
(***************************************************************************)
(* Documents.                                                              *)
(***************************************************************************)

\* Document::unanalyzed: the buffer's hash, and no program.
unanalyzed(t) == [hash |-> t, rev |-> 0, reads |-> <<>>, world |-> None]

\* An analysis of file f, of the world rooted at r, stamped with revision n.
Analysis(f, r, reads, n) ==
  [hash |-> reads[f], rev |-> n, reads |-> reads, world |-> IF f = r THEN None ELSE r]

Analysed(d) == d.reads # <<>>

\* Document::depends_on: no program answers TRUE.
depends_on(d, f) == ~ Analysed(d) \/ f \in DOMAIN d.reads

\* Document::read_matches, for the buffer of the open file f.
read_matches(reads, f) == f \in DOMAIN reads => reads[f] = text[f]

\* package_reach: the package modules the document's analysis reached.
package_reach(f) == IF f \in open /\ Analysed(doc[f]) THEN DOMAIN doc[f].reads ELSE {}

\* recolored_package: the reach of the edited file moved.
Recolored(before, f) == package_reach(f) # {} /\ package_reach(f) # before

\* analysis_key: the world's entry, for a document served from one.
analysis_key(f) == IF f \in open /\ doc[f].world # None THEN doc[f].world ELSE f

\* key_text
key_text(k) == IF k \in open THEN text[k] ELSE Unread

\* live_worlds, of the documents D.
live_worlds(D) == {doc[f].world : f \in D} \ {None}

-----------------------------------------------------------------------------
(***************************************************************************)
(* Schedule: by key, a generation, the analyses running, the mark.          *)
(***************************************************************************)

Fresh == [gen |-> 0, running |-> {}, ticket |-> 0, moved |-> FALSE]
Entry(s, k) == IF k \in DOMAIN s THEN s[k] ELSE Fresh
Without(f, K) == [x \in DOMAIN f \ K |-> f[x]]
With(f, k, e) == [x \in DOMAIN f \cup {k} |-> IF x = k THEN e ELSE f[x]]
Over(g, f) == [x \in DOMAIN f \cup DOMAIN g |-> IF x \in DOMAIN g THEN g[x] ELSE f[x]]

\* Schedule::supersede, the generation half; CancelOlder is the other.
supersede(s, k) == With(s, k, [Entry(s, k) EXCEPT !.gen = @ + 1])

CancelOlder_strict(s, k) == {r.task : r \in {r \in Entry(s, k).running : r.gen < Entry(s, k).gen}}
\* cancel_older_than: the tasks whose tokens a supersede of k cancels.
CancelOlder(s, k) == {r.task : r \in {r \in Entry(s, k).running : r.gen <= Entry(s, k).gen}}

\* Schedule::close cancels whatever runs under k.
CancelAll(s, k) == {r.task : r \in Entry(s, k).running}

Cancelled(ts, C) == [i \in DOMAIN ts |-> IF i \in C THEN [ts[i] EXCEPT !.cancelled = TRUE] ELSE ts[i]]

\* Schedule::start registers nothing for a stale generation or a closed key.
Stale(s, k, gen) == k \notin DOMAIN s \/ s[k].gen # gen
start(s, k, gen, i) ==
  IF Stale(s, k, gen) THEN s
  ELSE [s EXCEPT ![k].ticket = @ + 1,
                 ![k].running = @ \cup {[ticket |-> s[k].ticket + 1, gen |-> gen, task |-> i]}]
Ticket(s, k, gen) == IF Stale(s, k, gen) THEN 0 ELSE s[k].ticket + 1

\* Schedule::finish retires by ticket.
finish(s, k, ticket) ==
  IF k \notin DOMAIN s THEN s
  ELSE [s EXCEPT ![k].running = {r \in @ : r.ticket # ticket}]

mark_dependency_moved(s, K) ==
  [k \in DOMAIN s |-> IF k \in K THEN [s[k] EXCEPT !.moved = TRUE] ELSE s[k]]
clear_dependency_moved(s, K) ==
  [k \in DOMAIN s |-> IF k \in K THEN [s[k] EXCEPT !.moved = FALSE] ELSE s[k]]

-----------------------------------------------------------------------------
(***************************************************************************)
(* PublishState: the groups each owner contributes, and the merged view.    *)
(***************************************************************************)

\* diagnostic_groups: a world reports on every file it loaded; a document
\* served from a world leaves the reporting to its entry.
Groups(d) == IF d.world # None \/ ~ Analysed(d) THEN <<>>
             ELSE [t \in DOMAIN d.reads |-> {d.reads}]

Targets(o, w) == IF o \in DOMAIN w THEN DOMAIN w[o].groups ELSE {}

\* PublishState::merged
merged(w, t) == UNION {w[o].groups[t] : o \in {o \in DOMAIN w : t \in Targets(o, w)}}

\* The sends of a plan: every target it touches gets its merged view.
Sent(w, T) == [t \in Files |-> IF t \in T THEN merged(w, t) ELSE shown[t]]

\* PublishState::plan: a plan older than the owner's last is dropped whole.
Superseded(o, d) == o \in DOMAIN owned /\ d.rev < owned[o].rev
plan(o, d) ==
  IF Superseded(o, d) THEN UNCHANGED <<owned, shown>>
  ELSE LET w == With(owned, o, [rev |-> d.rev, groups |-> Groups(d)])
       IN /\ owned' = w
          /\ shown' = Sent(w, {o} \cup DOMAIN Groups(d) \cup Targets(o, owned))

plan_close_silent(o) == owned' = Without(owned, {o}) /\ UNCHANGED shown
\* PublishState::plan_close
plan_close(o) ==
  LET w == Without(owned, {o})
  IN owned' = w /\ shown' = Sent(w, Targets(o, owned))

-----------------------------------------------------------------------------
(***************************************************************************)
(* Tasks.  A task wakes, begins an analysis, reads the files one by one,    *)
(* returns, finishes, lands, publishes, retires dead worlds, and sweeps.    *)
(***************************************************************************)

Task(kind, uri, key, gen, t, pc) ==
  [kind |-> kind, uri |-> uri, key |-> key, gen |-> gen, text |-> t, pc |-> pc,
   before |-> {}, cancelled |-> FALSE, ticket |-> 0, started |-> 0, root |-> None,
   reads |-> <<>>, views |-> <<>>, landed |-> {}, pubs |-> <<>>, dead |-> {},
   sweeping |-> FALSE, at |-> 0, dep |-> None, todo |-> {}, answered |-> {}, answeredWorlds |-> {}]

At(i, pc) == i \in DOMAIN tasks /\ tasks[i].pc = pc
Go(i, r) == [tasks EXCEPT ![i] = r]
Done(ts, i) == Without(ts, {i})

\* analyze_world: the open documents the world rooted at e would serve.
Members(e) == {f \in open : f = e \/ Primary[f] = e}
\* A file that is the only open document of its world keeps its own analysis.
RootOf(k) == IF Cardinality(Members(Primary[k])) < 2 THEN k ELSE Primary[k]
Served(r) == IF Cardinality(Members(r)) < 2 THEN {} ELSE {f \in open : f # r /\ Primary[f] = r}

\* What is behind in the world that serves file f: its documents without an
\* analysis, and the files that were read at another text by an analysis one of
\* them holds, or by one under way that will land all the same: nothing but the
\* open buffers is checked before it lands, and nothing after that.
Outdated(reads, g) == g \in DOMAIN reads /\ reads[g] # current_text(g)
Behind(f) ==
  LET D == Members(Primary[f])
      lands(i, g) == g \notin open \/ tasks[i].pc \in {"land", "served"}
  IN  {d \in D : ~ Analysed(doc[d])} \cup
      {g \in Files : \/ \E d \in D : Outdated(doc[d].reads, g)
                     \/ \E i \in DOMAIN tasks : lands(i, g) /\ Outdated(tasks[i].reads, g)}

\* analyze_world_and_publish up to the analysis thread, and the thread's
\* first reads: the root's text and the texts of the members it may serve.
Begun(s, p) ==
  LET r == RootOf(p.key)
      t == IF r = p.key /\ p.text # Unread THEN p.text ELSE current_text(r)
  IN [p EXCEPT !.pc = "read", !.text = Unread, !.started = revision, !.root = r,
               !.cancelled = Stale(s, p.key, p.gen), !.ticket = Ticket(s, p.key, p.gen),
               !.reads = [f \in {r} |-> t], !.views = [f \in Served(r) |-> text[f]]]

Begin(i) ==
  /\ At(i, "begin")
  /\ schedule' = start(schedule, tasks[i].key, tasks[i].gen, i)
  /\ tasks' = Go(i, Begun(schedule, tasks[i]))
  /\ UNCHANGED <<clientVars, dropped, doc, worlds, owned, shown, gate>>

\* pause_action, when the debounce of an edit is over.
pause_action(p) ==
  IF p.key \notin DOMAIN schedule \/ schedule[p.key].gen # p.gen THEN "Superseded"
  ELSE IF p.uri \in open /\ doc[p.uri].hash = p.text THEN "Unchanged"
  ELSE "Analyze"

\* The rest of on_change's task.
Wake(i) ==
  /\ At(i, "sleep")
  /\ LET p == [tasks[i] EXCEPT !.before = package_reach(tasks[i].uri),
                               !.text = IF tasks[i].key = tasks[i].uri THEN @ ELSE key_text(tasks[i].key)]
         action == pause_action(tasks[i])
     IN \/ /\ action \in {"Superseded", "Unchanged"}
           /\ tasks' = Done(tasks, i)
           /\ missed' = missed \cup IF action = "Unchanged" THEN Behind(p.uri) ELSE {}
           /\ UNCHANGED schedule
        \/ /\ action = "Analyze"
           /\ schedule' = start(schedule, p.key, p.gen, i)
           /\ tasks' = Go(i, Begun(schedule, p))
           /\ UNCHANGED missed
  /\ UNCHANGED <<clientVars, dropped, doc, worlds, owned, shown, gate>>

\* The loader reaches another file, and reads it as it is now.
Read(i, f) ==
  /\ At(i, "read")
  /\ f \in Loads[tasks[i].root] \ DOMAIN tasks[i].reads
  /\ tasks' = [tasks EXCEPT ![i].reads = With(@, f, current_text(f))]
  /\ UNCHANGED <<clientVars, dropped, doc, schedule, worlds, owned, shown, gate>>

\* What follows the analysis, in the task that asked for it: a sweep goes on,
\* an edit and a save sweep unless they were cancelled, the others are over.
\* A dependent its world did not serve is analysed on its own key.
Leftover(p, answered) ==
  p.dep # None /\ p.dep \notin answered /\ p.key # p.dep /\ p.dep \in open

AfterPc(p, outcome, answered) ==
  IF p.sweeping THEN IF Leftover(p, answered) THEN "leftover" ELSE IF p.todo = {} THEN "done" ELSE "sweep"
  ELSE IF p.kind \in {"change", "save"} /\ outcome # "cancelled" THEN "collect" ELSE "done"

After(p, outcome) ==
  LET roots == IF outcome = "cancelled" THEN {} ELSE {p.root}
      answered == p.answered \cup p.landed
  IN [p EXCEPT !.answered = answered, !.landed = {}, !.root = None, !.reads = <<>>,
               !.views = <<>>, !.started = 0, !.ticket = 0, !.cancelled = FALSE, !.text = Unread,
               !.answeredWorlds = @ \cup roots \cup (IF p.sweeping THEN {p.key} ELSE {}),
               !.pc = AfterPc(p, outcome, answered)]

Then(i, p, outcome) ==
  LET q == After(p, outcome) IN IF q.pc = "done" THEN Done(tasks, i) ELSE Go(i, q)

\* The thread ends, with a result or at a checkpoint once it is cancelled.
Return(i) ==
  /\ At(i, "read") /\ ~ tasks[i].cancelled
  /\ DOMAIN tasks[i].reads = Loads[tasks[i].root]
  /\ tasks' = [tasks EXCEPT ![i].pc = "finish"]
  /\ UNCHANGED <<clientVars, dropped, doc, schedule, worlds, owned, shown, gate>>

Stop(i) ==
  /\ At(i, "read") /\ tasks[i].cancelled
  /\ schedule' = finish(schedule, tasks[i].key, tasks[i].ticket)
  /\ tasks' = Then(i, tasks[i], "cancelled")
  /\ UNCHANGED <<clientVars, dropped, doc, worlds, owned, shown, gate>>

WorldIsCurrent_unchecked(reads) == TRUE
\* land_world, to the check that every open buffer is as the analysis read it.
WorldIsCurrent(reads) == \A f \in open : read_matches(reads, f)

Finish(i) ==
  /\ At(i, "finish")
  /\ schedule' = finish(schedule, tasks[i].key, tasks[i].ticket)
  /\ tasks' = IF WorldIsCurrent(tasks[i].reads) THEN [tasks EXCEPT ![i].pc = "land"]
              ELSE Then(i, tasks[i], "dropped")
  /\ UNCHANGED <<clientVars, dropped, doc, worlds, owned, shown, gate>>

\* land: the document is open, its buffer is the analysed text, and it holds
\* no analysis of a later world.
Lands(f, a) == f \in open /\ text[f] = a.hash /\ a.rev >= doc[f].rev

Pub(op, f) == [op |-> op, file |-> f]
Pubs(op, F) == LET order == SetToSeq(F) IN [n \in DOMAIN order |-> Pub(op, order[n])]

\* land_world, from there to its first publish.
Land(i) ==
  /\ At(i, "land")
  /\ LET p == tasks[i]
         r == p.root
         kept == {f \in DOMAIN p.views : p.reads[f] = p.views[f]}   \* Document::view_of
         A == [f \in kept \cup {r} |-> Analysis(f, r, p.reads, p.started)]
         landed == {f \in DOMAIN A : Lands(f, A[f])}
         pubs == (IF r \in open THEN <<>> ELSE <<Pub("world", r)>>) \o Pubs("document", landed)
     IN /\ doc' = Over([f \in landed |-> A[f]], doc)
        /\ worlds' = IF r \in open THEN Without(worlds, {r})
                     ELSE IF r \in DOMAIN worlds /\ worlds[r].rev > p.started THEN worlds
                     ELSE With(worlds, r, A[r])
        /\ IF landed = {} /\ r \in open
           THEN /\ tasks' = Then(i, p, "dropped")
                /\ UNCHANGED <<schedule, gate>>
           ELSE /\ schedule' = clear_dependency_moved(schedule, landed)
                /\ tasks' = Go(i, [p EXCEPT !.pc = "gate", !.pubs = pubs, !.landed = landed,
                                            !.reads = <<>>, !.views = <<>>, !.started = 0, !.ticket = 0])
                /\ gate' = Append(gate, i)
  /\ UNCHANGED <<clientVars, dropped, owned, shown>>

-----------------------------------------------------------------------------
(***************************************************************************)
(* Publishing: one plan and its sends, under the gate, in arrival order.    *)
(***************************************************************************)

\* publish_document, publish_closed_world, plan_close, and the close's own
\* publish: the entry of a world that lives on leaves its analysis behind.
Perform(pub) ==
  \/ /\ pub.op = "document"
     /\ IF pub.file \in open THEN plan(pub.file, doc[pub.file]) ELSE UNCHANGED <<owned, shown>>
     /\ UNCHANGED worlds
  \/ /\ pub.op = "world"
     /\ IF pub.file \in DOMAIN worlds THEN plan(pub.file, worlds[pub.file]) ELSE UNCHANGED <<owned, shown>>
     /\ UNCHANGED worlds
  \/ pub.op \in {"retire", "close"} /\ plan_close(pub.file) /\ UNCHANGED worlds
  \/ pub.op = "keep" /\ plan(pub.file, pub.kept) /\ worlds' = With(worlds, pub.file, pub.kept)

\* After the last one: a landing retires the worlds nothing lives in, a close
\* first sees to the document it left alone in its world.
Published(i, op) ==
  LET p == [tasks[i] EXCEPT !.pubs = <<>>]
  IN CASE p.kind = "served" -> Done(tasks, i)
       [] op = "retire" /\ p.dead \cap DOMAIN worlds = {} -> Then(i, [p EXCEPT !.dead = {}], "landed")
       [] op = "retire" /\ p.dead \cap DOMAIN worlds # {} -> Go(i, [p EXCEPT !.pc = "retiring"])
       [] op \in {"close", "keep"} -> Go(i, [p EXCEPT !.pc = "alone"])
       [] OTHER -> Go(i, [p EXCEPT !.pc = "retire"])

Publish ==
  /\ gate # <<>>
  /\ LET i == Head(gate)
         pubs == tasks[i].pubs
     IN /\ Perform(Head(pubs))
        /\ IF Len(pubs) > 1
           THEN tasks' = Go(i, [tasks[i] EXCEPT !.pubs = Tail(@)]) /\ gate' = Append(Tail(gate), i)
           ELSE tasks' = Published(i, Head(pubs).op) /\ gate' = Tail(gate)
  /\ UNCHANGED <<clientVars, dropped, doc, schedule>>

\* retire_dead_worlds: what lives in no open document is found, and goes one by
\* one, each with a wait for the gate.
Dead == DOMAIN worlds \ live_worlds(open)

Retiring(i, w, rest) ==
  /\ worlds' = Without(worlds, {w})
  /\ schedule' = Without(schedule, {w}) /\ dropped' = dropped \cup {w}
  /\ tasks' = Cancelled(Go(i, [tasks[i] EXCEPT !.pc = "gate", !.dead = rest,
                                               !.pubs = <<Pub("retire", w)>>]),
                        CancelAll(schedule, w))
  /\ gate' = Append(gate, i)
  /\ UNCHANGED <<clientVars, doc, owned, shown>>

Retired(i) ==
  /\ tasks' = Then(i, [tasks[i] EXCEPT !.dead = {}], "landed")
  /\ UNCHANGED <<clientVars, dropped, doc, schedule, worlds, owned, shown, gate>>

Retire(i) ==
  /\ At(i, "retire")
  /\ \/ Dead = {} /\ Retired(i)
     \/ \E w \in Dead : Retiring(i, w, Dead \ {w})

RetireNext(i) ==
  /\ At(i, "retiring")
  /\ LET dead == tasks[i].dead
     IN \/ dead \cap DOMAIN worlds = {} /\ Retired(i)
        \/ \E w \in dead \cap DOMAIN worlds : Retiring(i, w, dead \ {w})

-----------------------------------------------------------------------------
(***************************************************************************)
(* reanalyze_dependents.                                                   *)
(***************************************************************************)

Reaches(p, d) == p.kind = "watched" \/ Recolored(p.before, p.uri) \/ depends_on(d, p.uri)

\* The dependents are collected and marked, then answered one by one.
Collect(i) ==
  /\ At(i, "collect")
  /\ LET p == tasks[i]
         dependents == {f \in open \ ({p.uri} \cup p.answered) : Reaches(p, doc[f])}
         closed == {w \in DOMAIN worlds \ p.answeredWorlds : Reaches(p, worlds[w])}
                   \cup (live_worlds(open) \ (DOMAIN worlds \cup open))
         todo == {<<f, analysis_key(f)>> : f \in dependents} \cup {<<None, w>> : w \in closed}
     IN /\ schedule' = mark_dependency_moved(schedule, dependents)
        /\ tasks' = IF todo = {} THEN Done(tasks, i)
                    ELSE Go(i, [p EXCEPT !.pc = "sweep", !.sweeping = TRUE, !.at = revision, !.todo = todo])
  /\ UNCHANGED <<clientVars, dropped, doc, worlds, owned, shown, gate>>

\* A sweep whose world has moved stops.
Abandoned(p) == revision # p.at

\* A newer edit brings a sweep of its own, an open or a close does not.
Relieved(p) == \E j \in DOMAIN tasks : j[1] > p.at /\ tasks[j].kind \in {"change", "save", "watched"}

Sweep(i) ==
  /\ At(i, "sweep")
  /\ LET p == tasks[i] IN
     /\ p.todo = {} \/ Abandoned(p)
     /\ missed' = missed \cup IF p.todo = {} \/ Relieved(p) THEN {} ELSE Behind(p.uri) \cap {p.uri}
  /\ tasks' = Done(tasks, i)
  /\ UNCHANGED <<clientVars, dropped, doc, schedule, worlds, owned, shown, gate>>

\* One item: skipped when it is answered, else its world is superseded and
\* analysed, on the text the key has after that.
SweepOne(i, item) ==
  /\ At(i, "sweep")
  /\ LET p == tasks[i]
         q == [p EXCEPT !.todo = @ \ {item}, !.dep = item[1], !.key = item[2]]
     IN /\ item \in p.todo /\ ~ Abandoned(p)
        /\ item[1] = None => \A other \in p.todo : other[1] = None
        /\ IF item[1] \in p.answered \/ (item[2] \in p.answeredWorlds /\ ~ Leftover(q, p.answered))
           THEN tasks' = Go(i, [p EXCEPT !.todo = @ \ {item}]) /\ UNCHANGED schedule
           ELSE IF item[2] \in p.answeredWorlds
           THEN tasks' = Go(i, [q EXCEPT !.pc = "leftover"]) /\ UNCHANGED schedule
           ELSE /\ schedule' = supersede(schedule, item[2])
                /\ tasks' = Cancelled(Go(i, [q EXCEPT !.pc = "begin", !.text = key_text(item[2]),
                                                      !.gen = schedule'[item[2]].gen]),
                                      CancelOlder(schedule, item[2]))
  /\ UNCHANGED <<clientVars, dropped, doc, worlds, owned, shown, gate>>

SweepLeftover(i) ==
  /\ At(i, "leftover")
  /\ LET p == tasks[i] IN
     /\ schedule' = supersede(schedule, p.dep)
     /\ tasks' = Cancelled(Go(i, [p EXCEPT !.pc = "begin", !.key = p.dep, !.text = key_text(p.dep),
                                           !.gen = schedule'[p.dep].gen,
                                           !.answered = @ \cup {p.dep}]),
                           CancelOlder(schedule, p.dep))
  /\ UNCHANGED <<clientVars, dropped, doc, worlds, owned, shown, gate>>

-----------------------------------------------------------------------------
(***************************************************************************)
(* Notifications.  Each moves the world revision.                           *)
(***************************************************************************)

Notified(kind) ==
  /\ kind \in Notify
  /\ revision < MaxRevision
  /\ revision' = revision + 1

Id == <<revision + 1, None>>
\* A change makes a new text, or with "undo" also one the file had before.
NextTexts(t) == (IF "undo" \in Notify THEN Texts \ {t} ELSE {t + 1}) \cap Texts

did_open(f) ==
  /\ Notified("open") /\ f \notin open
  /\ open' = open \cup {f}
  /\ text' = [text EXCEPT ![f] = disk[f]]
  /\ doc' = With(doc, f, unanalyzed(disk[f]))
  /\ schedule' = supersede(schedule, f)
  /\ tasks' = With(Cancelled(tasks, CancelOlder(schedule, f)), Id,
                   Task("open", f, f, schedule'[f].gen, disk[f], "serve"))
  /\ session' = session \cup (IF f \in session THEN {"reopen"} ELSE {})
  /\ UNCHANGED <<disk, dropped, worlds, owned, shown, gate>>

\* did_change and on_change
did_change(f, t) ==
  /\ Notified("change") /\ f \in open /\ t \in NextTexts(text[f])
  /\ text' = [text EXCEPT ![f] = t]
  /\ LET key == analysis_key(f) IN
     /\ schedule' = supersede(schedule, key)
     /\ tasks' = With(Cancelled(tasks, CancelOlder(schedule, key)), Id,
                      Task("change", f, key, schedule'[key].gen, t, "sleep"))
  /\ UNCHANGED <<open, disk, session, doc, dropped, worlds, owned, shown, gate>>

did_save(f) ==
  /\ Notified("save") /\ f \in open
  /\ disk' = [disk EXCEPT ![f] = text[f]]
  /\ LET key == analysis_key(f) IN
     LET s == supersede(schedule, key) IN
     /\ schedule' = start(s, key, s[key].gen, Id)
     /\ tasks' = With(Cancelled(tasks, CancelOlder(schedule, key)), Id,
                      [Begun(s, Task("save", f, key, s[key].gen, key_text(key), "begin"))
                         EXCEPT !.before = package_reach(f), !.started = revision'])
  /\ UNCHANGED <<open, text, session, doc, dropped, worlds, owned, shown, gate>>

\* did_change_watched_files, for one file that changed on disk.
did_change_watched_files(f, t) ==
  /\ Notified("watched") /\ f \notin open /\ t \in NextTexts(disk[f])
  /\ disk' = [disk EXCEPT ![f] = t]
  /\ tasks' = With(tasks, Id, Task("watched", f, f, 0, Unread, "collect"))
  /\ UNCHANGED <<open, text, session, doc, schedule, dropped, worlds, owned, shown, gate>>

\* did_close, to its wait for the gate: the entry of a world that serves
\* others leaves its analysis behind.
did_close(f) ==
  /\ Notified("close") /\ f \in open
  /\ open' = open \ {f}
  /\ session' = session \cup {f}
  /\ doc' = Without(doc, {f})
  /\ schedule' = Without(schedule, {f}) /\ dropped' = dropped \cup {f}
  /\ LET world == IF doc[f].world = None THEN f ELSE doc[f].world
         pub == IF f \in live_worlds(open \ {f})
                THEN [op |-> "keep", file |-> f, kept |-> doc[f]] ELSE Pub("close", f)
     IN /\ tasks' = With(Cancelled(tasks, CancelAll(schedule, f)), Id,
                         [Task("close", f, f, 0, Unread, "gate") EXCEPT !.root = world, !.pubs = <<pub>>])
        /\ gate' = Append(gate, Id)
  /\ UNCHANGED <<text, disk, worlds, owned, shown>>

\* The rest of did_close: a world left with one document serves it no more.
Alone(i) ==
  /\ At(i, "alone")
  /\ LET p == tasks[i]
         left == {f \in open : doc[f].world = p.root}
         lone == IF p.root \notin open /\ Cardinality(left) = 1 THEN left ELSE {}
     IN /\ schedule' = [k \in DOMAIN schedule \cup lone |->
                          IF k \in lone THEN supersede(schedule, k)[k] ELSE schedule[k]]
        /\ tasks' = Over([j \in {<<i[1], f>> : f \in lone} |->
                            Task("lone", j[2], j[2], schedule'[j[2]].gen, key_text(j[2]), "begin")],
                         Cancelled(Go(i, [p EXCEPT !.pc = "retire"]),
                                   UNION {CancelOlder(schedule, f) : f \in lone}))
  /\ UNCHANGED <<clientVars, dropped, doc, worlds, owned, shown, gate>>

\* serve_from_held_world: a world that another open document holds, and that
\* read every open buffer as it is, serves an opened file with no analysis.
Holders(f) == {h \in open \ {f} : /\ Primary[f] # f /\ Analysed(doc[h])
                                  /\ IF doc[h].world = None THEN h = Primary[f]
                                     ELSE doc[h].world = Primary[f]}

Serve(i) ==
  /\ At(i, "serve")
  /\ LET p == tasks[i]
         serves(h) == WorldIsCurrent(doc[h].reads) /\ doc[h].reads[p.uri] = p.text
     IN \/ \E h \in Holders(p.uri) :
             /\ serves(h)
             /\ tasks' = Go(i, [p EXCEPT !.pc = "served", !.root = Primary[p.uri],
                                         !.reads = doc[h].reads, !.started = doc[h].rev])
        \/ /\ Holders(p.uri) = {} \/ \E h \in Holders(p.uri) : ~ serves(h)
           /\ tasks' = Go(i, [p EXCEPT !.pc = "begin"])
  /\ UNCHANGED <<clientVars, dropped, doc, schedule, worlds, owned, shown, gate>>

LandServed(i) ==
  /\ At(i, "served")
  /\ LET p == tasks[i]
         view == Analysis(p.uri, p.root, p.reads, p.started)
     IN IF Lands(p.uri, view)
        THEN /\ doc' = [doc EXCEPT ![p.uri] = view]
             /\ tasks' = Go(i, [p EXCEPT !.kind = "served", !.pc = "gate", !.pubs = Pubs("document", {p.uri})])
             /\ gate' = Append(gate, i)
        ELSE /\ tasks' = Go(i, [p EXCEPT !.pc = "begin"])
             /\ UNCHANGED <<doc, gate>>
  /\ UNCHANGED <<clientVars, dropped, schedule, worlds, owned, shown>>

-----------------------------------------------------------------------------
Init ==
  /\ open = OpenFirst
  /\ text = [f \in Files |-> 0]
  /\ disk = [f \in Files |-> 0]
  /\ revision = 0
  /\ session = {}
  /\ dropped = {}
  /\ missed = {}
  /\ doc = [f \in OpenFirst |-> Analysis(f, Primary[f], [g \in Loads[Primary[f]] |-> 0], 0)]
  /\ schedule = [f \in OpenFirst |-> [Fresh EXCEPT !.gen = 1, !.ticket = 1]]
  /\ worlds = <<>>
  /\ owned = [f \in OpenFirst |-> [rev |-> 0, groups |-> Groups(doc[f])]]
  /\ shown = [f \in Files |-> merged(owned, f)]
  /\ tasks = <<>>
  /\ gate = <<>>

Client ==
  \E f \in Files :
    \/ did_open(f) \/ did_save(f) \/ did_close(f)
    \/ \E t \in Texts : did_change(f, t) \/ did_change_watched_files(f, t)

Step(i) ==
  \/ Begin(i) \/ Return(i) \/ Stop(i) \/ Finish(i) \/ Land(i)
  \/ Retire(i) \/ RetireNext(i) \/ Collect(i) \/ SweepLeftover(i) \/ Alone(i)
  \/ Serve(i) \/ LandServed(i)
  \/ \E f \in Files : Read(i, f)
  \/ \E item \in tasks[i].todo : SweepOne(i, item)

AtRest == DOMAIN tasks = {}

Next ==
  \/ /\ Client \/ Publish \/ \E i \in DOMAIN tasks : Step(i)
     /\ UNCHANGED missed
  \/ \E i \in DOMAIN tasks : Wake(i) \/ Sweep(i)
  \/ AtRest /\ revision = MaxRevision /\ UNCHANGED vars

Spec == Init /\ [][Next]_vars

-----------------------------------------------------------------------------
\* The types.  An analysis is held for the open documents and no others, and
\* who waits for the publish gate is a task that has something to publish.
TypeOK ==
  /\ open \subseteq Files
  /\ text \in [Files -> Texts] /\ disk \in [Files -> Texts]
  /\ revision \in 0..MaxRevision
  /\ DOMAIN doc = open
  /\ DOMAIN schedule \subseteq Files /\ DOMAIN worlds \subseteq Files /\ DOMAIN owned \subseteq Files
  /\ \A n \in DOMAIN gate : gate[n] \in DOMAIN tasks /\ tasks[gate[n]].pc = "gate"

\* What the server holds for an owner: an open document's analysis, else the
\* world kept for it.
Held(o) == IF o \in open THEN {doc[o]} ELSE IF o \in DOMAIN worlds THEN {worlds[o]} ELSE {}
Reporting == {d \in UNION {Held(o) : o \in Files} : d.world = None /\ Analysed(d)}

\* A diagnostic the client shows is one the server still holds: at rest it
\* shows on every file what the open documents and the kept worlds report on
\* it, and nothing a closed, retired or older analysis once said (plan,
\* plan_close, publish_document, retire_dead_worlds, did_close).  Reopening a
\* file whose world was kept is left out: see SupersededIsCancelled.
ShownIsLanded ==
  AtRest /\ "reopen" \notin session =>
    \A t \in Files : shown[t] = {d.reads : d \in {d \in Reporting : t \in DOMAIN d.reads}}

\* At most one live analysis per key: an analysis that has been superseded is
\* a cancelled one, so it can not outlive the edit that outdated it
\* (Schedule::supersede, start, cancel_older_than).  A key that is closed, or
\* whose world is retired, counts its generations and tickets from zero again,
\* and the property is not claimed of it then.
SupersededIsCancelled ==
  \A i \in DOMAIN tasks :
    tasks[i].pc = "read" /\ ~ tasks[i].cancelled /\ tasks[i].key \notin dropped =>
      tasks[i].key \in DOMAIN schedule /\ tasks[i].gen = schedule[tasks[i].key].gen

\* main.rs, land_world: "no document ever shows diagnostics from a stale
\* world".  Until a file is closed, at rest every analysis an open document
\* holds read every file of its world as it is now.  A run of its own refutes
\* it for two entries that share a module.
NoStaleWorld ==
  AtRest /\ session = {} =>
    \A f \in open, g \in Files : ~ Outdated(doc[f].reads, g)

\* What is left of it in a package with one entry: until a file is closed, no
\* edit, undo, save, open or change on disk is forgotten, and no open document
\* is left without an analysis, whatever was superseded, dropped, cancelled or
\* served on the way, but in two cases, and then only for the files that were
\* behind when it happened.  A pause that finds its own document's text
\* unchanged looks no further, though it took over from another document's
\* pause (on_change, pause_action); and a sweep stops for any later
\* notification, one that brings no sweep included (reanalyze_dependents).
OnlySkipsMiss ==
  AtRest /\ session = {} =>
    \A f \in open :
      /\ Analysed(doc[f]) \/ f \in missed
      /\ \A g \in Files : Outdated(doc[f].reads, g) => g \in missed
=============================================================================
