------------------------ MODULE LanguageServerProofs ------------------------
(***************************************************************************)
(* Safety of the language server for any package and any notifications: a  *)
(* superseded analysis is a cancelled one, and the client shows on a file   *)
(* what the owners' last plans report on it.                               *)
(***************************************************************************)
EXTENDS LanguageServer, TLAPS

-----------------------------------------------------------------------------
(***************************************************************************)
(* The ledger: tasks ts, schedule s, and the keys d whose schedule went.    *)
(***************************************************************************)
Fields == DOMAIN Task(None, None, None, 0, 0, None)
EntryFields == {"gen", "running", "ticket", "moved"}

TaskTypes(ts) ==
  \A i \in DOMAIN ts : /\ DOMAIN ts[i] = Fields
                       /\ ts[i].gen \in Nat /\ ts[i].ticket \in Nat /\ ts[i].cancelled \in BOOLEAN

\* No registration carries ticket 0, a later ticket or a later generation.
ScheduleTypes(s) ==
  \A k \in DOMAIN s : /\ DOMAIN s[k] = EntryFields /\ s[k].gen \in Nat /\ s[k].ticket \in Nat
                      /\ \A r \in s[k].running : /\ r.ticket \in 1..s[k].ticket
                                                 /\ r.gen \in 0..s[k].gen

Begins(p) == p.pc \in {"read", "finish"}
Counts(s, k) == IF k \in DOMAIN s THEN s[k].ticket ELSE 0

\* Two analyses under one key do not share a ticket.
Numbered(ts, s, d) ==
  \A i \in DOMAIN ts : Begins(ts[i]) /\ ts[i].key \notin d =>
    /\ ts[i].ticket <= Counts(s, ts[i].key)
    /\ \A j \in DOMAIN ts : Begins(ts[j]) /\ ts[j].key = ts[i].key /\ ts[j].ticket = ts[i].ticket =>
         i = j \/ ts[i].ticket = 0

\* An analysis that runs is registered, for the key's present generation.
Registration(p, i) == [ticket |-> p.ticket, gen |-> p.gen, task |-> i]
Registered(ts, s, d) ==
  \A i \in DOMAIN ts : ts[i].pc = "read" /\ ts[i].cancelled = FALSE /\ ts[i].key \notin d =>
    /\ ts[i].key \in DOMAIN s
    /\ ts[i].gen = s[ts[i].key].gen
    /\ Registration(ts[i], i) \in s[ts[i].key].running

Ledger(ts, s, d) == TaskTypes(ts) /\ ScheduleTypes(s) /\ Numbered(ts, s, d) /\ Registered(ts, s, d)

\* The analysis of q is that of p, cancelled meanwhile or over.
SameRun(p, q) ==
  /\ q.pc = "read" => p.pc = "read" /\ (q.cancelled = FALSE => p.cancelled = FALSE)
  /\ Begins(p) /\ q.key = p.key /\ q.gen = p.gen /\ q.ticket = p.ticket

\* Tasks may go, change otherwise, and come, as long as they start no analysis.
LEMMA TasksMove ==
  ASSUME NEW ts, NEW s, NEW d, NEW us, Ledger(ts, s, d), TaskTypes(us),
         \A i \in DOMAIN us : Begins(us[i]) => i \in DOMAIN ts /\ SameRun(ts[i], us[i])
  PROVE  Ledger(us, s, d)
<1>1. Numbered(us, s, d)
  <2> SUFFICES ASSUME NEW i \in DOMAIN us, Begins(us[i]), us[i].key \notin d
               PROVE  /\ us[i].ticket <= Counts(s, us[i].key)
                      /\ \A j \in DOMAIN us : Begins(us[j]) /\ us[j].key = us[i].key
                                              /\ us[j].ticket = us[i].ticket =>
                           i = j \/ us[i].ticket = 0
    BY DEF Numbered
  <2> QED BY DEF Ledger, Numbered, SameRun
<1>2. Registered(us, s, d)
  <2> SUFFICES ASSUME NEW i \in DOMAIN us, us[i].pc = "read", us[i].cancelled = FALSE, us[i].key \notin d
               PROVE  /\ us[i].key \in DOMAIN s
                      /\ us[i].gen = s[us[i].key].gen
                      /\ Registration(us[i], i) \in s[us[i].key].running
    BY DEF Registered
  <2> QED BY DEF Ledger, Registered, Registration, SameRun, Begins
<1> QED BY <1>1, <1>2 DEF Ledger

-----------------------------------------------------------------------------
(***************************************************************************)
(* The operations of Schedule.                                             *)
(***************************************************************************)

\* The tasks with those of C cancelled.
LEMMA CancelledIs ==
  ASSUME NEW ts, NEW C, NEW us, us = Cancelled(ts, C), TaskTypes(ts)
  PROVE  /\ DOMAIN us = DOMAIN ts /\ TaskTypes(us)
         /\ \A i \in DOMAIN ts : /\ us[i].pc = ts[i].pc /\ us[i].key = ts[i].key
                                 /\ us[i].gen = ts[i].gen /\ us[i].ticket = ts[i].ticket
                                 /\ us[i].cancelled = (IF i \in C THEN TRUE ELSE ts[i].cancelled)
<1>1. DOMAIN us = DOMAIN ts
  BY DEF Cancelled
<1>2. ASSUME NEW i \in DOMAIN ts
      PROVE  /\ DOMAIN us[i] = Fields /\ us[i].pc = ts[i].pc /\ us[i].key = ts[i].key
             /\ us[i].gen = ts[i].gen /\ us[i].ticket = ts[i].ticket
             /\ us[i].cancelled = (IF i \in C THEN TRUE ELSE ts[i].cancelled)
  <2>1. us[i] = IF i \in C THEN [ts[i] EXCEPT !.cancelled = TRUE] ELSE ts[i]
    BY DEF Cancelled
  <2>2. DOMAIN ts[i] = Fields /\ "cancelled" \in Fields
    BY DEF TaskTypes, Fields, Task
  <2> QED BY <2>1, <2>2
<1>3. TaskTypes(us)
  BY <1>1, <1>2 DEF TaskTypes
<1> QED BY <1>1, <1>2, <1>3

\* What Schedule::supersede makes of a key's entry.
Bumped(s, k) == [Entry(s, k) EXCEPT !.gen = @ + 1]

\* s2 is s with the keys of K superseded.
Supersedes(s, K, s2) ==
  /\ DOMAIN s2 = DOMAIN s \cup K
  /\ \A x \in DOMAIN s \ K : s2[x] = s[x]
  /\ \A k \in K : s2[k] = Bumped(s, k)

\* What a supersede leaves of the schedule: typed, and no ticket counted.
LEMMA SupersededIs ==
  ASSUME NEW s, NEW K, NEW s2, ScheduleTypes(s), Supersedes(s, K, s2)
  PROVE  /\ ScheduleTypes(s2)
         /\ \A k \in K : s2[k].gen \in Nat
         /\ \A x : Counts(s2, x) = Counts(s, x)
<1>1. ASSUME NEW k \in K
      PROVE  /\ DOMAIN s2[k] = EntryFields /\ s2[k].gen \in Nat /\ s2[k].ticket \in Nat
             /\ \A r \in s2[k].running : r.ticket \in 1..s2[k].ticket /\ r.gen \in 0..s2[k].gen
             /\ Counts(s2, k) = Counts(s, k)
  <2> DEFINE e == Entry(s, k)
  <2>1. DOMAIN e = EntryFields /\ e.gen \in Nat /\ e.ticket \in Nat
        /\ \A r \in e.running : r.ticket \in 1..e.ticket /\ r.gen \in 0..e.gen
    BY DEF Entry, Fresh, ScheduleTypes, EntryFields
  <2>2. e.ticket = Counts(s, k)
    BY DEF Entry, Fresh, Counts
  <2>3. s2[k] = [e EXCEPT !.gen = @ + 1] /\ k \in DOMAIN s2
    BY DEF Bumped, Supersedes
  <2> HIDE DEF e
  <2>4. DOMAIN s2[k] = EntryFields /\ s2[k].gen = e.gen + 1 /\ s2[k].ticket = e.ticket
        /\ s2[k].running = e.running
    BY <2>1, <2>3 DEF EntryFields
  <2>5. \A r \in e.running : r.gen \in 0..e.gen + 1
    BY <2>1
  <2>6. Counts(s2, k) = s2[k].ticket
    BY <2>3 DEF Counts
  <2> QED BY <2>1, <2>2, <2>4, <2>5, <2>6
<1>2. ScheduleTypes(s2)
  BY <1>1 DEF ScheduleTypes, Supersedes
<1>3. \A x : x \notin K => Counts(s2, x) = Counts(s, x)
  BY DEF Counts, Supersedes
<1> QED BY <1>1, <1>2, <1>3

\* Schedule::supersede, of the keys K: no analysis of theirs outlives it.
LEMMA SupersedeKeeps ==
  ASSUME NEW ts, NEW s, NEW d, NEW K, NEW C, NEW s2, Ledger(ts, s, d),
         Supersedes(s, K, s2), \A k \in K : CancelOlder(s, k) \subseteq C
  PROVE  Ledger(Cancelled(ts, C), s2, d)
<1> DEFINE us == Cancelled(ts, C)
<1> HIDE DEF us
<1>1. /\ DOMAIN us = DOMAIN ts /\ TaskTypes(us)
      /\ \A i \in DOMAIN ts : /\ us[i].pc = ts[i].pc /\ us[i].key = ts[i].key
                              /\ us[i].gen = ts[i].gen /\ us[i].ticket = ts[i].ticket
                              /\ us[i].cancelled = (IF i \in C THEN TRUE ELSE ts[i].cancelled)
  BY CancelledIs DEF Ledger, us
<1>0. ScheduleTypes(s)
  BY DEF Ledger
<1>2. ScheduleTypes(s2) /\ \A x : Counts(s2, x) = Counts(s, x)
  BY <1>0, SupersededIs
<1>3. ASSUME NEW i \in DOMAIN ts, ts[i].pc = "read", ts[i].cancelled = FALSE, ts[i].key \notin d,
             ts[i].key \in K
      PROVE  i \in C
  <2> DEFINE k == ts[i].key
  <2>1. /\ k \in DOMAIN s /\ ts[i].gen = s[k].gen
        /\ Registration(ts[i], i) \in s[k].running
    BY <1>3 DEF Ledger, Registered
  <2>2. Entry(s, k) = s[k] /\ s[k].gen \in Nat
    BY <2>1 DEF Entry, Ledger, ScheduleTypes
  <2>3. PICK r \in Entry(s, k).running : r.gen <= Entry(s, k).gen /\ r.task = i
    BY <2>1, <2>2 DEF Registration
  <2>4. i \in CancelOlder(s, k)
    BY <2>3 DEF CancelOlder
  <2> QED BY <1>3, <2>4
<1>4. Numbered(us, s2, d)
  BY <1>1, <1>2 DEF Ledger, Numbered, Begins
<1>5. Registered(us, s2, d)
  <2> SUFFICES ASSUME NEW i \in DOMAIN us, us[i].pc = "read", us[i].cancelled = FALSE, us[i].key \notin d
               PROVE  /\ us[i].key \in DOMAIN s2
                      /\ us[i].gen = s2[us[i].key].gen
                      /\ Registration(us[i], i) \in s2[us[i].key].running
    BY DEF Registered
  <2>1. i \in DOMAIN ts /\ i \notin C /\ ts[i].pc = "read" /\ ts[i].cancelled = FALSE /\ ts[i].key \notin d
    BY <1>1
  <2>2. ts[i].key \notin K
    BY <1>3, <2>1
  <2>3. /\ ts[i].key \in DOMAIN s /\ ts[i].gen = s[ts[i].key].gen
        /\ Registration(ts[i], i) \in s[ts[i].key].running
    BY <2>1 DEF Ledger, Registered
  <2>4. Registration(us[i], i) = Registration(ts[i], i)
    BY <1>1, <2>1 DEF Registration
  <2> QED BY <1>1, <2>1, <2>2, <2>3, <2>4 DEF Supersedes
<1> QED BY <1>1, <1>2, <1>4, <1>5 DEF Ledger, us

\* One key.
LEMMA SupersedeOne ==
  ASSUME NEW ts, NEW s, NEW d, NEW k, Ledger(ts, s, d)
  PROVE  Ledger(Cancelled(ts, CancelOlder(s, k)), supersede(s, k), d) /\ supersede(s, k)[k].gen \in Nat
<1> DEFINE s2 == supersede(s, k)
           C == CancelOlder(s, k)
           K == {k}
<1>1. Supersedes(s, K, s2)
  BY DEF supersede, With, Bumped, Supersedes
<1>2. \A x \in K : CancelOlder(s, x) \subseteq C
  OBVIOUS
<1>3. k \in K /\ ScheduleTypes(s)
  BY DEF Ledger
<1> HIDE DEF s2, C, K
<1>4. Ledger(Cancelled(ts, C), s2, d)
  BY <1>1, <1>2, SupersedeKeeps
<1>5. s2[k].gen \in Nat
  BY <1>1, <1>3, SupersededIs
<1> QED BY <1>4, <1>5 DEF s2, C

\* A schedule that goes takes its key's claim with it.
LEMMA DropKeeps ==
  ASSUME NEW ts, NEW s, NEW d, NEW K, Ledger(ts, s, d)
  PROVE  Ledger(ts, Without(s, K), d \cup K)
<1> DEFINE s2 == Without(s, K)
<1>1. DOMAIN s2 = DOMAIN s \ K /\ \A x \in DOMAIN s \ K : s2[x] = s[x]
  BY DEF Without
<1> HIDE DEF s2
<1>2. ScheduleTypes(s2)
  BY <1>1 DEF Ledger, ScheduleTypes
<1>3. \A x : x \notin K => Counts(s2, x) = Counts(s, x)
  BY <1>1 DEF Counts
<1>4. Numbered(ts, s2, d \cup K)
  BY <1>3 DEF Ledger, Numbered
<1>5. Registered(ts, s2, d \cup K)
  BY <1>1 DEF Ledger, Registered
<1> QED BY <1>2, <1>4, <1>5 DEF Ledger, s2

\* Cancelling registers nothing and starts nothing.
LEMMA CancelKeeps ==
  ASSUME NEW ts, NEW s, NEW d, NEW C, Ledger(ts, s, d)
  PROVE  Ledger(Cancelled(ts, C), s, d)
<1> DEFINE us == Cancelled(ts, C)
<1> HIDE DEF us
<1>1. /\ DOMAIN us = DOMAIN ts /\ TaskTypes(us)
      /\ \A i \in DOMAIN ts : /\ us[i].pc = ts[i].pc /\ us[i].key = ts[i].key
                              /\ us[i].gen = ts[i].gen /\ us[i].ticket = ts[i].ticket
                              /\ us[i].cancelled = (IF i \in C THEN TRUE ELSE ts[i].cancelled)
  BY CancelledIs DEF Ledger, us
<1>2. \A i \in DOMAIN us : Begins(us[i]) => i \in DOMAIN ts /\ SameRun(ts[i], us[i])
  BY <1>1 DEF Begins, SameRun
<1>3. Ledger(us, s, d)
  BY <1>1, <1>2, TasksMove
<1> QED BY <1>3 DEF us

TaskType(p) ==
  DOMAIN p = Fields /\ p.gen \in Nat /\ p.ticket \in Nat /\ p.cancelled \in BOOLEAN

\* A spawned task, or one whose id is taken over.
LEMMA SpawnKeeps ==
  ASSUME NEW ts, NEW s, NEW d, NEW i, NEW q, Ledger(ts, s, d), TaskType(q), ~ Begins(q)
  PROVE  Ledger(With(ts, i, q), s, d)
<1> DEFINE us == With(ts, i, q)
<1>1. DOMAIN us = DOMAIN ts \cup {i} /\ us[i] = q /\ \A j \in DOMAIN ts \ {i} : us[j] = ts[j]
  BY DEF With
<1> HIDE DEF us
<1>2. TaskTypes(us)
  BY <1>1 DEF TaskTypes, TaskType, Ledger
<1>3. \A j \in DOMAIN us : Begins(us[j]) => j \in DOMAIN ts /\ SameRun(ts[j], us[j])
  BY <1>1 DEF SameRun, Begins
<1>4. Ledger(us, s, d)
  BY <1>2, <1>3, TasksMove
<1> QED BY <1>4 DEF us

\* The task i goes, or is left where no analysis runs; the others stay.
Settles(ts, i, us) ==
  /\ TaskTypes(us)
  /\ DOMAIN us \subseteq DOMAIN ts
  /\ \A j \in DOMAIN us \ {i} : us[j] = ts[j]
  /\ i \in DOMAIN us => ~ Begins(us[i])

\* A task that is settled leaves the others' claims as they were.
LEMMA SettleKeeps ==
  ASSUME NEW ts, NEW s, NEW d, NEW i, NEW us, Ledger(ts, s, d), Settles(ts, i, us)
  PROVE  Ledger(us, s, d)
<1>1. \A j \in DOMAIN us : Begins(us[j]) => j \in DOMAIN ts /\ SameRun(ts[j], us[j])
  BY DEF SameRun, Begins, Settles
<1> QED BY <1>1, TasksMove DEF Settles

\* Schedule::start, for an analysis that begins under the id i: a stale one
\* begins cancelled and unregistered, another takes a ticket of its own.
LEMMA StartKeeps ==
  ASSUME NEW ts, NEW s, NEW d, NEW i, NEW q, NEW us, Ledger(ts, s, d), TaskType(q),
         i \in DOMAIN ts => ~ Begins(ts[i]),
         DOMAIN us = DOMAIN ts \cup {i}, us[i] = q, \A j \in DOMAIN ts \ {i} : us[j] = ts[j],
         q.pc = "read", q.ticket = Ticket(s, q.key, q.gen), q.cancelled = Stale(s, q.key, q.gen)
  PROVE  Ledger(us, start(s, q.key, q.gen, i), d)
<1> DEFINE k == q.key
           s2 == start(s, k, q.gen, i)
<1>t. TaskTypes(us)
  BY DEF TaskTypes, TaskType, Ledger
<1>m. \A j \in DOMAIN us : j # i => j \in DOMAIN ts /\ us[j] = ts[j]
  OBVIOUS
<1>b. \A j \in DOMAIN us : Begins(us[j]) /\ j # i => j \in DOMAIN ts /\ Begins(ts[j]) /\ us[j] = ts[j]
  BY <1>m
<1>1. CASE Stale(s, k, q.gen)
  <2>1. s2 = s /\ q.ticket = 0 /\ q.cancelled = TRUE
    BY <1>1 DEF start, Ticket
  <2>c. Counts(s, k) \in Nat
    BY DEF Counts, Ledger, ScheduleTypes
  <2>2. Numbered(us, s, d)
    <3> SUFFICES ASSUME NEW a \in DOMAIN us, Begins(us[a]), us[a].key \notin d
                 PROVE  /\ us[a].ticket <= Counts(s, us[a].key)
                        /\ \A b \in DOMAIN us : Begins(us[b]) /\ us[b].key = us[a].key
                                                /\ us[b].ticket = us[a].ticket =>
                             a = b \/ us[a].ticket = 0
      BY DEF Numbered
    <3>1. CASE a = i
      BY <3>1, <2>1, <2>c
    <3>2. CASE a # i
      <4>1. a \in DOMAIN ts /\ us[a] = ts[a]
        BY <3>2, <1>m
      <4>2. /\ ts[a].ticket <= Counts(s, ts[a].key)
            /\ \A b \in DOMAIN ts : Begins(ts[b]) /\ ts[b].key = ts[a].key
                                    /\ ts[b].ticket = ts[a].ticket =>
                 a = b \/ ts[a].ticket = 0
        BY <4>1 DEF Ledger, Numbered
      <4> QED BY <4>1, <4>2, <1>b, <2>1
    <3> QED BY <3>1, <3>2
  <2>3. Registered(us, s, d)
    BY <1>m, <2>1 DEF Ledger, Registered
  <2> QED BY <1>t, <2>1, <2>2, <2>3 DEF Ledger
<1>2. CASE ~ Stale(s, k, q.gen)
  <2>1. k \in DOMAIN s /\ s[k].gen = q.gen /\ q.ticket = s[k].ticket + 1
        /\ DOMAIN s[k] = EntryFields /\ s[k].gen \in Nat /\ s[k].ticket \in Nat
        /\ \A r \in s[k].running : r.ticket \in 1..s[k].ticket /\ r.gen \in 0..s[k].gen
    BY <1>2 DEF Stale, Ticket, Ledger, ScheduleTypes
  <2>2. PICK R : R = [ticket |-> s[k].ticket + 1, gen |-> q.gen, task |-> i]
    OBVIOUS
  <2>3. /\ DOMAIN s2 = DOMAIN s /\ \A x \in DOMAIN s \ {k} : s2[x] = s[x]
        /\ DOMAIN s2[k] = EntryFields /\ s2[k].gen = s[k].gen /\ s2[k].ticket = s[k].ticket + 1
        /\ s2[k].running = s[k].running \cup {R}
    BY <1>2, <2>1, <2>2 DEF start, EntryFields
  <2>r. R = Registration(q, i)
    BY <2>1, <2>2 DEF Registration
  <2> HIDE DEF s2
  <2>4. ScheduleTypes(s2)
    <3>1. \A r \in s2[k].running : r.ticket \in 1..s2[k].ticket /\ r.gen \in 0..s2[k].gen
      BY <2>1, <2>2, <2>3
    <3>2. \A x \in DOMAIN s \ {k} : /\ DOMAIN s2[x] = EntryFields
                                    /\ s2[x].gen \in Nat /\ s2[x].ticket \in Nat
                                    /\ \A r \in s2[x].running : r.ticket \in 1..s2[x].ticket
                                                                /\ r.gen \in 0..s2[x].gen
      BY <2>3 DEF Ledger, ScheduleTypes
    <3> QED BY <2>1, <2>3, <3>1, <3>2 DEF ScheduleTypes
  <2>5. Numbered(us, s2, d)
    <3> SUFFICES ASSUME NEW a \in DOMAIN us, Begins(us[a]), us[a].key \notin d
                 PROVE  /\ us[a].ticket <= Counts(s2, us[a].key)
                        /\ \A b \in DOMAIN us : Begins(us[b]) /\ us[b].key = us[a].key
                                                /\ us[b].ticket = us[a].ticket =>
                             a = b \/ us[a].ticket = 0
      BY DEF Numbered
    <3>c. \A x : x # k => Counts(s2, x) = Counts(s, x)
      BY <2>3 DEF Counts
    <3>k. Counts(s2, k) = s[k].ticket + 1 /\ Counts(s, k) = s[k].ticket
      BY <2>1, <2>3 DEF Counts
    <3>o. ASSUME NEW b \in DOMAIN us, Begins(us[b]), us[b].key \notin d, b # i
          PROVE  /\ b \in DOMAIN ts /\ us[b] = ts[b]
                 /\ ts[b].ticket <= Counts(s, ts[b].key) /\ ts[b].ticket \in Nat
      BY <3>o, <1>b DEF Ledger, Numbered, TaskTypes
    <3>1. CASE a = i
      <4>1. us[a].ticket = s[k].ticket + 1 /\ us[a].key = k
        BY <3>1, <2>1
      <4>2. ASSUME NEW b \in DOMAIN us, Begins(us[b]), us[b].key = k, b # i
            PROVE  us[b].ticket # us[a].ticket
        <5>1. us[b].ticket <= s[k].ticket /\ us[b].ticket \in Nat
          BY <3>o, <3>k, <4>1, <4>2
        <5> QED BY <5>1, <4>1, <2>1
      <4> QED BY <3>1, <3>k, <4>1, <4>2, <2>1
    <3>2. CASE a # i
      <4>1. a \in DOMAIN ts /\ us[a] = ts[a] /\ ts[a].ticket <= Counts(s, ts[a].key) /\ ts[a].ticket \in Nat
        BY <3>2, <3>o
      <4>2. us[a].ticket <= Counts(s2, us[a].key)
        BY <4>1, <3>c, <3>k, <2>1
      <4>3. ASSUME NEW b \in DOMAIN us, Begins(us[b]), us[b].key = us[a].key, us[b].ticket = us[a].ticket
            PROVE  a = b \/ us[a].ticket = 0
        <5>1. CASE b = i
          <6>1. us[a].key = k /\ us[a].ticket = s[k].ticket + 1
            BY <5>1, <4>3, <2>1
          <6>2. us[a].ticket <= s[k].ticket
            BY <6>1, <4>1, <3>k
          <6> QED BY <6>1, <6>2, <2>1
        <5>2. CASE b # i
          <6>1. b \in DOMAIN ts /\ Begins(ts[b]) /\ us[b] = ts[b]
            BY <5>2, <4>3, <1>b
          <6> QED BY <6>1, <4>1, <4>3 DEF Ledger, Numbered
        <5> QED BY <5>1, <5>2
      <4> QED BY <4>2, <4>3
    <3> QED BY <3>1, <3>2
  <2>6. Registered(us, s2, d)
    <3> SUFFICES ASSUME NEW a \in DOMAIN us, us[a].pc = "read", us[a].cancelled = FALSE, us[a].key \notin d
                 PROVE  /\ us[a].key \in DOMAIN s2
                        /\ us[a].gen = s2[us[a].key].gen
                        /\ Registration(us[a], a) \in s2[us[a].key].running
      BY DEF Registered
    <3>1. CASE a = i
      BY <3>1, <2>1, <2>3, <2>r
    <3>2. CASE a # i
      <4>1. a \in DOMAIN ts /\ us[a] = ts[a]
        BY <3>2, <1>m
      <4>2. /\ ts[a].key \in DOMAIN s /\ ts[a].gen = s[ts[a].key].gen
            /\ Registration(ts[a], a) \in s[ts[a].key].running
        BY <4>1 DEF Ledger, Registered
      <4> QED BY <4>1, <4>2, <2>3
    <3> QED BY <3>1, <3>2
  <2> QED BY <1>t, <2>4, <2>5, <2>6 DEF Ledger, s2
<1> QED BY <1>1, <1>2

\* Schedule::finish, when the analysis of i is over: it takes no other out.
LEMMA FinishKeeps ==
  ASSUME NEW ts, NEW s, NEW d, NEW i \in DOMAIN ts, NEW us, Ledger(ts, s, d), Begins(ts[i]),
         Settles(ts, i, us)
  PROVE  Ledger(us, finish(s, ts[i].key, ts[i].ticket), d)
<1> DEFINE k == ts[i].key
           n == ts[i].ticket
           s2 == finish(s, k, n)
<1>0. Ledger(us, s, d)
  BY SettleKeeps
<1>1. CASE k \notin DOMAIN s
  <2>1. s2 = s
    BY <1>1 DEF finish
  <2> QED BY <2>1, <1>0
<1>2. CASE k \in DOMAIN s
  <2>1. DOMAIN s[k] = EntryFields /\ s[k].gen \in Nat /\ s[k].ticket \in Nat
        /\ \A r \in s[k].running : r.ticket \in 1..s[k].ticket /\ r.gen \in 0..s[k].gen
    BY <1>2 DEF Ledger, ScheduleTypes
  <2>2. PICK R : R = {r \in s[k].running : r.ticket # n}
    OBVIOUS
  <2>3. /\ DOMAIN s2 = DOMAIN s /\ \A x \in DOMAIN s \ {k} : s2[x] = s[x]
        /\ DOMAIN s2[k] = EntryFields /\ s2[k].gen = s[k].gen /\ s2[k].ticket = s[k].ticket
        /\ s2[k].running = R
    BY <1>2, <2>1, <2>2 DEF finish, EntryFields
  <2> HIDE DEF s2
  <2>4. ScheduleTypes(s2)
    <3>1. \A r \in s2[k].running : r.ticket \in 1..s2[k].ticket /\ r.gen \in 0..s2[k].gen
      BY <2>1, <2>2, <2>3
    <3> QED BY <1>0, <2>1, <2>3, <3>1 DEF Ledger, ScheduleTypes
  <2>5. \A x : Counts(s2, x) = Counts(s, x)
    BY <2>3 DEF Counts
  <2>6. Numbered(us, s2, d)
    BY <1>0, <2>5 DEF Ledger, Numbered
  <2>7. Registered(us, s2, d)
    <3> SUFFICES ASSUME NEW a \in DOMAIN us, us[a].pc = "read", us[a].cancelled = FALSE, us[a].key \notin d
                 PROVE  /\ us[a].key \in DOMAIN s2
                        /\ us[a].gen = s2[us[a].key].gen
                        /\ Registration(us[a], a) \in s2[us[a].key].running
      BY DEF Registered
    <3>1. /\ us[a].key \in DOMAIN s /\ us[a].gen = s[us[a].key].gen
          /\ Registration(us[a], a) \in s[us[a].key].running
      BY <1>0 DEF Ledger, Registered
    <3>2. a # i /\ a \in DOMAIN ts /\ us[a] = ts[a] /\ Begins(ts[a])
      BY DEF Settles, Begins
    <3>3. CASE us[a].key # k
      BY <3>1, <3>3, <2>3
    <3>4. CASE us[a].key = k
      <4>1. Registration(us[a], a).ticket = us[a].ticket
        BY DEF Registration
      <4>2. us[a].ticket \in 1..s[k].ticket
        BY <4>1, <3>1, <3>4, <2>1
      <4>3. us[a].ticket # n
        BY <4>2, <3>2, <3>4, <2>1 DEF Ledger, Numbered
      <4> QED BY <3>1, <3>4, <4>1, <4>3, <2>2, <2>3
    <3> QED BY <3>3, <3>4
  <2> QED BY <1>0, <2>4, <2>6, <2>7 DEF Ledger, s2
<1> QED BY <1>1, <1>2

\* The marks of the dependents are no part of the ledger.
LEMMA MarkKeeps ==
  ASSUME NEW ts, NEW s, NEW d, NEW K, Ledger(ts, s, d)
  PROVE  Ledger(ts, mark_dependency_moved(s, K), d) /\ Ledger(ts, clear_dependency_moved(s, K), d)
<1>1. ASSUME NEW s2, DOMAIN s2 = DOMAIN s,
             \A k \in DOMAIN s : \/ s2[k] = s[k]
                                 \/ s2[k] = [s[k] EXCEPT !.moved = TRUE]
                                 \/ s2[k] = [s[k] EXCEPT !.moved = FALSE]
      PROVE  Ledger(ts, s2, d)
  <2>1. ASSUME NEW k \in DOMAIN s
        PROVE  /\ DOMAIN s2[k] = EntryFields /\ s2[k].gen = s[k].gen /\ s2[k].ticket = s[k].ticket
               /\ s2[k].running = s[k].running
    <3>1. DOMAIN s[k] = EntryFields
      BY DEF Ledger, ScheduleTypes
    <3> QED BY <1>1, <3>1 DEF EntryFields
  <2>2. ScheduleTypes(s2)
    BY <1>1, <2>1 DEF Ledger, ScheduleTypes
  <2>3. \A x : Counts(s2, x) = Counts(s, x)
    BY <1>1, <2>1 DEF Counts
  <2>4. Numbered(ts, s2, d)
    BY <2>3 DEF Ledger, Numbered
  <2>5. Registered(ts, s2, d)
    BY <1>1, <2>1 DEF Ledger, Registered
  <2> QED BY <2>2, <2>4, <2>5 DEF Ledger
<1>2. Ledger(ts, mark_dependency_moved(s, K), d)
  <2> DEFINE s2 == mark_dependency_moved(s, K)
  <2>1. DOMAIN s2 = DOMAIN s /\ \A k \in DOMAIN s : s2[k] = s[k] \/ s2[k] = [s[k] EXCEPT !.moved = TRUE]
    BY DEF mark_dependency_moved
  <2> HIDE DEF s2
  <2>2. Ledger(ts, s2, d)
    BY <2>1, <1>1
  <2> QED BY <2>2 DEF s2
<1>3. Ledger(ts, clear_dependency_moved(s, K), d)
  <2> DEFINE s2 == clear_dependency_moved(s, K)
  <2>1. DOMAIN s2 = DOMAIN s /\ \A k \in DOMAIN s : s2[k] = s[k] \/ s2[k] = [s[k] EXCEPT !.moved = FALSE]
    BY DEF clear_dependency_moved
  <2> HIDE DEF s2
  <2>2. Ledger(ts, s2, d)
    BY <2>1, <1>1
  <2> QED BY <2>2 DEF s2
<1> QED BY <1>2, <1>3

-----------------------------------------------------------------------------
(***************************************************************************)
(* What the steps of a task make of it.                                    *)
(***************************************************************************)

\* A task that is moved on to where no analysis runs.
LEMMA GoSettles ==
  ASSUME NEW i, NEW q, TaskTypes(tasks), i \in DOMAIN tasks => TaskType(q) /\ ~ Begins(q)
  PROVE  Settles(tasks, i, Go(i, q))
<1> DEFINE us == Go(i, q)
<1>1. DOMAIN us = DOMAIN tasks /\ (i \in DOMAIN tasks => us[i] = q)
      /\ \A j \in DOMAIN tasks \ {i} : us[j] = tasks[j]
  BY DEF Go
<1> QED BY <1>1 DEF Settles, TaskTypes, TaskType

\* A task that is over.
LEMMA DoneSettles ==
  ASSUME NEW i, TaskTypes(tasks)
  PROVE  Settles(tasks, i, Done(tasks, i))
BY DEF Done, Without, Settles, TaskTypes

\* What follows an analysis holds no ticket and runs no analysis.
LEMMA AfterIs ==
  ASSUME NEW p, NEW outcome, TaskType(p)
  PROVE  TaskType(After(p, outcome)) /\ ~ Begins(After(p, outcome))
<1> DEFINE answered == p.answered \cup p.landed
           q == After(p, outcome)
           c == AfterPc(p, outcome, answered)
<1>1. c \notin {"read", "finish"}
  BY DEF AfterPc
<1>2. DOMAIN q = Fields /\ q.gen = p.gen /\ q.ticket = 0 /\ q.cancelled = FALSE /\ q.pc = c
  BY DEF TaskType, Fields, Task, After
<1> HIDE DEF q, c
<1>3. ~ Begins(q)
  BY <1>1, <1>2 DEF Begins
<1>c. q.cancelled \in BOOLEAN
  BY <1>2, Zenon
<1>4. TaskType(q)
  BY <1>2, <1>c DEF TaskType
<1> QED BY <1>3, <1>4 DEF q

\* The task after its analysis: over, or on to its sweep.
LEMMA ThenSettles ==
  ASSUME NEW i, NEW p, NEW outcome, TaskTypes(tasks), i \in DOMAIN tasks => TaskType(p)
  PROVE  Settles(tasks, i, Then(i, p, outcome))
<1>1. i \in DOMAIN tasks => TaskType(After(p, outcome)) /\ ~ Begins(After(p, outcome))
  BY AfterIs
<1>2. Settles(tasks, i, Go(i, After(p, outcome)))
  BY <1>1, GoSettles
<1>3. Settles(tasks, i, Done(tasks, i))
  BY DoneSettles
<1> QED BY <1>2, <1>3 DEF Then

\* A spawned task is typed.
LEMMA TaskIs ==
  ASSUME NEW kind, NEW uri, NEW key, NEW gen \in Nat, NEW t, NEW pc
  PROVE  LET q == Task(kind, uri, key, gen, t, pc)
         IN TaskType(q) /\ q.pc = pc /\ q.key = key /\ q.gen = gen
BY DEF TaskType, Task, Fields

\* What analyze_world_and_publish makes of the task p that calls it.
LEMMA BegunIs ==
  ASSUME NEW s, NEW d, NEW ts, NEW p, Ledger(ts, s, d), TaskType(p)
  PROVE  LET q == Begun(s, p)
         IN /\ TaskType(q) /\ q.pc = "read" /\ q.key = p.key /\ q.gen = p.gen
            /\ q.ticket = Ticket(s, p.key, p.gen) /\ q.cancelled = Stale(s, p.key, p.gen)
<1> DEFINE q == Begun(s, p)
           n == Ticket(s, p.key, p.gen)
           c == Stale(s, p.key, p.gen)
<1>1. n \in Nat
  BY DEF Ticket, Stale, Ledger, ScheduleTypes
<1>2. c \in BOOLEAN
  BY DEF Stale
<1>3. /\ DOMAIN q = Fields /\ q.pc = "read" /\ q.key = p.key /\ q.gen = p.gen
      /\ q.ticket = n /\ q.cancelled = c
  <2> HIDE DEF n, c
  <2> QED BY DEF TaskType, Fields, Task, Begun, n, c
<1> HIDE DEF q, n, c
<1>c. q.cancelled \in BOOLEAN
  BY <1>2, <1>3, Zenon
<1>4. TaskType(q)
  BY <1>1, <1>3, <1>c DEF TaskType
<1> QED BY <1>3, <1>4 DEF q, n, c

-----------------------------------------------------------------------------
(***************************************************************************)
(* The invariant: the ledger, and ids that are no later than the revision. *)
(***************************************************************************)
Ids(ts, n) == n \in Nat /\ \A i \in DOMAIN ts : i[1] \in 0..n
Kept(ts, s, d, n) == Ledger(ts, s, d) /\ Ids(ts, n)
LedgerInv == Kept(tasks, schedule, dropped, revision)

\* A step that settles one task, and moves nothing else of the ledger.
LEMMA SettledStep ==
  ASSUME NEW i, LedgerInv, Settles(tasks, i, tasks'), UNCHANGED <<schedule, dropped, revision>>
  PROVE  LedgerInv'
<1>1. Ledger(tasks, schedule, dropped) /\ Ids(tasks, revision)
  BY DEF LedgerInv, Kept
<1>2. Ledger(tasks', schedule, dropped)
  BY <1>1, SettleKeeps
<1>3. Ids(tasks', revision)
  BY <1>1 DEF Ids, Settles
<1> QED BY <1>2, <1>3 DEF LedgerInv, Kept

\* The parts of the invariant a step starts from.
LEMMA Typed ==
  ASSUME LedgerInv
  PROVE  /\ Ledger(tasks, schedule, dropped) /\ Ids(tasks, revision) /\ TaskTypes(tasks)
         /\ \A i \in DOMAIN tasks : TaskType(tasks[i])
BY DEF LedgerInv, Kept, Ledger, TaskTypes, TaskType

\* A task's analysis starts: it registers, or is cancelled at once.
LEMMA BeginKeeps ==
  ASSUME NEW i, LedgerInv, Begin(i)
  PROVE  LedgerInv'
<1> DEFINE p == tasks[i]
           q == Begun(schedule, p)
<1>1. i \in DOMAIN tasks /\ p.pc = "begin"
  BY DEF Begin, At
<1>2. Ledger(tasks, schedule, dropped) /\ Ids(tasks, revision) /\ TaskType(p)
  BY <1>1, Typed
<1>3. /\ TaskType(q) /\ q.pc = "read" /\ q.key = p.key /\ q.gen = p.gen
      /\ q.ticket = Ticket(schedule, p.key, p.gen) /\ q.cancelled = Stale(schedule, p.key, p.gen)
  BY <1>2, BegunIs
<1>4. /\ schedule' = start(schedule, p.key, p.gen, i) /\ tasks' = Go(i, q)
      /\ dropped' = dropped /\ revision' = revision
  BY DEF Begin, clientVars
<1>5. DOMAIN tasks' = DOMAIN tasks \cup {i} /\ tasks'[i] = q
      /\ \A j \in DOMAIN tasks \ {i} : tasks'[j] = tasks[j]
  BY <1>1, <1>4 DEF Go
<1>6. ~ Begins(p)
  BY <1>1 DEF Begins
<1> HIDE DEF p, q
<1>7. Ledger(tasks', start(schedule, q.key, q.gen, i), dropped)
  BY <1>2, <1>3, <1>5, <1>6, StartKeeps DEF p
<1>8. Ids(tasks', revision)
  BY <1>1, <1>2, <1>5 DEF Ids
<1> QED BY <1>3, <1>4, <1>7, <1>8 DEF LedgerInv, Kept

\* The debounce of an edit is over: skipped, or started.
LEMMA WakeKeeps ==
  ASSUME NEW i, LedgerInv, Wake(i)
  PROVE  LedgerInv'
<1>1. i \in DOMAIN tasks /\ tasks[i].pc = "sleep"
  BY DEF Wake, At
<1>2. Ledger(tasks, schedule, dropped) /\ Ids(tasks, revision) /\ TaskType(tasks[i]) /\ TaskTypes(tasks)
  BY <1>1, Typed
<1>3. PICK p : p = [tasks[i] EXCEPT !.before = package_reach(tasks[i].uri),
                                    !.text = IF tasks[i].key = tasks[i].uri THEN @
                                             ELSE key_text(tasks[i].key)]
  OBVIOUS
<1>4. dropped' = dropped /\ revision' = revision
  BY DEF Wake, clientVars
<1>5. CASE pause_action(tasks[i]) # "Analyze"
  <2>1. tasks' = Done(tasks, i) /\ schedule' = schedule
    BY <1>5 DEF Wake
  <2> QED BY <1>2, <1>4, <2>1, DoneSettles, SettledStep
<1>6. CASE pause_action(tasks[i]) = "Analyze"
  <2> DEFINE q == Begun(schedule, p)
  <2>1. schedule' = start(schedule, p.key, p.gen, i) /\ tasks' = Go(i, q)
    BY <1>3, <1>6 DEF Wake
  <2>2. TaskType(p)
    BY <1>2, <1>3 DEF TaskType
  <2>3. /\ TaskType(q) /\ q.pc = "read" /\ q.key = p.key /\ q.gen = p.gen
        /\ q.ticket = Ticket(schedule, p.key, p.gen) /\ q.cancelled = Stale(schedule, p.key, p.gen)
    BY <1>2, <2>2, BegunIs
  <2>5. DOMAIN tasks' = DOMAIN tasks \cup {i} /\ tasks'[i] = q
        /\ \A j \in DOMAIN tasks \ {i} : tasks'[j] = tasks[j]
    BY <1>1, <2>1 DEF Go
  <2>6. ~ Begins(tasks[i])
    BY <1>1 DEF Begins
  <2> HIDE DEF q
  <2>7. Ledger(tasks', start(schedule, q.key, q.gen, i), dropped)
    BY <1>2, <2>3, <2>5, <2>6, StartKeeps
  <2>8. Ids(tasks', revision)
    BY <1>1, <1>2, <2>5 DEF Ids
  <2> QED BY <1>4, <2>1, <2>3, <2>7, <2>8 DEF LedgerInv, Kept
<1> QED BY <1>5, <1>6

\* A read of another file, and the end of the thread, are the same run.
LEMMA ReadKeeps ==
  ASSUME NEW i, NEW f, LedgerInv, Read(i, f)
  PROVE  LedgerInv'
<1>1. i \in DOMAIN tasks /\ tasks[i].pc = "read"
  BY DEF Read, At
<1>2. Ledger(tasks, schedule, dropped) /\ Ids(tasks, revision) /\ TaskTypes(tasks) /\ TaskType(tasks[i])
  BY <1>1, Typed
<1>3. PICK R : R = With(tasks[i].reads, f, current_text(f))
  OBVIOUS
<1>4. tasks' = [tasks EXCEPT ![i].reads = R] /\ UNCHANGED <<schedule, dropped, revision>>
  BY <1>3 DEF Read, clientVars
<1>5. /\ DOMAIN tasks' = DOMAIN tasks /\ \A j \in DOMAIN tasks \ {i} : tasks'[j] = tasks[j]
      /\ DOMAIN tasks'[i] = Fields /\ tasks'[i].pc = "read" /\ tasks'[i].cancelled = tasks[i].cancelled
      /\ tasks'[i].key = tasks[i].key /\ tasks'[i].gen = tasks[i].gen /\ tasks'[i].ticket = tasks[i].ticket
  BY <1>1, <1>2, <1>4 DEF TaskType, Fields, Task
<1>6. TaskTypes(tasks')
  BY <1>2, <1>5 DEF TaskTypes
<1>7. \A j \in DOMAIN tasks' : Begins(tasks'[j]) => j \in DOMAIN tasks /\ SameRun(tasks[j], tasks'[j])
  BY <1>1, <1>5 DEF SameRun, Begins
<1>8. Ledger(tasks', schedule, dropped)
  BY <1>2, <1>6, <1>7, TasksMove
<1>9. Ids(tasks', revision)
  BY <1>2, <1>5 DEF Ids
<1> QED BY <1>4, <1>8, <1>9 DEF LedgerInv, Kept

\* The thread ends with a result, under its registration.
LEMMA ReturnKeeps ==
  ASSUME NEW i, LedgerInv, Return(i)
  PROVE  LedgerInv'
<1>1. i \in DOMAIN tasks /\ tasks[i].pc = "read"
  BY DEF Return, At
<1>2. Ledger(tasks, schedule, dropped) /\ Ids(tasks, revision) /\ TaskTypes(tasks) /\ TaskType(tasks[i])
  BY <1>1, Typed
<1>4. tasks' = [tasks EXCEPT ![i].pc = "finish"] /\ UNCHANGED <<schedule, dropped, revision>>
  BY DEF Return, clientVars
<1>5. /\ DOMAIN tasks' = DOMAIN tasks /\ \A j \in DOMAIN tasks \ {i} : tasks'[j] = tasks[j]
      /\ DOMAIN tasks'[i] = Fields /\ tasks'[i].pc = "finish" /\ tasks'[i].cancelled = tasks[i].cancelled
      /\ tasks'[i].key = tasks[i].key /\ tasks'[i].gen = tasks[i].gen /\ tasks'[i].ticket = tasks[i].ticket
  BY <1>1, <1>2, <1>4 DEF TaskType, Fields, Task
<1>6. TaskTypes(tasks')
  BY <1>2, <1>5 DEF TaskTypes
<1>7. \A j \in DOMAIN tasks' : Begins(tasks'[j]) => j \in DOMAIN tasks /\ SameRun(tasks[j], tasks'[j])
  BY <1>1, <1>5 DEF SameRun, Begins
<1>8. Ledger(tasks', schedule, dropped)
  BY <1>2, <1>6, <1>7, TasksMove
<1>9. Ids(tasks', revision)
  BY <1>2, <1>5 DEF Ids
<1> QED BY <1>4, <1>8, <1>9 DEF LedgerInv, Kept

\* A cancelled thread stops, and its registration goes.
LEMMA StopKeeps ==
  ASSUME NEW i, LedgerInv, Stop(i)
  PROVE  LedgerInv'
<1>1. i \in DOMAIN tasks /\ Begins(tasks[i])
  BY DEF Stop, At, Begins
<1>2. Ledger(tasks, schedule, dropped) /\ Ids(tasks, revision) /\ TaskTypes(tasks) /\ TaskType(tasks[i])
  BY <1>1, Typed
<1>3. /\ schedule' = finish(schedule, tasks[i].key, tasks[i].ticket)
      /\ tasks' = Then(i, tasks[i], "cancelled") /\ dropped' = dropped /\ revision' = revision
  BY DEF Stop, clientVars
<1>4. Settles(tasks, i, tasks')
  BY <1>2, <1>3, ThenSettles
<1>5. Ledger(tasks', schedule', dropped)
  BY <1>1, <1>2, <1>3, <1>4, FinishKeeps
<1>6. Ids(tasks', revision)
  BY <1>2, <1>4 DEF Ids, Settles
<1> QED BY <1>3, <1>5, <1>6 DEF LedgerInv, Kept

\* A result is taken in: its registration goes, and it may land.
LEMMA FinishStepKeeps ==
  ASSUME NEW i, LedgerInv, Finish(i)
  PROVE  LedgerInv'
<1>1. i \in DOMAIN tasks /\ Begins(tasks[i])
  BY DEF Finish, At, Begins
<1>2. Ledger(tasks, schedule, dropped) /\ Ids(tasks, revision) /\ TaskTypes(tasks) /\ TaskType(tasks[i])
  BY <1>1, Typed
<1>3. /\ schedule' = finish(schedule, tasks[i].key, tasks[i].ticket)
      /\ dropped' = dropped /\ revision' = revision
      /\ tasks' = Then(i, tasks[i], "dropped") \/ tasks' = [tasks EXCEPT ![i].pc = "land"]
  BY DEF Finish, clientVars
<1>4. Settles(tasks, i, tasks')
  <2>1. CASE tasks' = Then(i, tasks[i], "dropped")
    BY <2>1, <1>2, ThenSettles
  <2>2. CASE tasks' = [tasks EXCEPT ![i].pc = "land"]
    <3> DEFINE q == [tasks[i] EXCEPT !.pc = "land"]
    <3>1. tasks' = Go(i, q)
      BY <2>2 DEF Go
    <3>2. TaskType(q) /\ ~ Begins(q)
      BY <1>2 DEF TaskType, Begins, Fields, Task
    <3> HIDE DEF q
    <3> QED BY <3>1, <3>2, <1>2, GoSettles
  <2> QED BY <1>3, <2>1, <2>2
<1>5. Ledger(tasks', schedule', dropped)
  BY <1>1, <1>2, <1>3, <1>4, FinishKeeps
<1>6. Ids(tasks', revision)
  BY <1>2, <1>4 DEF Ids, Settles
<1> QED BY <1>3, <1>5, <1>6 DEF LedgerInv, Kept

\* A landing clears the marks of what it landed on.
LEMMA LandKeeps ==
  ASSUME NEW i, LedgerInv, Land(i)
  PROVE  LedgerInv'
<1>1. i \in DOMAIN tasks
  BY DEF Land, At
<1>2. Ledger(tasks, schedule, dropped) /\ Ids(tasks, revision) /\ TaskTypes(tasks) /\ TaskType(tasks[i])
  BY <1>1, Typed
<1> DEFINE p == tasks[i]
           kept == {f \in DOMAIN p.views : p.reads[f] = p.views[f]}
           A == [f \in kept \cup {p.root} |-> Analysis(f, p.root, p.reads, p.started)]
           landed == {f \in DOMAIN A : Lands(f, A[f])}
           pubs == (IF p.root \in open THEN <<>> ELSE <<Pub("world", p.root)>>) \o Pubs("document", landed)
<1>3. /\ dropped' = dropped /\ revision' = revision
      /\ \/ tasks' = Then(i, tasks[i], "dropped") /\ schedule' = schedule
         \/ /\ schedule' = clear_dependency_moved(schedule, landed)
            /\ tasks' = Go(i, [tasks[i] EXCEPT !.pc = "gate", !.pubs = pubs, !.landed = landed,
                                               !.reads = <<>>, !.views = <<>>, !.started = 0,
                                               !.ticket = 0])
  BY DEF Land, clientVars
<1> HIDE DEF p, kept, A, landed, pubs
<1>4. Settles(tasks, i, tasks')
  <2>1. CASE tasks' = Then(i, tasks[i], "dropped")
    BY <2>1, <1>2, ThenSettles
  <2>2. CASE tasks' # Then(i, tasks[i], "dropped")
    <3>1. PICK q : q = [tasks[i] EXCEPT !.pc = "gate", !.pubs = pubs, !.landed = landed,
                                        !.reads = <<>>, !.views = <<>>, !.started = 0, !.ticket = 0]
      OBVIOUS
    <3>2. TaskType(q) /\ ~ Begins(q)
      BY <1>2, <3>1 DEF TaskType, Begins, Fields, Task
    <3> QED BY <2>2, <3>1, <3>2, <1>2, <1>3, GoSettles
  <2> QED BY <2>1, <2>2
<1>5. Ledger(tasks', schedule, dropped)
  BY <1>2, <1>4, SettleKeeps
<1>6. Ledger(tasks', schedule', dropped)
  BY <1>3, <1>5, MarkKeeps
<1>7. Ids(tasks', revision)
  BY <1>2, <1>4 DEF Ids, Settles
<1> QED BY <1>3, <1>6, <1>7 DEF LedgerInv, Kept

\* A publish starts no analysis.
LEMMA PublishKeeps ==
  ASSUME LedgerInv, Publish
  PROVE  LedgerInv'
<1> DEFINE i == Head(gate)
<1>2. Ledger(tasks, schedule, dropped) /\ Ids(tasks, revision) /\ TaskTypes(tasks)
      /\ \A j \in DOMAIN tasks : TaskType(tasks[j])
  BY Typed
<1>3. /\ UNCHANGED <<schedule, dropped, revision>>
      /\ \/ tasks' = Go(i, [tasks[i] EXCEPT !.pubs = Tail(@)])
         \/ tasks' = Published(i, Head(tasks[i].pubs).op)
  BY DEF Publish, clientVars
<1> HIDE DEF i
<1>4. CASE tasks' = Go(i, [tasks[i] EXCEPT !.pubs = Tail(@)])
  <2>1. PICK P : P = Tail(tasks[i].pubs)
    OBVIOUS
  <2>2. PICK q : q = [tasks[i] EXCEPT !.pubs = P]
    OBVIOUS
  <2>3. tasks' = Go(i, q)
    BY <1>4, <2>1, <2>2
  <2>4. DOMAIN tasks' = DOMAIN tasks /\ \A j \in DOMAIN tasks : tasks'[j] = IF j = i THEN q ELSE tasks[j]
    BY <2>3 DEF Go
  <2>5. i \in DOMAIN tasks => TaskType(q) /\ (Begins(q) => SameRun(tasks[i], q))
    BY <1>2, <2>2 DEF TaskType, SameRun, Begins, Fields, Task
  <2>6. TaskTypes(tasks')
    BY <1>2, <2>4, <2>5 DEF TaskTypes, TaskType
  <2>7. \A j \in DOMAIN tasks' : Begins(tasks'[j]) => j \in DOMAIN tasks /\ SameRun(tasks[j], tasks'[j])
    BY <2>4, <2>5 DEF SameRun, Begins
  <2>8. Ledger(tasks', schedule, dropped)
    BY <1>2, <2>6, <2>7, TasksMove
  <2>9. Ids(tasks', revision)
    BY <1>2, <2>4 DEF Ids
  <2> QED BY <1>3, <2>8, <2>9 DEF LedgerInv, Kept
<1>5. CASE tasks' = Published(i, Head(tasks[i].pubs).op)
  <2>1. PICK op : op = Head(tasks[i].pubs).op
    OBVIOUS
  <2>2. PICK p : p = [tasks[i] EXCEPT !.pubs = <<>>]
    OBVIOUS
  <2>3. i \in DOMAIN tasks => TaskType(p)
    BY <1>2, <2>2 DEF TaskType
  <2>4. PICK a, b, c, e : /\ a = [p EXCEPT !.dead = {}] /\ b = [p EXCEPT !.pc = "retiring"]
                          /\ c = [p EXCEPT !.pc = "alone"] /\ e = [p EXCEPT !.pc = "retire"]
    OBVIOUS
  <2>5. \/ tasks' = Done(tasks, i) \/ tasks' = Then(i, a, "landed") \/ tasks' = Go(i, b)
        \/ tasks' = Go(i, c) \/ tasks' = Go(i, e)
    BY <1>5, <2>1, <2>2, <2>4 DEF Published
  <2>6. i \in DOMAIN tasks => /\ TaskType(a) /\ TaskType(b) /\ TaskType(c) /\ TaskType(e)
                              /\ ~ Begins(b) /\ ~ Begins(c) /\ ~ Begins(e)
    BY <2>3, <2>4 DEF TaskType, Begins, Fields, Task
  <2>7. Settles(tasks, i, tasks')
    BY <1>2, <2>5, <2>6, GoSettles, DoneSettles, ThenSettles
  <2> QED BY <1>3, <2>7, SettledStep
<1> QED BY <1>3, <1>4, <1>5

\* A world's schedule goes, and what runs on it is cancelled.
LEMMA RetiringKeeps ==
  ASSUME NEW i \in DOMAIN tasks, NEW w, NEW rest, LedgerInv, Retiring(i, w, rest)
  PROVE  LedgerInv'
<1>2. Ledger(tasks, schedule, dropped) /\ Ids(tasks, revision) /\ TaskTypes(tasks) /\ TaskType(tasks[i])
  BY Typed
<1>3. PICK q : q = [tasks[i] EXCEPT !.pc = "gate", !.dead = rest, !.pubs = <<Pub("retire", w)>>]
  OBVIOUS
<1>4. /\ schedule' = Without(schedule, {w}) /\ dropped' = dropped \cup {w} /\ revision' = revision
      /\ tasks' = Cancelled(Go(i, q), CancelAll(schedule, w))
  BY <1>3 DEF Retiring, clientVars
<1>5. TaskType(q) /\ ~ Begins(q)
  BY <1>2, <1>3 DEF TaskType, Begins, Fields, Task
<1>6. PICK us : us = Go(i, q)
  OBVIOUS
<1>7. Settles(tasks, i, us)
  BY <1>2, <1>5, <1>6, GoSettles
<1>8. Ledger(us, schedule, dropped)
  BY <1>2, <1>7, SettleKeeps
<1>9. Ledger(tasks', schedule, dropped)
  BY <1>4, <1>6, <1>8, CancelKeeps
<1>10. Ledger(tasks', schedule', dropped')
  BY <1>4, <1>9, DropKeeps
<1>11. DOMAIN tasks' = DOMAIN us
  BY <1>4, <1>6 DEF Cancelled
<1>12. Ids(tasks', revision)
  BY <1>2, <1>7, <1>11 DEF Ids, Settles
<1> QED BY <1>4, <1>10, <1>12 DEF LedgerInv, Kept

\* The worlds are retired: the task goes on.
LEMMA RetiredKeeps ==
  ASSUME NEW i \in DOMAIN tasks, LedgerInv, Retired(i)
  PROVE  LedgerInv'
<1>2. TaskTypes(tasks) /\ TaskType(tasks[i])
  BY Typed
<1>3. PICK q : q = [tasks[i] EXCEPT !.dead = {}]
  OBVIOUS
<1>4. tasks' = Then(i, q, "landed") /\ UNCHANGED <<schedule, dropped, revision>>
  BY <1>3 DEF Retired, clientVars
<1>5. TaskType(q)
  BY <1>2, <1>3 DEF TaskType
<1>6. Settles(tasks, i, tasks')
  BY <1>2, <1>4, <1>5, ThenSettles
<1> QED BY <1>4, <1>6, SettledStep

\* The dependents are marked and collected.
LEMMA CollectKeeps ==
  ASSUME NEW i, LedgerInv, Collect(i)
  PROVE  LedgerInv'
<1>1. i \in DOMAIN tasks
  BY DEF Collect, At
<1>2. Ledger(tasks, schedule, dropped) /\ Ids(tasks, revision) /\ TaskTypes(tasks) /\ TaskType(tasks[i])
  BY <1>1, Typed
<1>3. PICK K, todo :
        /\ dropped' = dropped /\ revision' = revision
        /\ schedule' = mark_dependency_moved(schedule, K)
        /\ \/ tasks' = Done(tasks, i)
           \/ tasks' = Go(i, [tasks[i] EXCEPT !.pc = "sweep", !.sweeping = TRUE, !.at = revision,
                                              !.todo = todo])
  BY DEF Collect, clientVars
<1>4. PICK q : q = [tasks[i] EXCEPT !.pc = "sweep", !.sweeping = TRUE, !.at = revision, !.todo = todo]
  OBVIOUS
<1>5. TaskType(q) /\ ~ Begins(q)
  BY <1>2, <1>4 DEF TaskType, Begins, Fields, Task
<1>6. Settles(tasks, i, tasks')
  BY <1>2, <1>3, <1>4, <1>5, GoSettles, DoneSettles
<1>7. Ledger(tasks', schedule, dropped)
  BY <1>2, <1>6, SettleKeeps
<1>8. Ledger(tasks', schedule', dropped)
  BY <1>3, <1>7, MarkKeeps
<1>9. Ids(tasks', revision)
  BY <1>2, <1>6 DEF Ids, Settles
<1> QED BY <1>3, <1>8, <1>9 DEF LedgerInv, Kept

\* A sweep supersedes the key it is about to analyse, and takes its generation.
LEMMA SupersedingStep ==
  ASSUME NEW i \in DOMAIN tasks, NEW k, NEW q, LedgerInv,
         TaskType(q), ~ Begins(q),
         schedule' = supersede(schedule, k),
         tasks' = Cancelled(Go(i, q), CancelOlder(schedule, k)),
         UNCHANGED <<dropped, revision>>
  PROVE  LedgerInv'
<1>1. Ledger(tasks, schedule, dropped) /\ Ids(tasks, revision) /\ TaskTypes(tasks)
  BY Typed
<1>2. PICK us : us = Go(i, q)
  OBVIOUS
<1>3. Settles(tasks, i, us)
  BY <1>1, <1>2, GoSettles
<1>4. Ledger(us, schedule, dropped)
  BY <1>1, <1>3, SettleKeeps
<1>5. Ledger(tasks', schedule', dropped)
  BY <1>2, <1>4, SupersedeOne
<1>6. DOMAIN tasks' = DOMAIN us
  BY <1>2 DEF Cancelled
<1>7. Ids(tasks', revision)
  BY <1>1, <1>3, <1>6 DEF Ids, Settles
<1> QED BY <1>5, <1>7 DEF LedgerInv, Kept

\* One item of a sweep: skipped, left over, or superseded.
LEMMA SweepOneKeeps ==
  ASSUME NEW i, NEW item, LedgerInv, SweepOne(i, item)
  PROVE  LedgerInv'
<1>1. i \in DOMAIN tasks
  BY DEF SweepOne, At
<1>2. TaskTypes(tasks) /\ TaskType(tasks[i]) /\ Ledger(tasks, schedule, dropped)
  BY <1>1, Typed
<1>3. PICK T : T = tasks[i].todo \ {item}
  OBVIOUS
<1>4. PICK t : t = key_text(item[2])
  OBVIOUS
<1>5. PICK g : g = supersede(schedule, item[2])[item[2]].gen
  OBVIOUS
<1>6. g \in Nat
  BY <1>2, <1>5, SupersedeOne
<1>7. PICK a, b, q : /\ a = [tasks[i] EXCEPT !.todo = T]
                     /\ q = [tasks[i] EXCEPT !.todo = T, !.dep = item[1], !.key = item[2]]
                     /\ b = [q EXCEPT !.pc = "leftover"]
  OBVIOUS
<1>8. PICK c : c = [q EXCEPT !.pc = "begin", !.text = t, !.gen = g]
  OBVIOUS
<1>9. /\ UNCHANGED <<dropped, revision>>
      /\ \/ tasks' = Go(i, a) /\ schedule' = schedule
         \/ tasks' = Go(i, b) /\ schedule' = schedule
         \/ /\ schedule' = supersede(schedule, item[2])
            /\ tasks' = Cancelled(Go(i, c), CancelOlder(schedule, item[2]))
  BY <1>3, <1>4, <1>5, <1>7, <1>8 DEF SweepOne, clientVars
<1>10. tasks[i].pc = "sweep"
  BY DEF SweepOne, At
<1>11. TaskType(a) /\ a.pc = "sweep" /\ TaskType(q)
  BY <1>2, <1>7, <1>10 DEF TaskType, Fields, Task
<1>12. TaskType(b) /\ b.pc = "leftover" /\ TaskType(c) /\ c.pc = "begin"
  BY <1>6, <1>7, <1>8, <1>11 DEF TaskType, Fields, Task
<1>13. ~ Begins(a) /\ ~ Begins(b) /\ ~ Begins(c)
  BY <1>11, <1>12 DEF Begins
<1>14. CASE \/ tasks' = Go(i, a) /\ schedule' = schedule
            \/ tasks' = Go(i, b) /\ schedule' = schedule
  <2>1. Settles(tasks, i, tasks')
    BY <1>2, <1>11, <1>12, <1>13, <1>14, GoSettles
  <2> QED BY <1>9, <1>14, <2>1, SettledStep
<1>15. CASE /\ schedule' = supersede(schedule, item[2])
            /\ tasks' = Cancelled(Go(i, c), CancelOlder(schedule, item[2]))
  BY <1>1, <1>9, <1>12, <1>13, <1>15, SupersedingStep
<1> QED BY <1>9, <1>14, <1>15

\* A dependent its world did not serve is superseded on its own key.
LEMMA SweepLeftoverKeeps ==
  ASSUME NEW i, LedgerInv, SweepLeftover(i)
  PROVE  LedgerInv'
<1>1. i \in DOMAIN tasks
  BY DEF SweepLeftover, At
<1>2. TaskTypes(tasks) /\ TaskType(tasks[i]) /\ Ledger(tasks, schedule, dropped)
  BY <1>1, Typed
<1>3. PICK k : k = tasks[i].dep
  OBVIOUS
<1>4. PICK t, A : t = key_text(k) /\ A = tasks[i].answered \cup {k}
  OBVIOUS
<1>5. PICK g : g = supersede(schedule, k)[k].gen
  OBVIOUS
<1>6. g \in Nat
  BY <1>2, <1>5, SupersedeOne
<1>7. PICK c : c = [tasks[i] EXCEPT !.pc = "begin", !.key = k, !.text = t, !.gen = g, !.answered = A]
  OBVIOUS
<1>8. /\ UNCHANGED <<dropped, revision>>
      /\ schedule' = supersede(schedule, k)
      /\ tasks' = Cancelled(Go(i, c), CancelOlder(schedule, k))
  BY <1>3, <1>4, <1>5, <1>7 DEF SweepLeftover, clientVars
<1>9. TaskType(c) /\ ~ Begins(c)
  BY <1>2, <1>6, <1>7 DEF TaskType, Begins, Fields, Task
<1> QED BY <1>1, <1>8, <1>9, SupersedingStep

\* did_close leaves a document alone in its world: its key is superseded, and
\* a task of its own begins.
LEMMA AloneKeeps ==
  ASSUME NEW i, LedgerInv, Alone(i)
  PROVE  LedgerInv'
<1>1. i \in DOMAIN tasks
  BY DEF Alone, At
<1>2. Ledger(tasks, schedule, dropped) /\ Ids(tasks, revision) /\ TaskTypes(tasks) /\ TaskType(tasks[i])
      /\ ScheduleTypes(schedule)
  BY <1>1, Typed DEF Ledger
<1> DEFINE left == {f \in open : doc[f].world = tasks[i].root}
           alone == IF tasks[i].root \notin open /\ Cardinality(left) = 1 THEN left ELSE {}
<1>3. PICK lone : lone = alone
  OBVIOUS
<1>4. PICK q : q = [tasks[i] EXCEPT !.pc = "retire"]
  OBVIOUS
<1>5. PICK C : C = UNION {CancelOlder(schedule, f) : f \in lone}
  OBVIOUS
<1>6. PICK us : us = Go(i, q)
  OBVIOUS
<1>7. PICK cs : cs = Cancelled(us, C)
  OBVIOUS
<1>8. PICK new : new = [j \in {<<i[1], f>> : f \in lone} |->
                          Task("lone", j[2], j[2], schedule'[j[2]].gen, key_text(j[2]), "begin")]
  OBVIOUS
<1>9. /\ schedule' = [k \in DOMAIN schedule \cup lone |->
                        IF k \in lone THEN supersede(schedule, k)[k] ELSE schedule[k]]
      /\ tasks' = Over(new, cs) /\ dropped' = dropped /\ revision' = revision
  BY <1>3, <1>4, <1>5, <1>6, <1>7, <1>8 DEF Alone, clientVars
<1> HIDE DEF left, alone
<1>10. TaskType(q) /\ ~ Begins(q)
  BY <1>2, <1>4 DEF TaskType, Begins, Fields, Task
<1>11. Settles(tasks, i, us)
  BY <1>2, <1>6, <1>10, GoSettles
<1>12. Ledger(us, schedule, dropped)
  BY <1>2, <1>11, SettleKeeps
<1>13. Supersedes(schedule, lone, schedule')
  <2>1. \A k \in lone : supersede(schedule, k)[k] = Bumped(schedule, k)
    BY DEF supersede, With, Bumped
  <2> QED BY <1>9, <2>1 DEF Supersedes
<1>14. \A k \in lone : CancelOlder(schedule, k) \subseteq C
  BY <1>5
<1>15. Ledger(cs, schedule', dropped)
  BY <1>7, <1>12, <1>13, <1>14, SupersedeKeeps
<1>16. \A k \in lone : schedule'[k].gen \in Nat
  BY <1>2, <1>13, SupersededIs
<1>17. \A j \in DOMAIN new : TaskType(new[j]) /\ ~ Begins(new[j]) /\ j[1] = i[1]
  <2> SUFFICES ASSUME NEW j \in DOMAIN new
               PROVE  TaskType(new[j]) /\ ~ Begins(new[j]) /\ j[1] = i[1]
    OBVIOUS
  <2>1. j[2] \in lone /\ j[1] = i[1]
    BY <1>8
  <2>2. PICK g : g = schedule'[j[2]].gen
    OBVIOUS
  <2>3. g \in Nat
    BY <1>16, <2>1, <2>2
  <2>4. new[j] = Task("lone", j[2], j[2], g, key_text(j[2]), "begin")
    BY <1>8, <2>2
  <2>5. TaskType(new[j]) /\ new[j].pc = "begin"
    BY <2>3, <2>4, TaskIs
  <2> QED BY <2>1, <2>5 DEF Begins
<1>18. /\ DOMAIN tasks' = DOMAIN cs \cup DOMAIN new
       /\ \A j \in DOMAIN new : tasks'[j] = new[j]
       /\ \A j \in DOMAIN cs \ DOMAIN new : tasks'[j] = cs[j]
  BY <1>9 DEF Over
<1>19. TaskTypes(tasks')
  <2>1. TaskTypes(cs)
    BY <1>15 DEF Ledger
  <2> QED BY <1>17, <1>18, <2>1 DEF TaskTypes, TaskType
<1>20. \A j \in DOMAIN tasks' : Begins(tasks'[j]) => j \in DOMAIN cs /\ SameRun(cs[j], tasks'[j])
  BY <1>17, <1>18 DEF SameRun, Begins
<1>21. Ledger(tasks', schedule', dropped)
  BY <1>15, <1>19, <1>20, TasksMove
<1>22. DOMAIN cs \subseteq DOMAIN tasks
  BY <1>7, <1>11 DEF Cancelled, Settles
<1>23. Ids(tasks', revision)
  BY <1>1, <1>2, <1>17, <1>18, <1>22 DEF Ids
<1> QED BY <1>9, <1>21, <1>23 DEF LedgerInv, Kept

\* An opened file is served, or begins an analysis.
LEMMA ServeKeeps ==
  ASSUME NEW i, LedgerInv, Serve(i)
  PROVE  LedgerInv'
<1>1. i \in DOMAIN tasks
  BY DEF Serve, At
<1>2. TaskTypes(tasks) /\ TaskType(tasks[i])
  BY <1>1, Typed
<1>3. PICK root, reads, started :
        /\ UNCHANGED <<schedule, dropped, revision>>
        /\ \/ tasks' = Go(i, [tasks[i] EXCEPT !.pc = "served", !.root = root, !.reads = reads,
                                              !.started = started])
           \/ tasks' = Go(i, [tasks[i] EXCEPT !.pc = "begin"])
  BY DEF Serve, clientVars
<1>4. PICK a, b : /\ a = [tasks[i] EXCEPT !.pc = "served", !.root = root, !.reads = reads,
                                          !.started = started]
                  /\ b = [tasks[i] EXCEPT !.pc = "begin"]
  OBVIOUS
<1>5. TaskType(a) /\ ~ Begins(a) /\ TaskType(b) /\ ~ Begins(b)
  BY <1>2, <1>4 DEF TaskType, Begins, Fields, Task
<1>6. Settles(tasks, i, tasks')
  BY <1>2, <1>3, <1>4, <1>5, GoSettles
<1> QED BY <1>3, <1>6, SettledStep

\* A served view lands, or an analysis begins.
LEMMA LandServedKeeps ==
  ASSUME NEW i, LedgerInv, LandServed(i)
  PROVE  LedgerInv'
<1>1. i \in DOMAIN tasks
  BY DEF LandServed, At
<1>2. TaskTypes(tasks) /\ TaskType(tasks[i])
  BY <1>1, Typed
<1>3. PICK pubs : pubs = Pubs("document", {tasks[i].uri})
  OBVIOUS
<1>4. PICK a, b : /\ a = [tasks[i] EXCEPT !.kind = "served", !.pc = "gate", !.pubs = pubs]
                  /\ b = [tasks[i] EXCEPT !.pc = "begin"]
  OBVIOUS
<1>5. /\ UNCHANGED <<schedule, dropped, revision>>
      /\ tasks' = Go(i, a) \/ tasks' = Go(i, b)
  BY <1>3, <1>4 DEF LandServed, clientVars
<1>6. TaskType(a) /\ ~ Begins(a) /\ TaskType(b) /\ ~ Begins(b)
  BY <1>2, <1>4 DEF TaskType, Begins, Fields, Task
<1>7. Settles(tasks, i, tasks')
  BY <1>2, <1>5, <1>6, GoSettles
<1> QED BY <1>5, <1>7, SettledStep

-----------------------------------------------------------------------------
(***************************************************************************)
(* The notifications.                                                      *)
(***************************************************************************)

\* A notification that spawns the task q, when the ledger of the others is kept.
LEMMA SpawningStep ==
  ASSUME NEW cs, NEW q, LedgerInv, DOMAIN cs \subseteq DOMAIN tasks, Ledger(cs, schedule', dropped'),
         TaskType(q), ~ Begins(q), tasks' = With(cs, Id, q), revision' = revision + 1
  PROVE  LedgerInv'
<1>1. Ids(tasks, revision)
  BY Typed
<1>2. Ledger(tasks', schedule', dropped')
  BY SpawnKeeps
<1>3. DOMAIN tasks' = DOMAIN cs \cup {Id} /\ Id[1] = revision + 1
  BY DEF With, Id
<1>4. Ids(tasks', revision')
  <2>1. revision \in Nat /\ revision' \in Nat
    BY <1>1 DEF Ids
  <2>2. ASSUME NEW j \in DOMAIN tasks'
        PROVE  j[1] \in 0..revision'
    BY <1>1, <1>3, <2>1 DEF Ids
  <2> QED BY <2>1, <2>2 DEF Ids
<1> QED BY <1>2, <1>4 DEF LedgerInv, Kept

\* An edit or an open: the key is superseded, and a task is spawned that waits.
LEMMA SupersedingSpawn ==
  ASSUME NEW k, NEW q, LedgerInv, TaskType(q), ~ Begins(q), schedule' = supersede(schedule, k),
         tasks' = With(Cancelled(tasks, CancelOlder(schedule, k)), Id, q),
         dropped' = dropped, revision' = revision + 1
  PROVE  LedgerInv'
<1>1. PICK cs : cs = Cancelled(tasks, CancelOlder(schedule, k))
  OBVIOUS
<1>2. Ledger(tasks, schedule, dropped)
  BY Typed
<1>3. Ledger(cs, schedule', dropped')
  BY <1>1, <1>2, SupersedeOne
<1>4. DOMAIN cs = DOMAIN tasks
  BY <1>1 DEF Cancelled
<1> QED BY <1>1, <1>3, <1>4, SpawningStep

\* did_open supersedes the file's key.
LEMMA did_openKeeps ==
  ASSUME NEW f, LedgerInv, did_open(f)
  PROVE  LedgerInv'
<1>1. PICK g : g = supersede(schedule, f)[f].gen
  OBVIOUS
<1>2. g \in Nat
  BY <1>1, Typed, SupersedeOne
<1>3. PICK q : q = Task("open", f, f, g, disk[f], "serve")
  OBVIOUS
<1>4. TaskType(q) /\ ~ Begins(q)
  BY <1>2, <1>3, TaskIs DEF Begins
<1>5. /\ schedule' = supersede(schedule, f) /\ dropped' = dropped /\ revision' = revision + 1
      /\ tasks' = With(Cancelled(tasks, CancelOlder(schedule, f)), Id, q)
  BY <1>1, <1>3 DEF did_open, Notified
<1> QED BY <1>4, <1>5, SupersedingSpawn

\* did_change supersedes the key that analyses the file.
LEMMA did_changeKeeps ==
  ASSUME NEW f, NEW t, LedgerInv, did_change(f, t)
  PROVE  LedgerInv'
<1>0. PICK k : k = analysis_key(f)
  OBVIOUS
<1>1. PICK g : g = supersede(schedule, k)[k].gen
  OBVIOUS
<1>2. g \in Nat
  BY <1>1, Typed, SupersedeOne
<1>3. PICK q : q = Task("change", f, k, g, t, "sleep")
  OBVIOUS
<1>4. TaskType(q) /\ ~ Begins(q)
  BY <1>2, <1>3, TaskIs DEF Begins
<1>5. /\ schedule' = supersede(schedule, k) /\ dropped' = dropped /\ revision' = revision + 1
      /\ tasks' = With(Cancelled(tasks, CancelOlder(schedule, k)), Id, q)
  BY <1>0, <1>1, <1>3 DEF did_change, Notified
<1> QED BY <1>4, <1>5, SupersedingSpawn

\* A save begins its analysis in the same breath, under an id that is new.
LEMMA did_saveKeeps ==
  ASSUME NEW f, LedgerInv, did_save(f)
  PROVE  LedgerInv'
<1>1. PICK k : k = analysis_key(f)
  OBVIOUS
<1>2. PICK s : s = supersede(schedule, k)
  OBVIOUS
<1>3. PICK g : g = s[k].gen
  OBVIOUS
<1>4. PICK p : p = Task("save", f, k, g, key_text(k), "begin")
  OBVIOUS
<1>5. PICK b : b = Begun(s, p)
  OBVIOUS
<1>6. PICK B, n : B = package_reach(f) /\ n = revision'
  OBVIOUS
<1>7. PICK q : q = [b EXCEPT !.before = B, !.started = n]
  OBVIOUS
<1>8. PICK cs : cs = Cancelled(tasks, CancelOlder(schedule, k))
  OBVIOUS
<1>9. /\ schedule' = start(s, k, g, Id) /\ tasks' = With(cs, Id, q)
      /\ dropped' = dropped /\ revision' = revision + 1
  BY <1>1, <1>2, <1>3, <1>4, <1>5, <1>6, <1>7, <1>8 DEF did_save, Notified
<1>10. Ledger(tasks, schedule, dropped) /\ Ids(tasks, revision)
  BY Typed
<1>11. Ledger(cs, s, dropped) /\ g \in Nat
  BY <1>2, <1>3, <1>8, <1>10, SupersedeOne
<1>12. TaskType(p) /\ p.key = k /\ p.gen = g
  BY <1>4, <1>11, TaskIs
<1>13. /\ TaskType(b) /\ b.pc = "read" /\ b.key = k /\ b.gen = g
       /\ b.ticket = Ticket(s, k, g) /\ b.cancelled = Stale(s, k, g)
  BY <1>5, <1>11, <1>12, BegunIs
<1>14. /\ TaskType(q) /\ q.pc = b.pc /\ q.key = b.key /\ q.gen = b.gen
       /\ q.ticket = b.ticket /\ q.cancelled = b.cancelled
  BY <1>7, <1>13 DEF TaskType, Fields, Task
<1>15. DOMAIN cs = DOMAIN tasks
  BY <1>8 DEF Cancelled
<1>16. Id \notin DOMAIN cs
  BY <1>10, <1>15 DEF Ids, Id
<1>17. DOMAIN tasks' = DOMAIN cs \cup {Id} /\ tasks'[Id] = q /\ \A j \in DOMAIN cs \ {Id} : tasks'[j] = cs[j]
  BY <1>9 DEF With
<1>18. q.ticket = Ticket(s, q.key, q.gen) /\ q.cancelled = Stale(s, q.key, q.gen) /\ q.pc = "read"
  BY <1>13, <1>14
<1>19. Ledger(tasks', start(s, q.key, q.gen, Id), dropped)
  BY <1>11, <1>14, <1>16, <1>17, <1>18, StartKeeps
<1>20. Ledger(tasks', schedule', dropped')
  BY <1>9, <1>13, <1>14, <1>19
<1>21. Ids(tasks', revision')
  <2>1. revision \in Nat /\ revision' \in Nat /\ Id[1] = revision + 1
    BY <1>9, <1>10 DEF Ids, Id
  <2>2. ASSUME NEW j \in DOMAIN tasks'
        PROVE  j[1] \in 0..revision'
    BY <1>9, <1>10, <1>15, <1>17, <2>1 DEF Ids
  <2> QED BY <2>1, <2>2 DEF Ids
<1> QED BY <1>20, <1>21 DEF LedgerInv, Kept

\* A change on disk spawns a sweep.
LEMMA did_change_watched_filesKeeps ==
  ASSUME NEW f, NEW t, LedgerInv, did_change_watched_files(f, t)
  PROVE  LedgerInv'
<1>1. PICK q : q = Task("watched", f, f, 0, Unread, "collect")
  OBVIOUS
<1>2. TaskType(q) /\ ~ Begins(q)
  BY <1>1, TaskIs DEF Begins
<1>3. /\ UNCHANGED <<schedule, dropped>> /\ revision' = revision + 1 /\ tasks' = With(tasks, Id, q)
  BY <1>1 DEF did_change_watched_files, Notified
<1>4. Ledger(tasks, schedule', dropped')
  BY <1>3, Typed
<1> QED BY <1>2, <1>3, <1>4, SpawningStep

\* did_close drops the file's schedule, and cancels what runs on it.
LEMMA did_closeKeeps ==
  ASSUME NEW f, LedgerInv, did_close(f)
  PROVE  LedgerInv'
<1>1. PICK root, pub :
        /\ schedule' = Without(schedule, {f}) /\ dropped' = dropped \cup {f} /\ revision' = revision + 1
        /\ tasks' = With(Cancelled(tasks, CancelAll(schedule, f)), Id,
                         [Task("close", f, f, 0, Unread, "gate") EXCEPT !.root = root, !.pubs = <<pub>>])
  <2> DEFINE root == IF doc[f].world = None THEN f ELSE doc[f].world
             pub == IF f \in live_worlds(open \ {f})
                    THEN [op |-> "keep", file |-> f, kept |-> doc[f]] ELSE Pub("close", f)
  <2>1. /\ schedule' = Without(schedule, {f}) /\ dropped' = dropped \cup {f} /\ revision' = revision + 1
        /\ tasks' = With(Cancelled(tasks, CancelAll(schedule, f)), Id,
                         [Task("close", f, f, 0, Unread, "gate") EXCEPT !.root = root, !.pubs = <<pub>>])
    BY DEF did_close, Notified
  <2> HIDE DEF root, pub
  <2> QED BY <2>1
<1>2. PICK p : p = Task("close", f, f, 0, Unread, "gate")
  OBVIOUS
<1>3. PICK q : q = [p EXCEPT !.root = root, !.pubs = <<pub>>]
  OBVIOUS
<1>4. PICK cs : cs = Cancelled(tasks, CancelAll(schedule, f))
  OBVIOUS
<1>5. TaskType(p) /\ p.pc = "gate"
  BY <1>2, TaskIs
<1>6. TaskType(q) /\ ~ Begins(q)
  BY <1>3, <1>5 DEF TaskType, Begins, Fields, Task
<1>7. tasks' = With(cs, Id, q)
  BY <1>1, <1>2, <1>3, <1>4
<1>8. Ledger(cs, schedule, dropped)
  BY <1>4, Typed, CancelKeeps
<1>9. Ledger(cs, schedule', dropped')
  BY <1>1, <1>8, DropKeeps
<1>10. DOMAIN cs = DOMAIN tasks
  BY <1>4 DEF Cancelled
<1> QED BY <1>1, <1>6, <1>7, <1>9, <1>10, SpawningStep

-----------------------------------------------------------------------------
\* The ledger from the start: no task, and the schedules of the open files.
LEMMA LedgerStarts ==
  ASSUME Init
  PROVE  LedgerInv
<1>1. tasks = <<>> /\ dropped = {} /\ revision = 0
      /\ schedule = [f \in OpenFirst |-> [Fresh EXCEPT !.gen = 1, !.ticket = 1]]
  BY DEF Init
<1>2. DOMAIN tasks = {}
  BY <1>1
<1>3. ScheduleTypes(schedule)
  BY <1>1 DEF ScheduleTypes, Fresh, EntryFields
<1>4. Ledger(tasks, schedule, dropped)
  BY <1>2, <1>3 DEF Ledger, TaskTypes, Numbered, Registered
<1>5. Ids(tasks, revision)
  BY <1>1, <1>2 DEF Ids
<1> QED BY <1>4, <1>5 DEF LedgerInv, Kept

\* A sweep that is over, or given up, is a task that is done.
LEMMA SweepKeeps ==
  ASSUME NEW i, LedgerInv, Sweep(i)
  PROVE  LedgerInv'
<1>1. i \in DOMAIN tasks /\ tasks' = Done(tasks, i) /\ UNCHANGED <<schedule, dropped, revision>>
  BY DEF Sweep, At, clientVars
<1>2. Settles(tasks, i, tasks')
  BY <1>1, Typed, DoneSettles
<1> QED BY <1>1, <1>2, SettledStep

\* Every other step of a task keeps the ledger.
LEMMA StepKeeps ==
  ASSUME NEW i \in DOMAIN tasks, LedgerInv, Step(i)
  PROVE  LedgerInv'
<1>1. CASE Begin(i)
  BY <1>1, BeginKeeps
<1>2. CASE Return(i)
  BY <1>2, ReturnKeeps
<1>3. CASE Stop(i)
  BY <1>3, StopKeeps
<1>4. CASE Finish(i)
  BY <1>4, FinishStepKeeps
<1>5. CASE Land(i)
  BY <1>5, LandKeeps
<1>6. CASE Retire(i)
  <2>1. Retired(i) \/ \E w, rest : Retiring(i, w, rest)
    BY <1>6 DEF Retire
  <2> QED BY <2>1, RetiredKeeps, RetiringKeeps
<1>7. CASE RetireNext(i)
  <2>1. Retired(i) \/ \E w, rest : Retiring(i, w, rest)
    BY <1>7 DEF RetireNext
  <2> QED BY <2>1, RetiredKeeps, RetiringKeeps
<1>8. CASE Collect(i)
  BY <1>8, CollectKeeps
<1>9. CASE SweepLeftover(i)
  BY <1>9, SweepLeftoverKeeps
<1>10. CASE Alone(i)
  BY <1>10, AloneKeeps
<1>11. CASE Serve(i)
  BY <1>11, ServeKeeps
<1>12. CASE LandServed(i)
  BY <1>12, LandServedKeeps
<1>13. CASE \E f \in Files : Read(i, f)
  BY <1>13, ReadKeeps
<1>14. CASE \E item \in tasks[i].todo : SweepOne(i, item)
  BY <1>14, SweepOneKeeps
<1> QED BY <1>1, <1>2, <1>3, <1>4, <1>5, <1>6, <1>7, <1>8, <1>9, <1>10, <1>11, <1>12, <1>13,
           <1>14 DEF Step

\* Every step keeps the ledger.
LEMMA LedgerKept ==
  ASSUME LedgerInv, [Next]_vars
  PROVE  LedgerInv'
<1>1. CASE Client
  <2>1. PICK f \in Files : \/ did_open(f) \/ did_save(f) \/ did_close(f)
                           \/ \E t \in Texts : did_change(f, t) \/ did_change_watched_files(f, t)
    BY <1>1 DEF Client
  <2> QED BY <2>1, did_openKeeps, did_saveKeeps, did_closeKeeps, did_changeKeeps,
             did_change_watched_filesKeeps
<1>2. CASE Publish
  BY <1>2, PublishKeeps
<1>3. CASE \E i \in DOMAIN tasks : Step(i)
  BY <1>3, StepKeeps
<1>4. CASE \E i \in DOMAIN tasks : Wake(i) \/ Sweep(i)
  BY <1>4, WakeKeeps, SweepKeeps
<1>5. CASE UNCHANGED vars
  BY <1>5 DEF vars, clientVars, LedgerInv
<1> QED BY <1>1, <1>2, <1>3, <1>4, <1>5 DEF Next

\* Every analysis that runs, and was not cancelled, is registered for its key's
\* present generation under a ticket of its own, until the key's schedule goes:
\* Schedule::supersede, start, finish and close keep the ledger whatever the
\* notifications, tasks and analysis threads do between them.
THEOREM LedgerInvariant == Spec => []LedgerInv
<1>1. Init => LedgerInv
  BY LedgerStarts
<1>2. LedgerInv /\ [Next]_vars => LedgerInv'
  BY LedgerKept
<1> QED BY <1>1, <1>2, PTL DEF Spec

\* An analysis that has been superseded is a cancelled one (Schedule::supersede,
\* cancel_older_than), for any package and any sequence of notifications.
THEOREM SupersededAreCancelled == Spec => []SupersededIsCancelled
<1>1. LedgerInv => SupersededIsCancelled
  <2> SUFFICES ASSUME LedgerInv, NEW i \in DOMAIN tasks,
                      tasks[i].pc = "read", ~ tasks[i].cancelled, tasks[i].key \notin dropped
               PROVE  tasks[i].key \in DOMAIN schedule /\ tasks[i].gen = schedule[tasks[i].key].gen
    BY DEF SupersededIsCancelled
  <2>1. Ledger(tasks, schedule, dropped) /\ tasks[i].cancelled \in BOOLEAN
    BY Typed DEF TaskType
  <2>2. tasks[i].cancelled = FALSE
    BY <2>1
  <2> QED BY <2>1, <2>2 DEF Ledger, Registered
<1> QED BY <1>1, LedgerInvariant, PTL

-----------------------------------------------------------------------------
(***************************************************************************)
(* The client and the publish state.                                       *)
(***************************************************************************)

\* The client shows on every file what the owners' last plans say of it.
ShownIsMerged == \A t \in Files : shown[t] = merged(owned, t)

\* The owners' reports w and v differ in the owner o at most.
SameButFor(o, w, v) ==
  \A x : x # o => (x \in DOMAIN w <=> x \in DOMAIN v) /\ (x \in DOMAIN w => w[x] = v[x])

\* A plan changes nothing on the files it does not send.
LEMMA MergedOutside ==
  ASSUME NEW w, NEW v, NEW o, NEW t,
         SameButFor(o, w, v),
         t \notin Targets(o, w), t \notin Targets(o, v)
  PROVE  merged(w, t) = merged(v, t)
<1>1. \A x : t \in Targets(x, w) <=> t \in Targets(x, v)
  BY DEF Targets, SameButFor
<1>2. \A x \in {x \in DOMAIN w : t \in Targets(x, w)} : x # o /\ w[x] = v[x]
  BY DEF SameButFor
<1>3. {x \in DOMAIN w : t \in Targets(x, w)} = {x \in DOMAIN v : t \in Targets(x, v)}
  BY <1>1 DEF Targets, SameButFor
<1>4. {w[x].groups[t] : x \in {x \in DOMAIN w : t \in Targets(x, w)}}
      = {v[x].groups[t] : x \in {x \in DOMAIN v : t \in Targets(x, v)}}
  BY <1>2, <1>3
<1> QED BY <1>4 DEF merged

\* PublishState::plan, of the owner o.
LEMMA PlanShows ==
  ASSUME NEW o, NEW d, ShownIsMerged, plan(o, d)
  PROVE  ShownIsMerged'
<1>1. CASE Superseded(o, d)
  BY <1>1 DEF plan, ShownIsMerged, merged, Targets
<1>2. CASE ~ Superseded(o, d)
  <2>1. PICK G : G = Groups(d)
    OBVIOUS
  <2>2. PICK T : T = {o} \cup DOMAIN G \cup Targets(o, owned)
    OBVIOUS
  <2>3. PICK w : w = With(owned, o, [rev |-> d.rev, groups |-> G])
    OBVIOUS
  <2>4. owned' = w /\ shown' = Sent(w, T)
    BY <1>2, <2>1, <2>2, <2>3 DEF plan
  <2>5. Targets(o, w) = DOMAIN G /\ SameButFor(o, w, owned)
    BY <2>3 DEF With, Targets, SameButFor
  <2>6. ASSUME NEW t \in Files
        PROVE  shown'[t] = merged(w, t)
    <3>1. CASE t \in T
      BY <2>4, <3>1 DEF Sent
    <3>2. CASE t \notin T
      <4>1. merged(w, t) = merged(owned, t)
        BY <2>2, <2>5, <3>2, MergedOutside
      <4> QED BY <2>4, <3>2, <4>1 DEF Sent, ShownIsMerged
    <3> QED BY <3>1, <3>2
  <2>7. ShownIsMerged' <=> \A t \in Files : shown'[t] = merged(owned', t)
    BY DEF ShownIsMerged, merged, Targets
  <2> QED BY <2>4, <2>6, <2>7
<1> QED BY <1>1, <1>2

\* PublishState::plan_close, of the owner o.
LEMMA PlanCloseShows ==
  ASSUME NEW o, ShownIsMerged, plan_close(o)
  PROVE  ShownIsMerged'
<1>1. PICK w : w = Without(owned, {o})
  OBVIOUS
<1>2. owned' = w /\ shown' = Sent(w, Targets(o, owned))
  BY <1>1 DEF plan_close
<1>3. Targets(o, w) = {} /\ SameButFor(o, w, owned)
  BY <1>1 DEF Without, Targets, SameButFor
<1>4. ASSUME NEW t \in Files
      PROVE  shown'[t] = merged(w, t)
  <2>1. CASE t \in Targets(o, owned)
    BY <1>2, <2>1 DEF Sent
  <2>2. CASE t \notin Targets(o, owned)
    <3>1. merged(w, t) = merged(owned, t)
      BY <1>3, <2>2, MergedOutside
    <3> QED BY <1>2, <2>2, <3>1 DEF Sent, ShownIsMerged
  <2> QED BY <2>1, <2>2
<1>5. ShownIsMerged' <=> \A t \in Files : shown'[t] = merged(owned', t)
  BY DEF ShownIsMerged, merged, Targets
<1> QED BY <1>2, <1>4, <1>5

\* Whatever is published, under the gate.
LEMMA PerformShows ==
  ASSUME NEW pub, ShownIsMerged, Perform(pub)
  PROVE  ShownIsMerged'
<1>1. \/ \E d : plan(pub.file, d)
      \/ plan_close(pub.file)
      \/ UNCHANGED <<owned, shown>>
  BY DEF Perform
<1>2. CASE UNCHANGED <<owned, shown>>
  BY <1>2 DEF ShownIsMerged, merged, Targets
<1> QED BY <1>1, <1>2, PlanShows, PlanCloseShows

\* The client shows on a file the merged view of what the owners' last plans
\* report on it: a plan, a close and a retired world send every file they touch,
\* those they no longer report on included (PublishState::plan, plan_close), and
\* nothing else moves what the owners report.
THEOREM ClientShowsTheMergedView == Spec => []ShownIsMerged
<1>1. Init => ShownIsMerged
  BY DEF Init, ShownIsMerged
<1>2. ShownIsMerged /\ [Next]_vars => ShownIsMerged'
  <2> SUFFICES ASSUME ShownIsMerged, [Next]_vars
               PROVE  ShownIsMerged'
    OBVIOUS
  <2>1. UNCHANGED <<owned, shown>> => ShownIsMerged'
    BY DEF ShownIsMerged, merged, Targets
  <2>2. CASE Client
    BY <2>1, <2>2 DEF Client, did_open, did_save, did_close, did_change, did_change_watched_files
  <2>3. CASE Publish
    <3>1. Perform(Head(tasks[Head(gate)].pubs))
      BY <2>3 DEF Publish
    <3> QED BY <3>1, PerformShows
  <2>4. CASE \E i \in DOMAIN tasks : Step(i)
    <3>1. PICK i \in DOMAIN tasks : Step(i)
      BY <2>4
    <3> QED
      BY <2>1, <3>1 DEF Step, Begin, Return, Stop, Finish, Land, Retire, RetireNext, Retiring,
         Retired, Collect, SweepLeftover, Alone, Serve, LandServed, Read, SweepOne
  <2>5. CASE \E i \in DOMAIN tasks : Wake(i) \/ Sweep(i)
    BY <2>1, <2>5 DEF Wake, Sweep
  <2>6. CASE UNCHANGED vars
    BY <2>1, <2>6 DEF vars
  <2> QED BY <2>2, <2>3, <2>4, <2>5, <2>6 DEF Next
<1> QED BY <1>1, <1>2, PTL DEF Spec

=============================================================================
