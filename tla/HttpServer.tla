----------------------------- MODULE HttpServer -----------------------------
(***************************************************************************)
(* The native HTTP server (crates/vilan-rt/src/http.rs) under the handler   *)
(* shell of std::http (vilan/std/src/http.vl): connections accepted, read,  *)
(* dispatched, answered, drained, lingered on and closed by the polls of    *)
(* one I/O source, request bodies read whole or as streams by the           *)
(* application's tasks between the polls, refusals over the cap, upgrades,  *)
(* stop() and the graceful termination.                                     *)
(*                                                                         *)
(* A request is a head and the pieces of its body: a unit of data, a line   *)
(* of a chunked body, or a line that is none.  The functions of http.rs     *)
(* that change one connection are operators from its record to its next     *)
(* one.  One thread runs the polls and the tasks; only the clients and the  *)
(* clock move beside it.                                                    *)
(***************************************************************************)
EXTENDS Naturals, Sequences, SequencesExt, FiniteSets

CONSTANTS
  Conn,      \* the connections clients may make
  Requests,  \* what a client may send on one
  Task,      \* the tasks of a request: its handler, and others it spawned
  Handler,   \* the task the server spawns
  Cap,       \* max_body_bytes
  Slice,     \* BODY_SLICE, in pieces
  MaxOps,    \* bound: reads of its body and writes to it, by all tasks of a request
  Statuses,  \* which answers there are: "body", "bare", "stream"
  Listeners  \* what a stream's on_close handler does: nothing, or close it

\* A piece of a message on the wire.
Data == [kind |-> "data", size |-> 0]
Size(n) == [kind |-> "size", size |-> n]
Blank == [kind |-> "blank", size |-> 0]
Junk == [kind |-> "junk", size |-> 0]
Piece == {Data, Blank, Junk} \cup [kind : {"size"}, size : Nat]

\* A request: what its head asks for, how its body is framed, and its body.  The
\* server takes the framing of a plain request; what follows another head is no
\* body to it.
Request ==
  [head : {"plain", "upgrade", "refused"}, framing : {"empty", "length", "chunked"},
   length : Nat, body : Seq(Piece)]

ASSUME HttpAssumption ==
  /\ Handler \in Task
  /\ Requests \subseteq Request
  /\ \A r \in Requests : r.framing = "length" => r.length > 0 /\ r.length = Len(r.body)
  /\ \A r \in Requests : r.head # "plain" => r.framing = "empty"
  /\ Cap \in Nat /\ Slice \in Nat \ {0} /\ MaxOps \in Nat
  /\ Statuses \subseteq {"body", "bare", "stream"}
  /\ Listeners \subseteq {"none", "close"}

\* A piece of a chunked body b is in a chunk: one of the n behind a Size(n).
InChunk(b, i) == \E j \in 1..i - 1 : b[j].kind = "size" /\ i <= j + b[j].size

\* A client of a server that answers every request with "Connection: close" sends
\* one: its units of data are in the chunks of the body, and nothing follows the
\* line that ends it.
Framed(r) ==
  LET b == r.body IN
  /\ r.framing = "empty" => b = <<>>
  /\ r.framing = "chunked" =>
       /\ \A i \in 1..Len(b) : b[i] = Data <=> InChunk(b, i)
       /\ \A i, j \in 1..Len(b) : b[i] = Size(0) /\ i < j =>
            b[j].kind # "size" /\ (b[j] = Blank => j = Len(b))

ASSUME FramingAssumption == \A r \in Requests : r.head = "plain" => Framed(r)

VARIABLES
  \* the clients
  at,          \* "away", "open", "left", its socket closed, or "spent", with
               \* all it sent before that taken off the socket
  request,     \* what it sends, all or the first of it
  \* the connections
  conn,        \* Connection, Body and ResponseBody
  task,        \* what each task of a request is at
  ops,         \* how many more reads and writes there are
  given,       \* history: units of body the tasks were given
  \* the server
  listening, connections, closing, onClosed, terminated,
  registered,  \* the loop has it as a source
  \* the loop
  pc,          \* "app", or where the source's poll is
  todo,        \* the connections the poll has not serviced yet
  current,     \* the one it is at
  hung         \* hung_up of the one it is at

clientVars == <<at, request>>
connVars   == <<conn, task, ops, given>>
serverVars == <<listening, connections, closing, onClosed, terminated, registered>>
loopVars   == <<pc, todo, current, hung>>
vars == <<clientVars, connVars, serverVars, loopVars>>

-----------------------------------------------------------------------------
(***************************************************************************)
(* Body.                                                                   *)
(***************************************************************************)

\* Connection::new and Body::new, with what the response adds to it.
NewConnection ==
  [stage |-> "Reading", got |-> 0, used |-> 0,
   body |-> "Unread", decoded |-> 0, received |-> 0, chunk |-> "Size", left |-> 0,
   drains |-> FALSE, owed |-> 0, claim |-> "", waiters |-> {},
   answered |-> FALSE, headSent |-> FALSE, ended |-> FALSE,
   outbox |-> FALSE, destroyed |-> FALSE, writeShut |-> FALSE, linger |-> "no",
   streams |-> FALSE, listener |-> "none", heads |-> 0]

\* Body::settle: who waits is woken, to find the body in its new state.
settle(k, state) == [k EXCEPT !.body = state, !.decoded = 0, !.waiters = {}]

\* Connection::enqueue: a write to a destroyed or closed socket is dropped.
enqueue(k, heads) ==
  IF k.destroyed \/ k.stage = "Closed" THEN k
  ELSE [k EXCEPT !.outbox = TRUE, !.heads = @ + heads]

\* Seeded fault: a refusal does not look whether the request was answered.
refuse_with_again(k) == [enqueue(k, 1) EXCEPT !.answered = TRUE, !.stage = "Closing"]

\* Connection::refuse_with and refuse_protocol: the refusal's answer, unless a
\* response is under way, which is cut.
refuse_with(k) ==
  IF k.answered THEN [k EXCEPT !.stage = "Closing"]
  ELSE [enqueue(k, 1) EXCEPT !.answered = TRUE, !.stage = "Closing"]

\* Seeded fault: the cap counts what the stream still holds.
WithinCap_held(k, n) == k.decoded + n <= Cap

\* "counted against the cap as it is decoded": the cap counts what the body has
\* produced, handed out or not.
WithinCap(k, n) == k.received + n <= Cap

\* ChunkDecoder::feed on one more piece, f.out being More until the decoder is
\* done with its input.
FeedPiece(f, p) ==
  LET k    == [f.k EXCEPT !.used = @ + 1]
      More(s, n) == [f EXCEPT !.k = [k EXCEPT !.chunk = s, !.left = n]]
      Out(o) == [f EXCEPT !.k = k, !.out = o]
  IN  CASE f.out # "More" -> f
        [] f.out = "More" /\ k.chunk = "Size" ->
             IF p.kind # "size" THEN Out("Malformed")
             ELSE IF p.size = 0 THEN More("Trailers", 0)
             ELSE IF ~WithinCap(k, p.size) THEN Out("OverLimit")
             ELSE More("Data", p.size)
        [] f.out = "More" /\ k.chunk = "Data" ->
             [f EXCEPT !.k = [k EXCEPT !.decoded = @ + 1, !.received = @ + 1,
                                       !.left = @ - 1,
                                       !.chunk = IF k.left = 1 THEN "DataEnd" ELSE @]]
        [] f.out = "More" /\ k.chunk = "DataEnd" ->
             IF p = Blank THEN More("Size", 0) ELSE Out("Malformed")
        [] f.out = "More" /\ k.chunk = "Trailers" ->
             IF p = Blank THEN [More("Done", 0) EXCEPT !.out = "Done"]
             ELSE More("Trailers", 0)

\* ChunkDecoder::feed on the pieces of the inbox.
feed(k, inbox) ==
  LET fed[n \in 0..Len(inbox)] ==
        IF n = 0 THEN [k |-> k, out |-> "More"] ELSE FeedPiece(fed[n - 1], inbox[n])
  IN  fed[Len(inbox)]

\* Response::send_head: nothing of a response goes out on a connection that a
\* refusal has answered.
send_head(k) ==
  IF k.headSent THEN k
  ELSE IF k.answered THEN [k EXCEPT !.headSent = TRUE, !.ended = TRUE]
  ELSE [enqueue(k, 1) EXCEPT !.headSent = TRUE, !.answered = TRUE]

\* Response::end_bytes, for a status that carries a body and for one that is
\* bare of it.
end_bytes(k, bare) ==
  LET h == send_head(k)
  IN  IF k.ended THEN k
      ELSE IF bare THEN [h EXCEPT !.ended = TRUE, !.stage = "Closing"]
      ELSE IF h.ended THEN h
      ELSE [enqueue(h, 0) EXCEPT !.ended = TRUE, !.stage = "Closing"]

\* Response::write.
write(k) ==
  LET h == send_head(k)
  IN  IF k.ended THEN k ELSE IF h.ended THEN h ELSE enqueue(h, 0)

\* Connection::destroy.
destroy(k) ==
  IF k.stage = "Closed" THEN k ELSE [k EXCEPT !.destroyed = TRUE, !.stage = "Closing"]

\* Response::fail: a handler that panics is answered 500, or its stream is cut.
fail(k) ==
  IF k.ended THEN k
  ELSE IF ~k.headSent THEN end_bytes(k, FALSE)
  ELSE destroy([k EXCEPT !.ended = TRUE])

\* Seeded fault: a stream's reader is forgotten.
close_streaming(k) ==
  LET b == IF k.body \in {"Unread", "Reading"} THEN settle(k, "Gone") ELSE k
  IN  IF k.stage = "Closed" THEN k
      ELSE [b EXCEPT !.stage = "Closed", !.writeShut = TRUE]

\* Connection::close: a read still waiting ends, and the close handlers run, one
\* of which may close the stream it belongs to.
close(k) ==
  LET b == IF k.body \in {"Unread", "Reading", "Streaming"} THEN settle(k, "Gone") ELSE k
      d == [b EXCEPT !.stage = "Closed", !.writeShut = TRUE]
  IN  IF k.stage = "Closed" THEN k
      ELSE IF k.listener = "close" THEN end_bytes(d, FALSE) ELSE d

\* Seeded fault: the read ends and the connection stays.
HungUp_keeps(k) == settle(k, "Gone")

\* advance_body, when the client went away with the body half sent: the read and
\* the connection end.
HungUp(k) == close(settle(k, "Gone"))

\* What a client sends: its head, one piece here, and its body.
Message(r) == <<Blank>> \o r.body
Inbox(k, r) == SubSeq(Message(r), k.used + 1, k.got)
Least(m, n) == IF m <= n THEN m ELSE n

\* Connection::advance_body: the body takes what it can out of the inbox, and
\* whoever waits is woken when there is more for it or the body is over.
advance_body(k, r, hungUp) ==
  LET inbox == Inbox(k, r)
      n     == Least(r.length - k.received, Len(inbox))
      taken == [k EXCEPT !.used = @ + n, !.decoded = @ + n, !.received = @ + n]
      f     == CASE r.framing = "empty"   -> [k |-> k, out |-> "Done"]
                 [] r.framing = "length"  ->
                      [k |-> taken, out |-> IF taken.received = r.length THEN "Done" ELSE "More"]
                 [] r.framing = "chunked" ->
                      feed(k, inbox)
  IN  CASE k.body \notin {"Reading", "Streaming"} -> k
        [] k.body = "Streaming" /\ f.out = "Done" ->
             [f.k EXCEPT !.body = "StreamEnded", !.waiters = {}]
        [] k.body = "Reading" /\ f.out = "Done" -> settle(f.k, "Read")
        [] k.body \in {"Reading", "Streaming"} /\ f.out = "More" ->
             IF hungUp THEN HungUp(f.k)
             ELSE IF f.k.decoded # k.decoded THEN [f.k EXCEPT !.waiters = {}] ELSE f.k
        [] k.body \in {"Reading", "Streaming"} /\ f.out \in {"OverLimit", "Malformed"} ->
             refuse_with(settle(f.k, "Refused"))

\* Request::body_left_unread, which std::http asks before it answers.
body_left_unread(k, r) ==
  LET b == IF k.body = "Streaming" THEN settle(k, "Abandoned") ELSE k
  IN  IF k.body \in {"Unread", "Streaming"} /\ r.framing = "length" /\ r.length <= Cap
      THEN [b EXCEPT !.drains = TRUE] ELSE b

\* The start of a read, whole or as a stream: not of a request that has been
\* answered, and not of a body declared over the cap.
start_body(k, r, state) ==
  IF k.body # "Unread" THEN k
  ELSE IF k.answered THEN settle(k, "Gone")
  ELSE IF r.framing = "length" /\ r.length > Cap THEN refuse_with(settle(k, "Refused"))
  ELSE advance_body([k EXCEPT !.body = state], r, FALSE)

-----------------------------------------------------------------------------
(***************************************************************************)
(* The application: the tasks of a request, its streams and its sockets.    *)
(***************************************************************************)

\* The application runs between the polls, and inside one when the server calls
\* the handler of the connection it is at.
Runs(c) == pc = "app" \/ (pc = "handler" /\ current = c)

\* A task that was parked on the body and has been woken.
Woken(c, t) == task[c][t] \in {"whole", "stream"} /\ t \notin conn[c].waiters

Becomes(c, k) == conn' = [conn EXCEPT ![c] = k]
Goes(c, t, to) == task' = [task EXCEPT ![c][t] = to]

\* BodyRead::poll by task t of connection c, whose record is k.
BodyRead_poll(c, t, k) ==
  LET b == start_body(k, request[c], "Reading")
  IN  /\ given' = given
      /\ \/ b.body = "Read" /\ Goes(c, t, "idle") /\ Becomes(c, b)
         \/ /\ b.body = "Reading" /\ Goes(c, t, "whole")
            /\ Becomes(c, [b EXCEPT !.waiters = @ \cup {t}])
         \/ b.body \notin {"Read", "Reading"} /\ Goes(c, t, "over") /\ Becomes(c, b)

\* BodyPiece::poll: a piece of whatever size was asked for, the end, or a wait.
BodyPiece_poll(c, t, k) ==
  LET b == start_body(k, request[c], "Streaming")
  IN  \/ /\ b.body \in {"Streaming", "StreamEnded"} /\ b.decoded > 0
         /\ \E n \in 1..b.decoded :
              /\ Becomes(c, [b EXCEPT !.decoded = @ - n])
              /\ given' = [given EXCEPT ![c] = @ + n]
         /\ Goes(c, t, "idle")
      \/ /\ b.body = "StreamEnded" /\ b.decoded = 0
         /\ Becomes(c, b) /\ Goes(c, t, "idle") /\ UNCHANGED given
      \/ /\ b.body = "Streaming" /\ b.decoded = 0
         /\ Becomes(c, [b EXCEPT !.waiters = @ \cup {t}])
         /\ Goes(c, t, "stream") /\ UNCHANGED given
      \/ /\ b.body \notin {"Streaming", "StreamEnded"}
         /\ Becomes(c, b) /\ Goes(c, t, "over") /\ UNCHANGED given

\* claim_read: a body is read whole or as a stream, not both.  The request whose
\* body was claimed for the other is refused, and the caller ends.
claims(c, how) == conn[c].claim \in {"", how}

claim_refused(c, t, how) ==
  /\ ~claims(c, how)
  /\ Becomes(c, refuse_with(IF conn[c].body = "Gone" THEN conn[c]
                            ELSE settle(conn[c], "Refused")))
  /\ Goes(c, t, "over")
  /\ UNCHANGED given

\* Request::bytes.
bytes(c, t) ==
  /\ Runs(c) /\ task[c][t] = "idle" /\ ops[c] > 0
  /\ ops' = [ops EXCEPT ![c] = @ - 1]
  /\ \/ claims(c, "whole") /\ BodyRead_poll(c, t, [conn[c] EXCEPT !.claim = "whole"])
     \/ claim_refused(c, t, "whole")
  /\ UNCHANGED <<clientVars, serverVars, loopVars>>

\* Request::body_stream: nothing is read until the first next.
body_stream(c, t) ==
  /\ Runs(c) /\ task[c][t] = "idle"
  /\ \/ /\ claims(c, "stream")
        /\ Becomes(c, [conn[c] EXCEPT !.claim = "stream"])
        /\ UNCHANGED <<task, given>>
     \/ claim_refused(c, t, "stream")
  /\ UNCHANGED <<clientVars, ops, serverVars, loopVars>>

\* BodyReader::next, by whoever holds the reader.
next(c, t) ==
  /\ Runs(c) /\ task[c][t] = "idle" /\ conn[c].claim = "stream" /\ ops[c] > 0
  /\ ops' = [ops EXCEPT ![c] = @ - 1]
  /\ BodyPiece_poll(c, t, conn[c])
  /\ UNCHANGED <<clientVars, serverVars, loopVars>>

\* A woken reader polls its read again.
resume(c, t) ==
  /\ pc = "app" /\ Woken(c, t)
  /\ \/ task[c][t] = "whole" /\ BodyRead_poll(c, t, conn[c])
     \/ task[c][t] = "stream" /\ BodyPiece_poll(c, t, conn[c])
  /\ UNCHANGED <<clientVars, ops, serverVars, loopVars>>

\* std::http's answer: the response the handler returned, buffered, bare or a
\* stream whose on_open the handler's task goes on to run.
answer(c) ==
  /\ Runs(c) /\ task[c][Handler] = "idle"
  /\ LET k == body_left_unread(conn[c], request[c]) IN
     \/ /\ "body" \in Statuses
        /\ Becomes(c, end_bytes(k, FALSE)) /\ Goes(c, Handler, "over")
     \/ /\ "bare" \in Statuses
        /\ Becomes(c, end_bytes(k, TRUE)) /\ Goes(c, Handler, "over")
     \/ /\ "stream" \in Statuses
        /\ \E l \in Listeners : Becomes(c, [k EXCEPT !.streams = TRUE, !.listener = l])
        /\ Goes(c, Handler, "open")
  /\ UNCHANGED <<clientVars, ops, given, serverVars, loopVars>>

\* respond: the handler panics, before it answered or in the on_open of its
\* stream.
panic(c) ==
  /\ Runs(c) /\ task[c][Handler] \in {"idle", "open"}
  /\ Becomes(c, fail(conn[c])) /\ Goes(c, Handler, "over")
  /\ UNCHANGED <<clientVars, ops, given, serverVars, loopVars>>

open_returns(c) ==
  /\ Runs(c) /\ task[c][Handler] = "open"
  /\ Goes(c, Handler, "over")
  /\ UNCHANGED <<clientVars, conn, ops, given, serverVars, loopVars>>

\* ResponseStream::send and close, by whoever holds the stream.
stream_send(c) ==
  /\ Runs(c) /\ conn[c].streams /\ ops[c] > 0
  /\ ops' = [ops EXCEPT ![c] = @ - 1]
  /\ Becomes(c, write(conn[c]))
  /\ UNCHANGED <<clientVars, task, given, serverVars, loopVars>>

stream_close(c) ==
  /\ Runs(c) /\ conn[c].streams /\ ~conn[c].ended
  /\ Becomes(c, end_bytes(conn[c], FALSE))
  /\ UNCHANGED <<clientVars, task, ops, given, serverVars, loopVars>>

\* Socket::write_text and destroy, on a socket that was handed over.
socket_write(c) ==
  /\ Runs(c) /\ conn[c].stage = "Upgraded" /\ ops[c] > 0
  /\ ops' = [ops EXCEPT ![c] = @ - 1]
  /\ Becomes(c, enqueue(conn[c], 0))
  /\ UNCHANGED <<clientVars, task, given, serverVars, loopVars>>

socket_destroy(c) ==
  /\ Runs(c) /\ conn[c].stage = "Upgraded"
  /\ Becomes(c, destroy(conn[c]))
  /\ UNCHANGED <<clientVars, task, ops, given, serverVars, loopVars>>

\* Server::stop.
stop ==
  /\ pc = "app" /\ ~closing
  /\ closing' = TRUE /\ listening' = FALSE /\ onClosed' = "set"
  /\ UNCHANGED <<clientVars, connVars, connections, terminated, registered, loopVars>>
-----------------------------------------------------------------------------
(***************************************************************************)
(* The server's poll.                                                      *)
(***************************************************************************)

\* What a termination does not wait for: a connection still reading its request
\* or handed over, and a body being read or drained.
WaitsOnTheClient(k) ==
  k.stage \in {"Reading", "Upgraded"} \/ k.body \in {"Reading", "Draining"}

\* Clients the listener has not accepted yet.
Backlog == {c \in Conn : at[c] # "away" /\ conn[c].stage = "None"}

\* The poll begins once the woken tasks have run: a termination request that has
\* come since the last poll is answered, the backlog accepted, and every
\* connection is to be serviced.
begin_poll ==
  /\ pc = "app" /\ registered
  /\ \A c \in Conn, t \in Task : ~Woken(c, t)
  /\ \E ends \in {e \in BOOLEAN : e => ~terminated} :
     LET new == IF listening /\ ~ends THEN Backlog ELSE {}
     IN  /\ terminated' = (terminated \/ ends)
         /\ listening' = (listening /\ ~ends)
         /\ conn' = [c \in Conn |->
              IF c \in new THEN NewConnection
              ELSE IF ends /\ c \in connections /\ WaitsOnTheClient(conn[c])
                   THEN close(conn[c]) ELSE conn[c]]
         /\ connections' = connections \cup new
         /\ todo' = connections \cup new
  /\ pc' = "next"
  /\ UNCHANGED <<clientVars, task, ops, given, closing, onClosed, registered,
                 current, hung>>

\* Seeded fault: a refused body is read on.
wants_bytes_refused(k) ==
  \/ k.stage \in {"Reading", "Upgraded"}
  \/ /\ k.stage \in {"Dispatched", "Closing"}
     /\ \/ k.body \in {"Reading", "Draining", "Refused"}
        \/ k.body = "Streaming" /\ k.waiters # {}

\* Connection::wants_bytes: "never for a body nobody asked for, which stays in
\* the kernel".
wants_bytes(k) ==
  \/ k.stage \in {"Reading", "Upgraded"}
  \/ /\ k.stage \in {"Dispatched", "Closing"}
     /\ \/ k.body \in {"Reading", "Draining"}
        \/ k.body = "Streaming" /\ k.waiters # {}

\* Connection::read_available: what the client has sent by now, up to the budget
\* of the stage, and whether the read met the end of what it will ever send.
Rest(c) == Len(Message(request[c])) - conn[c].got

Budget(c) ==
  CASE conn[c].stage = "Reading"  -> 1 + Slice
    [] conn[c].stage = "Upgraded" -> Rest(c) + 1
    [] OTHER -> Slice

read_available(c) ==
  LET Got(n, hungUp) == [n |-> n, hungUp |-> hungUp]
      some == 0..Least(Budget(c), Rest(c))
  IN  CASE ~wants_bytes(conn[c]) -> {Got(0, FALSE)}
        [] wants_bytes(conn[c]) /\ at[c] = "left"  -> {Got(n, n < Budget(c)) : n \in some}
        [] wants_bytes(conn[c]) /\ at[c] = "spent" -> {Got(0, TRUE)}
        [] OTHER -> {Got(n, FALSE) : n \in some}

\* Server::dispatch, for a head that has arrived whole: a head the server does
\* not take is refused, an upgrade is handed over or, with nobody to take it,
\* closed, and a request gets its body and its handler's task.
dispatch(c, k) ==
  \/ /\ request[c].head = "refused"
     /\ Becomes(c, refuse_with(k)) /\ pc' = "write" /\ UNCHANGED task
  \/ /\ request[c].head = "upgrade"
     /\ \/ Becomes(c, [k EXCEPT !.stage = "Upgraded", !.used = k.got]) /\ pc' = "handler"
        \/ Becomes(c, close(k)) /\ pc' = "write"
     /\ UNCHANGED task
  \/ /\ request[c].head = "plain"
     /\ Becomes(c, [k EXCEPT !.stage = "Dispatched", !.used = 1])
     /\ task' = [task EXCEPT ![c] = [t \in Task |-> "idle"]]
     /\ pc' = "handler"

\* The first half of Server::service: read, and act on what was read.
service_read(c) ==
  /\ pc = "next" /\ c \in todo
  /\ todo' = todo \ {c}
  /\ current' = c
  /\ \E r \in read_available(c) :
       LET k == [conn[c] EXCEPT !.got = @ + r.n]
       IN
         /\ hung' = r.hungUp
         /\ at' = [at EXCEPT ![c] = IF r.hungUp THEN "spent" ELSE @]
         /\ \/ /\ k.stage = "Reading" /\ k.got > 0
               /\ dispatch(c, k)
            \/ /\ k.stage = "Reading" /\ k.got = 0
               /\ Becomes(c, IF r.hungUp THEN close(k) ELSE k)
               /\ pc' = "write" /\ UNCHANGED task
            \/ /\ k.stage = "Dispatched"
               /\ Becomes(c, advance_body(k, request[c], r.hungUp))
               /\ pc' = "write" /\ UNCHANGED task
            \/ /\ k.stage = "Upgraded"
               /\ Becomes(c, [k EXCEPT !.used = k.got])
               /\ pc' = IF k.got > k.used THEN "handler" ELSE "write"
               /\ UNCHANGED task
            \/ /\ k.stage \in {"Closing", "Closed"}
               /\ Becomes(c, k)
               /\ pc' = "write" /\ UNCHANGED task
  /\ UNCHANGED <<request, ops, given, serverVars>>

\* The handler the server called suspends or returns.
handler_done ==
  /\ pc = "handler"
  /\ pc' = "write"
  /\ UNCHANGED <<clientVars, connVars, serverVars, todo, current, hung>>

\* Connection::write_available: what is left of the outbox, and whether the
\* socket is dead.
write_available(c) ==
  LET k == conn[c]
      All  == [left |-> FALSE, dead |-> FALSE]
      Some == [left |-> TRUE, dead |-> FALSE]
      Dead == [left |-> TRUE, dead |-> TRUE]
  IN  CASE ~k.outbox -> {All}
        [] k.outbox /\ k.writeShut -> {Dead}
        [] k.outbox /\ ~k.writeShut -> IF at[c] # "open" THEN {All, Dead} ELSE {All, Some}

\* Seeded fault: only a declared length is waited for.
StillComing_declared(k, r) ==
  \/ k.body \in {"Draining", "Refused", "Abandoned"}
  \/ k.body = "Unread" /\ r.framing = "length" /\ Len(Inbox(k, r)) < r.length

\* Whether the client of an answered connection may still be sending its body.
StillComing(k, r) ==
  \/ k.body \in {"Draining", "Refused", "Abandoned"}
  \/ k.body = "Unread" /\ r.framing = "length" /\ Len(Inbox(k, r)) < r.length
  \/ k.body = "Unread" /\ r.framing = "chunked"

\* Server::lingers: an answered connection drains a body nobody read that is
\* within the cap, waits with one that may still be coming otherwise, and
\* closes when there is none.
lingers(k, r, hungUp) ==
  LET unread == k.body \in {"Unread", "Abandoned"}
      b == IF unread /\ r.framing = "length" /\ k.drains
           THEN [k EXCEPT !.body = "Draining", !.owed = r.length - k.received] ELSE k
      n == Least(b.owed, Len(Inbox(k, r)))
      s == [b EXCEPT !.writeShut = TRUE]
  IN  IF ~StillComing(b, r) THEN [k |-> b, stays |-> FALSE]
      ELSE IF b.body = "Draining"
      THEN [k |-> [s EXCEPT !.owed = @ - n, !.used = @ + n], stays |-> n < b.owed /\ ~hungUp]
      ELSE [k |-> [s EXCEPT !.linger = IF @ = "no" THEN "until" ELSE @],
            stays |-> k.linger # "past"]

\* The second half of Server::service: write, then close what is answered and
\* need not linger, or what the client has left.
service_write ==
  /\ pc = "write"
  /\ LET c == current IN
     \E w \in write_available(c) :
       LET k == [conn[c] EXCEPT !.outbox = w.left]
           l == lingers(k, request[c], hung)
           d == IF k.stage = "Closing" /\ ~k.outbox
                THEN IF l.stays THEN l.k ELSE close(l.k)
                ELSE k
       IN  Becomes(c, IF w.dead \/ (hung /\ ~d.outbox /\ d.stage # "Dispatched")
                      THEN close(IF w.dead THEN k ELSE d) ELSE d)
  /\ pc' = "next"
  /\ UNCHANGED <<clientVars, task, ops, given, serverVars, todo, current, hung>>

\* The poll ends: closed connections go, stop()'s callback runs after the last,
\* and poll_io keeps the source while it is live.
end_poll ==
  /\ pc = "next" /\ todo = {}
  /\ connections' = {c \in connections : conn[c].stage # "Closed"}
  /\ onClosed' = IF closing /\ connections' = {} /\ onClosed = "set" THEN "fired" ELSE onClosed
  /\ registered' = (listening \/ connections' # {})
  /\ pc' = "app"
  /\ hung' = FALSE
  /\ UNCHANGED <<clientVars, connVars, listening, closing, terminated, todo, current>>

-----------------------------------------------------------------------------
(***************************************************************************)
(* The clients, the clock and the signal thread.  A poll looks at the       *)
(* backlog, at what a client sent, at the clock and at the signal once, so  *)
(* what happens to them during a poll can as well happen before it or after *)
(* it.  It looks at the client twice, to read and to write.  What a client  *)
(* does on a connection that is closed is not seen.                         *)
(***************************************************************************)
connect(c) ==
  /\ pc = "app" /\ at[c] = "away" /\ listening
  /\ at' = [at EXCEPT ![c] = "open"]
  /\ UNCHANGED <<request, connVars, serverVars, loopVars>>

leave(c) ==
  /\ pc \in {"app", "write"} /\ at[c] = "open" /\ conn[c].stage # "Closed"
  /\ at' = [at EXCEPT ![c] = "left"]
  /\ UNCHANGED <<request, connVars, serverVars, loopVars>>

linger_ends(c) ==
  /\ pc = "app" /\ conn[c].linger = "until"
  /\ conn' = [conn EXCEPT ![c].linger = "past"]
  /\ UNCHANGED <<clientVars, task, ops, given, serverVars, loopVars>>

-----------------------------------------------------------------------------
Init ==
  /\ at = [c \in Conn |-> "away"]
  /\ request \in [Conn -> Requests]
  /\ conn = [c \in Conn |-> [NewConnection EXCEPT !.stage = "None"]]
  /\ task = [c \in Conn |-> [t \in Task |-> "none"]]
  /\ ops = [c \in Conn |-> MaxOps]
  /\ given = [c \in Conn |-> 0]
  /\ listening = TRUE /\ connections = {} /\ closing = FALSE /\ onClosed = "none"
  /\ terminated = FALSE /\ registered = TRUE
  /\ pc = "app" /\ todo = {} /\ hung = FALSE
  /\ current \in Conn

Poll ==
  \/ begin_poll \/ handler_done \/ service_write \/ end_poll
  \/ \E c \in Conn : service_read(c) \/ \E t \in Task : resume(c, t)

Application(c) ==
  \/ \E t \in Task : bytes(c, t) \/ body_stream(c, t) \/ next(c, t)
  \/ answer(c) \/ panic(c) \/ open_returns(c)
  \/ stream_send(c) \/ stream_close(c)
  \/ socket_write(c) \/ socket_destroy(c)

World(c) == connect(c) \/ leave(c) \/ linger_ends(c)

\* The source is dropped and the program does whatever else it does.
Dropped == pc = "app" /\ ~registered /\ UNCHANGED vars

Next ==
  \/ Poll \/ stop \/ Dropped
  \/ \E c \in Conn : Application(c) \/ World(c)

\* The loop polls; the handlers answer and the streams are closed in the end;
\* the clients leave in the end; the clock moves.  Each of these happens at most
\* once on a connection, so one condition on all of them is one on each.
InTheEnd(c) == answer(c) \/ stream_close(c) \/ leave(c) \/ linger_ends(c)

Fairness == WF_vars(Poll) /\ \A c \in Conn : SF_vars(InTheEnd(c))

Spec == Init /\ [][Next]_vars /\ Fairness

-----------------------------------------------------------------------------
\* The units of body that request r carries, by definition.
BodySize(r) ==
  CASE r.framing = "empty"   -> 0
    [] r.framing = "length"  -> r.length
    [] r.framing = "chunked" -> Cardinality({i \in 1..Len(r.body) : r.body[i] = Data})

\* A request whose body is what its framing says.
Complete(r) == r.framing = "chunked" => Last(r.body) = Blank

\* read_body and body_next: "at most limit bytes", whole or not at all, and a
\* stream's pieces are what has been decoded and not yet taken: what the tasks
\* were given and what is held for them is what was decoded, never more than the
\* cap, and the body is read or ends only when it is all there.
BodyIsTheClients ==
  \A c \in Conn :
    LET k == conn[c] IN
    /\ k.received <= Cap
    /\ k.body \in {"Streaming", "StreamEnded"} => given[c] + k.decoded = k.received
    /\ k.body \in {"Read", "StreamEnded"} =>
         Complete(request[c]) /\ k.received = BodySize(request[c])

\* A task that waits for a body is one the connection reads for, and whose
\* close wakes it: no settled, abandoned or dropped body has a waiter.
ReadersAreServed ==
  \A c \in Conn :
    conn[c].waiters # {} =>
      /\ conn[c].body \in {"Reading", "Streaming"}
      /\ conn[c].stage \in {"Dispatched", "Closing"}
      /\ c \in connections

\* "One answer per connection".
OneAnswer == \A c \in Conn : conn[c].heads <= 1

\* refused_body_census: "Zero is M164's contract: a declined body stays in the
\* kernel".
DeclinedStaysOnTheWire ==
  [][\A c \in Conn :
       conn[c].body = "Refused" \/ conn[c].linger # "no" => conn'[c].got = conn[c].got]_vars

\* A connection is closed because the answer to its request is out, under a
\* client that is still there, with body bytes that were never taken off the socket and without
\* lingering: the close is a reset, which can overtake the answer.
ResetsTheAnswer(c) ==
  /\ request[c].head = "plain"
  /\ conn[c].stage = "Closing" /\ conn'[c].stage = "Closed"
  /\ pc = "write" /\ at[c] = "open" /\ ~conn'[c].outbox
  /\ conn[c].got < Len(Message(request[c]))
  /\ conn[c].linger # "past"

\* lingers: "so the client reads its response rather than a reset".  No close
\* resets the answer over a body that nobody asked for, that was refused, or that
\* its handler left for the answer.
AnswerOutlivesTheClose ==
  [][\A c \in Conn :
       ResetsTheAnswer(c) => conn[c].body \in {"Gone", "Reading", "Streaming"}]_vars

\* stop: "fire on_stop once the listener has actually closed", after the existing
\* connections have ended.
StopEnds == (closing /\ registered) ~> (onClosed = "fired")

-----------------------------------------------------------------------------
(***************************************************************************)
(* What a comment says of the server and the code does not do.  It is        *)
(* refuted by a run of its own.                                             *)
(***************************************************************************)
\* terminate: "A handler still waiting for a body is waiting on the client, not
\* answering: it ends with the connection (its read is cancelled)".
TerminationEndsReads ==
  [][~terminated /\ terminated' => \A c \in Conn : conn'[c].waiters = {}]_vars

=============================================================================
