-------------------------- MODULE HttpServerProofs --------------------------
(***************************************************************************)
(* Safety of the HTTP server, for any connections, tasks and requests: a    *)
(* request gets one answer, a task that waits for its body is served, what  *)
(* is read of a body is what the client sent, a body that was declined      *)
(* stays on the wire, and no close resets an answer.                        *)
(***************************************************************************)
EXTENDS HttpServer, FiniteSetTheorems, SequenceTheorems, WellFoundedInduction, TLAPS

-----------------------------------------------------------------------------
(***************************************************************************)
(* The parts of the inductive invariant, each of a connection's record k,   *)
(* the tasks ts of its request r, whether the server holds it, and what     *)
(* its tasks were given.                                                   *)
(***************************************************************************)
Fields == DOMAIN NewConnection

\* The body is still to be read, or being read.
Live == {"Unread", "Reading", "Streaming"}

Shape(k, ts) ==
  /\ DOMAIN k = Fields
  /\ k.stage \in {"None", "Reading", "Dispatched", "Upgraded", "Closing", "Closed"}
  /\ k.body \in Live \cup {"Read", "StreamEnded", "Gone", "Refused", "Abandoned", "Draining"}
  /\ k.answered \in BOOLEAN /\ k.headSent \in BOOLEAN /\ k.streams \in BOOLEAN
  /\ k.drains \in BOOLEAN
  /\ ts \in [Task -> {"none", "idle", "whole", "stream", "open", "over"}]

\* An answer is queued once, and only with its mark.
AnsweredOnce(k) ==
  /\ k.heads \in {0, 1}
  /\ k.answered = FALSE => k.heads = 0
  /\ k.headSent = TRUE => k.answered = TRUE

\* Before its head is dispatched nothing of a connection is at work.
Untouched(k, ts) ==
  k.stage \in {"None", "Reading", "Upgraded"} =>
    /\ k.body = "Unread" /\ k.linger = "no"
    /\ k.streams = FALSE /\ k.answered = FALSE
    /\ \A t \in Task : ts[t] = "none"

\* Who waits is on a body that is being read, of a connection that is held open.
Waiting(k, held) ==
  /\ k.waiters # {} => k.body \in {"Reading", "Streaming"}
  /\ k.body \in Live /\ k.stage # "None" => held = TRUE /\ k.stage # "Closed"

\* A dispatched connection closes only answered; what was answered for its
\* handler has settled its body; only the handler's answer makes a stream.
Answering(k, ts) ==
  /\ k.stage = "Closing" /\ (\E t \in Task : ts[t] # "none") => k.answered = TRUE
  /\ k.streams = TRUE => ts[Handler] \in {"open", "over"}
  /\ k.listener # "none" => k.streams = TRUE
  /\ k.answered = TRUE /\ ts[Handler] \in {"idle", "whole", "stream"} =>
       k.body \notin Live \cup {"Abandoned"}

\* A connection lingers over a body that nobody reads any more.
Lingering(k, r) ==
  k.linger # "no" =>
    /\ k.stage \in {"Closing", "Closed"}
    /\ k.body \notin {"Reading", "Streaming", "Draining"}
    /\ k.body \in {"Unread", "Abandoned"} /\ r.framing = "length" => k.drains = FALSE

Decoding == {"Size", "Data", "DataEnd", "Trailers"}

\* What was produced and what the chunk under way still promises is in the cap.
Counts(k) ==
  /\ k.used \in Nat /\ k.received \in Nat /\ k.decoded \in Nat /\ k.left \in Nat
  /\ k.received + k.left <= Cap
  /\ k.chunk = "Data" => k.left > 0

\* What was produced is within the cap, and is what the tasks were given, g, and
\* what is held for them.
Counting(k, r, g) ==
  /\ k.got \in 0..Len(Message(r)) /\ k.received \in 0..Cap /\ g \in Nat
  /\ k.body \in Live \cup {"StreamEnded"} => Counts(k) /\ g + k.decoded = k.received
  /\ k.body \in Live => k.chunk \in Decoding
  /\ k.body \in Live /\ r.framing = "length" => k.left = 0 /\ k.received <= r.length
  /\ k.body \in {"Reading", "Streaming"} /\ r.framing = "length" => r.length <= Cap
  /\ k.body = "Unread" => k.received = 0

\* Before the dispatch there is no task, and after it the stages before it are
\* past.
Dispatched(k) == k.stage \notin {"None", "Reading", "Upgraded"}

\* The units of data in the first m pieces of body b.
DataTo(b, m) == {i \in 1..m : b[i] = Data}

\* Behind the m pieces of b that it took the decoder is where they say: in the
\* chunk under way, behind all others, or behind the last.
Decoded(k, b) ==
  LET m == k.used - 1 IN
  /\ k.received = Cardinality(DataTo(b, m))
  /\ \A j \in 1..m : b[j].kind = "size" => j + b[j].size <= m + k.left
  /\ k.chunk = "Data" => \E j \in 1..m : b[j].kind = "size" /\ j + b[j].size = m + k.left
  /\ k.chunk # "Data" => k.left = 0
  /\ k.chunk = "Trailers" => \E j \in 1..m : b[j] = Size(0)

\* It has taken all of the body, and found its data.
Ended(k, b) ==
  /\ k.used = 1 + Len(b) /\ Len(b) > 0 /\ b[Len(b)] = Blank
  /\ k.received = Cardinality(DataTo(b, Len(b)))

ByChunks(k, b) ==
  /\ k.body \in Live => Decoded(k, b)
  /\ k.body \in {"Read", "StreamEnded"} => Ended(k, b)

\* A declared body is taken a unit at a time, in the end to drain it.
ByLength(k, r) ==
  /\ k.body # "Draining" => k.used = 1 + k.received /\ k.received <= r.length
  /\ k.body \in {"Read", "StreamEnded"} => k.received = r.length
  /\ k.body = "Draining" => k.owed \in Nat /\ k.used + k.owed = 1 + r.length

\* What was taken of the message: its head first, and what the body has received.
InPlace(k, r) ==
  /\ k.used \in 1..k.got
  /\ k.body = "Unread" => k.used = 1
  /\ k.body = "Draining" => r.framing = "length"
  /\ r.framing = "length" => ByLength(k, r)
  /\ r.framing = "chunked" => ByChunks(k, r.body)

\* A request whose body is not lost is in its place, once it is dispatched, if the
\* body is what it says.
Placed(k, r) ==
  /\ r.framing = "empty" => k.received = 0
  /\ r.head = "plain" => k.stage # "Upgraded"
  /\ k.body = "Unread" => k.chunk = "Size" /\ k.left = 0
  /\ r.head = "plain" /\ Framed(r) /\ Dispatched(k) =>
       k.body \in {"Gone", "Refused"} \/ InPlace(k, r)

Sound(k, ts, held, r, g) ==
  /\ Shape(k, ts) /\ AnsweredOnce(k) /\ Untouched(k, ts) /\ Waiting(k, held)
  /\ Answering(k, ts) /\ Lingering(k, r) /\ Counting(k, r, g) /\ Placed(k, r)

Types ==
  /\ conn = [c \in Conn |-> conn[c]]
  /\ task = [c \in Conn |-> task[c]]
  /\ given = [c \in Conn |-> given[c]]
  /\ request \in [Conn -> Requests]
  /\ current \in Conn

HttpInv ==
  /\ Types
  /\ \A c \in Conn : Sound(conn[c], task[c], c \in connections, request[c], given[c])

-----------------------------------------------------------------------------
(***************************************************************************)
(* What the operators on a connection's record do to it.                   *)
(***************************************************************************)

\* From k to j: the wire, the stream and the drain are left alone; the body; the
\* answer.
RestKept(k, j) ==
  /\ DOMAIN j = Fields
  /\ j.got = k.got /\ j.linger = k.linger /\ j.drains = k.drains
  /\ j.streams = k.streams /\ j.listener = k.listener /\ j.owed = k.owed

BodyKept(k, j) ==
  /\ j.body = k.body /\ j.waiters = k.waiters
  /\ j.used = k.used /\ j.received = k.received /\ j.decoded = k.decoded
  /\ j.chunk = k.chunk /\ j.left = k.left

AnswerKept(k, j) ==
  j.answered = k.answered /\ j.headSent = k.headSent /\ j.heads = k.heads

\* j is answered: by now, unless k was.
Answered(k, j) ==
  /\ j.answered = TRUE /\ j.headSent \in BOOLEAN
  /\ j.heads \in {k.heads, k.heads + 1}
  /\ k.answered = TRUE => j.heads = k.heads

LEMMA SettleEffect ==
  ASSUME NEW k, DOMAIN k = Fields, NEW state
  PROVE  LET j == settle(k, state)
         IN  /\ RestKept(k, j) /\ AnswerKept(k, j) /\ j.stage = k.stage
             /\ j.body = state /\ j.waiters = {}
             /\ j.used = k.used /\ j.received = k.received /\ j.chunk = k.chunk /\ j.left = k.left
BY DEF settle, RestKept, AnswerKept, Fields, NewConnection

LEMMA EnqueueEffect ==
  ASSUME NEW k, DOMAIN k = Fields, NEW n \in {0, 1}, k.heads \in {0, 1}
  PROVE  LET j == enqueue(k, n)
         IN  /\ RestKept(k, j) /\ BodyKept(k, j) /\ j.stage = k.stage
             /\ j.answered = k.answered /\ j.headSent = k.headSent
             /\ j.heads \in {k.heads, k.heads + n} /\ j.ended = k.ended
BY DEF enqueue, RestKept, BodyKept, Fields, NewConnection

LEMMA RefuseEffect ==
  ASSUME NEW k, NEW ts, Shape(k, ts), AnsweredOnce(k)
  PROVE  LET j == refuse_with(k)
         IN  /\ RestKept(k, j) /\ BodyKept(k, j) /\ j.stage = "Closing"
             /\ Answered(k, j) /\ AnsweredOnce(j)
<1> DEFINE e == enqueue(k, 1)
<1>1. /\ RestKept(k, e) /\ BodyKept(k, e)
      /\ e.headSent = k.headSent /\ e.heads \in {k.heads, k.heads + 1}
  BY EnqueueEffect DEF Shape, AnsweredOnce
<1>2. k.answered = TRUE => refuse_with(k) = [k EXCEPT !.stage = "Closing"]
  BY DEF refuse_with
<1>3. k.answered = FALSE =>
        refuse_with(k) = [e EXCEPT !.answered = TRUE, !.stage = "Closing"]
  BY DEF refuse_with
<1> HIDE DEF e
<1>4. CASE k.answered = TRUE
  BY <1>2, <1>4 DEF Shape, AnsweredOnce, RestKept, BodyKept, Answered, Fields, NewConnection
<1>5. CASE k.answered = FALSE
  <2>1. k.heads = 0 /\ k.headSent = FALSE
    BY <1>5 DEF Shape, AnsweredOnce
  <2> DEFINE j == refuse_with(k)
  <2>2. j = [e EXCEPT !.answered = TRUE, !.stage = "Closing"]
    BY <1>3, <1>5
  <2> HIDE DEF j
  <2>3. /\ RestKept(e, j) /\ BodyKept(e, j) /\ j.stage = "Closing"
        /\ j.answered = TRUE /\ j.headSent = e.headSent /\ j.heads = e.heads
    BY <1>1, <2>2 DEF RestKept, BodyKept, Fields, NewConnection
  <2>4. RestKept(k, j) /\ BodyKept(k, j)
    BY <1>1, <2>3 DEF RestKept, BodyKept
  <2>5. j.heads \in {0, 1} /\ j.heads \in {k.heads, k.heads + 1}
    BY <1>1, <2>1, <2>3
  <2>6. j.answered = TRUE /\ j.headSent = FALSE
    BY <1>1, <2>1, <2>3
  <2>7. Answered(k, j) /\ AnsweredOnce(j)
    BY <1>5, <2>5, <2>6 DEF AnsweredOnce, Answered
  <2> QED BY <2>3, <2>4, <2>7 DEF j
<1> QED BY <1>4, <1>5 DEF Shape

LEMMA SendHeadEffect ==
  ASSUME NEW k, NEW ts, Shape(k, ts), AnsweredOnce(k)
  PROVE  LET j == send_head(k)
         IN  /\ RestKept(k, j) /\ BodyKept(k, j) /\ j.stage = k.stage
             /\ Answered(k, j) /\ AnsweredOnce(j)
<1> DEFINE j == send_head(k)
           e == enqueue(k, 1)
<1>1. CASE k.headSent = TRUE
  <2>1. j = k
    BY <1>1 DEF send_head
  <2> QED
    BY <1>1, <2>1 DEF Shape, AnsweredOnce, RestKept, BodyKept, Answered
<1>2. CASE k.headSent = FALSE /\ k.answered = TRUE
  <2>1. j = [k EXCEPT !.headSent = TRUE, !.ended = TRUE]
    BY <1>2 DEF send_head
  <2> HIDE DEF j
  <2>2. /\ RestKept(k, j) /\ BodyKept(k, j) /\ j.stage = k.stage
        /\ j.answered = TRUE /\ j.headSent = TRUE /\ j.heads = k.heads
    BY <1>2, <2>1 DEF Shape, RestKept, BodyKept, Fields, NewConnection
  <2> QED
    BY <2>2 DEF j, AnsweredOnce, Answered
<1>3. CASE k.headSent = FALSE /\ k.answered = FALSE
  <2>1. k.heads = 0
    BY <1>3 DEF AnsweredOnce
  <2>2. /\ RestKept(k, e) /\ BodyKept(k, e) /\ e.stage = k.stage
        /\ e.heads \in {k.heads, k.heads + 1}
    BY EnqueueEffect DEF Shape, AnsweredOnce
  <2>3. j = [e EXCEPT !.headSent = TRUE, !.answered = TRUE]
    BY <1>3 DEF send_head
  <2> HIDE DEF j, e
  <2>4. /\ RestKept(e, j) /\ BodyKept(e, j) /\ j.stage = e.stage
        /\ j.answered = TRUE /\ j.headSent = TRUE /\ j.heads = e.heads
    BY <2>2, <2>3 DEF RestKept, BodyKept, Fields, NewConnection
  <2>5. RestKept(k, j) /\ BodyKept(k, j) /\ j.stage = k.stage
    BY <2>2, <2>4 DEF RestKept, BodyKept
  <2>6. j.heads \in {0, 1} /\ j.heads \in {k.heads, k.heads + 1}
    BY <2>1, <2>2, <2>4
  <2>7. Answered(k, j) /\ AnsweredOnce(j)
    BY <1>3, <2>4, <2>6 DEF AnsweredOnce, Answered
  <2> QED BY <2>5, <2>7 DEF j
<1> QED BY <1>1, <1>2, <1>3 DEF Shape

\* What the calls that respond do: nothing, or an answer.
Responds(k, j) ==
  \/ j = k
  \/ /\ RestKept(k, j) /\ BodyKept(k, j) /\ AnsweredOnce(j) /\ Answered(k, j)
     /\ j.stage \in {k.stage, "Closing"}

LEMMA EndBytesEffect ==
  ASSUME NEW k, NEW ts, Shape(k, ts), AnsweredOnce(k), NEW bare \in BOOLEAN
  PROVE  Responds(k, end_bytes(k, bare))
<1> DEFINE j == end_bytes(k, bare)
           h == send_head(k)
           e == enqueue(h, 0)
<1>1. /\ RestKept(k, h) /\ BodyKept(k, h) /\ h.stage = k.stage
      /\ Answered(k, h) /\ AnsweredOnce(h)
  BY SendHeadEffect
<1>2. /\ RestKept(h, e) /\ BodyKept(h, e) /\ e.stage = h.stage
      /\ e.answered = h.answered /\ e.headSent = h.headSent
      /\ e.heads \in {h.heads, h.heads + 0}
  BY <1>1, EnqueueEffect DEF RestKept, AnsweredOnce
<1>3. \/ j = k
      \/ j = h
      \/ j = [h EXCEPT !.ended = TRUE, !.stage = "Closing"]
      \/ j = [e EXCEPT !.ended = TRUE, !.stage = "Closing"]
  BY DEF end_bytes
<1> HIDE DEF j, h, e
<1>4. CASE j = k
  BY <1>4 DEF Responds, j
<1>5. CASE j = h
  BY <1>1, <1>5 DEF Responds, j
<1>6. CASE j = [h EXCEPT !.ended = TRUE, !.stage = "Closing"]
  <2>1. /\ RestKept(h, j) /\ BodyKept(h, j) /\ AnswerKept(h, j) /\ j.stage = "Closing"
    BY <1>1, <1>6 DEF RestKept, BodyKept, AnswerKept, Fields, NewConnection
  <2>2. RestKept(k, j) /\ BodyKept(k, j)
    BY <1>1, <2>1 DEF RestKept, BodyKept
  <2>3. Answered(k, j) /\ AnsweredOnce(j)
    BY <1>1, <2>1 DEF Answered, AnsweredOnce, AnswerKept
  <2> QED BY <2>1, <2>2, <2>3 DEF Responds, j
<1>7. CASE j = [e EXCEPT !.ended = TRUE, !.stage = "Closing"]
  <2>1. /\ RestKept(e, j) /\ BodyKept(e, j) /\ AnswerKept(e, j) /\ j.stage = "Closing"
    BY <1>2, <1>7 DEF RestKept, BodyKept, AnswerKept, Fields, NewConnection
  <2>2. RestKept(k, j) /\ BodyKept(k, j)
    BY <1>1, <1>2, <2>1 DEF RestKept, BodyKept
  <2>3. e.heads = h.heads
    BY <1>1, <1>2 DEF AnsweredOnce
  <2>4. AnswerKept(h, j)
    BY <1>2, <2>1, <2>3 DEF AnswerKept
  <2>5. Answered(k, j) /\ AnsweredOnce(j)
    BY <1>1, <2>4 DEF Answered, AnsweredOnce, AnswerKept
  <2> QED BY <2>1, <2>2, <2>5 DEF Responds, j
<1> QED BY <1>3, <1>4, <1>5, <1>6, <1>7

LEMMA WriteEffect ==
  ASSUME NEW k, NEW ts, Shape(k, ts), AnsweredOnce(k)
  PROVE  Responds(k, write(k))
<1> DEFINE j == write(k)
           h == send_head(k)
           e == enqueue(h, 0)
<1>1. /\ RestKept(k, h) /\ BodyKept(k, h) /\ h.stage = k.stage
      /\ Answered(k, h) /\ AnsweredOnce(h)
  BY SendHeadEffect
<1>2. /\ RestKept(h, e) /\ BodyKept(h, e) /\ e.stage = h.stage
      /\ e.answered = h.answered /\ e.headSent = h.headSent
      /\ e.heads \in {h.heads, h.heads + 0}
  BY <1>1, EnqueueEffect DEF RestKept, AnsweredOnce
<1>3. j = k \/ j = h \/ j = e
  BY DEF write
<1> HIDE DEF j, h, e
<1>4. RestKept(k, e) /\ BodyKept(k, e)
  BY <1>1, <1>2 DEF RestKept, BodyKept
<1>5. e.heads = h.heads
  BY <1>1, <1>2 DEF AnsweredOnce
<1>6. Answered(k, e) /\ AnsweredOnce(e)
  BY <1>1, <1>2, <1>5 DEF Answered, AnsweredOnce
<1> QED BY <1>1, <1>2, <1>3, <1>4, <1>6 DEF Responds, j

LEMMA DestroyEffect ==
  ASSUME NEW k, DOMAIN k = Fields
  PROVE  LET j == destroy(k)
         IN  /\ RestKept(k, j) /\ BodyKept(k, j) /\ AnswerKept(k, j)
             /\ j.stage \in {k.stage, "Closing"}
BY DEF destroy, RestKept, BodyKept, AnswerKept, Fields, NewConnection

LEMMA FailEffect ==
  ASSUME NEW k, NEW ts, Shape(k, ts), AnsweredOnce(k)
  PROVE  Responds(k, fail(k))
<1>1. CASE fail(k) = k
  BY <1>1 DEF Responds
<1>2. CASE fail(k) = end_bytes(k, FALSE)
  BY <1>2, EndBytesEffect
<1>3. CASE k.headSent = TRUE /\ fail(k) = destroy([k EXCEPT !.ended = TRUE])
  <2> DEFINE d == [k EXCEPT !.ended = TRUE]
             j == destroy(d)
  <2>1. RestKept(k, d) /\ BodyKept(k, d) /\ AnswerKept(k, d) /\ d.stage = k.stage
    BY DEF Shape, RestKept, BodyKept, AnswerKept, Fields, NewConnection
  <2> HIDE DEF d
  <2>2. /\ RestKept(d, j) /\ BodyKept(d, j) /\ AnswerKept(d, j)
        /\ j.stage \in {d.stage, "Closing"}
    BY <2>1, DestroyEffect DEF RestKept
  <2> HIDE DEF j
  <2>3. RestKept(k, j) /\ BodyKept(k, j) /\ AnswerKept(k, j) /\ j.stage \in {k.stage, "Closing"}
    BY <2>1, <2>2 DEF RestKept, BodyKept, AnswerKept
  <2>4. Answered(k, j) /\ AnsweredOnce(j)
    BY <1>3, <2>3 DEF AnswerKept, Answered, AnsweredOnce
  <2>5. j = fail(k)
    BY <1>3 DEF j, d
  <2> QED BY <2>3, <2>4, <2>5 DEF Responds
<1> QED BY <1>1, <1>2, <1>3 DEF fail, Shape

\* What a close does: nothing when it is closed, or the reads end.
Closes(k, j) ==
  \/ j = k /\ k.stage = "Closed"
  \/ /\ RestKept(k, j) /\ AnsweredOnce(j)
     /\ \/ j.stage = "Closed" /\ AnswerKept(k, j)
        \/ k.listener = "close" /\ j.stage \in {"Closed", "Closing"} /\ Answered(k, j)
     /\ k.body \in Live => j.body = "Gone" /\ j.waiters = {}
     /\ k.body \notin Live =>
          j.body = k.body /\ j.waiters = k.waiters /\ j.decoded = k.decoded
     /\ j.used = k.used /\ j.received = k.received /\ j.chunk = k.chunk /\ j.left = k.left

LEMMA CloseEffect ==
  ASSUME NEW k, NEW ts, Shape(k, ts), AnsweredOnce(k)
  PROVE  Closes(k, close(k))
<1> DEFINE b == IF k.body \in Live THEN settle(k, "Gone") ELSE k
           d == [b EXCEPT !.stage = "Closed", !.writeShut = TRUE]
           j == close(k)
<1>1. /\ RestKept(k, b) /\ AnswerKept(k, b) /\ b.stage = k.stage
      /\ k.body \in Live => b.body = "Gone" /\ b.waiters = {}
      /\ k.body \notin Live =>
           b.body = k.body /\ b.waiters = k.waiters /\ b.decoded = k.decoded
      /\ b.used = k.used /\ b.received = k.received /\ b.chunk = k.chunk /\ b.left = k.left
  <2>1. CASE k.body \in Live
    BY <2>1, SettleEffect DEF Shape
  <2>2. CASE k.body \notin Live
    BY <2>2 DEF Shape, RestKept, AnswerKept
  <2> QED BY <2>1, <2>2
<1>2. \/ j = k /\ k.stage = "Closed"
      \/ j = d
      \/ k.listener = "close" /\ j = end_bytes(d, FALSE)
  BY DEF close, Live
<1> HIDE DEF b
<1>3. /\ RestKept(b, d) /\ AnswerKept(b, d) /\ BodyKept(b, d) /\ d.stage = "Closed"
  BY <1>1 DEF RestKept, AnswerKept, BodyKept, Fields, NewConnection
<1> HIDE DEF d
<1>4. /\ RestKept(k, d) /\ AnswerKept(k, d) /\ AnsweredOnce(d)
      /\ k.body \in Live => d.body = "Gone" /\ d.waiters = {}
      /\ k.body \notin Live =>
           d.body = k.body /\ d.waiters = k.waiters /\ d.decoded = k.decoded
      /\ d.used = k.used /\ d.received = k.received /\ d.chunk = k.chunk /\ d.left = k.left
  BY <1>1, <1>3 DEF RestKept, AnswerKept, BodyKept, AnsweredOnce
<1>5. Closes(k, d)
  BY <1>3, <1>4 DEF Closes
<1>6. Shape(d, ts)
  <2>1. d.body \in Live \cup {"Read", "StreamEnded", "Gone", "Refused", "Abandoned", "Draining"}
    BY <1>4 DEF Shape
  <2> QED BY <1>3, <1>4, <2>1 DEF Shape, RestKept, AnswerKept
<1>7. ASSUME k.listener = "close" PROVE Closes(k, end_bytes(d, FALSE))
  <2> DEFINE e == end_bytes(d, FALSE)
  <2>1. Responds(d, e)
    BY <1>4, <1>6, EndBytesEffect
  <2> HIDE DEF e
  <2>2. CASE e = d
    BY <1>5, <2>2 DEF e
  <2>3. CASE e # d
    <3>1. /\ RestKept(d, e) /\ BodyKept(d, e) /\ AnsweredOnce(e) /\ Answered(d, e)
          /\ e.stage \in {"Closed", "Closing"}
      BY <1>3, <2>1, <2>3 DEF Responds
    <3>2. RestKept(k, e)
      BY <1>4, <3>1 DEF RestKept
    <3>3. Answered(k, e)
      BY <1>4, <3>1 DEF Answered, AnswerKept
    <3>4. /\ k.body \in Live => e.body = "Gone" /\ e.waiters = {}
          /\ k.body \notin Live =>
               e.body = k.body /\ e.waiters = k.waiters /\ e.decoded = k.decoded
          /\ e.used = k.used /\ e.received = k.received /\ e.chunk = k.chunk /\ e.left = k.left
      BY <1>4, <3>1 DEF BodyKept
    <3> QED BY <1>7, <3>1, <3>2, <3>3, <3>4 DEF Closes, e
  <2> QED BY <2>2, <2>3
<1>8. ASSUME j = k, k.stage = "Closed" PROVE Closes(k, j)
  BY <1>8 DEF Closes
<1> QED BY <1>2, <1>5, <1>7, <1>8 DEF j

LEMMA LeftUnreadEffect ==
  ASSUME NEW k, DOMAIN k = Fields, NEW r
  PROVE  LET j == body_left_unread(k, r)
         IN  /\ DOMAIN j = Fields /\ j.got = k.got /\ j.linger = k.linger
             /\ j.streams = k.streams /\ j.listener = k.listener /\ j.owed = k.owed
             /\ AnswerKept(k, j) /\ j.stage = k.stage
             /\ j.drains \in {k.drains, TRUE}
             /\ \/ BodyKept(k, j) /\ k.body # "Streaming"
                \/ /\ k.body = "Streaming" /\ j.body = "Abandoned" /\ j.waiters = {}
                   /\ j.used = k.used /\ j.received = k.received /\ j.chunk = k.chunk /\ j.left = k.left
             /\ k.body \notin {"Unread", "Streaming"} => j.drains = k.drains
<1> DEFINE b == IF k.body = "Streaming" THEN settle(k, "Abandoned") ELSE k
           j == body_left_unread(k, r)
<1>1. /\ RestKept(k, b) /\ AnswerKept(k, b) /\ b.stage = k.stage
      /\ \/ BodyKept(k, b) /\ k.body # "Streaming"
         \/ /\ k.body = "Streaming" /\ b.body = "Abandoned" /\ b.waiters = {}
            /\ b.used = k.used /\ b.received = k.received /\ b.chunk = k.chunk /\ b.left = k.left
  <2>1. CASE k.body = "Streaming"
    BY <2>1, SettleEffect
  <2>2. CASE k.body # "Streaming"
    BY <2>2 DEF RestKept, AnswerKept, BodyKept
  <2> QED BY <2>1, <2>2
<1>2. \/ j = b
      \/ k.body \in {"Unread", "Streaming"} /\ j = [b EXCEPT !.drains = TRUE]
  BY DEF body_left_unread
<1> HIDE DEF b, j
<1>3. CASE j = b
  BY <1>1, <1>3 DEF j, RestKept, AnswerKept
<1>4. CASE k.body \in {"Unread", "Streaming"} /\ j = [b EXCEPT !.drains = TRUE]
  <2>1. /\ DOMAIN j = Fields /\ j.got = b.got /\ j.linger = b.linger
        /\ j.streams = b.streams /\ j.listener = b.listener /\ j.owed = b.owed
        /\ AnswerKept(b, j) /\ BodyKept(b, j) /\ j.stage = b.stage /\ j.drains = TRUE
    BY <1>1, <1>4 DEF RestKept, AnswerKept, BodyKept, Fields, NewConnection
  <2>2. AnswerKept(k, j)
    BY <1>1, <2>1 DEF AnswerKept
  <2>3. \/ BodyKept(k, j) /\ k.body # "Streaming"
        \/ /\ k.body = "Streaming" /\ j.body = "Abandoned" /\ j.waiters = {}
           /\ j.used = k.used /\ j.received = k.received /\ j.chunk = k.chunk /\ j.left = k.left
    BY <1>1, <2>1 DEF BodyKept
  <2> QED BY <1>1, <1>4, <2>1, <2>2, <2>3 DEF j, RestKept
<1> QED BY <1>2, <1>3, <1>4

\* What the last of an answered connection comes to: its body is drained, or it
\* lingers over one that is not.
Stays(k, r, j) ==
  /\ DOMAIN j = Fields /\ j.got = k.got /\ j.drains = k.drains
  /\ j.streams = k.streams /\ j.listener = k.listener
  /\ AnswerKept(k, j) /\ j.stage = k.stage /\ j.waiters = k.waiters
  /\ j.received = k.received /\ j.chunk = k.chunk /\ j.left = k.left
  /\ j.decoded = k.decoded
  /\ j.body # "Draining" => j.used = k.used /\ j.owed = k.owed
  /\ \/ j.body = k.body
     \/ /\ k.body \in {"Unread", "Abandoned"} /\ r.framing = "length"
        /\ k.drains = TRUE /\ j.body = "Draining"
  /\ \/ j.linger = k.linger
     \/ /\ j.body \in {"Refused", "Abandoned", "Unread"} /\ j.body = k.body
        /\ r.framing = "length" /\ k.body # "Refused" => k.drains = FALSE

LEMMA LingersEffect ==
  ASSUME NEW k, DOMAIN k = Fields, k.drains \in BOOLEAN, NEW r, NEW hungUp
  PROVE  Stays(k, r, lingers(k, r, hungUp).k)
<1> DEFINE unread == k.body \in {"Unread", "Abandoned"}
           drain == unread /\ r.framing = "length" /\ k.drains
           b == IF drain THEN [k EXCEPT !.body = "Draining", !.owed = r.length - k.received]
                ELSE k
           n == Least(b.owed, Len(Inbox(k, r)))
           s == [b EXCEPT !.writeShut = TRUE]
           s1 == [s EXCEPT !.owed = @ - n, !.used = @ + n]
           s2 == [s EXCEPT !.linger = IF @ = "no" THEN "until" ELSE @]
           j == lingers(k, r, hungUp).k
<1>1. \/ j = b
      \/ b.body = "Draining" /\ j = s1
      \/ StillComing(b, r) /\ b.body # "Draining" /\ j = s2
  BY DEF lingers
<1>2. /\ DOMAIN b = Fields /\ b.got = k.got /\ b.drains = k.drains /\ b.linger = k.linger
      /\ b.used = k.used
      /\ b.streams = k.streams /\ b.listener = k.listener
      /\ AnswerKept(k, b) /\ b.stage = k.stage /\ b.waiters = k.waiters
      /\ b.received = k.received /\ b.chunk = k.chunk /\ b.left = k.left
      /\ b.decoded = k.decoded
      /\ \/ ~drain /\ b.body = k.body /\ b.owed = k.owed
         \/ drain /\ b.body = "Draining"
  BY DEF AnswerKept, Fields, NewConnection
<1>3. r.framing = "length" /\ k.body \in {"Unread", "Abandoned"} /\ ~drain => k.drains = FALSE
  OBVIOUS
<1>4. drain => k.body \in {"Unread", "Abandoned"} /\ r.framing = "length" /\ k.drains = TRUE
  OBVIOUS
<1> HIDE DEF b, n
<1>5. /\ DOMAIN s1 = Fields /\ s1.got = b.got /\ s1.drains = b.drains /\ s1.linger = b.linger
      /\ s1.streams = b.streams /\ s1.listener = b.listener
      /\ AnswerKept(b, s1) /\ s1.stage = b.stage /\ s1.waiters = b.waiters
      /\ s1.received = b.received /\ s1.chunk = b.chunk /\ s1.left = b.left
      /\ s1.decoded = b.decoded /\ s1.body = b.body
  BY <1>2 DEF AnswerKept, Fields, NewConnection
<1>6. /\ DOMAIN s2 = Fields /\ s2.got = b.got /\ s2.drains = b.drains
      /\ s2.streams = b.streams /\ s2.listener = b.listener
      /\ AnswerKept(b, s2) /\ s2.stage = b.stage /\ s2.waiters = b.waiters
      /\ s2.received = b.received /\ s2.chunk = b.chunk /\ s2.left = b.left
      /\ s2.decoded = b.decoded /\ s2.body = b.body /\ s2.used = b.used
      /\ s2.owed = b.owed
  BY <1>2 DEF AnswerKept, Fields, NewConnection
<1> HIDE DEF s1, s2, j, drain
<1>7. CASE j = b
  BY <1>2, <1>4, <1>7 DEF Stays, j
<1>8. CASE b.body = "Draining" /\ j = s1
  <2>1. AnswerKept(k, s1)
    BY <1>2, <1>5 DEF AnswerKept
  <2> QED BY <1>2, <1>4, <1>5, <1>8, <2>1 DEF Stays, j
<1>9. CASE StillComing(b, r) /\ b.body # "Draining" /\ j = s2
  <2>1. AnswerKept(k, s2)
    BY <1>2, <1>6 DEF AnswerKept
  <2>2. j.body \in {"Refused", "Abandoned", "Unread"} /\ j.body = k.body /\ ~drain
    BY <1>2, <1>6, <1>9 DEF StillComing
  <2> QED BY <1>2, <1>3, <1>6, <1>9, <2>1, <2>2 DEF Stays, j
<1> QED BY <1>1, <1>7, <1>8, <1>9

-----------------------------------------------------------------------------
(***************************************************************************)
(* The place in the message.                                               *)
(***************************************************************************)

\* From k to j nothing more is taken out of the inbox.
SamePlace(k, j) ==
  /\ j.body = k.body /\ j.used = k.used /\ j.owed = k.owed
  /\ j.received = k.received /\ j.chunk = k.chunk /\ j.left = k.left
  /\ k.got \in Nat /\ j.got \in Nat /\ k.got <= j.got

LEMMA PlacedKept ==
  ASSUME NEW k, NEW r, Placed(k, r), NEW j, SamePlace(k, j),
         \/ j.stage = k.stage
         \/ j.stage # "Upgraded" /\ (Dispatched(k) \/ r.head # "plain")
  PROVE  Placed(j, r)
<1>1. ASSUME r.head = "plain", Framed(r), Dispatched(j), j.body \notin {"Gone", "Refused"}
      PROVE  InPlace(j, r)
  <2>1. Dispatched(k) /\ InPlace(k, r)
    BY <1>1 DEF Placed, SamePlace, Dispatched
  <2>2. /\ j.used \in 1..j.got /\ (j.body = "Unread" => j.used = 1)
        /\ j.body = "Draining" => r.framing = "length"
    BY <2>1 DEF InPlace, SamePlace
  <2>3. r.framing = "length" => ByLength(j, r)
    BY <2>1 DEF InPlace, SamePlace, ByLength
  <2>4. r.framing = "chunked" => ByChunks(j, r.body)
    <3>1. ByChunks(k, r.body) => ByChunks(j, r.body)
      BY DEF SamePlace, ByChunks, Decoded, Ended
    <3> QED BY <2>1, <3>1 DEF InPlace
  <2> QED BY <2>2, <2>3, <2>4 DEF InPlace
<1> QED BY <1>1 DEF Placed, SamePlace

\* The body is lost.
LEMMA PlacedLost ==
  ASSUME NEW k, NEW r, Placed(k, r), NEW j, j.body \in {"Gone", "Refused"},
         r.framing = "empty" => j.received = 0,
         j.stage = k.stage \/ j.stage # "Upgraded"
  PROVE  Placed(j, r)
BY DEF Placed

LEMMA PlacedCloses ==
  ASSUME NEW k, NEW ts, Untouched(k, ts), NEW r, NEW g, Counting(k, r, g), Placed(k, r),
         NEW j, Closes(k, j)
  PROVE  Placed(j, r)
<1>1. CASE j = k
  BY <1>1
<1>2. CASE j # k
  <2>1. /\ RestKept(k, j) /\ j.stage \in {"Closed", "Closing"}
        /\ k.body \in Live => j.body = "Gone"
        /\ k.body \notin Live => j.body = k.body
        /\ j.used = k.used /\ j.received = k.received /\ j.chunk = k.chunk /\ j.left = k.left
    BY <1>2 DEF Closes
  <2>2. CASE k.body \in Live
    <3>1. r.framing = "empty" => j.received = 0
      BY <2>1 DEF Placed
    <3> QED BY <2>1, <2>2, <3>1, PlacedLost
  <2>3. CASE k.body \notin Live
    <3>1. SamePlace(k, j)
      BY <2>1, <2>3 DEF SamePlace, RestKept, Counting
    <3>2. Dispatched(k)
      BY <2>3 DEF Untouched, Dispatched, Live
    <3> QED BY <2>1, <3>1, <3>2, PlacedKept
  <2> QED BY <2>2, <2>3
<1> QED BY <1>1, <1>2

\* A body that nobody has asked for is abandoned as it is, or has been.
LEMMA PlacedLeftUnread ==
  ASSUME NEW k, DOMAIN k = Fields, NEW r, NEW g, Counting(k, r, g), Placed(k, r)
  PROVE  Placed(body_left_unread(k, r), r)
<1> DEFINE j == body_left_unread(k, r)
<1>1. /\ DOMAIN j = Fields /\ j.got = k.got /\ j.linger = k.linger
      /\ j.streams = k.streams /\ j.listener = k.listener /\ j.owed = k.owed
      /\ AnswerKept(k, j) /\ j.stage = k.stage
      /\ j.drains \in {k.drains, TRUE}
      /\ \/ BodyKept(k, j) /\ k.body # "Streaming"
         \/ /\ k.body = "Streaming" /\ j.body = "Abandoned" /\ j.waiters = {}
            /\ j.used = k.used /\ j.received = k.received /\ j.chunk = k.chunk /\ j.left = k.left
      /\ k.body \notin {"Unread", "Streaming"} => j.drains = k.drains
  BY LeftUnreadEffect, Zenon
<1> HIDE DEF j
<1>2. CASE BodyKept(k, j)
  <2>1. SamePlace(k, j)
    BY <1>1, <1>2 DEF SamePlace, BodyKept, Counting
  <2> QED BY <1>1, <2>1, PlacedKept DEF j
<1>3. CASE /\ k.body = "Streaming" /\ j.body = "Abandoned"
           /\ j.used = k.used /\ j.received = k.received
  <2>1. ASSUME r.head = "plain", Framed(r), Dispatched(j)
        PROVE  InPlace(j, r)
    <3>1. InPlace(k, r)
      BY <1>1, <1>3, <2>1 DEF Placed, Dispatched
    <3>2. r.framing = "length" => ByLength(j, r)
      BY <1>3, <3>1 DEF InPlace, ByLength
    <3>3. ByChunks(j, r.body)
      BY <1>3 DEF ByChunks, Live
    <3> QED BY <1>1, <1>3, <3>1, <3>2, <3>3 DEF InPlace
  <2> QED BY <1>1, <1>3, <2>1 DEF Placed, j
<1> QED BY <1>1, <1>2, <1>3

-----------------------------------------------------------------------------
(***************************************************************************)
(* The chunked decoder.                                                    *)
(***************************************************************************)
\* The decoder at f, having started from k.
Fed(k, f) ==
  /\ DOMAIN f = {"k", "out"} /\ f.out \in {"More", "Done", "OverLimit", "Malformed"}
  /\ RestKept(k, f.k) /\ AnswerKept(k, f.k) /\ f.k.stage = k.stage
  /\ f.k.body = k.body /\ f.k.waiters = k.waiters
  /\ Counts(f.k)
  /\ f.out = "More" => f.k.chunk \in Decoding
  /\ f.k.decoded + k.received = f.k.received + k.decoded

LEMMA FeedPieceEffect ==
  ASSUME NEW k, Counts(k), NEW f, Fed(k, f), NEW p \in Piece
  PROVE  Fed(k, FeedPiece(f, p))
<1> DEFINE u == [f.k EXCEPT !.used = @ + 1]
           g == FeedPiece(f, p)
           Moved(s, n) == [u EXCEPT !.chunk = s, !.left = n]
           taken == [u EXCEPT !.decoded = @ + 1, !.received = @ + 1, !.left = @ - 1,
                              !.chunk = IF u.left = 1 THEN "DataEnd" ELSE @]
<1>1. /\ RestKept(k, u) /\ AnswerKept(k, u) /\ u.stage = k.stage
      /\ u.body = k.body /\ u.waiters = k.waiters /\ Counts(u)
      /\ u.decoded + k.received = u.received + k.decoded
      /\ u.chunk = f.k.chunk
  BY DEF Fed, RestKept, AnswerKept, Counts, Fields, NewConnection
<1> HIDE DEF u
<1>2. ASSUME NEW s \in Decoding \cup {"Done"}, NEW n \in Nat, u.received + n <= Cap,
             s = "Data" => n > 0
      PROVE  /\ RestKept(k, Moved(s, n)) /\ AnswerKept(k, Moved(s, n))
             /\ Moved(s, n).stage = k.stage /\ Moved(s, n).body = k.body
             /\ Moved(s, n).waiters = k.waiters /\ Counts(Moved(s, n))
             /\ Moved(s, n).decoded + k.received = Moved(s, n).received + k.decoded
             /\ Moved(s, n).chunk = s
  BY <1>1, <1>2 DEF RestKept, AnswerKept, Counts, Fields, NewConnection
<1>3. ASSUME u.chunk = "Data"
      PROVE  /\ RestKept(k, taken) /\ AnswerKept(k, taken)
             /\ taken.stage = k.stage /\ taken.body = k.body
             /\ taken.waiters = k.waiters /\ Counts(taken)
             /\ taken.decoded + k.received = taken.received + k.decoded
             /\ taken.chunk \in {"Data", "DataEnd"}
  <2>1. /\ RestKept(k, taken) /\ AnswerKept(k, taken)
        /\ taken.stage = k.stage /\ taken.body = k.body /\ taken.waiters = k.waiters
        /\ taken.used = u.used /\ taken.decoded = u.decoded + 1
        /\ taken.received = u.received + 1 /\ taken.left = u.left - 1
        /\ taken.chunk = IF u.left = 1 THEN "DataEnd" ELSE "Data"
    BY <1>1, <1>3 DEF RestKept, AnswerKept, Fields, NewConnection
  <2> HIDE DEF taken
  <2>2. u.left > 0
    BY <1>1, <1>3 DEF Counts
  <2>3. Counts(taken)
    BY <1>1, <2>1, <2>2 DEF Counts
  <2>4. taken.decoded + k.received = taken.received + k.decoded
    BY <1>1, <2>1 DEF Counts
  <2> QED BY <2>1, <2>3, <2>4
<1>4. Cap \in Nat
  BY HttpAssumption
<1>5. f.out = "More" => f.k.chunk \in Decoding
  BY DEF Fed
<1>6. CASE f.out # "More"
  <2>1. g = f
    BY <1>6 DEF FeedPiece
  <2> QED BY <2>1
<1>7. ASSUME f.out = "More"
      PROVE  \/ \E o \in {"OverLimit", "Malformed"} : g = [f EXCEPT !.k = u, !.out = o]
             \/ \E s \in Decoding, n \in Nat :
                  /\ u.received + n <= Cap /\ (s = "Data" => n > 0)
                  /\ g = [f EXCEPT !.k = Moved(s, n)]
             \/ g = [[f EXCEPT !.k = Moved("Done", 0)] EXCEPT !.out = "Done"]
             \/ u.chunk = "Data" /\ g = [f EXCEPT !.k = taken]
  <2>1. u.received + 0 <= Cap
    BY <1>1, <1>4 DEF Counts
  <2>2. CASE u.chunk = "Size"
    <3>1. CASE p.kind # "size"
      <4>1. g = [f EXCEPT !.k = u, !.out = "Malformed"]
        BY <1>7, <2>2, <3>1 DEF FeedPiece, u
      <4> QED BY <4>1
    <3>2. CASE p.kind = "size" /\ p.size = 0
      <4>1. g = [f EXCEPT !.k = Moved("Trailers", 0)]
        BY <1>7, <2>2, <3>2 DEF FeedPiece, u
      <4> QED BY <2>1, <4>1 DEF Decoding
    <3>3. CASE p.kind = "size" /\ p.size # 0 /\ ~WithinCap(u, p.size)
      <4>1. g = [f EXCEPT !.k = u, !.out = "OverLimit"]
        BY <1>7, <2>2, <3>3 DEF FeedPiece, u
      <4> QED BY <4>1
    <3>4. CASE p.kind = "size" /\ p.size # 0 /\ WithinCap(u, p.size)
      <4>1. g = [f EXCEPT !.k = Moved("Data", p.size)]
        BY <1>7, <2>2, <3>4 DEF FeedPiece, u
      <4>2. p.size \in Nat /\ p.size > 0
        BY <3>4 DEF Piece, Data, Blank, Junk
      <4>3. u.received + p.size <= Cap
        BY <3>4 DEF WithinCap
      <4> QED BY <4>1, <4>2, <4>3 DEF Decoding
    <3> QED BY <3>1, <3>2, <3>3, <3>4
  <2>3. CASE u.chunk = "Data"
    <3>1. g = [f EXCEPT !.k = taken]
      BY <1>7, <2>3 DEF FeedPiece, u
    <3> QED BY <2>3, <3>1
  <2>4. CASE u.chunk = "DataEnd"
    <3>1. CASE p = Blank
      <4>1. g = [f EXCEPT !.k = Moved("Size", 0)]
        BY <1>7, <2>4, <3>1 DEF FeedPiece, u
      <4> QED BY <2>1, <4>1 DEF Decoding
    <3>2. CASE p # Blank
      <4>1. g = [f EXCEPT !.k = u, !.out = "Malformed"]
        BY <1>7, <2>4, <3>2 DEF FeedPiece, u
      <4> QED BY <4>1
    <3> QED BY <3>1, <3>2
  <2>5. CASE u.chunk = "Trailers"
    <3>1. CASE p = Blank
      <4>1. g = [[f EXCEPT !.k = Moved("Done", 0)] EXCEPT !.out = "Done"]
        BY <1>7, <2>5, <3>1 DEF FeedPiece, u
      <4> QED BY <4>1
    <3>2. CASE p # Blank
      <4>1. g = [f EXCEPT !.k = Moved("Trailers", 0)]
        BY <1>7, <2>5, <3>2 DEF FeedPiece, u
      <4> QED BY <2>1, <4>1 DEF Decoding
    <3> QED BY <3>1, <3>2
  <2> QED BY <1>1, <1>5, <1>7, <2>2, <2>3, <2>4, <2>5 DEF Decoding
<1>8. DOMAIN f = {"k", "out"}
  BY DEF Fed
<1> HIDE DEF g, taken, Moved
<1>9. CASE f.out = "More"
  <2>1. ASSUME NEW o \in {"OverLimit", "Malformed"}, g = [f EXCEPT !.k = u, !.out = o]
        PROVE  Fed(k, g)
    <3>1. DOMAIN g = {"k", "out"} /\ g.k = u /\ g.out = o
      BY <1>8, <2>1
    <3> QED BY <1>1, <3>1 DEF Fed
  <2>2. ASSUME NEW s \in Decoding, NEW n \in Nat, u.received + n <= Cap,
               s = "Data" => n > 0, g = [f EXCEPT !.k = Moved(s, n)]
        PROVE  Fed(k, g)
    <3>1. DOMAIN g = {"k", "out"} /\ g.k = Moved(s, n) /\ g.out = "More"
      BY <1>8, <1>9, <2>2
    <3> QED BY <1>2, <2>2, <3>1 DEF Fed
  <2>3. ASSUME g = [[f EXCEPT !.k = Moved("Done", 0)] EXCEPT !.out = "Done"]
        PROVE  Fed(k, g)
    <3>1. DOMAIN g = {"k", "out"} /\ g.k = Moved("Done", 0) /\ g.out = "Done"
      BY <1>8, <2>3
    <3>2. u.received + 0 <= Cap
      BY <1>1, <1>4 DEF Counts
    <3> QED BY <1>2, <3>1, <3>2 DEF Fed
  <2>4. ASSUME u.chunk = "Data", g = [f EXCEPT !.k = taken]
        PROVE  Fed(k, g)
    <3>1. DOMAIN g = {"k", "out"} /\ g.k = taken /\ g.out = "More"
      BY <1>8, <1>9, <2>4
    <3> QED BY <1>3, <2>4, <3>1 DEF Fed, Decoding
  <2> QED BY <1>7, <1>9, <2>1, <2>2, <2>3, <2>4 DEF g
<1> QED BY <1>6, <1>9 DEF g

\* A set of numbers that is not empty has a least one.
LEMMA LeastOf ==
  ASSUME NEW S \in SUBSET Nat, S # {}
  PROVE  \E m \in S : \A n \in S : m <= n
<1> DEFINE R == StrictSubsetOrdering(Nat)
           T == {0..n : n \in S}
<1>1. T \subseteq FiniteSubsetsOf(Nat) /\ T # {}
  <2>1. ASSUME NEW n \in S PROVE 0..n \in SUBSET Nat /\ IsFiniteSet(0..n)
    <3>1. 0 \in Int /\ n \in Int /\ 0..n \subseteq Nat
      OBVIOUS
    <3> QED BY <3>1, FS_Interval
  <2> QED BY <2>1 DEF FiniteSubsetsOf
<1>2. \E x \in T : \A y \in T : <<y, x>> \notin R
  <2>1. IsWellFoundedOn(R, FiniteSubsetsOf(Nat))
    BY FS_StrictSubsetOrderingWellFounded
  <2> HIDE DEF R, T
  <2> QED BY <1>1, <2>1, WFMin
<1>3. PICK m \in S : \A n \in S : <<0..n, 0..m>> \notin R
  BY <1>2
<1>4. ASSUME NEW n \in S, n < m PROVE FALSE
  <2>1. 0..n \in SUBSET Nat /\ 0..m \in SUBSET Nat /\ 0..n \subseteq 0..m /\ 0..n # 0..m
    BY <1>4
  <2> QED BY <1>3, <2>1 DEF StrictSubsetOrdering
<1> QED BY <1>4

\* Feeding a piece at a time from k on, up to piece m.
Step(k, inbox, h, m) ==
  [n \in 0..m |-> IF n = 0 THEN [k |-> k, out |-> "More"] ELSE FeedPiece(h[n - 1], inbox[n])]

LEMMA FeedIsFed ==
  ASSUME NEW k, NEW inbox, Len(inbox) \in Nat
  PROVE  \E h : h = Step(k, inbox, h, Len(inbox)) /\ feed(k, inbox) = h[Len(inbox)]
<1> DEFINE Bad == {m \in Nat : ~ \E h : h = Step(k, inbox, h, m)}
<1>1. 0 \notin Bad
  <2> DEFINE h == [n \in 0..0 |-> [k |-> k, out |-> "More"]]
  <2>1. h = Step(k, inbox, h, 0)
    BY DEF Step
  <2> QED BY <2>1
<1>2. ASSUME NEW m \in Nat, m # 0, m - 1 \notin Bad PROVE m \notin Bad
  <2>1. PICK h : h = Step(k, inbox, h, m - 1)
    BY <1>2
  <2> DEFINE x == [k |-> k, out |-> "More"]
             last == FeedPiece(h[m - 1], inbox[m])
             g == [n \in 0..m |-> IF n = m THEN last ELSE h[n]]
  <2>2. \A n \in 0..m - 1 : h[n] = IF n = 0 THEN x ELSE FeedPiece(h[n - 1], inbox[n])
    <3>1. \A n \in 0..m - 1 : Step(k, inbox, h, m - 1)[n] =
            IF n = 0 THEN x ELSE FeedPiece(h[n - 1], inbox[n])
      BY DEF Step
    <3> QED BY <2>1, <3>1
  <2>3. \A n \in 0..m - 1 : g[n] = h[n]
    BY <1>2
  <2>4. g[m] = last
    BY <1>2
  <2>5. \A n \in 0..m : g[n] = IF n = 0 THEN x ELSE FeedPiece(g[n - 1], inbox[n])
    <3> HIDE DEF x, last, g
    <3>1. ASSUME NEW n \in 0..m
          PROVE g[n] = IF n = 0 THEN x ELSE FeedPiece(g[n - 1], inbox[n])
      <4>1. CASE n = m
        <5>1. m - 1 \in 0..m - 1
          BY <1>2
        <5>2. g[m - 1] = h[m - 1]
          BY <2>3, <5>1
        <5> QED BY <1>2, <2>4, <4>1, <5>2 DEF last
      <4>2. CASE n = 0
        BY <1>2, <2>2, <2>3, <4>2
      <4>3. CASE n # m /\ n # 0
        <5>1. n \in 0..m - 1 /\ n - 1 \in 0..m - 1
          BY <1>2, <4>3
        <5>2. g[n] = h[n] /\ g[n - 1] = h[n - 1]
          BY <2>3, <5>1
        <5> QED BY <2>2, <4>3, <5>1, <5>2
      <4> QED BY <4>1, <4>2, <4>3
    <3> QED BY <3>1
  <2>6. g = [n \in 0..m |-> g[n]]
    OBVIOUS
  <2> HIDE DEF g
  <2>7. g = Step(k, inbox, g, m)
    BY <2>5, <2>6 DEF Step
  <2> QED BY <2>7
<1>3. Bad = {}
  <2> SUFFICES ASSUME Bad # {} PROVE FALSE
    OBVIOUS
  <2>1. PICK m \in Bad : \A n \in Bad : m <= n
    BY LeastOf
  <2>2. m \in Nat /\ m # 0
    BY <1>1
  <2>3. m - 1 \notin Bad
    <3> HIDE DEF Bad
    <3> QED BY <2>1, <2>2
  <2> QED BY <1>2, <2>2, <2>3
<1>4. \E h : h = Step(k, inbox, h, Len(inbox))
  BY <1>3
<1> DEFINE f == CHOOSE h : h = Step(k, inbox, h, Len(inbox))
<1>5. f = Step(k, inbox, f, Len(inbox))
  BY <1>4
<1>6. feed(k, inbox) = f[Len(inbox)]
  BY DEF feed, Step
<1> QED BY <1>5, <1>6

\* What starts at 0 and goes on from each number to the next reaches them all.
LEMMA ReachesAll ==
  ASSUME NEW L \in Nat, NEW S, 0 \in S, \A n \in 1..L : n - 1 \in S => n \in S
  PROVE  \A n \in 0..L : n \in S
<1> DEFINE Bad == {n \in 0..L : n \notin S}
<1>1. Bad = {}
  <2> SUFFICES ASSUME Bad # {} PROVE FALSE
    OBVIOUS
  <2>1. Bad \in SUBSET Nat
    OBVIOUS
  <2>2. PICK m \in Bad : \A n \in Bad : m <= n
    <3> HIDE DEF Bad
    <3> QED BY <2>1, LeastOf
  <2>3. m \in 1..L /\ m \notin S
    OBVIOUS
  <2>4. m - 1 \in 0..L /\ m - 1 \notin Bad
    <3>1. m - 1 \in 0..L /\ ~(m <= m - 1)
      BY <2>3
    <3> HIDE DEF Bad
    <3> QED BY <2>2, <3>1
  <2> QED BY <2>3, <2>4
<1> QED BY <1>1

LEMMA StepIs ==
  ASSUME NEW k, NEW inbox, NEW L \in Nat, NEW h, h = Step(k, inbox, h, L)
  PROVE  /\ h[0] = [k |-> k, out |-> "More"]
         /\ \A n \in 1..L : h[n] = FeedPiece(h[n - 1], inbox[n])
<1>1. \A n \in 0..L : Step(k, inbox, h, L)[n] =
        IF n = 0 THEN [k |-> k, out |-> "More"] ELSE FeedPiece(h[n - 1], inbox[n])
  BY DEF Step
<1> QED BY <1>1

\* Feeding keeps the counts, and all but the counts.
LEMMA StepsAreFed ==
  ASSUME NEW k, DOMAIN k = Fields, Counts(k), k.chunk \in Decoding,
         NEW inbox \in Seq(Piece), NEW h, h = Step(k, inbox, h, Len(inbox))
  PROVE  \A n \in 0..Len(inbox) : Fed(k, h[n])
<1> DEFINE L == Len(inbox)
           S == {n \in 0..L : Fed(k, h[n])}
<1>1. L \in Nat /\ \A n \in 1..L : inbox[n] \in Piece
  BY LenProperties
<1>2. /\ h[0] = [k |-> k, out |-> "More"]
      /\ \A n \in 1..L : h[n] = FeedPiece(h[n - 1], inbox[n])
  BY <1>1, StepIs
<1>3. Fed(k, [k |-> k, out |-> "More"])
  BY DEF Fed, RestKept, AnswerKept, Counts
<1> HIDE DEF L
<1>4. 0 \in S
  BY <1>1, <1>2, <1>3
<1>5. ASSUME NEW n \in 1..L, n - 1 \in S PROVE n \in S
  <2>1. Fed(k, FeedPiece(h[n - 1], inbox[n]))
    BY <1>1, <1>5, FeedPieceEffect
  <2> QED BY <1>1, <1>2, <1>5, <2>1
<1> HIDE DEF S
<1>6. \A n \in 0..L : n \in S
  BY <1>1, <1>4, <1>5, ReachesAll
<1> QED BY <1>6 DEF S, L

LEMMA FeedEffect ==
  ASSUME NEW k, DOMAIN k = Fields, Counts(k), k.chunk \in Decoding,
         NEW inbox \in Seq(Piece)
  PROVE  Fed(k, feed(k, inbox))
<1>1. Len(inbox) \in Nat
  BY LenProperties
<1>2. PICK h : h = Step(k, inbox, h, Len(inbox)) /\ feed(k, inbox) = h[Len(inbox)]
  BY <1>1, FeedIsFed
<1>3. \A n \in 0..Len(inbox) : Fed(k, h[n])
  BY <1>2, StepsAreFed
<1> QED BY <1>1, <1>2, <1>3

\* Another piece of a body: its data is one more, or what it was.
LEMMA DataToNext ==
  ASSUME NEW b, NEW m \in Nat
  PROVE  /\ Cardinality(DataTo(b, m)) \in Nat
         /\ b[m + 1] = Data =>
              Cardinality(DataTo(b, m + 1)) = Cardinality(DataTo(b, m)) + 1
         /\ b[m + 1] # Data => DataTo(b, m + 1) = DataTo(b, m)
<1>1. IsFiniteSet(DataTo(b, m))
  <2>1. IsFiniteSet(1..m)
    BY FS_Interval
  <2> QED BY <2>1, FS_Subset DEF DataTo
<1>2. Cardinality(DataTo(b, m)) \in Nat
  BY <1>1, FS_CardinalityType
<1>3. ASSUME b[m + 1] = Data
      PROVE  Cardinality(DataTo(b, m + 1)) = Cardinality(DataTo(b, m)) + 1
  <2>1. DataTo(b, m + 1) = DataTo(b, m) \cup {m + 1} /\ m + 1 \notin DataTo(b, m)
    BY <1>3 DEF DataTo
  <2> QED BY <1>1, <2>1, FS_AddElement
<1>4. b[m + 1] # Data => DataTo(b, m + 1) = DataTo(b, m)
  BY DEF DataTo
<1> QED BY <1>2, <1>3, <1>4
\* A decoder at k goes on at g, to state s with n units left of its chunk.
GoesOn(k, g, s, n) ==
  g.out = "More" /\ g.k.received = k.received /\ g.k.chunk = s /\ g.k.left = n

\* What piece p makes of a decoder at k that goes on, g being what it gives.
Feeds(k, p, g) ==
  /\ g.k.used = k.used + 1
  /\ \/ g.out \in {"OverLimit", "Malformed"}
     \/ k.chunk = "Size" /\ p = Size(0) /\ GoesOn(k, g, "Trailers", 0)
     \/ /\ k.chunk = "Size" /\ p.kind = "size" /\ p.size \in Nat \ {0}
        /\ GoesOn(k, g, "Data", p.size)
     \/ /\ k.chunk = "Data" /\ g.out = "More"
        /\ g.k.received = k.received + 1 /\ g.k.left = k.left - 1
        /\ g.k.chunk = IF k.left = 1 THEN "DataEnd" ELSE "Data"
     \/ k.chunk = "DataEnd" /\ p = Blank /\ GoesOn(k, g, "Size", 0)
     \/ k.chunk = "Trailers" /\ p # Blank /\ GoesOn(k, g, "Trailers", 0)
     \/ k.chunk = "Trailers" /\ p = Blank /\ g.out = "Done" /\ g.k.received = k.received

LEMMA FeedPieceIs ==
  ASSUME NEW f, DOMAIN f = {"k", "out"}, f.out = "More", DOMAIN f.k = Fields,
         f.k.chunk \in Decoding, NEW p \in Piece
  PROVE  Feeds(f.k, p, FeedPiece(f, p))
<1> DEFINE u == [f.k EXCEPT !.used = @ + 1]
           Moved(s, n) == [u EXCEPT !.chunk = s, !.left = n]
           taken == [u EXCEPT !.decoded = @ + 1, !.received = @ + 1, !.left = @ - 1,
                              !.chunk = IF u.left = 1 THEN "DataEnd" ELSE @]
           g == FeedPiece(f, p)
<1>1. /\ DOMAIN u = Fields /\ u.used = f.k.used + 1 /\ u.received = f.k.received
      /\ u.chunk = f.k.chunk /\ u.left = f.k.left
  BY DEF Fields, NewConnection
<1>2. \A s, n : /\ Moved(s, n).used = f.k.used + 1 /\ Moved(s, n).received = f.k.received
                /\ Moved(s, n).chunk = s /\ Moved(s, n).left = n
  BY <1>1 DEF Fields, NewConnection
<1>3. /\ taken.used = f.k.used + 1 /\ taken.received = f.k.received + 1
      /\ taken.left = f.k.left - 1
      /\ taken.chunk = IF f.k.left = 1 THEN "DataEnd" ELSE f.k.chunk
  BY <1>1 DEF Fields, NewConnection
<1>4. p.kind = "size" => p = [kind |-> "size", size |-> p.size] /\ p.size \in Nat
  BY DEF Piece, Data, Blank, Junk
<1>5. \A x, o : LET e == [f EXCEPT !.k = x, !.out = o] IN e.k = x /\ e.out = o
  OBVIOUS
<1>6. \A x : LET e == [f EXCEPT !.k = x] IN e.k = x /\ e.out = "More"
  OBVIOUS
<1>7. \A x, o : LET e == [[f EXCEPT !.k = x] EXCEPT !.out = o] IN e.k = x /\ e.out = o
  OBVIOUS
<1>8. CASE f.k.chunk = "Size"
  <2>1. \/ \E o \in {"Malformed", "OverLimit"} : g = [f EXCEPT !.k = u, !.out = o]
        \/ p.kind = "size" /\ p.size = 0 /\ g = [f EXCEPT !.k = Moved("Trailers", 0)]
        \/ p.kind = "size" /\ p.size # 0 /\ g = [f EXCEPT !.k = Moved("Data", p.size)]
    BY <1>1, <1>8 DEF FeedPiece
  <2> HIDE DEF g, u, Moved
  <2>2. ASSUME NEW o \in {"Malformed", "OverLimit"}, g = [f EXCEPT !.k = u, !.out = o]
        PROVE  g.k = u /\ g.out = o
    BY <1>5, <2>2
  <2>3. ASSUME NEW s, NEW n, g = [f EXCEPT !.k = Moved(s, n)]
        PROVE  g.k.used = f.k.used + 1 /\ GoesOn(f.k, g, s, n)
    BY <1>2, <1>6, <2>3 DEF GoesOn
  <2>4. p.kind = "size" /\ p.size = 0 => p = Size(0)
    BY <1>4 DEF Size
  <2> QED BY <1>1, <1>4, <1>8, <2>1, <2>2, <2>3, <2>4 DEF g, Feeds
<1>9. CASE f.k.chunk = "Data"
  <2>1. g = [f EXCEPT !.k = taken]
    BY <1>1, <1>9 DEF FeedPiece
  <2> HIDE DEF g, taken
  <2>2. g.k = taken /\ g.out = "More"
    BY <1>6, <2>1
  <2> QED BY <1>3, <1>9, <2>2 DEF g, Feeds
<1>10. CASE f.k.chunk = "DataEnd"
  <2>1. \/ g = [f EXCEPT !.k = u, !.out = "Malformed"]
        \/ p = Blank /\ g = [f EXCEPT !.k = Moved("Size", 0)]
    BY <1>1, <1>10 DEF FeedPiece
  <2> HIDE DEF g, u, Moved
  <2>2. ASSUME g = [f EXCEPT !.k = u, !.out = "Malformed"]
        PROVE  g.k = u /\ g.out = "Malformed"
    BY <1>5, <2>2
  <2>3. ASSUME g = [f EXCEPT !.k = Moved("Size", 0)]
        PROVE  g.k.used = f.k.used + 1 /\ GoesOn(f.k, g, "Size", 0)
    BY <1>2, <1>6, <2>3 DEF GoesOn
  <2> QED BY <1>1, <1>10, <2>1, <2>2, <2>3 DEF g, Feeds
<1>11. CASE f.k.chunk = "Trailers"
  <2>1. \/ p = Blank /\ g = [[f EXCEPT !.k = Moved("Done", 0)] EXCEPT !.out = "Done"]
        \/ p # Blank /\ g = [f EXCEPT !.k = Moved("Trailers", 0)]
    BY <1>1, <1>11 DEF FeedPiece
  <2> HIDE DEF g, u, Moved
  <2>2. ASSUME g = [[f EXCEPT !.k = Moved("Done", 0)] EXCEPT !.out = "Done"]
        PROVE  g.k = Moved("Done", 0) /\ g.out = "Done"
    BY <1>7, <2>2
  <2>3. ASSUME g = [f EXCEPT !.k = Moved("Trailers", 0)]
        PROVE  g.k.used = f.k.used + 1 /\ GoesOn(f.k, g, "Trailers", 0)
    BY <1>2, <1>6, <2>3 DEF GoesOn
  <2> QED BY <1>2, <1>11, <2>1, <2>2, <2>3 DEF g, Feeds
<1> QED BY <1>8, <1>9, <1>10, <1>11 DEF Decoding

\* A piece of a body that is what it says takes the decoder on.
LEMMA FeedPiecePlaces ==
  ASSUME NEW r, r.framing = "chunked", Framed(r), r.body \in Seq(Piece),
         NEW f, DOMAIN f = {"k", "out"}, f.out = "More", DOMAIN f.k = Fields,
         Counts(f.k), f.k.chunk \in Decoding, Decoded(f.k, r.body),
         f.k.used \in 1..Len(r.body)
  PROVE  LET g == FeedPiece(f, r.body[f.k.used])
         IN  /\ g.k.used = f.k.used + 1
             /\ g.out = "More" => Decoded(g.k, r.body)
             /\ g.out = "Done" => Ended(g.k, r.body)
<1> DEFINE b == r.body
           k == f.k
           m == k.used - 1
           p == b[k.used]
           g == FeedPiece(f, p)
<1>1. /\ Len(b) \in Nat /\ m \in Nat /\ m + 1 = k.used /\ m + 1 \in 1..Len(b)
      /\ p \in Piece /\ p = b[m + 1]
  BY LenProperties
<1>2. /\ k.received = Cardinality(DataTo(b, m))
      /\ \A j \in 1..m : b[j].kind = "size" => j + b[j].size <= m + k.left
      /\ k.chunk = "Data" => \E j \in 1..m : b[j].kind = "size" /\ j + b[j].size = m + k.left
      /\ k.chunk # "Data" => k.left = 0
      /\ k.chunk = "Trailers" => \E j \in 1..m : b[j] = Size(0)
  BY DEF Decoded
<1>3. k.left \in Nat /\ (k.chunk = "Data" => k.left > 0)
  BY DEF Counts
<1>4. /\ \A i \in 1..Len(b) : b[i] = Data <=> InChunk(b, i)
      /\ \A i, j \in 1..Len(b) : b[i] = Size(0) /\ i < j =>
           b[j].kind # "size" /\ (b[j] = Blank => j = Len(b))
  BY DEF Framed
<1>5. \A j \in 1..m : b[j] \in Piece /\ (b[j].kind = "size" => b[j].size \in Nat)
  <2>1. \A j \in 1..m : b[j] \in Piece
    BY <1>1, LenProperties
  <2>2. \A x \in Piece : x.kind = "size" => x.size \in Nat
    BY DEF Piece, Data, Blank, Junk
  <2> QED BY <2>1, <2>2
<1>6. /\ Cardinality(DataTo(b, m)) \in Nat
      /\ p = Data => Cardinality(DataTo(b, m + 1)) = Cardinality(DataTo(b, m)) + 1
      /\ p # Data => DataTo(b, m + 1) = DataTo(b, m)
  BY <1>1, DataToNext
<1>7. /\ g.k.used = k.used + 1
      /\ \/ g.out \in {"OverLimit", "Malformed"}
         \/ /\ k.chunk = "Size" /\ p = Size(0) /\ g.out = "More"
            /\ g.k.received = k.received /\ g.k.chunk = "Trailers" /\ g.k.left = 0
         \/ /\ k.chunk = "Size" /\ p.kind = "size" /\ p.size \in Nat \ {0} /\ g.out = "More"
            /\ g.k.received = k.received /\ g.k.chunk = "Data" /\ g.k.left = p.size
         \/ /\ k.chunk = "Data" /\ g.out = "More"
            /\ g.k.received = k.received + 1 /\ g.k.left = k.left - 1
            /\ g.k.chunk = IF k.left = 1 THEN "DataEnd" ELSE "Data"
         \/ /\ k.chunk = "DataEnd" /\ p = Blank /\ g.out = "More"
            /\ g.k.received = k.received /\ g.k.chunk = "Size" /\ g.k.left = 0
         \/ /\ k.chunk = "Trailers" /\ p # Blank /\ g.out = "More"
            /\ g.k.received = k.received /\ g.k.chunk = "Trailers" /\ g.k.left = 0
         \/ k.chunk = "Trailers" /\ p = Blank /\ g.out = "Done" /\ g.k.received = k.received
  <2> HIDE DEF p
  <2>1. Feeds(k, p, g)
    BY <1>1, FeedPieceIs
  <2> HIDE DEF g, k
  <2> QED BY <2>1 DEF Feeds, GoesOn
<1>8. /\ Blank # Data /\ Size(0) # Data /\ Size(0).kind = "size" /\ Size(0).size = 0
      /\ Blank.kind # "size" /\ Data.kind # "size"
  BY DEF Blank, Data, Size
<1> HIDE DEF b, m, p, g, k
<1>9. SUFFICES /\ g.out = "More" => Decoded(g.k, b)
               /\ g.out = "Done" => Ended(g.k, b)
  BY <1>7 DEF b, p, g, k
\* The decoder behind the piece, by what the piece has made of its fields.
<1>10. ASSUME g.k.received = Cardinality(DataTo(b, m + 1)),
              \A j \in 1..m : b[j].kind = "size" => j + b[j].size <= m + 1 + g.k.left,
              p.kind = "size" => m + 1 + p.size <= m + 1 + g.k.left,
              g.k.chunk = "Data" =>
                \E j \in 1..m + 1 : b[j].kind = "size" /\ j + b[j].size = m + 1 + g.k.left,
              g.k.chunk # "Data" => g.k.left = 0,
              g.k.chunk = "Trailers" => \E j \in 1..m + 1 : b[j] = Size(0)
       PROVE  Decoded(g.k, b)
  <2>1. g.k.used - 1 = m + 1
    BY <1>1, <1>7
  <2>2. \A j \in 1..m + 1 : b[j].kind = "size" => j + b[j].size <= m + 1 + g.k.left
    <3>1. \A j \in 1..m + 1 : j \in 1..m \/ j = m + 1
      BY <1>1
    <3> QED BY <1>1, <1>10, <3>1
  <2> QED BY <1>10, <2>1, <2>2 DEF Decoded
\* Behind the chunks that are complete a piece is in none.
<1>11. k.left = 0 => p # Data
  <2> SUFFICES ASSUME k.left = 0, p = Data PROVE FALSE
    OBVIOUS
  <2>1. PICK j \in 1..m : b[j].kind = "size" /\ m + 1 <= j + b[j].size
    BY <1>1, <1>4 DEF InChunk
  <2>2. j + b[j].size <= m
    BY <1>1, <1>2, <2>1
  <2> QED BY <1>1, <1>5, <2>1, <2>2
<1>12. CASE /\ k.chunk = "Size" /\ p = Size(0) /\ g.out = "More"
            /\ g.k.received = k.received /\ g.k.chunk = "Trailers" /\ g.k.left = 0
  <2>1. k.left = 0 /\ p.kind = "size" /\ p.size = 0
    BY <1>2, <1>8, <1>12
  <2>2. \A j \in 1..m : b[j].kind = "size" => j + b[j].size <= m + 1 + g.k.left
    BY <1>1, <1>2, <1>5, <1>12, <2>1
  <2>3. b[m + 1] = Size(0) /\ m + 1 \in 1..m + 1
    BY <1>1, <1>12
  <2>4. g.k.received = Cardinality(DataTo(b, m + 1))
    BY <1>2, <1>6, <1>11, <1>12, <2>1
  <2> QED BY <1>1, <1>10, <1>12, <2>1, <2>2, <2>3, <2>4
<1>13. CASE /\ k.chunk = "Size" /\ p.kind = "size" /\ p.size \in Nat \ {0} /\ g.out = "More"
            /\ g.k.received = k.received /\ g.k.chunk = "Data" /\ g.k.left = p.size
  <2>1. k.left = 0
    BY <1>2, <1>13
  <2>2. \A j \in 1..m : b[j].kind = "size" => j + b[j].size <= m + 1 + g.k.left
    BY <1>1, <1>2, <1>5, <1>13, <2>1
  <2>3. \E j \in 1..m + 1 : b[j].kind = "size" /\ j + b[j].size = m + 1 + g.k.left
    BY <1>1, <1>13
  <2>4. g.k.received = Cardinality(DataTo(b, m + 1))
    BY <1>2, <1>6, <1>11, <1>13, <2>1
  <2> QED BY <1>1, <1>10, <1>13, <2>2, <2>3, <2>4
<1>14. CASE /\ k.chunk = "Data" /\ g.out = "More"
            /\ g.k.received = k.received + 1 /\ g.k.left = k.left - 1
            /\ g.k.chunk = IF k.left = 1 THEN "DataEnd" ELSE "Data"
  <2>1. PICK j \in 1..m : b[j].kind = "size" /\ j + b[j].size = m + k.left
    BY <1>2, <1>14
  <2>2. p = Data
    <3>1. m + 1 <= j + b[j].size
      BY <1>1, <1>3, <1>14, <2>1
    <3>2. InChunk(b, m + 1)
      BY <1>1, <2>1, <3>1 DEF InChunk
    <3> QED BY <1>1, <1>4, <3>2
  <2>3. m + 1 + g.k.left = m + k.left
    BY <1>1, <1>3, <1>14
  <2>4. \A i \in 1..m : b[i].kind = "size" => i + b[i].size <= m + 1 + g.k.left
    BY <1>2, <2>3
  <2>5. \E i \in 1..m + 1 : b[i].kind = "size" /\ i + b[i].size = m + 1 + g.k.left
    BY <1>1, <2>1, <2>3
  <2>6. g.k.received = Cardinality(DataTo(b, m + 1))
    BY <1>2, <1>6, <1>14, <2>2
  <2>7. g.k.chunk # "Data" => g.k.left = 0
    BY <1>14
  <2>8. g.k.chunk # "Trailers" /\ p.kind # "size"
    BY <1>8, <1>14, <2>2
  <2>9. Decoded(g.k, b)
    BY <1>10, <2>4, <2>5, <2>6, <2>7, <2>8
  <2> QED BY <1>14, <2>9
<1>15. CASE /\ k.chunk = "DataEnd" /\ p = Blank /\ g.out = "More"
            /\ g.k.received = k.received /\ g.k.chunk = "Size" /\ g.k.left = 0
  <2>1. k.left = 0
    BY <1>2, <1>15
  <2>2. \A j \in 1..m : b[j].kind = "size" => j + b[j].size <= m + 1 + g.k.left
    BY <1>1, <1>2, <1>5, <1>15, <2>1
  <2>3. g.k.received = Cardinality(DataTo(b, m + 1))
    BY <1>2, <1>6, <1>11, <1>15, <2>1
  <2> QED BY <1>8, <1>10, <1>15, <2>2, <2>3
<1>16. CASE /\ k.chunk = "Trailers" /\ p # Blank /\ g.out = "More"
            /\ g.k.received = k.received /\ g.k.chunk = "Trailers" /\ g.k.left = 0
  <2>1. PICK j \in 1..m : b[j] = Size(0)
    BY <1>2, <1>16
  <2>2. k.left = 0
    BY <1>2, <1>16
  <2>3. p.kind # "size"
    BY <1>1, <1>4, <2>1
  <2>4. \A i \in 1..m : b[i].kind = "size" => i + b[i].size <= m + 1 + g.k.left
    BY <1>1, <1>2, <1>5, <1>16, <2>2
  <2>5. g.k.received = Cardinality(DataTo(b, m + 1))
    BY <1>2, <1>6, <1>11, <1>16, <2>2
  <2>6. \E i \in 1..m + 1 : b[i] = Size(0)
    BY <1>1, <2>1
  <2> QED BY <1>10, <1>16, <2>3, <2>4, <2>5, <2>6
<1>17. CASE k.chunk = "Trailers" /\ p = Blank /\ g.out = "Done" /\ g.k.received = k.received
  <2>1. PICK j \in 1..m : b[j] = Size(0)
    BY <1>2, <1>17
  <2>2. m + 1 = Len(b)
    <3>1. j \in 1..Len(b) /\ j < m + 1
      BY <1>1, <2>1
    <3>2. b[m + 1] = Blank => m + 1 = Len(b)
      BY <1>1, <1>4, <2>1, <3>1
    <3> QED BY <1>1, <1>17, <3>2
  <2>3. g.k.received = Cardinality(DataTo(b, Len(b)))
    BY <1>2, <1>6, <1>8, <1>17, <2>2
  <2>4. g.k.used = 1 + Len(b) /\ Len(b) > 0 /\ b[Len(b)] = Blank
    <3>1. g.k.used = 1 + Len(b) /\ Len(b) > 0
      BY <1>1, <1>7, <2>2
    <3>2. b[Len(b)] = p
      BY <1>1, <2>2
    <3> QED BY <1>17, <3>1, <3>2
  <2> QED BY <1>17, <2>3, <2>4 DEF Ended
<1> QED BY <1>7, <1>12, <1>13, <1>14, <1>15, <1>16, <1>17

-----------------------------------------------------------------------------
(***************************************************************************)
(* Reading a body.                                                         *)
(***************************************************************************)

\* What is in the record of a connection whose body is not over: its place in
\* the message, and its counts within the cap.
Measured(k, r) ==
  /\ k.got \in 0..Len(Message(r)) /\ Counts(k) /\ k.chunk \in Decoding
  /\ r.framing = "length" => k.received <= r.length /\ r.length <= Cap /\ k.left = 0

\* What the start and the progress of a body may come to, from k to j, the
\* body being read as from says: it still is, and who waits stays or is woken; it is over; the client is
\* gone; it is refused.
Progress(k, from, r, j) ==
  /\ RestKept(k, j) /\ AnsweredOnce(j) /\ Counts(j) /\ Placed(j, r)
  /\ \/ /\ j.body = from /\ j.waiters \in {k.waiters, {}}
        /\ AnswerKept(k, j) /\ j.stage = k.stage /\ Measured(j, r)
        /\ j.decoded + k.received = j.received + k.decoded
     \/ /\ from = "Reading" /\ j.body = "Read" /\ j.waiters = {}
        /\ AnswerKept(k, j) /\ j.stage = k.stage
     \/ /\ from = "Streaming" /\ j.body = "StreamEnded" /\ j.waiters = {}
        /\ AnswerKept(k, j) /\ j.stage = k.stage
        /\ j.decoded + k.received = j.received + k.decoded
     \/ /\ j.body = "Gone" /\ j.waiters = {}
        /\ \/ AnswerKept(k, j) /\ j.stage = "Closed"
           \/ Answered(k, j) /\ j.stage \in {"Closed", "Closing"}
     \/ /\ j.body = "Refused" /\ j.waiters = {}
        /\ Answered(k, j) /\ j.stage = "Closing"

LEMMA MessageIsPieces ==
  ASSUME NEW r \in Requests
  PROVE  /\ Message(r) \in Seq(Piece) /\ Len(Message(r)) = Len(r.body) + 1
         /\ Len(r.body) \in Nat
<1>1. r.body \in Seq(Piece)
  BY HttpAssumption DEF Request
<1>2. <<Blank>> \in Seq(Piece) /\ Len(<<Blank>>) = 1
  <2>1. Blank \in Piece
    BY DEF Piece
  <2> QED BY <2>1
<1>3. <<Blank>> \o r.body \in Seq(Piece) /\ Len(<<Blank>> \o r.body) = Len(<<Blank>>) + Len(r.body)
  BY <1>1, <1>2, ConcatProperties
<1>4. Len(r.body) \in Nat
  BY <1>1, LenProperties
<1> QED BY <1>2, <1>3, <1>4 DEF Message

LEMMA InboxIsPieces ==
  ASSUME NEW r \in Requests, NEW k, k.used \in Nat, k.got \in 0..Len(Message(r))
  PROVE  Inbox(k, r) \in Seq(Piece) /\ Len(Inbox(k, r)) \in Nat
<1>1. Message(r) \in Seq(Piece) /\ Len(Message(r)) \in Nat
  BY MessageIsPieces
<1>2. \A i \in 1..Len(Message(r)) : Message(r)[i] \in Piece
  BY <1>1, LenProperties
<1>3. k.used + 1 \in Int /\ k.got \in Int /\ k.used + 1 > 0
  OBVIOUS
<1>4. \A i \in k.used + 1..k.got : Message(r)[i] \in Piece
  BY <1>1, <1>2
<1>5. Inbox(k, r) \in Seq(Piece)
  BY <1>3, <1>4, SubSeqProperties DEF Inbox
<1> QED BY <1>5, LenProperties

LEMMA BodyIsBehind ==
  ASSUME NEW r \in Requests, NEW i \in 1..Len(r.body)
  PROVE  Message(r)[i + 1] = r.body[i]
<1>1. r.body \in Seq(Piece) /\ Len(r.body) \in Nat
  BY HttpAssumption, LenProperties DEF Request
<1>2. <<Blank>> \in Seq(Piece) /\ Len(<<Blank>>) = 1
  <2>1. Blank \in Piece
    BY DEF Piece
  <2> QED BY <2>1
<1>3. \A j \in 1..Len(<<Blank>>) + Len(r.body) :
        (<<Blank>> \o r.body)[j] =
          IF j <= Len(<<Blank>>) THEN <<Blank>>[j] ELSE r.body[j - Len(<<Blank>>)]
  BY <1>1, <1>2, ConcatProperties
<1>4. i + 1 \in 1..1 + Len(r.body) /\ ~(i + 1 <= 1) /\ (i + 1) - 1 = i
  BY <1>1
<1>5. (<<Blank>> \o r.body)[i + 1] = r.body[(i + 1) - 1]
  BY <1>2, <1>3, <1>4
<1> QED BY <1>4, <1>5 DEF Message

\* Behind its head the inbox holds what came of the body and was not taken.
LEMMA InboxIs ==
  ASSUME NEW r \in Requests, NEW k, k.got \in 0..Len(Message(r)), k.used \in 1..k.got
  PROVE  /\ Len(Inbox(k, r)) = k.got - k.used
         /\ \A n \in 1..k.got - k.used :
              Inbox(k, r)[n] = r.body[k.used + n - 1] /\ k.used + n - 1 \in 1..Len(r.body)
<1> DEFINE m == k.used + 1
<1>1. /\ Message(r) \in Seq(Piece) /\ Len(Message(r)) = Len(r.body) + 1
      /\ Len(r.body) \in Nat
  BY MessageIsPieces
<1>2. \A i \in 1..Len(Message(r)) : Message(r)[i] \in Piece
  BY <1>1, LenProperties
<1>3. m \in Int /\ k.got \in Int /\ \A i \in m..k.got : Message(r)[i] \in Piece
  BY <1>1, <1>2
<1>4. /\ Len(SubSeq(Message(r), m, k.got)) = IF m <= k.got THEN k.got - m + 1 ELSE 0
      /\ \A i \in 1..k.got - m + 1 : SubSeq(Message(r), m, k.got)[i] = Message(r)[m + i - 1]
  <2> HIDE DEF m
  <2> QED BY <1>3, SubSeqProperties
<1>5. Len(Inbox(k, r)) = k.got - k.used
  BY <1>3, <1>4 DEF Inbox
<1>6. ASSUME NEW n \in 1..k.got - k.used
      PROVE  Inbox(k, r)[n] = r.body[k.used + n - 1] /\ k.used + n - 1 \in 1..Len(r.body)
  <2>1. n \in 1..k.got - m + 1 /\ m + n - 1 = (k.used + n - 1) + 1
    OBVIOUS
  <2>2. k.used + n - 1 \in 1..Len(r.body)
    BY <1>1
  <2>3. Inbox(k, r)[n] = Message(r)[(k.used + n - 1) + 1]
    BY <1>4, <2>1 DEF Inbox
  <2> HIDE DEF m
  <2> QED BY <2>2, <2>3, BodyIsBehind
<1> QED BY <1>5, <1>6

\* Fed the inbox, the decoder of a body that is what it says is in its place, or
\* has come to the end.
LEMMA FeedPlaces ==
  ASSUME NEW r \in Requests, r.framing = "chunked", Framed(r),
         NEW k, DOMAIN k = Fields, Counts(k), k.chunk \in Decoding,
         k.got \in 0..Len(Message(r)), k.used \in 1..k.got, Decoded(k, r.body)
  PROVE  LET f == feed(k, Inbox(k, r))
         IN  /\ f.out \in {"More", "Done"} => f.k.used \in 1..k.got
             /\ f.out = "More" => Decoded(f.k, r.body)
             /\ f.out = "Done" => Ended(f.k, r.body)
<1> DEFINE inbox == Inbox(k, r)
           L == Len(inbox)
           b == r.body
<1>1. inbox \in Seq(Piece) /\ L \in Nat /\ b \in Seq(Piece)
  BY InboxIsPieces, HttpAssumption DEF Request
<1>2. /\ L = k.got - k.used
      /\ \A n \in 1..L : inbox[n] = b[k.used + n - 1] /\ k.used + n - 1 \in 1..Len(b)
  BY InboxIs
<1>3. PICK h : h = Step(k, inbox, h, L) /\ feed(k, inbox) = h[L]
  BY <1>1, FeedIsFed
<1>4. /\ h[0] = [k |-> k, out |-> "More"]
      /\ \A n \in 1..L : h[n] = FeedPiece(h[n - 1], inbox[n])
  BY <1>1, <1>3, StepIs
<1>5. \A n \in 0..L : Fed(k, h[n])
  BY <1>1, <1>3, StepsAreFed
<1> HIDE DEF inbox, L, b
<1> DEFINE At(n, f) ==
      /\ f.out = "More" => f.k.used = k.used + n /\ Decoded(f.k, b)
      /\ f.out = "Done" => f.k.used \in k.used..k.used + n /\ Ended(f.k, b)
           S == {n \in 0..L : At(n, h[n])}
<1>6. 0 \in S
  BY <1>1, <1>4 DEF b
<1>7. ASSUME NEW n \in 1..L, n - 1 \in S PROVE n \in S
  <2> DEFINE f == h[n - 1]
             g == h[n]
  <2>1. At(n - 1, f) /\ Fed(k, f) /\ g = FeedPiece(f, inbox[n]) /\ n - 1 \in 0..L
    BY <1>1, <1>4, <1>5, <1>7
  <2> HIDE DEF f, g
  <2>2. CASE f.out # "More"
    <3>1. g = f
      BY <2>1, <2>2 DEF FeedPiece
    <3>2. At(n, f)
      BY <1>1, <2>1, <2>2
    <3> QED BY <1>1, <3>1, <3>2 DEF g
  <2>3. CASE f.out = "More"
    <3>1. f.k.used = k.used + n - 1 /\ Decoded(f.k, b) /\ f.k.used \in 1..Len(b)
      BY <1>1, <1>2, <2>1, <2>3
    <3>2. inbox[n] = b[f.k.used]
      BY <1>2, <3>1
    <3>3. /\ DOMAIN f = {"k", "out"} /\ DOMAIN f.k = Fields /\ Counts(f.k)
          /\ f.k.chunk \in Decoding
      BY <2>1, <2>3 DEF Fed, RestKept
    <3>4. /\ FeedPiece(f, b[f.k.used]).k.used = f.k.used + 1
          /\ FeedPiece(f, b[f.k.used]).out = "More" => Decoded(FeedPiece(f, b[f.k.used]).k, b)
          /\ FeedPiece(f, b[f.k.used]).out = "Done" => Ended(FeedPiece(f, b[f.k.used]).k, b)
      BY <1>1, <2>3, <3>1, <3>3, FeedPiecePlaces DEF b
    <3>5. /\ g.k.used = f.k.used + 1
          /\ g.out = "More" => Decoded(g.k, b)
          /\ g.out = "Done" => Ended(g.k, b)
      BY <2>1, <3>2, <3>4
    <3>6. g.k.used = k.used + n /\ g.k.used \in k.used..k.used + n
      BY <1>1, <3>1, <3>5
    <3>7. At(n, g)
      BY <3>5, <3>6
    <3> QED BY <1>1, <3>7 DEF g
  <2> QED BY <2>2, <2>3
<1> HIDE DEF S, At
<1>8. \A n \in 0..L : n \in S
  BY <1>1, <1>6, <1>7, ReachesAll
<1>9. At(L, h[L])
  BY <1>1, <1>8 DEF S
<1> DEFINE f == feed(k, inbox)
<1>10. /\ f.out = "More" => f.k.used = k.used + L /\ Decoded(f.k, b)
       /\ f.out = "Done" => f.k.used \in k.used..k.used + L /\ Ended(f.k, b)
  BY <1>3, <1>9 DEF At
<1> HIDE DEF f
<1>11. f.out \in {"More", "Done"} => f.k.used \in 1..k.got
  BY <1>1, <1>2, <1>10
<1> QED BY <1>10, <1>11 DEF f, inbox, b

\* What advance_body takes out of the inbox, and what comes of it.
Take(k, r) ==
  LET inbox == Inbox(k, r)
      n     == Least(r.length - k.received, Len(inbox))
      taken == [k EXCEPT !.used = @ + n, !.decoded = @ + n, !.received = @ + n]
  IN  CASE r.framing = "empty"   -> [k |-> k, out |-> "Done"]
        [] r.framing = "length"  ->
             [k |-> taken,
              out |-> IF taken.received = r.length THEN "Done" ELSE "More"]
        [] r.framing = "chunked" -> feed(k, inbox)

\* Whatever a body's framing, what it takes out of the inbox is counted.
LEMMA TakeEffect ==
  ASSUME NEW r \in Requests, NEW k, DOMAIN k = Fields, Measured(k, r)
  PROVE  Fed(k, Take(k, r)) /\ (Take(k, r).out = "More" => Measured(Take(k, r).k, r))
<1> DEFINE inbox == Inbox(k, r)
           n     == Least(r.length - k.received, Len(inbox))
           taken == [k EXCEPT !.used = @ + n, !.decoded = @ + n, !.received = @ + n]
           f     == CASE r.framing = "empty"   -> [k |-> k, out |-> "Done"]
                      [] r.framing = "length"  ->
                           [k |-> taken,
                            out |-> IF taken.received = r.length THEN "Done" ELSE "More"]
                      [] r.framing = "chunked" -> feed(k, inbox)
<1>1. inbox \in Seq(Piece) /\ Len(inbox) \in Nat
  BY InboxIsPieces DEF Measured, Counts
<1>2. r.framing \in {"empty", "length", "chunked"} /\ r.length \in Nat
  BY HttpAssumption DEF Request
<1> HIDE DEF inbox
<1>3. CASE r.framing = "empty"
  <2>1. f = [k |-> k, out |-> "Done"]
    BY <1>3
  <2> HIDE DEF f
  <2>2. DOMAIN f = {"k", "out"} /\ f.k = k /\ f.out = "Done"
    BY <2>1
  <2>3. Fed(k, f)
    BY <2>2 DEF Fed, RestKept, AnswerKept, Measured, Counts
  <2> QED BY <2>2, <2>3 DEF f, inbox, Take
<1>4. CASE r.framing = "length"
  <2>1. f = [k |-> taken, out |-> IF taken.received = r.length THEN "Done" ELSE "More"]
    BY <1>4
  <2>2. n \in Nat /\ k.received + n <= r.length
    BY <1>1, <1>2, <1>4 DEF Measured, Counts, Least
  <2> HIDE DEF f, n
  <2>3. /\ RestKept(k, taken) /\ AnswerKept(k, taken) /\ taken.stage = k.stage
        /\ taken.body = k.body /\ taken.waiters = k.waiters
        /\ taken.used = k.used + n /\ taken.decoded = k.decoded + n
        /\ taken.received = k.received + n /\ taken.left = k.left /\ taken.chunk = k.chunk
    BY DEF RestKept, AnswerKept, Fields, NewConnection
  <2> HIDE DEF taken
  <2>4. Counts(taken)
    <3>1. /\ k.used \in Nat /\ k.received \in Nat /\ k.decoded \in Nat /\ k.left = 0
          /\ k.chunk # "Data" /\ r.length <= Cap
      BY <1>4 DEF Measured, Counts
    <3>2. Cap \in Nat
      BY HttpAssumption
    <3>3. /\ taken.used \in Nat /\ taken.received \in Nat /\ taken.decoded \in Nat
          /\ taken.left \in Nat
      BY <2>2, <2>3, <3>1
    <3>4. taken.received + taken.left <= Cap
      BY <1>2, <2>2, <2>3, <3>1, <3>2
    <3> QED BY <2>3, <3>1, <3>3, <3>4 DEF Counts
  <2>5. Measured(taken, r)
    <3>1. taken.got = k.got
      BY <2>3 DEF RestKept
    <3> QED BY <1>4, <2>2, <2>3, <2>4, <3>1 DEF Measured
  <2>6. taken.decoded + k.received = taken.received + k.decoded
    BY <2>2, <2>3 DEF Measured, Counts
  <2>7. /\ DOMAIN f = {"k", "out"} /\ f.k = taken /\ f.out \in {"Done", "More"}
    BY <2>1
  <2>8. Fed(k, f)
    BY <2>3, <2>4, <2>5, <2>6, <2>7 DEF Fed, Measured
  <2> QED BY <2>5, <2>7, <2>8 DEF f, inbox, n, taken, Take
<1>5. CASE r.framing = "chunked"
  <2>1. f = feed(k, inbox)
    BY <1>5
  <2>2. Fed(k, feed(k, inbox))
    BY <1>1, FeedEffect DEF Measured
  <2> HIDE DEF f
  <2>3. Fed(k, f)
    BY <2>1, <2>2
  <2>4. f.out = "More" => Measured(f.k, r)
    BY <1>5, <2>3 DEF Fed, Measured, RestKept
  <2> QED BY <2>3, <2>4 DEF f, inbox, Take
<1> QED BY <1>2, <1>3, <1>4, <1>5

\* From g, all of the body taken, to j.
Finishes(g, j) ==
  /\ j.body \in {"Read", "StreamEnded"} /\ j.stage = g.stage
  /\ j.got = g.got /\ j.used = g.used /\ j.received = g.received

\* What is taken of m units that are there is no more than what a body of l lacks.
LEMMA LeastFits ==
  ASSUME NEW l \in Nat, NEW a \in Nat, a <= l, NEW m \in Nat
  PROVE  /\ Least(l - a, m) \in Nat /\ Least(l - a, m) <= m
         /\ a + Least(l - a, m) <= l
BY DEF Least

\* Behind what it takes a body is in its place, or is all there.
LEMMA TakePlaces ==
  ASSUME NEW r \in Requests, NEW k, DOMAIN k = Fields, Measured(k, r),
         k.body \in {"Reading", "Streaming"}, Placed(k, r), Dispatched(k)
  PROVE  /\ r.framing = "empty" => Take(k, r).out = "Done"
         /\ Take(k, r).out = "More" => Placed(Take(k, r).k, r)
         /\ Take(k, r).out = "Done" => \A j : Finishes(Take(k, r).k, j) => Placed(j, r)
<1> DEFINE f == Take(k, r)
<1>1. Fed(k, f)
  BY TakeEffect
<1>2. r.framing \in {"empty", "length", "chunked"} /\ r.length \in Nat
  BY HttpAssumption DEF Request
<1>3. r.framing = "empty" => f.k = k /\ f.out = "Done"
  BY DEF Take
<1>4. r.framing = "chunked" => f = feed(k, Inbox(k, r))
  BY DEF Take
<1>5. ASSUME r.framing = "length"
      PROVE  \E n \in Nat :
               /\ n <= Len(Inbox(k, r)) /\ k.received + n <= r.length
               /\ f.k.used = k.used + n /\ f.k.received = k.received + n
               /\ f.out = "Done" => k.received + n = r.length
  <2> DEFINE n == Least(r.length - k.received, Len(Inbox(k, r)))
             taken == [k EXCEPT !.used = @ + n, !.decoded = @ + n, !.received = @ + n]
  <2>1. Len(Inbox(k, r)) \in Nat
    BY InboxIsPieces DEF Measured, Counts
  <2>2. n \in Nat /\ n <= Len(Inbox(k, r)) /\ k.received + n <= r.length
    <3>1. k.received \in Nat /\ r.length \in Nat /\ k.received <= r.length
      BY <1>2, <1>5 DEF Measured, Counts
    <3> QED BY <2>1, <3>1, LeastFits
  <2>3. f = [k |-> taken, out |-> IF taken.received = r.length THEN "Done" ELSE "More"]
    BY <1>5 DEF Take
  <2> HIDE DEF f, n
  <2>4. taken.used = k.used + n /\ taken.received = k.received + n
    BY DEF Fields, NewConnection
  <2> HIDE DEF taken
  <2>5. f.k = taken /\ (f.out = "Done" => taken.received = r.length)
    BY <2>3
  <2> QED BY <2>2, <2>4, <2>5
<1> HIDE DEF f
<1>6. /\ f.k.got = k.got /\ f.k.stage = k.stage /\ f.k.body = k.body
      /\ k.got \in 0..Len(Message(r)) /\ Counts(k) /\ k.chunk \in Decoding
  BY <1>1 DEF Fed, RestKept, Measured
<1>7. ASSUME r.head = "plain", Framed(r)
      PROVE  /\ f.out = "More" => InPlace(f.k, r)
             /\ f.out = "Done" => \A j : Finishes(f.k, j) => InPlace(j, r)
  <2>1. InPlace(k, r)
    BY <1>7 DEF Placed
  <2>2. k.used \in 1..k.got /\ Len(Inbox(k, r)) = k.got - k.used
    BY <1>6, <2>1, InboxIs DEF InPlace
  <2>3. CASE r.framing = "empty"
    BY <1>3, <2>2, <2>3, <1>6 DEF InPlace, Finishes
  <2>4. CASE r.framing = "length"
    <3>1. PICK n \in Nat :
            /\ n <= Len(Inbox(k, r)) /\ k.received + n <= r.length
            /\ f.k.used = k.used + n /\ f.k.received = k.received + n
            /\ f.out = "Done" => k.received + n = r.length
      BY <1>5, <2>4
    <3>2. k.used = 1 + k.received /\ k.received \in Nat
      BY <1>6, <2>1, <2>4 DEF InPlace, ByLength, Counts
    <3>3. /\ f.k.used \in 1..k.got /\ f.k.used = 1 + f.k.received
          /\ f.k.received <= r.length
          /\ f.out = "Done" => f.k.received = r.length
      BY <1>2, <1>6, <2>2, <3>1, <3>2
    <3>4. InPlace(f.k, r)
      BY <1>6, <2>4, <3>3 DEF InPlace, ByLength
    <3>5. f.out = "Done" => \A j : Finishes(f.k, j) => InPlace(j, r)
      BY <1>6, <2>4, <3>3 DEF InPlace, ByLength, Finishes
    <3> QED BY <3>4, <3>5
  <2>5. CASE r.framing = "chunked"
    <3>1. Decoded(k, r.body)
      BY <2>1, <2>5 DEF InPlace, ByChunks, Live
    <3>2. /\ f.out \in {"More", "Done"} => f.k.used \in 1..k.got
          /\ f.out = "More" => Decoded(f.k, r.body)
          /\ f.out = "Done" => Ended(f.k, r.body)
      <4>1. LET g == feed(k, Inbox(k, r))
            IN  /\ g.out \in {"More", "Done"} => g.k.used \in 1..k.got
                /\ g.out = "More" => Decoded(g.k, r.body)
                /\ g.out = "Done" => Ended(g.k, r.body)
        BY <1>6, <1>7, <2>2, <2>5, <3>1, FeedPlaces
      <4> QED BY <1>4, <2>5, <4>1
    <3>3. f.out = "More" => InPlace(f.k, r)
      BY <1>6, <2>5, <3>2 DEF InPlace, ByChunks
    <3>4. f.out = "Done" => \A j : Finishes(f.k, j) => InPlace(j, r)
      BY <1>6, <2>5, <3>2 DEF InPlace, ByChunks, Finishes, Ended, Live
    <3> QED BY <3>3, <3>4
  <2> QED BY <1>2, <2>3, <2>4, <2>5
<1>8. /\ r.framing = "empty" => k.received = 0
      /\ r.head = "plain" => k.stage # "Upgraded"
  BY DEF Placed
<1>9. f.out = "More" => Placed(f.k, r)
  BY <1>3, <1>6, <1>7, <1>8 DEF Placed
<1>10. f.out = "Done" => \A j : Finishes(f.k, j) => Placed(j, r)
  BY <1>3, <1>6, <1>7, <1>8 DEF Placed, Finishes
<1> QED BY <1>3, <1>9, <1>10 DEF f

LEMMA AdvanceEffect ==
  ASSUME NEW r \in Requests, NEW k, NEW ts, NEW hungUp \in BOOLEAN,
         Shape(k, ts), AnsweredOnce(k), k.stage # "Closed", Measured(k, r),
         k.body \in {"Reading", "Streaming"}, Placed(k, r), Dispatched(k)
  PROVE  Progress(k, k.body, r, advance_body(k, r, hungUp))
<1> DEFINE f == Take(k, r)
           j == advance_body(k, r, hungUp)
<1>1. Fed(k, f) /\ (f.out = "More" => Measured(f.k, r))
  BY TakeEffect DEF Shape
<1>1a. /\ r.framing = "empty" => f.out = "Done"
       /\ f.out = "More" => Placed(f.k, r)
       /\ f.out = "Done" => \A i : Finishes(f.k, i) => Placed(i, r)
  BY TakePlaces DEF Shape
<1>2. /\ f.out = "Done" /\ k.body = "Streaming" =>
           j = [f.k EXCEPT !.body = "StreamEnded", !.waiters = {}]
      /\ f.out = "Done" /\ k.body = "Reading" => j = settle(f.k, "Read")
      /\ f.out = "More" /\ hungUp = TRUE => j = HungUp(f.k)
      /\ f.out = "More" /\ hungUp = FALSE =>
           j = f.k \/ j = [f.k EXCEPT !.waiters = {}]
      /\ f.out \in {"OverLimit", "Malformed"} => j = refuse_with(settle(f.k, "Refused"))
  BY DEF advance_body, Take
<1> DEFINE b == f.k
<1> HIDE DEF j, f
<1>3. /\ RestKept(k, b) /\ AnswerKept(k, b) /\ b.stage = k.stage
      /\ b.body = k.body /\ b.waiters = k.waiters /\ Counts(b)
      /\ b.decoded + k.received = b.received + k.decoded
  BY <1>1 DEF Fed
<1>4. f.out \in {"More", "Done", "OverLimit", "Malformed"}
  BY <1>1 DEF Fed
<1>5. /\ f.out = "More" => Measured(b, r)
      /\ f.out = "Done" /\ k.body = "Streaming" =>
           j = [b EXCEPT !.body = "StreamEnded", !.waiters = {}]
      /\ f.out = "Done" /\ k.body = "Reading" => j = settle(b, "Read")
      /\ f.out = "More" /\ hungUp = TRUE => j = HungUp(b)
      /\ f.out = "More" /\ hungUp = FALSE =>
           j = b \/ j = [b EXCEPT !.waiters = {}]
      /\ f.out \in {"OverLimit", "Malformed"} => j = refuse_with(settle(b, "Refused"))
  BY <1>1, <1>2
<1>5a. /\ f.out = "More" => Placed(b, r)
       /\ f.out = "Done" => \A i : Finishes(b, i) => Placed(i, r)
  BY <1>1a
<1> HIDE DEF b
<1>6. DOMAIN b = Fields /\ AnsweredOnce(b)
  BY <1>3 DEF RestKept, AnswerKept, AnsweredOnce
\* Settled, it is of the shape the answers need.
<1>7. ASSUME NEW state \in {"Gone", "Refused"}
      PROVE  LET g == settle(b, state)
             IN  /\ RestKept(k, g) /\ AnswerKept(k, g) /\ g.stage = k.stage
                 /\ g.body = state /\ g.waiters = {} /\ g.decoded = 0
                 /\ g.used = b.used /\ g.received = b.received /\ g.chunk = b.chunk
                 /\ g.left = b.left /\ Counts(g) /\ Shape(g, ts) /\ AnsweredOnce(g)
  <2> DEFINE g == settle(b, state)
  <2>1. /\ RestKept(b, g) /\ AnswerKept(b, g) /\ g.stage = b.stage
        /\ g.body = state /\ g.waiters = {}
        /\ g.used = b.used /\ g.received = b.received /\ g.chunk = b.chunk /\ g.left = b.left
    BY <1>6, SettleEffect
  <2>2. g.decoded = 0
    BY <1>6 DEF settle, Fields, NewConnection
  <2> HIDE DEF g
  <2>3. RestKept(k, g) /\ AnswerKept(k, g)
    BY <1>3, <2>1 DEF RestKept, AnswerKept
  <2>4. Counts(g)
    BY <1>3, <2>1, <2>2 DEF Counts
  <2>5. AnsweredOnce(g)
    BY <2>3 DEF AnsweredOnce, AnswerKept
  <2>6. Shape(g, ts)
    BY <1>3, <2>1, <2>3 DEF Shape, RestKept, AnswerKept
  <2> QED BY <1>3, <2>1, <2>2, <2>3, <2>4, <2>5, <2>6 DEF g
<1>8. CASE f.out = "Done" /\ k.body = "Streaming"
  <2>1. j = [b EXCEPT !.body = "StreamEnded", !.waiters = {}]
    BY <1>5, <1>8
  <2>2. /\ RestKept(b, j) /\ AnswerKept(b, j) /\ j.stage = b.stage
        /\ j.body = "StreamEnded" /\ j.waiters = {} /\ j.decoded = b.decoded
        /\ j.used = b.used /\ j.received = b.received /\ j.chunk = b.chunk /\ j.left = b.left
    BY <1>6, <2>1 DEF RestKept, AnswerKept, Fields, NewConnection
  <2>3. RestKept(k, j) /\ AnswerKept(k, j) /\ AnsweredOnce(j) /\ Counts(j)
    BY <1>3, <1>6, <2>2 DEF RestKept, AnswerKept, AnsweredOnce, Counts
  <2>4. Placed(j, r)
    BY <1>8, <1>5a, <2>2 DEF Finishes, RestKept
  <2> QED BY <1>3, <1>8, <2>2, <2>3, <2>4 DEF Progress, j
<1>9. CASE f.out = "Done" /\ k.body = "Reading"
  <2>1. j = settle(b, "Read")
    BY <1>5, <1>9
  <2>2. /\ RestKept(b, j) /\ AnswerKept(b, j) /\ j.stage = b.stage
        /\ j.body = "Read" /\ j.waiters = {}
        /\ j.used = b.used /\ j.received = b.received /\ j.chunk = b.chunk /\ j.left = b.left
    BY <1>6, <2>1, SettleEffect
  <2>3. j.decoded = 0
    BY <1>6, <2>1 DEF settle, Fields, NewConnection
  <2>4. RestKept(k, j) /\ AnswerKept(k, j) /\ AnsweredOnce(j) /\ Counts(j)
    BY <1>3, <1>6, <2>2, <2>3 DEF RestKept, AnswerKept, AnsweredOnce, Counts
  <2>5. Placed(j, r)
    BY <1>9, <1>5a, <2>2 DEF Finishes, RestKept
  <2> QED BY <1>3, <1>9, <2>2, <2>4, <2>5 DEF Progress, j
<1>10. CASE f.out = "More" /\ hungUp = FALSE
  <2>1. Measured(b, r) /\ Placed(b, r)
    BY <1>5, <1>10, <1>5a
  <2>2. CASE j = b
    BY <1>3, <1>6, <2>1, <2>2 DEF Progress, j
  <2>3. CASE j = [b EXCEPT !.waiters = {}]
    <3>1. /\ RestKept(b, j) /\ AnswerKept(b, j) /\ j.stage = b.stage
          /\ j.body = b.body /\ j.waiters = {} /\ j.decoded = b.decoded
          /\ j.used = b.used /\ j.received = b.received /\ j.chunk = b.chunk /\ j.left = b.left
      BY <1>6, <2>3 DEF RestKept, AnswerKept, Fields, NewConnection
    <3>2. RestKept(k, j) /\ AnswerKept(k, j) /\ AnsweredOnce(j) /\ Counts(j)
      BY <1>3, <1>6, <3>1 DEF RestKept, AnswerKept, AnsweredOnce, Counts
    <3>3. Measured(j, r)
      BY <2>1, <3>1, <3>2 DEF Measured, RestKept
    <3>4. SamePlace(b, j)
      BY <2>1, <3>1 DEF SamePlace, RestKept, Measured
    <3>5. Placed(j, r)
      BY <2>1, <3>1, <3>4, PlacedKept
    <3> QED BY <1>3, <3>1, <3>2, <3>3, <3>5 DEF Progress, j
  <2> QED BY <1>5, <1>10, <2>2, <2>3
<1>11. CASE f.out = "More" /\ hungUp = TRUE
  <2> DEFINE g == settle(b, "Gone")
             e == close(g)
  <2>1. j = e
    BY <1>5, <1>11 DEF HungUp
  <2>2. /\ RestKept(k, g) /\ AnswerKept(k, g) /\ g.stage = k.stage
        /\ g.body = "Gone" /\ g.waiters = {} /\ g.decoded = 0
        /\ Counts(g) /\ Shape(g, ts) /\ AnsweredOnce(g)
    BY <1>7
  <2> HIDE DEF g
  <2>3. Closes(g, e)
    BY <2>2, CloseEffect
  <2> HIDE DEF e
  <2>4. /\ RestKept(g, e) /\ AnsweredOnce(e)
        /\ \/ e.stage = "Closed" /\ AnswerKept(g, e)
           \/ e.stage \in {"Closed", "Closing"} /\ Answered(g, e)
        /\ e.body = "Gone" /\ e.waiters = {} /\ e.decoded = g.decoded
        /\ e.used = g.used /\ e.received = g.received /\ e.chunk = g.chunk /\ e.left = g.left
    BY <2>2, <2>3 DEF Closes, Live
  <2>5. RestKept(k, e) /\ Counts(e)
    BY <2>2, <2>4 DEF RestKept, Counts
  <2>6. \/ AnswerKept(k, e) /\ e.stage = "Closed"
        \/ Answered(k, e) /\ e.stage \in {"Closed", "Closing"}
    BY <2>2, <2>4 DEF AnswerKept, Answered
  <2>7. Placed(e, r)
    <3>1. r.framing # "empty"
      BY <1>11, <1>1a
    <3> QED BY <2>4, <3>1, PlacedLost
  <2> QED BY <2>1, <2>4, <2>5, <2>6, <2>7 DEF Progress, j
<1>12. CASE f.out \in {"OverLimit", "Malformed"}
  <2> DEFINE g == settle(b, "Refused")
             e == refuse_with(g)
  <2>1. j = e
    BY <1>5, <1>12
  <2>2. /\ RestKept(k, g) /\ AnswerKept(k, g) /\ g.stage = k.stage
        /\ g.body = "Refused" /\ g.waiters = {} /\ g.decoded = 0
        /\ Counts(g) /\ Shape(g, ts) /\ AnsweredOnce(g)
    BY <1>7
  <2> HIDE DEF g
  <2>3. /\ RestKept(g, e) /\ BodyKept(g, e) /\ e.stage = "Closing"
        /\ Answered(g, e) /\ AnsweredOnce(e)
    BY <2>2, RefuseEffect
  <2> HIDE DEF e
  <2>4. RestKept(k, e) /\ Counts(e)
    BY <2>2, <2>3 DEF RestKept, Counts, BodyKept
  <2>5. Answered(k, e) /\ e.body = "Refused" /\ e.waiters = {}
    BY <2>2, <2>3 DEF AnswerKept, Answered, BodyKept
  <2>6. Placed(e, r)
    <3>1. r.framing # "empty"
      BY <1>12, <1>1a
    <3> QED BY <2>3, <2>5, <3>1, PlacedLost
  <2> QED BY <2>1, <2>3, <2>4, <2>5, <2>6 DEF Progress, j
<1> QED BY <1>4, <1>8, <1>9, <1>10, <1>11, <1>12

LEMMA StartEffect ==
  ASSUME NEW r \in Requests, NEW k, NEW ts, NEW held, NEW g,
         Sound(k, ts, held, r, g), Dispatched(k),
         NEW state \in {"Reading", "Streaming"}
  PROVE  LET j == start_body(k, r, state)
         IN  \/ k.body # "Unread" /\ j = k
             \/ /\ k.body = "Unread" /\ k.answered = TRUE
                /\ RestKept(k, j) /\ AnswerKept(k, j) /\ j.stage = k.stage
                /\ j.body = "Gone" /\ j.waiters = {} /\ j.received = k.received
             \/ k.body = "Unread" /\ k.answered = FALSE /\ Progress(k, state, r, j)
<1> DEFINE j == start_body(k, r, state)
<1>1. CASE k.body # "Unread"
  BY <1>1 DEF start_body
<1>2. CASE k.body = "Unread" /\ k.answered = TRUE
  <2>1. j = settle(k, "Gone")
    BY <1>2 DEF start_body
  <2> QED BY <1>2, <2>1, SettleEffect DEF Sound, Shape
<1>3. CASE k.body = "Unread" /\ k.answered = FALSE /\ r.framing = "length" /\ r.length > Cap
  <2> DEFINE b == settle(k, "Refused")
             e == refuse_with(b)
  <2>1. j = e
    BY <1>3 DEF start_body
  <2>2. /\ RestKept(k, b) /\ AnswerKept(k, b) /\ b.stage = k.stage
        /\ b.body = "Refused" /\ b.waiters = {}
        /\ b.used = k.used /\ b.received = k.received /\ b.chunk = k.chunk /\ b.left = k.left
        /\ b.decoded = 0
    <3>1. DOMAIN k = Fields
      BY DEF Sound, Shape
    <3>2. b.decoded = 0
      BY <3>1 DEF settle, Fields, NewConnection
    <3> QED BY <3>1, <3>2, SettleEffect
  <2>3. Shape(k, ts) /\ AnsweredOnce(k) /\ Counts(k)
    BY <1>3 DEF Sound, Counting, Live
  <2> HIDE DEF b
  <2>4. Shape(b, ts) /\ AnsweredOnce(b)
    BY <2>2, <2>3 DEF Shape, AnsweredOnce, RestKept, AnswerKept
  <2>5. /\ RestKept(b, e) /\ BodyKept(b, e) /\ e.stage = "Closing"
        /\ Answered(b, e) /\ AnsweredOnce(e)
    BY <2>4, RefuseEffect
  <2> HIDE DEF e
  <2>6. RestKept(k, e)
    BY <2>2, <2>5 DEF RestKept
  <2>7. Answered(k, e) /\ e.body = "Refused" /\ e.waiters = {}
    BY <2>2, <2>5 DEF AnswerKept, Answered, BodyKept
  <2>8. Counts(e)
    BY <2>2, <2>3, <2>5 DEF Counts, BodyKept
  <2>9. Placed(e, r)
    <3>1. Placed(k, r) /\ e.received = k.received
      BY <2>2, <2>5 DEF Sound, BodyKept
    <3>2. r.framing = "empty" => e.received = 0
      BY <3>1 DEF Placed
    <3> QED BY <2>5, <2>7, <3>1, <3>2, PlacedLost
  <2>10. Progress(k, state, r, e)
    BY <2>5, <2>6, <2>7, <2>8, <2>9 DEF Progress
  <2> QED BY <1>3, <2>1, <2>10
<1>4. CASE k.body = "Unread" /\ k.answered = FALSE /\ ~(r.framing = "length" /\ r.length > Cap)
  <2> DEFINE b == [k EXCEPT !.body = state]
             e == advance_body(b, r, FALSE)
  <2>1. j = e
    BY <1>4 DEF start_body
  <2>2. /\ RestKept(k, b) /\ AnswerKept(k, b) /\ b.stage = k.stage
        /\ b.body = state /\ b.waiters = k.waiters /\ b.decoded = k.decoded
        /\ b.used = k.used /\ b.received = k.received /\ b.chunk = k.chunk /\ b.left = k.left
    BY DEF Sound, Shape, RestKept, AnswerKept, Fields, NewConnection
  <2> HIDE DEF b
  <2>3. /\ Shape(k, ts) /\ AnsweredOnce(k) /\ Counts(k) /\ k.received = 0
        /\ k.got \in 0..Len(Message(r)) /\ k.chunk \in Decoding
        /\ r.framing = "length" => k.left = 0
    BY <1>4 DEF Sound, Counting, Live
  <2>4. Shape(b, ts) /\ AnsweredOnce(b)
    BY <2>2, <2>3 DEF Shape, AnsweredOnce, RestKept, AnswerKept, Live
  <2>5. Counts(b)
    BY <2>2, <2>3 DEF Counts
  <2>6. r.framing = "length" => b.received <= r.length /\ r.length <= Cap
    BY <1>4, <2>2, <2>3, HttpAssumption DEF Request
  <2>7. Measured(b, r)
    BY <2>2, <2>3, <2>5, <2>6 DEF Measured, RestKept
  <2>8. b.stage # "Closed"
    BY <1>4, <2>2 DEF Sound, Waiting, Live, Dispatched
  <2>8a. Placed(b, r) /\ Dispatched(b)
    <3>1. Placed(k, r) /\ Dispatched(b)
      BY <2>2 DEF Sound, Dispatched
    <3>2. Decoded(k, r.body) => Decoded(b, r.body)
      BY <2>2 DEF Decoded
    <3>3. ASSUME r.head = "plain", Framed(r) PROVE InPlace(b, r)
      <4>1. InPlace(k, r)
        BY <1>4, <3>1, <3>3 DEF Placed
      <4>2. r.framing = "chunked" => ByChunks(b, r.body)
        BY <1>4, <2>2, <3>2, <4>1 DEF InPlace, ByChunks, Live
      <4>3. r.framing = "length" => ByLength(b, r)
        BY <1>4, <2>2, <4>1 DEF InPlace, ByLength
      <4> QED BY <1>4, <2>2, <4>1, <4>2, <4>3 DEF InPlace, RestKept
    <3> QED BY <1>4, <2>2, <3>1, <3>3 DEF Placed
  <2>9. Progress(b, state, r, e)
    BY <2>2, <2>4, <2>7, <2>8, <2>8a, AdvanceEffect
  <2> HIDE DEF e
  <2>10. Progress(k, state, r, e)
    BY <2>2, <2>9 DEF Progress, RestKept, AnswerKept, Answered
  <2> QED BY <1>4, <2>1, <2>10
<1>5. k.answered \in BOOLEAN
  BY DEF Sound, Shape
<1> QED BY <1>1, <1>2, <1>3, <1>4, <1>5

-----------------------------------------------------------------------------
(***************************************************************************)
(* Each step keeps a sound connection sound.                               *)
(***************************************************************************)

LEMMA TasksAreDispatched ==
  ASSUME NEW k, NEW ts, NEW held, NEW r, NEW g, Sound(k, ts, held, r, g),
         \/ \E t \in Task : ts[t] # "none"
         \/ k.streams = TRUE
         \/ k.body # "Unread"
  PROVE  Dispatched(k)
BY DEF Sound, Untouched, Dispatched

\* What the invariant does not look at may change.
LEMMA SoundKept ==
  ASSUME NEW k, NEW ts, NEW held, NEW r, NEW g, Sound(k, ts, held, r, g), NEW j,
         RestKept(k, j), BodyKept(k, j), AnswerKept(k, j), j.stage = k.stage
  PROVE  Sound(j, ts, held, r, g)
<1>1. Shape(j, ts) /\ AnsweredOnce(j)
  BY DEF Sound, Shape, AnsweredOnce, RestKept, BodyKept, AnswerKept
<1>2. Untouched(j, ts) /\ Waiting(j, held)
  BY DEF Sound, Untouched, Waiting, RestKept, BodyKept, AnswerKept
<1>3. Answering(j, ts) /\ Lingering(j, r)
  BY DEF Sound, Answering, Lingering, RestKept, BodyKept, AnswerKept
<1>4. Counting(j, r, g)
  BY DEF Sound, Counting, Counts, RestKept, BodyKept
<1>5. Placed(j, r)
  <2>1. SamePlace(k, j)
    BY DEF Sound, Counting, SamePlace, RestKept, BodyKept
  <2> QED BY <2>1, PlacedKept DEF Sound
<1> QED BY <1>1, <1>2, <1>3, <1>4, <1>5 DEF Sound

\* The server may take hold of it.
LEMMA SoundHeld ==
  ASSUME NEW k, NEW ts, NEW held, NEW r, NEW g, Sound(k, ts, held, r, g),
         NEW now, held = TRUE => now = TRUE
  PROVE  Sound(k, ts, now, r, g)
BY DEF Sound, Waiting

\* A task that reads goes on to read, to wait or to its end.
LEMMA SoundTask ==
  ASSUME NEW k, NEW ts, NEW held, NEW r, NEW g, Sound(k, ts, held, r, g),
         NEW t \in Task, ts[t] \in {"idle", "whole", "stream"},
         NEW to \in {"idle", "whole", "stream", "over"}
  PROVE  Sound(k, [ts EXCEPT ![t] = to], held, r, g)
<1> DEFINE us == [ts EXCEPT ![t] = to]
<1>1. /\ us \in [Task -> {"none", "idle", "whole", "stream", "open", "over"}]
      /\ us[t] = to /\ \A o \in Task : o # t => us[o] = ts[o]
  BY DEF Sound, Shape
<1> HIDE DEF us
<1>2. Dispatched(k)
  BY TasksAreDispatched
<1>3. Shape(k, us)
  BY <1>1 DEF Sound, Shape
<1>4. Untouched(k, us)
  BY <1>2 DEF Untouched, Dispatched
<1>5. Answering(k, us)
  <2>1. k.stage = "Closing" => k.answered = TRUE
    BY DEF Sound, Answering
  <2>2. CASE t = Handler
    <3>1. k.streams = FALSE
      BY <2>2 DEF Sound, Answering, Shape
    <3>2. k.answered = TRUE => k.body \notin Live \cup {"Abandoned"}
      BY <2>2 DEF Sound, Answering
    <3> QED BY <2>1, <3>1, <3>2 DEF Sound, Answering
  <2>3. CASE t # Handler
    <3>1. us[Handler] = ts[Handler]
      BY <1>1, <2>3, HttpAssumption
    <3> QED BY <2>1, <3>1 DEF Sound, Answering
  <2> QED BY <2>2, <2>3
<1> QED BY <1>3, <1>4, <1>5 DEF Sound, us

\* A response, by the handler as it ends or on the stream it opened.
LEMMA SoundResponds ==
  ASSUME NEW k, NEW ts, NEW held, NEW r, NEW g, Sound(k, ts, held, r, g),
         NEW j, Responds(k, j), ts[Handler] \in {"open", "over"}
  PROVE  Sound(j, ts, held, r, g)
<1>1. CASE j = k
  BY <1>1
<1>2. CASE j # k
  <2>1. /\ RestKept(k, j) /\ BodyKept(k, j) /\ AnsweredOnce(j) /\ Answered(k, j)
        /\ j.stage \in {k.stage, "Closing"}
    BY <1>2 DEF Responds
  <2>2. Dispatched(k)
    <3>1. ts[Handler] # "none" /\ Handler \in Task
      BY HttpAssumption
    <3> QED BY <3>1, TasksAreDispatched
  <2>3. Shape(j, ts)
    BY <2>1 DEF Sound, Shape, RestKept, BodyKept, Answered
  <2>4. Untouched(j, ts)
    BY <2>1, <2>2 DEF Untouched, Dispatched
  <2>5. Waiting(j, held)
    BY <2>1, <2>2 DEF Sound, Waiting, BodyKept, Dispatched
  <2>6. Answering(j, ts)
    BY <2>1 DEF Sound, Answering, RestKept, BodyKept, Answered
  <2>7. Lingering(j, r)
    BY <2>1 DEF Sound, Lingering, RestKept, BodyKept
  <2>8. Counting(j, r, g)
    BY <2>1 DEF Sound, Counting, Counts, RestKept, BodyKept
  <2>9. Placed(j, r)
    <3>1. SamePlace(k, j)
      BY <2>1 DEF Sound, Counting, SamePlace, RestKept, BodyKept
    <3> QED BY <2>1, <2>2, <3>1, PlacedKept DEF Sound
  <2> QED BY <2>1, <2>3, <2>4, <2>5, <2>6, <2>7, <2>8, <2>9 DEF Sound
<1> QED BY <1>1, <1>2

LEMMA SoundCloses ==
  ASSUME NEW k, NEW ts, NEW held, NEW r, NEW g, Sound(k, ts, held, r, g),
         NEW j, Closes(k, j)
  PROVE  Sound(j, ts, held, r, g)
<1>1. CASE j = k
  BY <1>1
<1>2. CASE j # k
  <2>1. /\ RestKept(k, j) /\ AnsweredOnce(j)
        /\ \/ j.stage = "Closed" /\ AnswerKept(k, j)
           \/ k.listener = "close" /\ j.stage \in {"Closed", "Closing"} /\ Answered(k, j)
        /\ k.body \in Live => j.body = "Gone" /\ j.waiters = {}
        /\ k.body \notin Live =>
             j.body = k.body /\ j.waiters = k.waiters /\ j.decoded = k.decoded
        /\ j.used = k.used /\ j.received = k.received /\ j.chunk = k.chunk /\ j.left = k.left
    BY <1>2 DEF Closes
  <2>2. j.body \notin Live
    BY <2>1 DEF Live
  <2>3. Shape(j, ts)
    <3>1. j.body \in Live \cup {"Read", "StreamEnded", "Gone", "Refused", "Abandoned", "Draining"}
      BY <2>1 DEF Sound, Shape
    <3>2. j.answered \in BOOLEAN /\ j.headSent \in BOOLEAN
      BY <2>1 DEF Sound, Shape, AnswerKept, Answered
    <3> QED BY <2>1, <3>1, <3>2 DEF Sound, Shape, RestKept
  <2>4. Untouched(j, ts)
    BY <2>1 DEF Untouched
  <2>5. Waiting(j, held)
    BY <2>1, <2>2 DEF Sound, Waiting, Live
  <2>6. Answering(j, ts)
    <3>1. CASE j.stage = "Closed" /\ AnswerKept(k, j)
      BY <2>1, <2>2, <3>1 DEF Sound, Answering, RestKept, AnswerKept
    <3>2. CASE k.listener = "close" /\ Answered(k, j)
      <4>1. ts[Handler] \in {"open", "over"}
        BY <3>2 DEF Sound, Answering
      <4> QED BY <2>1, <3>2, <4>1 DEF Sound, Answering, RestKept, Answered
    <3> QED BY <2>1, <3>1, <3>2
  <2>7. Lingering(j, r)
    <3>1. j.body \in {k.body, "Gone"}
      BY <2>1
    <3> QED BY <2>1, <3>1 DEF Sound, Lingering, RestKept
  <2>8. Counting(j, r, g)
    BY <2>1, <2>2 DEF Sound, Counting, Counts, RestKept, Live
  <2>9. Placed(j, r)
    BY PlacedCloses DEF Sound
  <2> QED BY <2>1, <2>3, <2>4, <2>5, <2>6, <2>7, <2>8, <2>9 DEF Sound
<1> QED BY <1>1, <1>2

\* A body that starts or goes on.
LEMMA SoundProgress ==
  ASSUME NEW k, NEW ts, NEW held, NEW r, NEW g, Sound(k, ts, held, r, g),
         NEW from \in {"Reading", "Streaming"}, NEW j, Progress(k, from, r, j),
         Dispatched(k), k.body \in Live, k.linger = "no",
         k.body = "Unread" => k.answered = FALSE
  PROVE  Sound(j, ts, held, r, g)
<1>1. /\ RestKept(k, j) /\ AnsweredOnce(j) /\ Counts(j) /\ Placed(j, r)
      /\ \/ /\ j.body = from /\ j.waiters \in {k.waiters, {}}
            /\ AnswerKept(k, j) /\ j.stage = k.stage /\ Measured(j, r)
            /\ j.decoded + k.received = j.received + k.decoded
         \/ /\ from = "Reading" /\ j.body = "Read" /\ j.waiters = {}
            /\ AnswerKept(k, j) /\ j.stage = k.stage
         \/ /\ from = "Streaming" /\ j.body = "StreamEnded" /\ j.waiters = {}
            /\ AnswerKept(k, j) /\ j.stage = k.stage
            /\ j.decoded + k.received = j.received + k.decoded
         \/ /\ j.body = "Gone" /\ j.waiters = {}
            /\ \/ AnswerKept(k, j) /\ j.stage = "Closed"
               \/ Answered(k, j) /\ j.stage \in {"Closed", "Closing"}
         \/ /\ j.body = "Refused" /\ j.waiters = {}
            /\ Answered(k, j) /\ j.stage = "Closing"
  BY DEF Progress
<1>2. \/ AnswerKept(k, j) /\ j.stage \in {k.stage, "Closed"}
      \/ /\ Answered(k, j) /\ j.stage \in {"Closed", "Closing"}
         /\ j.body \notin Live \cup {"Abandoned"}
  BY <1>1 DEF Live
<1>3. j.body \in {from, "Read", "StreamEnded", "Gone", "Refused"}
  BY <1>1
<1>4. held = TRUE /\ k.stage # "Closed"
  BY DEF Sound, Waiting, Dispatched
<1>5. Shape(j, ts)
  <2>1. j.body \in Live \cup {"Read", "StreamEnded", "Gone", "Refused", "Abandoned", "Draining"}
    BY <1>3 DEF Live
  <2>2. j.answered \in BOOLEAN /\ j.headSent \in BOOLEAN
    BY <1>2 DEF Sound, Shape, AnswerKept, Answered
  <2>3. j.stage \in {"None", "Reading", "Dispatched", "Upgraded", "Closing", "Closed"}
    BY <1>2 DEF Sound, Shape
  <2> QED BY <1>1, <2>1, <2>2, <2>3 DEF Sound, Shape, RestKept
<1>6. Untouched(j, ts)
  BY <1>2 DEF Untouched, Dispatched
<1>7. Waiting(j, held)
  <2>1. j.waiters # {} => j.body = from
    BY <1>1
  <2>2. j.body \in Live => j.stage = k.stage
    BY <1>1 DEF Live
  <2> QED BY <1>4, <2>1, <2>2 DEF Waiting
<1>8. Answering(j, ts)
  <2>1. CASE AnswerKept(k, j) /\ j.stage \in {k.stage, "Closed"}
    <3>1. k.answered = TRUE => ts[Handler] \notin {"idle", "whole", "stream"}
      BY DEF Sound, Answering
    <3> QED BY <1>1, <2>1, <3>1 DEF Sound, Answering, RestKept, AnswerKept
  <2>2. CASE /\ Answered(k, j) /\ j.stage \in {"Closed", "Closing"}
             /\ j.body \notin Live \cup {"Abandoned"}
    BY <1>1, <2>2 DEF Sound, Answering, RestKept, Answered
  <2> QED BY <1>2, <2>1, <2>2
<1>9. Lingering(j, r)
  BY <1>1 DEF Lingering, RestKept
<1>10. Counting(j, r, g)
  <2>1. /\ k.got \in 0..Len(Message(r)) /\ g \in Nat /\ g + k.decoded = k.received
        /\ Counts(k) /\ Cap \in Nat
    BY HttpAssumption DEF Sound, Counting
  <2>2. j.got \in 0..Len(Message(r)) /\ j.received \in 0..Cap
    BY <1>1, <2>1 DEF Counts, RestKept
  <2>3. j.body \in Live \cup {"StreamEnded"} => g + j.decoded = j.received
    <3>1. j.body \in Live \cup {"StreamEnded"} =>
            j.decoded + k.received = j.received + k.decoded
      BY <1>1 DEF Live
    <3>2. /\ k.received \in Nat /\ k.decoded \in Nat /\ j.received \in Nat /\ j.decoded \in Nat
      BY <1>1, <2>1 DEF Counts
    <3>3. \A x, y, u, v \in Nat : g \in Nat /\ g + y = x /\ v + x = u + y => g + v = u
      OBVIOUS
    <3>4. g \in Nat /\ g + k.decoded = k.received
      BY <2>1
    <3> QED BY <3>1, <3>2, <3>3, <3>4
  <2>4. j.body \in Live => Measured(j, r) /\ j.body # "Unread"
    BY <1>1 DEF Live
  <2> QED BY <1>1, <1>3, <2>1, <2>2, <2>3, <2>4 DEF Counting, Measured
<1> QED BY <1>1, <1>5, <1>6, <1>7, <1>8, <1>9, <1>10 DEF Sound

-----------------------------------------------------------------------------
(***************************************************************************)
(* The invariant.                                                          *)
(***************************************************************************)

\* A step that changes connection c, its tasks and what they were given, and
\* keeps it sound.
Moves(c) ==
  /\ \E j : /\ Becomes(c, j)
            /\ Sound(j, task'[c], c \in connections, request[c], given'[c])
  /\ task' = [d \in Conn |-> IF d = c THEN task'[c] ELSE task[d]]
  /\ given' = [d \in Conn |-> IF d = c THEN given'[c] ELSE given[d]]

LEMMA MovesKeep ==
  ASSUME HttpInv, NEW c \in Conn, Moves(c),
         request' = request, connections' = connections, current' \in Conn
  PROVE  HttpInv'
<1>1. PICK j : /\ conn' = [conn EXCEPT ![c] = j]
               /\ Sound(j, task'[c], c \in connections, request[c], given'[c])
  BY DEF Moves, Becomes
<1>2. /\ DOMAIN conn = Conn /\ DOMAIN conn' = Conn /\ conn'[c] = j
      /\ \A d \in Conn : d # c => conn'[d] = conn[d]
      /\ conn' = [d \in Conn |-> conn'[d]]
  BY <1>1 DEF HttpInv, Types
<1>3. \A d \in Conn : d # c => task'[d] = task[d] /\ given'[d] = given[d]
  BY DEF Moves
<1>4. Types'
  BY <1>2 DEF HttpInv, Types, Moves
<1>5. ASSUME NEW d \in Conn
      PROVE  Sound(conn'[d], task'[d], d \in connections', request'[d], given'[d])
  <2>1. CASE d = c
    BY <1>1, <1>2, <2>1
  <2>2. CASE d # c
    <3>1. Sound(conn[d], task[d], d \in connections, request[d], given[d])
      BY DEF HttpInv
    <3>2. conn'[d] = conn[d] /\ task'[d] = task[d] /\ given'[d] = given[d]
      BY <1>2, <1>3, <2>2
    <3> QED BY <3>1, <3>2
  <2> QED BY <2>1, <2>2
<1> QED BY <1>4, <1>5 DEF HttpInv

\* A sound connection, by name.
LEMMA IsSound ==
  ASSUME HttpInv, NEW c \in Conn
  PROVE  /\ Sound(conn[c], task[c], c \in connections, request[c], given[c])
         /\ DOMAIN conn[c] = Fields /\ request[c] \in Requests
         /\ task = [d \in Conn |-> task[d]] /\ given = [d \in Conn |-> given[d]]
         /\ task[c] \in [Task -> {"none", "idle", "whole", "stream", "open", "over"}]
BY DEF HttpInv, Types, Sound, Shape

\* The body as a read finds it, once started.
LEMMA StartIsSound ==
  ASSUME NEW k, NEW ts, NEW held, NEW r \in Requests, NEW g, Sound(k, ts, held, r, g),
         NEW t \in Task, ts[t] # "none", NEW state \in {"Reading", "Streaming"}
  PROVE  Sound(start_body(k, r, state), ts, held, r, g)
<1> DEFINE j == start_body(k, r, state)
<1>1. Dispatched(k)
  BY TasksAreDispatched
<1>2. \/ k.body # "Unread" /\ j = k
      \/ /\ k.body = "Unread" /\ k.answered = TRUE
         /\ RestKept(k, j) /\ AnswerKept(k, j) /\ j.stage = k.stage
         /\ j.body = "Gone" /\ j.waiters = {} /\ j.received = k.received
      \/ k.body = "Unread" /\ k.answered = FALSE /\ Progress(k, state, r, j)
  BY <1>1, StartEffect
<1> HIDE DEF j
<1>3. CASE k.body # "Unread" /\ j = k
  BY <1>3 DEF j
<1>4. CASE /\ k.body = "Unread" /\ k.answered = TRUE
           /\ RestKept(k, j) /\ AnswerKept(k, j) /\ j.stage = k.stage
           /\ j.body = "Gone" /\ j.waiters = {} /\ j.received = k.received
  <2>1. Shape(j, ts) /\ AnsweredOnce(j) /\ Untouched(j, ts)
    BY <1>1, <1>4 DEF Sound, Shape, AnsweredOnce, Untouched, RestKept, AnswerKept, Dispatched
  <2>2. Waiting(j, held) /\ Counting(j, r, g)
    BY <1>4 DEF Sound, Waiting, Counting, RestKept, Live
  <2>3. Answering(j, ts) /\ Lingering(j, r)
    BY <1>4 DEF Sound, Answering, Lingering, RestKept, AnswerKept, Live
  <2>4. Placed(j, r)
    <3>1. r.framing = "empty" => j.received = 0
      BY <1>4 DEF Sound, Placed
    <3> QED BY <1>4, <3>1, PlacedLost DEF Sound
  <2> QED BY <2>1, <2>2, <2>3, <2>4 DEF Sound, j
<1>5. CASE k.body = "Unread" /\ k.answered = FALSE /\ Progress(k, state, r, j)
  <2>1. k.stage # "Closed" /\ k.stage # "Closing"
    BY <1>1, <1>5 DEF Sound, Waiting, Answering, Dispatched, Live
  <2>2. k.linger = "no"
    BY <2>1 DEF Sound, Lingering
  <2> QED BY <1>1, <1>5, <2>2, SoundProgress DEF j, Live
<1> QED BY <1>2, <1>3, <1>4, <1>5

\* Who waits is put on a body that is being read.
LEMMA SoundWaiter ==
  ASSUME NEW k, NEW ts, NEW held, NEW r, NEW g, Sound(k, ts, held, r, g),
         NEW t \in Task, k.body \in {"Reading", "Streaming"}
  PROVE  Sound([k EXCEPT !.waiters = @ \cup {t}], ts, held, r, g)
<1> DEFINE j == [k EXCEPT !.waiters = @ \cup {t}]
<1>1. /\ RestKept(k, j) /\ AnswerKept(k, j) /\ j.stage = k.stage /\ j.body = k.body
      /\ j.used = k.used /\ j.received = k.received /\ j.decoded = k.decoded
      /\ j.chunk = k.chunk /\ j.left = k.left
  BY DEF Sound, Shape, RestKept, AnswerKept, Fields, NewConnection
<1> HIDE DEF j
<1>2. Shape(j, ts) /\ AnsweredOnce(j) /\ Untouched(j, ts) /\ Waiting(j, held)
  BY <1>1 DEF Sound, Shape, AnsweredOnce, Untouched, Waiting, RestKept, AnswerKept
<1>3. Answering(j, ts) /\ Lingering(j, r) /\ Counting(j, r, g)
  BY <1>1 DEF Sound, Answering, Lingering, Counting, Counts, RestKept, AnswerKept
<1>4. Placed(j, r)
  <2>1. SamePlace(k, j)
    BY <1>1 DEF Sound, Counting, SamePlace, RestKept
  <2> QED BY <1>1, <2>1, PlacedKept DEF Sound
<1> QED BY <1>2, <1>3, <1>4 DEF Sound, j

\* A piece is handed out.
LEMMA SoundPiece ==
  ASSUME NEW k, NEW ts, NEW held, NEW r, NEW g, Sound(k, ts, held, r, g),
         k.body \in {"Streaming", "StreamEnded"}, NEW n \in 1..k.decoded
  PROVE  Sound([k EXCEPT !.decoded = @ - n], ts, held, r, g + n)
<1> DEFINE j == [k EXCEPT !.decoded = @ - n]
<1>1. /\ RestKept(k, j) /\ AnswerKept(k, j) /\ j.stage = k.stage /\ j.body = k.body
      /\ j.used = k.used /\ j.received = k.received /\ j.decoded = k.decoded - n
      /\ j.chunk = k.chunk /\ j.left = k.left /\ j.waiters = k.waiters
  BY DEF Sound, Shape, RestKept, AnswerKept, Fields, NewConnection
<1> HIDE DEF j
<1>2. Shape(j, ts) /\ AnsweredOnce(j) /\ Untouched(j, ts) /\ Waiting(j, held)
  BY <1>1 DEF Sound, Shape, AnsweredOnce, Untouched, Waiting, RestKept, AnswerKept
<1>3. Answering(j, ts) /\ Lingering(j, r)
  BY <1>1 DEF Sound, Answering, Lingering, RestKept, AnswerKept
<1>4. Counts(k) /\ g + k.decoded = k.received /\ g \in Nat
  BY DEF Sound, Counting, Live
<1>5. Counts(j) /\ (g + n) + j.decoded = j.received /\ g + n \in Nat
  BY <1>1, <1>4 DEF Counts
<1>6. Counting(j, r, g + n)
  BY <1>1, <1>5 DEF Sound, Counting, RestKept
<1>7. Placed(j, r)
  <2>1. SamePlace(k, j)
    BY <1>1 DEF Sound, Counting, SamePlace, RestKept
  <2> QED BY <1>1, <2>1, PlacedKept DEF Sound
<1> QED BY <1>2, <1>3, <1>6, <1>7 DEF Sound, j

LEMMA ReadKeeps ==
  ASSUME HttpInv, NEW c \in Conn, NEW t \in Task,
         task[c][t] \in {"idle", "whole", "stream"}, NEW k,
         Sound(k, task[c], c \in connections, request[c], given[c]),
         BodyRead_poll(c, t, k)
  PROVE  Moves(c)
<1> DEFINE b == start_body(k, request[c], "Reading")
<1>1. Sound(b, task[c], c \in connections, request[c], given[c])
  BY IsSound, StartIsSound
<1>2. given' = [d \in Conn |-> IF d = c THEN given'[c] ELSE given[d]] /\ given'[c] = given[c]
  BY IsSound DEF BodyRead_poll
<1>3. ASSUME NEW to \in {"idle", "whole", "over"}, Goes(c, t, to), NEW j, Becomes(c, j),
             Sound(j, task[c], c \in connections, request[c], given[c])
      PROVE  Moves(c)
  <2>1. /\ task' = [d \in Conn |-> IF d = c THEN task'[c] ELSE task[d]]
        /\ task'[c] = [task[c] EXCEPT ![t] = to]
    BY <1>3, IsSound DEF Goes
  <2>2. Sound(j, [task[c] EXCEPT ![t] = to], c \in connections, request[c], given[c])
    BY <1>3, SoundTask
  <2> QED BY <1>2, <1>3, <2>1, <2>2 DEF Moves
<1>4. \/ b.body = "Read" /\ Goes(c, t, "idle") /\ Becomes(c, b)
      \/ /\ b.body = "Reading" /\ Goes(c, t, "whole")
         /\ Becomes(c, [b EXCEPT !.waiters = @ \cup {t}])
      \/ b.body \notin {"Read", "Reading"} /\ Goes(c, t, "over") /\ Becomes(c, b)
  BY DEF BodyRead_poll
<1>5. b.body = "Reading" =>
        Sound([b EXCEPT !.waiters = @ \cup {t}], task[c], c \in connections, request[c], given[c])
  BY <1>1, SoundWaiter
<1> HIDE DEF b
<1> QED BY <1>1, <1>3, <1>4, <1>5

LEMMA PieceKeeps ==
  ASSUME HttpInv, NEW c \in Conn, NEW t \in Task,
         task[c][t] \in {"idle", "whole", "stream"}, NEW k,
         Sound(k, task[c], c \in connections, request[c], given[c]),
         BodyPiece_poll(c, t, k)
  PROVE  Moves(c)
<1> DEFINE b == start_body(k, request[c], "Streaming")
<1>1. Sound(b, task[c], c \in connections, request[c], given[c])
  BY IsSound, StartIsSound
<1>2. ASSUME NEW to \in {"idle", "stream", "over"}, Goes(c, t, to), NEW j, Becomes(c, j),
             given' = [given EXCEPT ![c] = given'[c]],
             Sound(j, task[c], c \in connections, request[c], given'[c])
      PROVE  Moves(c)
  <2>1. /\ task' = [d \in Conn |-> IF d = c THEN task'[c] ELSE task[d]]
        /\ task'[c] = [task[c] EXCEPT ![t] = to]
    BY <1>2, IsSound DEF Goes
  <2>2. Sound(j, [task[c] EXCEPT ![t] = to], c \in connections, request[c], given'[c])
    BY <1>2, SoundTask
  <2>3. given' = [d \in Conn |-> IF d = c THEN given'[c] ELSE given[d]]
    BY <1>2, IsSound
  <2> QED BY <1>2, <2>1, <2>2, <2>3 DEF Moves
<1>3. UNCHANGED given => given' = [given EXCEPT ![c] = given'[c]] /\ given'[c] = given[c]
  BY IsSound
<1>4. \/ /\ b.body \in {"Streaming", "StreamEnded"}
         /\ \E n \in 1..b.decoded :
              /\ Becomes(c, [b EXCEPT !.decoded = @ - n])
              /\ given' = [given EXCEPT ![c] = @ + n]
         /\ Goes(c, t, "idle")
      \/ Becomes(c, b) /\ Goes(c, t, "idle") /\ UNCHANGED given
      \/ /\ b.body = "Streaming"
         /\ Becomes(c, [b EXCEPT !.waiters = @ \cup {t}])
         /\ Goes(c, t, "stream") /\ UNCHANGED given
      \/ Becomes(c, b) /\ Goes(c, t, "over") /\ UNCHANGED given
  BY DEF BodyPiece_poll
<1>5. b.body = "Streaming" =>
        Sound([b EXCEPT !.waiters = @ \cup {t}], task[c], c \in connections, request[c], given[c])
  BY <1>1, SoundWaiter
<1>6. b.body \in {"Streaming", "StreamEnded"} =>
        \A n \in 1..b.decoded :
          Sound([b EXCEPT !.decoded = @ - n], task[c], c \in connections, request[c], given[c] + n)
  BY <1>1, SoundPiece
<1>7. \A n : given' = [given EXCEPT ![c] = @ + n] =>
               given' = [given EXCEPT ![c] = given'[c]] /\ given'[c] = given[c] + n
  BY IsSound
<1> HIDE DEF b
<1>8. CASE /\ b.body \in {"Streaming", "StreamEnded"}
           /\ \E n \in 1..b.decoded :
                /\ Becomes(c, [b EXCEPT !.decoded = @ - n])
                /\ given' = [given EXCEPT ![c] = @ + n]
           /\ Goes(c, t, "idle")
  <2>1. PICK n \in 1..b.decoded : /\ Becomes(c, [b EXCEPT !.decoded = @ - n])
                                  /\ given' = [given EXCEPT ![c] = @ + n]
    BY <1>8
  <2>2. /\ given' = [given EXCEPT ![c] = given'[c]]
        /\ Sound([b EXCEPT !.decoded = @ - n], task[c], c \in connections, request[c], given'[c])
    BY <1>6, <1>7, <1>8, <2>1
  <2> QED BY <1>2, <1>8, <2>1, <2>2
<1>9. CASE UNCHANGED given
  BY <1>1, <1>2, <1>3, <1>4, <1>5, <1>8, <1>9
<1> QED BY <1>4, <1>8, <1>9

\* A step of connection c that leaves its tasks and what they were given alone.
LEMMA AloneMoves ==
  ASSUME HttpInv, NEW c \in Conn, NEW j, Becomes(c, j), UNCHANGED <<task, given>>,
         Sound(j, task[c], c \in connections, request[c], given[c])
  PROVE  Moves(c)
<1>1. task' = [d \in Conn |-> IF d = c THEN task'[c] ELSE task[d]] /\ task'[c] = task[c]
  BY IsSound
<1>2. given' = [d \in Conn |-> IF d = c THEN given'[c] ELSE given[d]] /\ given'[c] = given[c]
  BY IsSound
<1> QED BY <1>1, <1>2 DEF Moves

\* The claim is not looked at.
LEMMA SoundClaim ==
  ASSUME NEW k, NEW ts, NEW held, NEW r, NEW g, Sound(k, ts, held, r, g), NEW how
  PROVE  Sound([k EXCEPT !.claim = how], ts, held, r, g)
<1> DEFINE j == [k EXCEPT !.claim = how]
<1>1. RestKept(k, j) /\ BodyKept(k, j) /\ AnswerKept(k, j) /\ j.stage = k.stage
  BY DEF Sound, Shape, RestKept, BodyKept, AnswerKept, Fields, NewConnection
<1> HIDE DEF j
<1> QED BY <1>1, SoundKept DEF j

LEMMA ClaimRefusedKeeps ==
  ASSUME HttpInv, NEW c \in Conn, NEW t \in Task, task[c][t] = "idle", NEW how,
         claim_refused(c, t, how)
  PROVE  Moves(c)
<1> DEFINE k == conn[c]
           b == IF k.body = "Gone" THEN k ELSE settle(k, "Refused")
           j == refuse_with(b)
<1>1. Sound(k, task[c], c \in connections, request[c], given[c]) /\ DOMAIN k = Fields
  BY IsSound
<1>2. Becomes(c, j) /\ Goes(c, t, "over") /\ UNCHANGED given
  BY DEF claim_refused
<1> HIDE DEF k
<1>3. Dispatched(k)
  BY <1>1, TasksAreDispatched
<1>4. /\ RestKept(k, b) /\ AnswerKept(k, b) /\ b.stage = k.stage
      /\ b.body \in {"Gone", "Refused"} /\ b.waiters = {} /\ b.received = k.received
  <2>1. CASE k.body = "Gone"
    BY <1>1, <2>1 DEF RestKept, AnswerKept, Sound, Waiting
  <2>2. CASE k.body # "Gone"
    BY <1>1, <2>2, SettleEffect
  <2> QED BY <2>1, <2>2
<1> HIDE DEF b
<1>5. Shape(b, task[c]) /\ AnsweredOnce(b)
  BY <1>1, <1>4 DEF Sound, Shape, AnsweredOnce, RestKept, AnswerKept
<1>6. /\ RestKept(b, j) /\ BodyKept(b, j) /\ j.stage = "Closing"
      /\ Answered(b, j) /\ AnsweredOnce(j)
  BY <1>5, RefuseEffect
<1> HIDE DEF j
<1>7. /\ RestKept(k, j) /\ j.body \in {"Gone", "Refused"} /\ j.waiters = {}
      /\ j.received = k.received /\ j.answered = TRUE /\ j.headSent \in BOOLEAN
  BY <1>4, <1>6 DEF RestKept, BodyKept, Answered
<1>8. Sound(j, task[c], c \in connections, request[c], given[c])
  <2>1. Shape(j, task[c]) /\ Untouched(j, task[c])
    BY <1>1, <1>6, <1>7 DEF Sound, Shape, Untouched, RestKept
  <2>2. Waiting(j, c \in connections)
    BY <1>7 DEF Waiting, Live
  <2>3. Answering(j, task[c])
    BY <1>1, <1>6, <1>7 DEF Sound, Answering, RestKept, Live
  <2>4. Lingering(j, request[c])
    BY <1>6, <1>7 DEF Lingering
  <2>5. Counting(j, request[c], given[c])
    BY <1>1, <1>7 DEF Sound, Counting, RestKept, Live
  <2>6. Placed(j, request[c])
    <3>1. request[c].framing = "empty" => j.received = 0
      BY <1>1, <1>7 DEF Sound, Placed
    <3> QED BY <1>1, <1>6, <1>7, <3>1, PlacedLost DEF Sound
  <2> QED BY <1>6, <2>1, <2>2, <2>3, <2>4, <2>5, <2>6 DEF Sound
<1>9. Sound(j, [task[c] EXCEPT ![t] = "over"], c \in connections, request[c], given[c])
  BY <1>8, SoundTask
<1>10. /\ task' = [d \in Conn |-> IF d = c THEN task'[c] ELSE task[d]]
       /\ task'[c] = [task[c] EXCEPT ![t] = "over"]
  BY <1>2, IsSound DEF Goes
<1>11. given' = [d \in Conn |-> IF d = c THEN given'[c] ELSE given[d]] /\ given'[c] = given[c]
  BY <1>2, IsSound
<1> QED BY <1>2, <1>9, <1>10, <1>11 DEF Moves

LEMMA ReadsKeep ==
  ASSUME HttpInv, NEW c \in Conn, NEW t \in Task,
         bytes(c, t) \/ body_stream(c, t) \/ next(c, t) \/ resume(c, t)
  PROVE  HttpInv'
<1>1. Sound(conn[c], task[c], c \in connections, request[c], given[c])
  BY IsSound
<1>2. \A how : Sound([conn[c] EXCEPT !.claim = how], task[c], c \in connections,
                     request[c], given[c])
  BY <1>1, SoundClaim
<1>3. ASSUME Moves(c), UNCHANGED <<request, connections, current>> PROVE HttpInv'
  <2>1. request' = request /\ connections' = connections /\ current' \in Conn
    BY <1>3 DEF HttpInv, Types
  <2> QED BY <1>3, <2>1, MovesKeep
<1>4. CASE bytes(c, t)
  <2>1. /\ task[c][t] = "idle" /\ UNCHANGED <<request, connections, current>>
        /\ \/ BodyRead_poll(c, t, [conn[c] EXCEPT !.claim = "whole"])
           \/ claim_refused(c, t, "whole")
    BY <1>4 DEF bytes, clientVars, serverVars, loopVars
  <2> QED BY <1>2, <1>3, <2>1, ReadKeeps, ClaimRefusedKeeps
<1>5. CASE body_stream(c, t)
  <2>1. /\ task[c][t] = "idle" /\ UNCHANGED <<request, connections, current>>
        /\ \/ Becomes(c, [conn[c] EXCEPT !.claim = "stream"]) /\ UNCHANGED <<task, given>>
           \/ claim_refused(c, t, "stream")
    BY <1>5 DEF body_stream, clientVars, serverVars, loopVars
  <2> QED BY <1>2, <1>3, <2>1, AloneMoves, ClaimRefusedKeeps
<1>6. CASE next(c, t)
  <2>1. /\ task[c][t] = "idle" /\ UNCHANGED <<request, connections, current>>
        /\ BodyPiece_poll(c, t, conn[c])
    BY <1>6 DEF next, clientVars, serverVars, loopVars
  <2> QED BY <1>1, <1>3, <2>1, PieceKeeps
<1>7. CASE resume(c, t)
  <2>1. /\ UNCHANGED <<request, connections, current>>
        /\ \/ task[c][t] = "whole" /\ BodyRead_poll(c, t, conn[c])
           \/ task[c][t] = "stream" /\ BodyPiece_poll(c, t, conn[c])
    BY <1>7 DEF resume, clientVars, serverVars, loopVars
  <2> QED BY <1>1, <1>3, <2>1, ReadKeeps, PieceKeeps
<1> QED BY <1>4, <1>5, <1>6, <1>7

\* The handler's task ends, or goes on to run its stream's on_open.
LEMMA SoundOver ==
  ASSUME NEW k, NEW ts, NEW held, NEW r, NEW g, Sound(k, ts, held, r, g),
         ts[Handler] \in {"idle", "open"}, NEW to \in {"open", "over"}
  PROVE  Sound(k, [ts EXCEPT ![Handler] = to], held, r, g)
<1> DEFINE us == [ts EXCEPT ![Handler] = to]
<1>1. /\ us \in [Task -> {"none", "idle", "whole", "stream", "open", "over"}]
      /\ us[Handler] = to
  BY HttpAssumption DEF Sound, Shape
<1> HIDE DEF us
<1>2. \E t \in Task : ts[t] # "none"
  BY HttpAssumption
<1>3. Dispatched(k)
  BY <1>2, TasksAreDispatched
<1>4. Untouched(k, us)
  BY <1>3 DEF Untouched, Dispatched
<1>5. Answering(k, us)
  BY <1>1, <1>2 DEF Sound, Answering
<1> QED BY <1>1, <1>4, <1>5 DEF Sound, Shape, us

\* What the application is told before it answers keeps the connection sound.
LEMMA SoundLeftUnread ==
  ASSUME NEW k, NEW ts, NEW held, NEW r, NEW g, Sound(k, ts, held, r, g),
         ts[Handler] = "idle", NEW to \in {"open", "over"}
  PROVE  LET j == body_left_unread(k, r)
         IN  Sound(j, [ts EXCEPT ![Handler] = to], held, r, g) /\ Dispatched(j)
<1> DEFINE j == body_left_unread(k, r)
           us == [ts EXCEPT ![Handler] = to]
<1>1. /\ us \in [Task -> {"none", "idle", "whole", "stream", "open", "over"}]
      /\ us[Handler] = to
  BY HttpAssumption DEF Sound, Shape
<1>2. /\ DOMAIN j = Fields /\ j.got = k.got /\ j.linger = k.linger
      /\ j.streams = k.streams /\ j.listener = k.listener /\ j.owed = k.owed
      /\ AnswerKept(k, j) /\ j.stage = k.stage
      /\ j.drains \in {k.drains, TRUE}
      /\ \/ BodyKept(k, j) /\ k.body # "Streaming"
         \/ /\ k.body = "Streaming" /\ j.body = "Abandoned" /\ j.waiters = {}
            /\ j.used = k.used /\ j.received = k.received /\ j.chunk = k.chunk /\ j.left = k.left
      /\ k.body \notin {"Unread", "Streaming"} => j.drains = k.drains
  <2>1. DOMAIN k = Fields
    BY DEF Sound, Shape
  <2> HIDE DEF us
  <2> QED BY <2>1, LeftUnreadEffect, Zenon
<1> HIDE DEF us, j
<1>3. \E t \in Task : ts[t] # "none"
  BY HttpAssumption
<1>4. Dispatched(k)
  BY <1>3, TasksAreDispatched
<1>5. Shape(j, us)
  <2>1. j.body \in Live \cup {"Read", "StreamEnded", "Gone", "Refused", "Abandoned", "Draining"}
    BY <1>2 DEF Sound, Shape, BodyKept
  <2> QED BY <1>1, <1>2, <2>1 DEF Sound, Shape, AnswerKept
<1>6. AnsweredOnce(j) /\ Untouched(j, us)
  BY <1>2, <1>4 DEF Sound, AnsweredOnce, AnswerKept, Untouched, Dispatched
<1>7. Waiting(j, held)
  BY <1>2 DEF Sound, Waiting, BodyKept, Live
<1>8. Answering(j, us)
  BY <1>1, <1>2, <1>3 DEF Sound, Answering, AnswerKept
<1>9. Lingering(j, r)
  <2>1. k.linger # "no" => k.body \notin {"Unread", "Streaming"}
    BY <1>3 DEF Sound, Lingering, Answering, Waiting, Live
  <2>2. k.linger # "no" => j.drains = k.drains /\ BodyKept(k, j)
    BY <1>2, <2>1
  <2> QED BY <1>2, <2>2 DEF Sound, Lingering, BodyKept
<1>10. Counting(j, r, g)
  <2>1. CASE BodyKept(k, j)
    BY <1>2, <2>1 DEF Sound, Counting, Counts, BodyKept
  <2>2. CASE j.body = "Abandoned" /\ j.received = k.received
    BY <1>2, <2>2 DEF Sound, Counting, Live
  <2> QED BY <1>2, <2>1, <2>2
<1>11. Dispatched(j)
  BY <1>2, <1>4 DEF Dispatched
<1>12. Placed(j, r)
  BY PlacedLeftUnread DEF Sound, Shape, j
<1> QED BY <1>5, <1>6, <1>7, <1>8, <1>9, <1>10, <1>11, <1>12 DEF Sound, us, j

LEMMA AnswersKeep ==
  ASSUME HttpInv, NEW c \in Conn, answer(c) \/ panic(c) \/ open_returns(c)
  PROVE  HttpInv'
<1> DEFINE k == conn[c]
           ts == task[c]
           held == c \in connections
           r == request[c]
           g == given[c]
<1>1. /\ Sound(k, ts, held, r, g) /\ task = [d \in Conn |-> task[d]]
      /\ given = [d \in Conn |-> given[d]]
  BY IsSound
<1>2. ASSUME NEW j, Becomes(c, j), NEW to \in {"open", "over"}, Goes(c, Handler, to),
             Sound(j, [ts EXCEPT ![Handler] = to], held, r, g),
             UNCHANGED <<given, request, connections, current>>
      PROVE  HttpInv'
  <2>1. /\ task' = [d \in Conn |-> IF d = c THEN task'[c] ELSE task[d]]
        /\ task'[c] = [ts EXCEPT ![Handler] = to]
    BY <1>1, <1>2 DEF Goes
  <2>2. given' = [d \in Conn |-> IF d = c THEN given'[c] ELSE given[d]] /\ given'[c] = g
    BY <1>1, <1>2
  <2>3. Moves(c)
    BY <1>2, <2>1, <2>2 DEF Moves
  <2>4. request' = request /\ connections' = connections /\ current' \in Conn
    BY <1>2 DEF HttpInv, Types
  <2> QED BY <2>3, <2>4, MovesKeep
<1>3. CASE answer(c)
  <2> DEFINE b == body_left_unread(k, r)
             Over(to) == [ts EXCEPT ![Handler] = to]
  <2>1. /\ ts[Handler] = "idle" /\ UNCHANGED <<given, request, connections, current>>
        /\ \/ /\ \E bare \in BOOLEAN : Becomes(c, end_bytes(b, bare))
              /\ Goes(c, Handler, "over")
           \/ /\ \E l : Becomes(c, [b EXCEPT !.streams = TRUE, !.listener = l])
              /\ Goes(c, Handler, "open")
    BY <1>3 DEF answer, clientVars, serverVars, loopVars
  <2>2. \A to \in {"open", "over"} : Sound(b, Over(to), held, r, g) /\ Dispatched(b)
    BY <1>1, <2>1, SoundLeftUnread
  <2>3. \A to \in {"open", "over"} : Over(to)[Handler] = to
    BY <1>1, HttpAssumption DEF Sound, Shape
  <2> HIDE DEF b
  <2>4. ASSUME NEW bare \in BOOLEAN, Becomes(c, end_bytes(b, bare)), Goes(c, Handler, "over")
        PROVE  HttpInv'
    <3>1. Responds(b, end_bytes(b, bare))
      BY <2>2, EndBytesEffect DEF Sound
    <3>2. Sound(end_bytes(b, bare), Over("over"), held, r, g)
      <4> HIDE DEF Over
      <4> QED BY <2>2, <2>3, <3>1, SoundResponds
    <3> QED BY <1>2, <2>1, <2>4, <3>2
  <2>5. ASSUME NEW l, Becomes(c, [b EXCEPT !.streams = TRUE, !.listener = l]),
               Goes(c, Handler, "open")
        PROVE  HttpInv'
    <3> DEFINE s == [b EXCEPT !.streams = TRUE, !.listener = l]
               us == Over("open")
    <3>1. /\ DOMAIN s = Fields /\ s.got = b.got /\ s.linger = b.linger /\ s.drains = b.drains
          /\ s.streams = TRUE /\ s.stage = b.stage /\ s.owed = b.owed
          /\ BodyKept(b, s) /\ AnswerKept(b, s)
      BY <2>2 DEF Sound, Shape, BodyKept, AnswerKept, Fields, NewConnection
    <3> HIDE DEF s, Over
    <3>2. Sound(b, us, held, r, g) /\ Dispatched(b) /\ us[Handler] = "open"
      BY <2>2, <2>3
    <3> HIDE DEF us
    <3>3. Shape(s, us) /\ AnsweredOnce(s) /\ Untouched(s, us)
      BY <3>1, <3>2 DEF Sound, Shape, AnsweredOnce, Untouched, Dispatched, BodyKept, AnswerKept
    <3>4. Waiting(s, held) /\ Lingering(s, r)
      BY <3>1, <3>2 DEF Sound, Waiting, Lingering, BodyKept
    <3>5. Answering(s, us)
      BY <3>1, <3>2 DEF Sound, Answering, AnswerKept
    <3>6. Counting(s, r, g)
      BY <3>1, <3>2 DEF Sound, Counting, Counts, BodyKept
    <3>8. Placed(s, r)
      <4>1. SamePlace(b, s)
        BY <3>1, <3>2 DEF Sound, Counting, SamePlace, BodyKept
      <4> QED BY <3>1, <3>2, <4>1, PlacedKept DEF Sound
    <3>7. Sound(s, us, held, r, g)
      BY <3>3, <3>4, <3>5, <3>6, <3>8 DEF Sound
    <3> QED BY <1>2, <2>1, <2>5, <3>7 DEF s, us, Over
  <2> QED BY <2>1, <2>4, <2>5
<1>4. CASE panic(c)
  <2>1. /\ ts[Handler] \in {"idle", "open"} /\ UNCHANGED <<given, request, connections, current>>
        /\ Becomes(c, fail(k)) /\ Goes(c, Handler, "over")
    BY <1>4 DEF panic, clientVars, serverVars, loopVars
  <2> DEFINE us == [ts EXCEPT ![Handler] = "over"]
  <2>2. Sound(k, us, held, r, g)
    BY <1>1, <2>1, SoundOver
  <2>3. us[Handler] = "over"
    BY <1>1, HttpAssumption DEF Sound, Shape
  <2>4. Responds(k, fail(k))
    BY <1>1, FailEffect DEF Sound
  <2>5. Sound(fail(k), us, held, r, g)
    <3> HIDE DEF us, k
    <3> QED BY <2>2, <2>3, <2>4, SoundResponds
  <2> QED BY <1>2, <2>1, <2>5
<1>5. CASE open_returns(c)
  <2>1. /\ ts[Handler] = "open" /\ UNCHANGED <<conn, given, request, connections, current>>
        /\ Goes(c, Handler, "over")
    BY <1>5 DEF open_returns, clientVars, serverVars, loopVars
  <2>2. Sound(k, [ts EXCEPT ![Handler] = "over"], held, r, g)
    BY <1>1, <2>1, SoundOver
  <2>3. Becomes(c, k)
    BY <2>1 DEF Becomes, HttpInv, Types
  <2> QED BY <1>2, <2>1, <2>2, <2>3
<1> QED BY <1>3, <1>4, <1>5

LEMMA StreamsKeep ==
  ASSUME HttpInv, NEW c \in Conn, stream_send(c) \/ stream_close(c)
  PROVE  HttpInv'
<1>1. Sound(conn[c], task[c], c \in connections, request[c], given[c])
  BY IsSound
<1>2. /\ conn[c].streams = TRUE /\ UNCHANGED <<task, given, request, connections, current>>
      /\ Becomes(c, write(conn[c])) \/ Becomes(c, end_bytes(conn[c], FALSE))
  <2>1. conn[c].streams \in BOOLEAN
    BY <1>1 DEF Sound, Shape
  <2> QED BY <2>1 DEF stream_send, stream_close, clientVars, serverVars, loopVars
<1>3. task[c][Handler] \in {"open", "over"}
  BY <1>1, <1>2 DEF Sound, Answering
<1>4. /\ Responds(conn[c], write(conn[c])) /\ Responds(conn[c], end_bytes(conn[c], FALSE))
  BY <1>1, WriteEffect, EndBytesEffect DEF Sound
<1>5. PICK j : Becomes(c, j) /\ Responds(conn[c], j)
  BY <1>2, <1>4
<1>6. Sound(j, task[c], c \in connections, request[c], given[c])
  BY <1>1, <1>3, <1>5, SoundResponds
<1>7. Moves(c)
  BY <1>2, <1>5, <1>6, AloneMoves
<1>8. request' = request /\ connections' = connections /\ current' \in Conn
  BY <1>2 DEF HttpInv, Types
<1> QED BY <1>7, <1>8, MovesKeep

LEMMA SocketsKeep ==
  ASSUME HttpInv, NEW c \in Conn, socket_write(c) \/ socket_destroy(c)
  PROVE  HttpInv'
<1> DEFINE k == conn[c]
<1>1. Sound(k, task[c], c \in connections, request[c], given[c])
  BY IsSound
<1>2. /\ k.stage = "Upgraded" /\ UNCHANGED <<task, given, request, connections, current>>
      /\ Becomes(c, enqueue(k, 0)) \/ Becomes(c, destroy(k))
  BY DEF socket_write, socket_destroy, clientVars, serverVars, loopVars
<1> HIDE DEF k
<1>3. Sound(enqueue(k, 0), task[c], c \in connections, request[c], given[c])
  <2> DEFINE j == enqueue(k, 0)
  <2>1. /\ RestKept(k, j) /\ BodyKept(k, j) /\ j.stage = k.stage
        /\ j.answered = k.answered /\ j.headSent = k.headSent
        /\ j.heads \in {k.heads, k.heads + 0} /\ k.heads \in {0, 1}
    BY <1>1, EnqueueEffect DEF Sound, Shape, AnsweredOnce
  <2> HIDE DEF j
  <2>2. j.heads = k.heads
    BY <2>1
  <2> QED BY <1>1, <2>1, <2>2, SoundKept DEF AnswerKept, j
<1>4. Sound(destroy(k), task[c], c \in connections, request[c], given[c])
  <2> DEFINE j == destroy(k)
  <2>1. /\ RestKept(k, j) /\ BodyKept(k, j) /\ AnswerKept(k, j) /\ j.stage = "Closing"
    BY <1>1, <1>2 DEF Sound, Shape, destroy, RestKept, BodyKept, AnswerKept, Fields, NewConnection
  <2>2. /\ k.body = "Unread" /\ k.linger = "no" /\ k.streams = FALSE
        /\ k.answered = FALSE /\ \A t \in Task : task[c][t] = "none"
    BY <1>1, <1>2 DEF Sound, Untouched
  <2> HIDE DEF j
  <2>3. Shape(j, task[c]) /\ AnsweredOnce(j) /\ Untouched(j, task[c])
    BY <1>1, <2>1 DEF Sound, Shape, AnsweredOnce, Untouched, RestKept, BodyKept, AnswerKept
  <2>4. Waiting(j, c \in connections) /\ Lingering(j, request[c])
    BY <1>1, <1>2, <2>1, <2>2 DEF Sound, Waiting, Lingering, RestKept, BodyKept
  <2>5. Answering(j, task[c])
    BY <1>1, <2>1, <2>2, HttpAssumption DEF Sound, Answering, RestKept, BodyKept, AnswerKept
  <2>6. Counting(j, request[c], given[c])
    BY <1>1, <2>1 DEF Sound, Counting, Counts, RestKept, BodyKept
  <2>7. Placed(j, request[c])
    <3>1. SamePlace(k, j)
      BY <1>1, <2>1 DEF Sound, Counting, SamePlace, RestKept, BodyKept
    <3>2. request[c].head # "plain"
      BY <1>1, <1>2 DEF Sound, Placed
    <3> QED BY <1>1, <2>1, <3>1, <3>2, PlacedKept DEF Sound
  <2> QED BY <2>3, <2>4, <2>5, <2>6, <2>7 DEF Sound, j
<1>5. Moves(c)
  BY <1>2, <1>3, <1>4, AloneMoves
<1>6. request' = request /\ connections' = connections /\ current' \in Conn
  BY <1>2 DEF HttpInv, Types
<1> QED BY <1>5, <1>6, MovesKeep

\* A new connection, and any whose client has not been accepted.
LEMMA SoundFresh ==
  ASSUME NEW ts \in [Task -> {"none", "idle", "whole", "stream", "open", "over"}],
         \A t \in Task : ts[t] = "none", NEW held, NEW r \in Requests,
         NEW k, \/ k = [NewConnection EXCEPT !.stage = "None"]
                \/ k = NewConnection /\ held = TRUE
  PROVE  Sound(k, ts, held, r, 0)
<1>1. /\ DOMAIN k = Fields /\ k.got = 0 /\ k.used = 0
      /\ k.body = "Unread" /\ k.decoded = 0 /\ k.received = 0 /\ k.chunk = "Size" /\ k.left = 0
      /\ k.drains = FALSE /\ k.waiters = {} /\ k.answered = FALSE /\ k.headSent = FALSE
      /\ k.linger = "no" /\ k.streams = FALSE /\ k.listener = "none" /\ k.heads = 0
      /\ k.stage = "None" \/ (k.stage = "Reading" /\ held = TRUE)
  <2>1. CASE k = [NewConnection EXCEPT !.stage = "None"]
    BY <2>1 DEF Fields, NewConnection
  <2>2. CASE k = NewConnection /\ held = TRUE
    BY <2>2 DEF Fields, NewConnection
  <2> QED BY <2>1, <2>2
<1>2. ts[Handler] = "none"
  BY HttpAssumption
<1>3. Shape(k, ts) /\ AnsweredOnce(k) /\ Untouched(k, ts)
  BY <1>1 DEF Shape, AnsweredOnce, Untouched, Live
<1>4. Waiting(k, held)
  BY <1>1 DEF Waiting
<1>5. Answering(k, ts) /\ Lingering(k, r)
  BY <1>1, <1>2 DEF Answering, Lingering
<1>6. Counting(k, r, 0)
  <2>1. /\ Cap \in Nat /\ Len(Message(r)) \in Nat /\ r.length \in Nat
    BY HttpAssumption, MessageIsPieces DEF Request
  <2>2. Counts(k)
    BY <1>1, <2>1 DEF Counts
  <2> QED BY <1>1, <2>1, <2>2 DEF Counting, Decoding
<1>7. Placed(k, r)
  BY <1>1 DEF Placed, Dispatched
<1> QED BY <1>3, <1>4, <1>5, <1>6, <1>7 DEF Sound

LEMMA BeginPollKeeps ==
  ASSUME HttpInv, begin_poll
  PROVE  HttpInv'
<1>1. PICK ends \in BOOLEAN :
        LET new == IF listening /\ ~ends THEN Backlog ELSE {}
        IN  /\ conn' = [c \in Conn |->
                 IF c \in new THEN NewConnection
                 ELSE IF ends /\ c \in connections /\ WaitsOnTheClient(conn[c])
                      THEN close(conn[c]) ELSE conn[c]]
            /\ connections' = connections \cup new
  BY DEF begin_poll
<1> DEFINE new == IF listening /\ ~ends THEN Backlog ELSE {}
<1>2. UNCHANGED <<request, task, given, current>>
  BY DEF begin_poll, clientVars
<1>3. Types'
  BY <1>1, <1>2 DEF HttpInv, Types
<1>4. ASSUME NEW c \in Conn
      PROVE  Sound(conn'[c], task'[c], c \in connections', request'[c], given'[c])
  <2> DEFINE k == conn[c]
  <2>1. /\ Sound(k, task[c], c \in connections, request[c], given[c])
        /\ request[c] \in Requests
        /\ task[c] \in [Task -> {"none", "idle", "whole", "stream", "open", "over"}]
    BY IsSound
  <2>2. conn'[c] = IF c \in new THEN NewConnection
                   ELSE IF ends /\ c \in connections /\ WaitsOnTheClient(k)
                        THEN close(k) ELSE k
    BY <1>1
  <2>3. CASE c \in new
    <3>1. k.stage = "None"
      BY <2>3 DEF Backlog
    <3>2. /\ \A t \in Task : task[c][t] = "none"
          /\ k.body = "Unread"
      BY <2>1, <3>1 DEF Sound, Untouched
    <3>3. (c \in connections') = TRUE
      BY <1>1, <2>3
    <3>5. Sound(NewConnection, task[c], c \in connections', request[c], 0)
      BY <2>1, <3>2, <3>3, SoundFresh
    <3>6. given[c] = 0
      <4>1. /\ Counts(k) /\ given[c] + k.decoded = k.received /\ k.received = 0
            /\ given[c] \in Nat
        BY <2>1, <3>2 DEF Sound, Counting, Live
      <4> QED BY <4>1 DEF Counts
    <3> QED BY <1>2, <2>2, <2>3, <3>5, <3>6
  <2>4. CASE c \notin new
    <3>1. Sound(close(k), task[c], c \in connections, request[c], given[c])
      BY <2>1, CloseEffect, SoundCloses DEF Sound
    <3>2. Sound(conn'[c], task[c], c \in connections, request[c], given[c])
      BY <2>1, <2>2, <2>4, <3>1
    <3>3. (c \in connections) = TRUE => (c \in connections') = TRUE
      BY <1>1
    <3>4. Sound(conn'[c], task[c], c \in connections', request[c], given[c])
      BY <3>2, <3>3, SoundHeld
    <3> QED BY <1>2, <3>4
  <2> QED BY <2>3, <2>4
<1> QED BY <1>3, <1>4 DEF HttpInv

\* More of the message comes in.
LEMMA SoundGot ==
  ASSUME NEW k, NEW ts, NEW held, NEW r, NEW g, Sound(k, ts, held, r, g),
         NEW n \in Nat, k.got + n \in 0..Len(Message(r))
  PROVE  LET j == [k EXCEPT !.got = @ + n]
         IN  /\ Sound(j, ts, held, r, g) /\ BodyKept(k, j) /\ AnswerKept(k, j)
             /\ j.stage = k.stage /\ j.linger = k.linger
<1> DEFINE j == [k EXCEPT !.got = @ + n]
<1>1. /\ DOMAIN j = Fields /\ j.got = k.got + n /\ j.linger = k.linger
      /\ j.drains = k.drains /\ j.streams = k.streams /\ j.listener = k.listener
      /\ j.owed = k.owed
      /\ BodyKept(k, j) /\ AnswerKept(k, j) /\ j.stage = k.stage
  BY DEF Sound, Shape, BodyKept, AnswerKept, Fields, NewConnection
<1> HIDE DEF j
<1>2. Shape(j, ts) /\ AnsweredOnce(j)
  BY <1>1 DEF Sound, Shape, AnsweredOnce, BodyKept, AnswerKept
<1>3. Untouched(j, ts) /\ Waiting(j, held)
  BY <1>1 DEF Sound, Untouched, Waiting, BodyKept, AnswerKept
<1>4. Answering(j, ts) /\ Lingering(j, r)
  BY <1>1 DEF Sound, Answering, Lingering, BodyKept, AnswerKept
<1>5. Counting(j, r, g)
  BY <1>1 DEF Sound, Counting, Counts, BodyKept
<1>6. Placed(j, r)
  <2>1. SamePlace(k, j)
    BY <1>1 DEF Sound, Counting, SamePlace, BodyKept
  <2> QED BY <1>1, <2>1, PlacedKept DEF Sound
<1> QED BY <1>1, <1>2, <1>3, <1>4, <1>5, <1>6 DEF Sound, j

\* The head is acted on.
LEMMA DispatchKeeps ==
  ASSUME HttpInv, NEW c \in Conn, NEW k,
         Sound(k, task[c], c \in connections, request[c], given[c]),
         k.stage = "Reading", k.got > 0, dispatch(c, k), UNCHANGED given
  PROVE  Moves(c)
<1> DEFINE ts == task[c]
           held == c \in connections
           r == request[c]
           g == given[c]
<1>1. /\ task = [d \in Conn |-> task[d]] /\ given = [d \in Conn |-> given[d]]
  BY IsSound
<1>10. r \in Requests
  BY IsSound
<1>2. /\ k.body = "Unread" /\ k.linger = "no" /\ k.streams = FALSE /\ k.answered = FALSE
      /\ \A t \in Task : ts[t] = "none"
  BY DEF Sound, Untouched
<1>3. held = TRUE /\ k.waiters = {} /\ k.listener = "none"
  BY <1>2 DEF Sound, Waiting, Answering, Live
<1>4. /\ Counting(k, r, g) /\ Counts(k) /\ k.got \in Nat
  BY <1>2 DEF Sound, Counting, Live
<1>9. k.received = 0 /\ k.chunk = "Size" /\ k.left = 0
  BY <1>2 DEF Sound, Counting, Placed
<1>5. CASE Becomes(c, refuse_with(k)) /\ UNCHANGED task /\ r.head = "refused"
  <2> DEFINE j == refuse_with(k)
  <2>1. /\ RestKept(k, j) /\ BodyKept(k, j) /\ j.stage = "Closing"
        /\ Answered(k, j) /\ AnsweredOnce(j)
    BY RefuseEffect DEF Sound
  <2> HIDE DEF j
  <2>2. ts[Handler] = "none"
    BY <1>2, HttpAssumption
  <2>3. Shape(j, ts) /\ Untouched(j, ts)
    BY <2>1 DEF Sound, Shape, Untouched, RestKept, BodyKept, Answered
  <2>4. Waiting(j, held) /\ Lingering(j, r)
    BY <1>2, <1>3, <2>1 DEF Waiting, Lingering, RestKept, BodyKept
  <2>5. Answering(j, ts)
    BY <1>2, <1>3, <2>1, <2>2 DEF Answering, RestKept, Answered
  <2>6. Counting(j, r, g)
    BY <1>4, <2>1 DEF Counting, Counts, RestKept, BodyKept
  <2>8. Placed(j, r)
    BY <1>2, <1>5, <1>9, <2>1 DEF Placed, BodyKept
  <2>7. Sound(j, ts, held, r, g)
    BY <2>1, <2>3, <2>4, <2>5, <2>6, <2>8 DEF Sound
  <2> QED BY <1>5, <2>7, AloneMoves DEF j
<1>6. CASE /\ Becomes(c, [k EXCEPT !.stage = "Upgraded", !.used = k.got]) /\ UNCHANGED task
           /\ r.head = "upgrade"
  <2> DEFINE j == [k EXCEPT !.stage = "Upgraded", !.used = k.got]
  <2>1. /\ DOMAIN j = Fields /\ j.stage = "Upgraded" /\ j.used = k.got /\ j.got = k.got
        /\ j.linger = k.linger /\ j.drains = k.drains /\ j.streams = k.streams
        /\ j.listener = k.listener /\ AnswerKept(k, j)
        /\ j.body = k.body /\ j.waiters = k.waiters /\ j.received = k.received
        /\ j.decoded = k.decoded /\ j.chunk = k.chunk /\ j.left = k.left
    BY DEF Sound, Shape, AnswerKept, Fields, NewConnection
  <2> HIDE DEF j
  <2>2. Shape(j, ts) /\ AnsweredOnce(j) /\ Untouched(j, ts)
    BY <1>2, <2>1 DEF Sound, Shape, AnsweredOnce, Untouched, AnswerKept
  <2>3. Waiting(j, held) /\ Lingering(j, r) /\ Answering(j, ts)
    BY <1>2, <1>3, <2>1 DEF Sound, Waiting, Lingering, Answering, AnswerKept
  <2>4. Counting(j, r, g)
    BY <1>4, <2>1 DEF Counting, Counts
  <2>6. Placed(j, r)
    BY <1>2, <1>6, <1>9, <2>1 DEF Placed
  <2>5. Sound(j, ts, held, r, g)
    BY <2>2, <2>3, <2>4, <2>6 DEF Sound
  <2> QED BY <1>6, <2>5, AloneMoves DEF j
<1>7. CASE Becomes(c, close(k)) /\ UNCHANGED task
  <2>1. Closes(k, close(k))
    BY CloseEffect DEF Sound
  <2>2. Sound(close(k), ts, held, r, g)
    <3> HIDE DEF ts, held, r, g
    <3>1. Sound(k, ts, held, r, g)
      BY DEF ts, held, r, g
    <3> QED BY <2>1, <3>1, SoundCloses
  <2> QED BY <1>7, <2>2, AloneMoves
<1>8. CASE /\ Becomes(c, [k EXCEPT !.stage = "Dispatched", !.used = 1])
           /\ task' = [task EXCEPT ![c] = [t \in Task |-> "idle"]]
  <2> DEFINE j == [k EXCEPT !.stage = "Dispatched", !.used = 1]
             us == [t \in Task |-> "idle"]
  <2>1. /\ DOMAIN j = Fields /\ j.stage = "Dispatched" /\ j.used = 1 /\ j.got = k.got
        /\ j.linger = k.linger /\ j.drains = k.drains /\ j.streams = k.streams
        /\ j.listener = k.listener /\ AnswerKept(k, j)
        /\ j.body = k.body /\ j.waiters = k.waiters /\ j.received = k.received
        /\ j.decoded = k.decoded /\ j.chunk = k.chunk /\ j.left = k.left
    BY DEF Sound, Shape, AnswerKept, Fields, NewConnection
  <2>2. us \in [Task -> {"none", "idle", "whole", "stream", "open", "over"}]
    OBVIOUS
  <2> HIDE DEF j, us
  <2>3. Shape(j, us) /\ AnsweredOnce(j) /\ Untouched(j, us)
    BY <2>1, <2>2 DEF Sound, Shape, AnsweredOnce, Untouched, AnswerKept
  <2>4. Waiting(j, held) /\ Lingering(j, r) /\ Answering(j, us)
    BY <1>2, <1>3, <2>1 DEF Waiting, Lingering, Answering, AnswerKept
  <2>5. Counting(j, r, g)
    BY <1>4, <2>1 DEF Counting, Counts
  <2>9. Placed(j, r)
    <3>1. Cardinality(DataTo(r.body, 0)) = 0
      <4>1. DataTo(r.body, 0) = {}
        BY DEF DataTo
      <4> QED BY <4>1, FS_EmptySet
    <3>2. Decoded(j, r.body)
      BY <1>9, <2>1, <3>1 DEF Decoded
    <3>3. r.framing = "length" => ByLength(j, r)
      <4>1. r.framing = "length" => r.length > 0
        BY <1>10, HttpAssumption
      <4> QED BY <1>2, <1>9, <2>1, <4>1, <1>10, HttpAssumption DEF ByLength, Request
    <3>4. ByChunks(j, r.body)
      BY <1>2, <2>1, <3>2 DEF ByChunks
    <3>5. InPlace(j, r)
      BY <1>2, <1>4, <2>1, <3>3, <3>4 DEF InPlace
    <3> QED BY <1>2, <1>9, <2>1, <3>5 DEF Placed
  <2>6. Sound(j, us, held, r, g)
    BY <2>3, <2>4, <2>5, <2>9 DEF Sound
  <2>7. task' = [d \in Conn |-> IF d = c THEN task'[c] ELSE task[d]] /\ task'[c] = us
    BY <1>1, <1>8 DEF us
  <2>8. given' = [d \in Conn |-> IF d = c THEN given'[c] ELSE given[d]] /\ given'[c] = g
    BY <1>1
  <2> QED BY <1>8, <2>6, <2>7, <2>8 DEF Moves, j
<1> QED BY <1>5, <1>6, <1>7, <1>8 DEF dispatch

\* What a read of a connection brings.
LEMMA ReadBrings ==
  ASSUME HttpInv, NEW c \in Conn, NEW d \in read_available(c)
  PROVE  /\ d.n \in Nat /\ d.hungUp \in BOOLEAN
         /\ conn[c].got + d.n \in 0..Len(Message(request[c]))
         /\ ~wants_bytes(conn[c]) => d.n = 0
<1> DEFINE some == 0..Least(Budget(c), Rest(c))
<1>1. /\ conn[c].got \in 0..Len(Message(request[c]))
      /\ Len(Message(request[c])) \in Nat
  BY IsSound, MessageIsPieces DEF Sound, Counting
<1>2. Rest(c) \in Nat /\ Rest(c) = Len(Message(request[c])) - conn[c].got
  BY <1>1 DEF Rest
<1>3. Budget(c) \in Nat
  BY <1>2, HttpAssumption DEF Budget
<1>4. \A n \in some : n \in Nat /\ n <= Rest(c)
  BY <1>2, <1>3 DEF Least
<1> HIDE DEF some
<1>5. \/ d = [n |-> 0, hungUp |-> FALSE]
      \/ d = [n |-> 0, hungUp |-> TRUE] /\ wants_bytes(conn[c])
      \/ wants_bytes(conn[c]) /\ \E n \in some : d = [n |-> n, hungUp |-> n < Budget(c)]
      \/ wants_bytes(conn[c]) /\ \E n \in some : d = [n |-> n, hungUp |-> FALSE]
  BY DEF read_available, some
<1>6. d.n \in Nat /\ d.n <= Rest(c) /\ (~wants_bytes(conn[c]) => d.n = 0)
  BY <1>2, <1>4, <1>5
<1>7. d.hungUp \in BOOLEAN
  <2>1. ASSUME NEW n \in some, d = [n |-> n, hungUp |-> n < Budget(c)]
        PROVE  d.hungUp \in BOOLEAN
    <3> DEFINE short == n < Budget(c)
    <3>1. short \in BOOLEAN
      BY <1>3, <1>4
    <3> HIDE DEF short
    <3>2. d = [n |-> n, hungUp |-> short]
      BY <2>1 DEF short
    <3>3. d.hungUp = short
      BY <3>2
    <3> QED BY <3>1, <3>3
  <2>2. \A n : d = [n |-> n, hungUp |-> FALSE] => d.hungUp = FALSE
    OBVIOUS
  <2>3. \A n : d = [n |-> n, hungUp |-> TRUE] => d.hungUp = TRUE
    OBVIOUS
  <2> QED BY <1>5, <2>1, <2>2, <2>3, Zenon
<1>8. conn[c].got + d.n \in 0..Len(Message(request[c]))
  BY <1>1, <1>2, <1>6
<1> QED BY <1>6, <1>7, <1>8

LEMMA SoundClosed ==
  ASSUME NEW k, NEW ts, NEW held, NEW r, NEW g, Sound(k, ts, held, r, g)
  PROVE  Sound(close(k), ts, held, r, g)
<1>1. Closes(k, close(k))
  BY CloseEffect DEF Sound
<1> QED BY <1>1, SoundCloses

LEMMA ServiceReadKeeps ==
  ASSUME HttpInv, NEW c \in Conn, service_read(c)
  PROVE  HttpInv'
<1> DEFINE ts == task[c]
           held == c \in connections
           r == request[c]
           g == given[c]
<1>1. PICK d \in read_available(c) :
        LET k == [conn[c] EXCEPT !.got = @ + d.n]
        IN  \/ k.stage = "Reading" /\ k.got > 0 /\ dispatch(c, k)
            \/ /\ k.stage = "Reading" /\ UNCHANGED task
               /\ Becomes(c, IF d.hungUp THEN close(k) ELSE k)
            \/ /\ k.stage = "Dispatched" /\ UNCHANGED task
               /\ Becomes(c, advance_body(k, r, d.hungUp))
            \/ /\ k.stage = "Upgraded" /\ UNCHANGED task
               /\ Becomes(c, [k EXCEPT !.used = k.got])
            \/ UNCHANGED task /\ Becomes(c, k)
  BY DEF service_read
<1> DEFINE k == [conn[c] EXCEPT !.got = @ + d.n]
<1>2. /\ d.n \in Nat /\ d.hungUp \in BOOLEAN
      /\ conn[c].got + d.n \in 0..Len(Message(r))
  BY ReadBrings
<1>3. Sound(k, ts, held, r, g)
  BY <1>2, IsSound, SoundGot
<1>4. UNCHANGED <<request, given, connections>> /\ current' = c
  BY DEF service_read, serverVars
<1>5. SUFFICES Moves(c)
  BY <1>4, MovesKeep
<1>6. \/ k.stage = "Reading" /\ k.got > 0 /\ dispatch(c, k)
      \/ /\ k.stage = "Reading" /\ UNCHANGED task
         /\ Becomes(c, IF d.hungUp THEN close(k) ELSE k)
      \/ /\ k.stage = "Dispatched" /\ UNCHANGED task
         /\ Becomes(c, advance_body(k, r, d.hungUp))
      \/ /\ k.stage = "Upgraded" /\ UNCHANGED task
         /\ Becomes(c, [k EXCEPT !.used = k.got])
      \/ UNCHANGED task /\ Becomes(c, k)
  BY <1>1
<1> HIDE DEF k
<1>7. CASE k.stage = "Reading" /\ k.got > 0 /\ dispatch(c, k)
  BY <1>3, <1>4, <1>7, DispatchKeeps
<1>8. CASE UNCHANGED task /\ Becomes(c, k)
  BY <1>3, <1>4, <1>8, AloneMoves
<1>9. CASE UNCHANGED task /\ Becomes(c, close(k))
  BY <1>3, <1>4, <1>9, SoundClosed, AloneMoves
<1>10. CASE /\ k.stage = "Dispatched" /\ UNCHANGED task
            /\ Becomes(c, advance_body(k, r, d.hungUp))
  <2> DEFINE j == advance_body(k, r, d.hungUp)
  <2>1. CASE k.body \notin {"Reading", "Streaming"}
    <3>1. j = k
      BY <2>1 DEF advance_body
    <3> QED BY <1>8, <1>10, <3>1
  <2>2. CASE k.body \in {"Reading", "Streaming"}
    <3>1. Measured(k, r)
      BY <1>3, <2>2 DEF Sound, Counting, Measured, Live
    <3>2. k.linger = "no" /\ Dispatched(k)
      BY <1>3, <1>10 DEF Sound, Lingering, Dispatched
    <3>3. Shape(k, ts) /\ AnsweredOnce(k) /\ r \in Requests /\ Placed(k, r)
      BY <1>3, IsSound DEF Sound
    <3>4. Progress(k, k.body, r, j)
      <4> HIDE DEF ts, r
      <4> QED BY <1>2, <1>10, <2>2, <3>1, <3>2, <3>3, AdvanceEffect
    <3>5. k.body \in Live /\ k.body # "Unread"
      BY <2>2 DEF Live
    <3>6. Sound(j, ts, held, r, g)
      <4> HIDE DEF ts, r, held, g, j
      <4> QED BY <1>3, <2>2, <3>2, <3>4, <3>5, SoundProgress
    <3> QED BY <1>4, <1>10, <3>6, AloneMoves
  <2> QED BY <2>1, <2>2
<1>11. CASE /\ k.stage = "Upgraded" /\ UNCHANGED task
            /\ Becomes(c, [k EXCEPT !.used = k.got])
  <2> DEFINE j == [k EXCEPT !.used = k.got]
  <2>1. /\ DOMAIN j = Fields /\ j.stage = k.stage /\ j.used = k.got /\ j.got = k.got
        /\ j.linger = k.linger /\ j.drains = k.drains /\ j.streams = k.streams
        /\ j.listener = k.listener /\ AnswerKept(k, j)
        /\ j.body = k.body /\ j.waiters = k.waiters /\ j.received = k.received
        /\ j.decoded = k.decoded /\ j.chunk = k.chunk /\ j.left = k.left
    BY <1>3 DEF Sound, Shape, AnswerKept, Fields, NewConnection
  <2> HIDE DEF j
  <2>2. Shape(j, ts) /\ AnsweredOnce(j) /\ Untouched(j, ts)
    BY <1>3, <2>1 DEF Sound, Shape, AnsweredOnce, Untouched, AnswerKept
  <2>3. Waiting(j, held) /\ Lingering(j, r) /\ Answering(j, ts)
    BY <1>3, <2>1 DEF Sound, Waiting, Lingering, Answering, AnswerKept
  <2>4. Counting(j, r, g)
    BY <1>3, <2>1 DEF Sound, Counting, Counts
  <2>6. Placed(j, r)
    BY <1>3, <1>11, <2>1 DEF Sound, Placed, Dispatched
  <2>5. Sound(j, ts, held, r, g)
    BY <2>2, <2>3, <2>4, <2>6 DEF Sound
  <2> QED BY <1>4, <1>11, <2>5, AloneMoves DEF j
<1> QED BY <1>2, <1>6, <1>7, <1>8, <1>9, <1>10, <1>11

\* The connection that is to drain its body.
Drains(k, r) ==
  IF k.body \in {"Unread", "Abandoned"} /\ r.framing = "length" /\ k.drains
  THEN [k EXCEPT !.body = "Draining", !.owed = r.length - k.received] ELSE k

\* What is owed of a body that is drained is what was not taken of it.
LEMMA DrainOwes ==
  ASSUME NEW r \in Requests, NEW k, DOMAIN k = Fields, NEW g, Counting(k, r, g), InPlace(k, r)
  PROVE  LET b == Drains(k, r)
         IN  /\ b.used = k.used /\ b.got = k.got /\ DOMAIN b = Fields
             /\ Len(Inbox(k, r)) \in Nat /\ Len(Inbox(k, r)) = k.got - k.used
             /\ b.body = "Draining" =>
                  /\ r.framing = "length" /\ b.used \in 1..b.got
                  /\ b.owed \in Nat /\ b.used + b.owed = 1 + r.length
<1> DEFINE drain == k.body \in {"Unread", "Abandoned"} /\ r.framing = "length" /\ k.drains
           b == Drains(k, r)
<1>1. /\ b.used = k.used /\ b.got = k.got /\ DOMAIN b = Fields
      /\ \/ drain /\ b.body = "Draining" /\ b.owed = r.length - k.received
         \/ b.body = k.body /\ b.owed = k.owed
  BY DEF Drains, Fields, NewConnection
<1>2. /\ k.got \in 0..Len(Message(r)) /\ k.used \in 1..k.got /\ k.received \in Nat
      /\ r.length \in Nat /\ Len(Inbox(k, r)) = k.got - k.used
  <2>1. k.got \in 0..Len(Message(r)) /\ k.used \in 1..k.got
    BY DEF Counting, InPlace
  <2>2. Len(Inbox(k, r)) = k.got - k.used
    BY <2>1, InboxIs
  <2> QED BY <2>1, <2>2, HttpAssumption DEF Counting, Request
<1>3. drain => r.framing = "length" /\ k.body # "Draining"
  OBVIOUS
<1> HIDE DEF b, drain
<1>4. ASSUME b.body = "Draining"
      PROVE  /\ r.framing = "length" /\ b.used \in 1..b.got
             /\ b.owed \in Nat /\ b.used + b.owed = 1 + r.length
  <2>1. CASE drain /\ b.owed = r.length - k.received
    <3>1. k.used = 1 + k.received /\ k.received <= r.length
      BY <1>3, <2>1 DEF InPlace, ByLength
    <3> QED BY <1>1, <1>2, <1>3, <2>1, <3>1
  <2>2. CASE b.body = k.body /\ b.owed = k.owed
    <3>1. r.framing = "length" /\ k.owed \in Nat /\ k.used + k.owed = 1 + r.length
      BY <1>4, <2>2 DEF InPlace, ByLength
    <3> QED BY <1>1, <1>2, <2>2, <3>1
  <2> QED BY <1>1, <2>1, <2>2
<1> QED BY <1>1, <1>2, <1>4 DEF b

\* What a drain takes leaves the rest of a declared body owed.
LEMMA LingersDrains ==
  ASSUME NEW r \in Requests, NEW k, DOMAIN k = Fields, NEW g, Counting(k, r, g),
         InPlace(k, r), NEW hungUp, lingers(k, r, hungUp).k.body = "Draining"
  PROVE  LET j == lingers(k, r, hungUp).k
         IN  /\ r.framing = "length" /\ j.used \in 1..j.got
             /\ j.owed \in Nat /\ j.used + j.owed = 1 + r.length
<1> DEFINE b == Drains(k, r)
           n == Least(b.owed, Len(Inbox(k, r)))
           s == [b EXCEPT !.writeShut = TRUE]
           s1 == [s EXCEPT !.owed = @ - n, !.used = @ + n]
           s2 == [s EXCEPT !.linger = IF @ = "no" THEN "until" ELSE @]
           j == lingers(k, r, hungUp).k
<1>1. \/ j = b
      \/ b.body = "Draining" /\ j = s1
      \/ b.body # "Draining" /\ j = s2
  BY DEF lingers, Drains
<1>2. /\ b.used = k.used /\ b.got = k.got /\ DOMAIN b = Fields
      /\ Len(Inbox(k, r)) \in Nat /\ Len(Inbox(k, r)) = k.got - k.used
      /\ b.body = "Draining" =>
           /\ r.framing = "length" /\ b.used \in 1..b.got
           /\ b.owed \in Nat /\ b.used + b.owed = 1 + r.length
  BY DrainOwes
<1> HIDE DEF b, n
<1>3. /\ s1.used = b.used + n /\ s1.owed = b.owed - n /\ s1.got = b.got
      /\ s2.body = b.body
  BY <1>2 DEF Fields, NewConnection
<1> HIDE DEF s1, s2, j
<1>4. b.body = "Draining"
  BY <1>1, <1>3 DEF j
<1>5. n \in Nat /\ n <= b.owed /\ n <= k.got - k.used
  BY <1>2, <1>4 DEF Least, n
<1>6. CASE j = b
  BY <1>2, <1>4, <1>6 DEF j
<1>7. CASE j = s1
  <2>1. /\ j.used = k.used + n /\ j.owed = b.owed - n /\ j.got = k.got
    BY <1>2, <1>3, <1>7
  <2>2. \A u, g0, o, l, m \in Int :
          /\ u \in 1..g0 /\ o \in Nat /\ u + o = 1 + l /\ m \in Nat /\ m <= o /\ m <= g0 - u
          => u + m \in 1..g0 /\ o - m \in Nat /\ (u + m) + (o - m) = 1 + l
    OBVIOUS
  <2>3. k.used \in Int /\ k.got \in Int /\ b.owed \in Int /\ r.length \in Int /\ n \in Int
    BY <1>2, <1>4, <1>5, HttpAssumption DEF Counting, Request
  <2>4. /\ k.used \in 1..k.got /\ b.owed \in Nat /\ k.used + b.owed = 1 + r.length
        /\ n \in Nat /\ n <= b.owed /\ n <= k.got - k.used
    BY <1>2, <1>4, <1>5
  <2>5. /\ k.used + n \in 1..k.got /\ b.owed - n \in Nat
        /\ (k.used + n) + (b.owed - n) = 1 + r.length
    BY <2>2, <2>3, <2>4
  <2>6. j.used \in 1..j.got /\ j.owed \in Nat /\ j.used + j.owed = 1 + r.length
    BY <2>1, <2>5
  <2> QED BY <1>2, <1>4, <2>6 DEF j
<1> QED BY <1>1, <1>4, <1>6, <1>7

\* The drain and the linger of an answered connection.
LEMMA SoundLingers ==
  ASSUME NEW k, NEW ts, NEW held, NEW r \in Requests, NEW g, Sound(k, ts, held, r, g),
         k.stage = "Closing", NEW hungUp
  PROVE  Sound(lingers(k, r, hungUp).k, ts, held, r, g)
<1> DEFINE j == lingers(k, r, hungUp).k
<1>1. DOMAIN k = Fields /\ k.drains \in BOOLEAN
  BY DEF Sound, Shape
<1>2. /\ DOMAIN j = Fields /\ j.got = k.got /\ j.drains = k.drains
      /\ j.streams = k.streams /\ j.listener = k.listener
      /\ AnswerKept(k, j) /\ j.stage = k.stage /\ j.waiters = k.waiters
      /\ j.received = k.received /\ j.chunk = k.chunk /\ j.left = k.left
      /\ j.decoded = k.decoded
      /\ j.body # "Draining" => j.used = k.used /\ j.owed = k.owed
      /\ \/ j.body = k.body
         \/ /\ k.body \in {"Unread", "Abandoned"} /\ r.framing = "length"
            /\ k.drains = TRUE /\ j.body = "Draining"
      /\ \/ j.linger = k.linger
         \/ /\ j.body \in {"Refused", "Abandoned", "Unread"} /\ j.body = k.body
            /\ r.framing = "length" /\ k.body # "Refused" => k.drains = FALSE
  <2>1. Stays(k, r, j)
    BY <1>1, LingersEffect
  <2> HIDE DEF j
  <2> QED BY <2>1 DEF Stays
<1> HIDE DEF j
<1>4. Shape(j, ts)
  <2>1. j.body \in Live \cup {"Read", "StreamEnded", "Gone", "Refused", "Abandoned", "Draining"}
    BY <1>2 DEF Sound, Shape
  <2> QED BY <1>2, <2>1 DEF Sound, Shape, AnswerKept
<1>5. AnsweredOnce(j) /\ Untouched(j, ts)
  BY <1>2 DEF Sound, AnsweredOnce, Untouched, AnswerKept
<1>6. Waiting(j, held)
  BY <1>2 DEF Sound, Waiting, Live
<1>7. Answering(j, ts)
  <2>1. j.body = "Draining" => j.body \notin Live \cup {"Abandoned"}
    BY DEF Live
  <2> QED BY <1>2, <2>1 DEF Sound, Answering, AnswerKept
<1>8. Lingering(j, r)
  <2>1. CASE j.linger = k.linger
    BY <1>2, <2>1 DEF Sound, Lingering
  <2>2. CASE /\ j.body \in {"Refused", "Abandoned", "Unread"} /\ j.body = k.body
             /\ r.framing = "length" /\ k.body # "Refused" => k.drains = FALSE
    BY <1>2, <2>2 DEF Lingering
  <2> QED BY <1>2, <2>1, <2>2
<1>9. Counting(j, r, g)
  BY <1>2 DEF Sound, Counting, Counts, Live
<1>10. Placed(j, r)
  <2>1. CASE j.body # "Draining"
    <3>1. SamePlace(k, j)
      BY <1>2, <2>1 DEF Sound, Counting, SamePlace
    <3> QED BY <1>2, <3>1, PlacedKept DEF Sound
  <2>2. CASE j.body = "Draining"
    <3>1. ASSUME r.head = "plain", Framed(r) PROVE InPlace(j, r)
      <4>1. InPlace(k, r)
        BY <1>2, <2>2, <3>1 DEF Sound, Placed, Dispatched
      <4>2. j.used \in 1..j.got /\ r.framing = "length" /\ j.owed \in Nat
            /\ j.used + j.owed = 1 + r.length
        BY <2>2, <4>1, LingersDrains DEF Sound, Shape, j
      <4> QED BY <2>2, <4>2 DEF InPlace, ByLength
    <3> QED BY <1>2, <2>2, <3>1 DEF Sound, Placed
  <2> QED BY <2>1, <2>2
<1> QED BY <1>4, <1>5, <1>6, <1>7, <1>8, <1>9, <1>10 DEF Sound, j

LEMMA ServiceWriteKeeps ==
  ASSUME HttpInv, service_write
  PROVE  HttpInv' /\ \E j : Becomes(current, j) /\ j.got = conn[current].got
<1> DEFINE c == current
           ts == task[c]
           held == c \in connections
           r == request[c]
           g == given[c]
<1>1. PICK w \in write_available(c) :
        LET k == [conn[c] EXCEPT !.outbox = w.left]
            l == lingers(k, r, hung)
            d == IF k.stage = "Closing" /\ ~k.outbox
                 THEN IF l.stays THEN l.k ELSE close(l.k)
                 ELSE k
        IN  Becomes(c, IF w.dead \/ (hung /\ ~d.outbox /\ d.stage # "Dispatched")
                       THEN close(IF w.dead THEN k ELSE d) ELSE d)
  BY DEF service_write
<1> DEFINE k == [conn[c] EXCEPT !.outbox = w.left]
           s == lingers(k, r, hung).k
<1>2. \/ Becomes(c, k) \/ Becomes(c, close(k))
      \/ k.stage = "Closing" /\ (Becomes(c, s) \/ Becomes(c, close(s)) \/ Becomes(c, close(close(s))))
  BY <1>1
<1>3. /\ c \in Conn /\ UNCHANGED <<task, given, request, connections, current>>
  BY DEF service_write, clientVars, serverVars, HttpInv, Types
<1>4. Sound(conn[c], ts, held, r, g) /\ DOMAIN conn[c] = Fields
  BY <1>3, IsSound
<1>5. /\ RestKept(conn[c], k) /\ BodyKept(conn[c], k) /\ AnswerKept(conn[c], k)
      /\ k.stage = conn[c].stage
  BY <1>4 DEF RestKept, BodyKept, AnswerKept, Fields, NewConnection
<1>13. r \in Requests
  BY <1>3, IsSound
<1>6. k.got = conn[c].got
  BY <1>5 DEF RestKept
<1> HIDE DEF k, ts, held, r, g
<1>7. Sound(k, ts, held, r, g)
  BY <1>4, <1>5, SoundKept
<1>8. ASSUME NEW j, Sound(j, ts, held, r, g)
      PROVE  Sound(close(j), ts, held, r, g) /\ close(j).got = j.got
  <2>1. Closes(j, close(j))
    BY <1>8, CloseEffect DEF Sound
  <2>2. close(j).got = j.got
    BY <2>1 DEF Closes, RestKept
  <2> QED BY <1>8, <2>2, SoundClosed
<1>9. k.stage = "Closing" => Sound(s, ts, held, r, g) /\ s.got = k.got
  <2>1. Stays(k, r, s)
    BY <1>7, LingersEffect DEF Sound, Shape
  <2> QED BY <1>7, <1>13, <2>1, SoundLingers DEF Stays
<1> HIDE DEF s
<1>10. PICK j : Becomes(c, j) /\ Sound(j, ts, held, r, g) /\ j.got = k.got
  <2>1. CASE Becomes(c, k) \/ Becomes(c, close(k))
    BY <1>7, <1>8, <2>1
  <2>2. CASE k.stage = "Closing" /\ (Becomes(c, s) \/ Becomes(c, close(s)) \/ Becomes(c, close(close(s))))
    <3>1. Sound(s, ts, held, r, g) /\ s.got = k.got
      BY <1>9, <2>2
    <3>2. Sound(close(s), ts, held, r, g) /\ close(s).got = s.got
      BY <1>8, <3>1
    <3>3. Sound(close(close(s)), ts, held, r, g) /\ close(close(s)).got = close(s).got
      BY <1>8, <3>2
    <3> QED BY <2>2, <3>1, <3>2, <3>3
  <2> QED BY <1>2, <2>1, <2>2
<1>11. Moves(c)
  BY <1>3, <1>10, AloneMoves DEF ts, held, r, g
<1>12. HttpInv'
  BY <1>3, <1>11, MovesKeep
<1> QED BY <1>6, <1>10, <1>12

\* The poll's end, and what the clients and the clock do.
LEMMA EndPollKeeps ==
  ASSUME HttpInv, end_poll
  PROVE  HttpInv'
<1>1. /\ connections' = {c \in connections : conn[c].stage # "Closed"}
      /\ UNCHANGED <<conn, task, given, request, current>>
  BY DEF end_poll, clientVars, connVars
<1>2. Types'
  BY <1>1 DEF HttpInv, Types
<1>3. ASSUME NEW c \in Conn
      PROVE  Sound(conn[c], task[c], c \in connections', request[c], given[c])
  <2>1. Sound(conn[c], task[c], c \in connections, request[c], given[c])
    BY IsSound
  <2>2. c \in connections /\ conn[c].stage # "Closed" => c \in connections'
    BY <1>1
  <2>3. Waiting(conn[c], c \in connections')
    BY <2>1, <2>2 DEF Sound, Waiting
  <2> QED BY <2>1, <2>3 DEF Sound
<1> QED BY <1>1, <1>2, <1>3 DEF HttpInv

LEMMA LingerEndsKeeps ==
  ASSUME HttpInv, NEW c \in Conn, linger_ends(c)
  PROVE  HttpInv'
<1> DEFINE k == conn[c]
           j == [k EXCEPT !.linger = "past"]
<1>1. /\ k.linger = "until" /\ UNCHANGED <<task, given, request, connections, current>>
      /\ Becomes(c, j)
  BY DEF linger_ends, Becomes, clientVars, serverVars, loopVars
<1>2. Sound(k, task[c], c \in connections, request[c], given[c])
  BY IsSound
<1>3. /\ DOMAIN j = Fields /\ j.got = k.got /\ j.linger = "past" /\ j.drains = k.drains
      /\ j.streams = k.streams /\ j.listener = k.listener /\ j.owed = k.owed
      /\ BodyKept(k, j) /\ AnswerKept(k, j) /\ j.stage = k.stage
  BY <1>2 DEF Sound, Shape, BodyKept, AnswerKept, Fields, NewConnection
<1> HIDE DEF k, j
<1>4. Shape(j, task[c]) /\ AnsweredOnce(j)
  BY <1>2, <1>3 DEF Sound, Shape, AnsweredOnce, BodyKept, AnswerKept
<1>5. Untouched(j, task[c])
  BY <1>1, <1>2, <1>3 DEF Sound, Untouched, Lingering
<1>6. Waiting(j, c \in connections) /\ Answering(j, task[c])
  BY <1>2, <1>3 DEF Sound, Waiting, Answering, BodyKept, AnswerKept
<1>7. Lingering(j, request[c])
  BY <1>1, <1>2, <1>3 DEF Sound, Lingering, BodyKept
<1>8. Counting(j, request[c], given[c])
  BY <1>2, <1>3 DEF Sound, Counting, Counts, BodyKept
<1>12. Placed(j, request[c])
  <2>1. SamePlace(k, j)
    BY <1>2, <1>3 DEF Sound, Counting, SamePlace, BodyKept
  <2> QED BY <1>2, <1>3, <2>1, PlacedKept DEF Sound
<1>9. Sound(j, task[c], c \in connections, request[c], given[c])
  BY <1>4, <1>5, <1>6, <1>7, <1>8, <1>12 DEF Sound
<1>10. Moves(c)
  BY <1>1, <1>9, AloneMoves
<1>11. request' = request /\ connections' = connections /\ current' \in Conn
  BY <1>1 DEF HttpInv, Types
<1> QED BY <1>10, <1>11, MovesKeep

LEMMA InitSound ==
  ASSUME Init
  PROVE  HttpInv
<1>1. Types
  BY DEF Init, Types
<1>2. ASSUME NEW c \in Conn
      PROVE  Sound(conn[c], task[c], c \in connections, request[c], given[c])
  <2>1. /\ conn[c] = [NewConnection EXCEPT !.stage = "None"] /\ given[c] = 0
        /\ task[c] = [t \in Task |-> "none"] /\ request[c] \in Requests
    BY DEF Init
  <2>2. /\ task[c] \in [Task -> {"none", "idle", "whole", "stream", "open", "over"}]
        /\ \A t \in Task : task[c][t] = "none"
    BY <2>1
  <2> QED BY <2>1, <2>2, SoundFresh
<1> QED BY <1>1, <1>2 DEF HttpInv

LEMMA NextKeeps ==
  ASSUME HttpInv, [Next]_vars
  PROVE  HttpInv'
<1>1. ASSUME UNCHANGED <<conn, task, given, request, connections, current>>
      PROVE  HttpInv'
  BY <1>1 DEF HttpInv, Types
<1>2. CASE Poll
  <2>1. CASE begin_poll
    BY <2>1, BeginPollKeeps
  <2>2. CASE handler_done
    BY <1>1, <2>2 DEF handler_done, clientVars, connVars, serverVars
  <2>3. CASE service_write
    BY <2>3, ServiceWriteKeeps
  <2>4. CASE end_poll
    BY <2>4, EndPollKeeps
  <2>5. CASE \E c \in Conn : service_read(c)
    BY <2>5, ServiceReadKeeps
  <2>6. CASE \E c \in Conn, t \in Task : resume(c, t)
    BY <2>6, ReadsKeep
  <2> QED BY <1>2, <2>1, <2>2, <2>3, <2>4, <2>5, <2>6 DEF Poll
<1>3. ASSUME NEW c \in Conn, Application(c)
      PROVE  HttpInv'
  BY <1>3, ReadsKeep, AnswersKeep, StreamsKeep, SocketsKeep DEF Application
<1>4. ASSUME NEW c \in Conn, World(c)
      PROVE  HttpInv'
  <2>1. CASE connect(c) \/ leave(c)
    BY <1>1, <2>1 DEF connect, leave, connVars, serverVars, loopVars
  <2> QED BY <1>4, <2>1, LingerEndsKeeps DEF World
<1>5. CASE stop \/ Dropped \/ UNCHANGED vars
  BY <1>1, <1>5 DEF stop, Dropped, vars, clientVars, connVars, serverVars, loopVars
<1> QED BY <1>2, <1>3, <1>4, <1>5 DEF Next

-----------------------------------------------------------------------------
(***************************************************************************)
(* The theorems.                                                           *)
(***************************************************************************)

\* The server (http.rs and the shell of http.vl) keeps its invariant: in every
\* reachable state every connection's record, the tasks of its request and the
\* server's hold on it agree.
THEOREM HttpInvariant == Spec => []HttpInv
<1>1. Init => HttpInv
  BY InitSound
<1>2. HttpInv /\ [Next]_vars => HttpInv'
  BY NextKeeps
<1> QED BY <1>1, <1>2, PTL DEF Spec

\* http.rs: "One answer per connection", whoever gives it: the handler, a refusal
\* or a panic.
THEOREM OneAnswerPerConnection == Spec => []OneAnswer
<1>1. HttpInv => OneAnswer
  BY DEF HttpInv, Sound, AnsweredOnce, OneAnswer
<1> QED BY <1>1, HttpInvariant, PTL

\* A task parked on a body (BodyRead, BodyPiece) is on one that is being read, of a
\* connection that the server holds and has not closed.
THEOREM WaitersAreServed == Spec => []ReadersAreServed
<1>1. HttpInv => ReadersAreServed
  <2> SUFFICES ASSUME HttpInv, NEW c \in Conn, conn[c].waiters # {}
               PROVE  /\ conn[c].body \in {"Reading", "Streaming"}
                      /\ conn[c].stage \in {"Dispatched", "Closing"}
                      /\ c \in connections
    BY DEF ReadersAreServed
  <2>1. Sound(conn[c], task[c], c \in connections, request[c], given[c])
    BY IsSound
  <2>2. conn[c].body \in {"Reading", "Streaming"}
    BY <2>1 DEF Sound, Waiting
  <2>3. Dispatched(conn[c])
    BY <2>1, <2>2, TasksAreDispatched
  <2>4. c \in connections /\ conn[c].stage # "Closed"
    BY <2>1, <2>2, <2>3 DEF Sound, Waiting, Live, Dispatched
  <2> QED BY <2>1, <2>2, <2>3, <2>4 DEF Sound, Shape, Dispatched
<1> QED BY <1>1, HttpInvariant, PTL

\* read_body and body_next: of a body no more than the cap is produced; of a
\* stream's the tasks have all that is not held for them; and a body is read, or a
\* stream of it ended, when all of what the client sent as its body was found.
THEOREM BodiesAreTheClients == Spec => []BodyIsTheClients
<1>1. HttpInv => BodyIsTheClients
  <2> SUFFICES ASSUME HttpInv, NEW c \in Conn
               PROVE  LET k == conn[c] IN
                      /\ k.received <= Cap
                      /\ k.body \in {"Streaming", "StreamEnded"} =>
                           given[c] + k.decoded = k.received
                      /\ k.body \in {"Read", "StreamEnded"} =>
                           /\ Complete(request[c])
                           /\ k.received = BodySize(request[c])
    BY DEF BodyIsTheClients
  <2> DEFINE k == conn[c]
             r == request[c]
  <2>1. Sound(k, task[c], c \in connections, r, given[c]) /\ r \in Requests
    BY IsSound
  <2>2. /\ k.received <= Cap
        /\ k.body \in {"Streaming", "StreamEnded"} => given[c] + k.decoded = k.received
    BY <2>1, HttpAssumption DEF Sound, Counting, Live
  <2> HIDE DEF k, r
  <2>3. r.framing \in {"empty", "length", "chunked"} /\ r.body \in Seq(Piece)
    BY <2>1, HttpAssumption DEF Request
  <2>4. ASSUME k.body \in {"Read", "StreamEnded"}
        PROVE  Complete(r) /\ k.received = BodySize(r)
    <3>1. Dispatched(k)
      BY <2>1, <2>4, TasksAreDispatched
    <3>2. CASE r.framing = "empty"
      BY <2>1, <3>2 DEF Sound, Placed, Complete, BodySize
    <3>3. CASE r.framing # "empty"
      <4>1. r.head = "plain" /\ Framed(r)
        BY <2>1, <3>3, HttpAssumption, FramingAssumption
      <4>2. InPlace(k, r)
        BY <2>1, <2>4, <3>1, <4>1 DEF Sound, Placed
      <4>3. CASE r.framing = "length"
        BY <2>4, <4>2, <4>3 DEF InPlace, ByLength, Complete, BodySize
      <4>4. CASE r.framing = "chunked"
        <5>1. Ended(k, r.body)
          BY <2>4, <4>2, <4>4 DEF InPlace, ByChunks
        <5>2. Last(r.body) = Blank
          BY <5>1 DEF Ended, Last
        <5>3. k.received = Cardinality(DataTo(r.body, Len(r.body)))
          BY <5>1 DEF Ended
        <5> QED BY <4>4, <5>2, <5>3 DEF Complete, BodySize, DataTo
      <4> QED BY <2>3, <3>3, <4>3, <4>4
    <3> QED BY <3>2, <3>3
  <2> QED BY <2>2, <2>4 DEF k, r
<1> QED BY <1>1, HttpInvariant, PTL

-----------------------------------------------------------------------------
(***************************************************************************)
(* What is taken off the sockets: only a poll reads.                       *)
(***************************************************************************)

\* A step of connection c that takes nothing off its socket.
TakesNone(c) == \E j : Becomes(c, j) /\ j.got = conn[c].got

NothingIsTaken == \A c \in Conn : conn'[c].got = conn[c].got

LEMMA TakesNoneIs ==
  ASSUME HttpInv, NEW c \in Conn, TakesNone(c)
  PROVE  NothingIsTaken
<1>1. DOMAIN conn = Conn
  BY DEF HttpInv, Types
<1> QED BY <1>1 DEF TakesNone, Becomes, NothingIsTaken

LEMMA StartTakesNone ==
  ASSUME NEW k, NEW ts, NEW held, NEW r \in Requests, NEW g, Sound(k, ts, held, r, g),
         NEW t \in Task, ts[t] # "none", NEW state \in {"Reading", "Streaming"}
  PROVE  start_body(k, r, state).got = k.got
<1> DEFINE j == start_body(k, r, state)
<1>1. Dispatched(k)
  BY TasksAreDispatched
<1>2. j = k \/ RestKept(k, j) \/ Progress(k, state, r, j)
  BY <1>1, StartEffect
<1> HIDE DEF j
<1> QED BY <1>2 DEF RestKept, Progress, j

LEMMA ReadsTakeNone ==
  ASSUME HttpInv, NEW c \in Conn, NEW t \in Task,
         bytes(c, t) \/ body_stream(c, t) \/ next(c, t) \/ resume(c, t)
  PROVE  NothingIsTaken
<1> DEFINE k0 == conn[c]
<1>1. Sound(k0, task[c], c \in connections, request[c], given[c]) /\ DOMAIN k0 = Fields
  BY IsSound
<1>2. \A how : /\ Sound([k0 EXCEPT !.claim = how], task[c], c \in connections,
                        request[c], given[c])
               /\ [k0 EXCEPT !.claim = how].got = k0.got
  BY <1>1, SoundClaim DEF Fields, NewConnection
<1>3. ASSUME NEW k, Sound(k, task[c], c \in connections, request[c], given[c]),
             k.got = k0.got, task[c][t] \in {"idle", "whole", "stream"},
             BodyRead_poll(c, t, k) \/ BodyPiece_poll(c, t, k)
      PROVE  TakesNone(c)
  <2> DEFINE b(state) == start_body(k, request[c], state)
  <2>1. \A state \in {"Reading", "Streaming"} :
          /\ Sound(b(state), task[c], c \in connections, request[c], given[c])
          /\ b(state).got = k0.got
    BY <1>3, IsSound, StartIsSound, StartTakesNone
  <2>2. \E state \in {"Reading", "Streaming"} :
          \/ Becomes(c, b(state))
          \/ Becomes(c, [b(state) EXCEPT !.waiters = @ \cup {t}])
          \/ \E n \in 1..b(state).decoded : Becomes(c, [b(state) EXCEPT !.decoded = @ - n])
    BY <1>3 DEF BodyRead_poll, BodyPiece_poll
  <2> HIDE DEF b
  <2>3. \A state \in {"Reading", "Streaming"} :
          /\ [b(state) EXCEPT !.waiters = @ \cup {t}].got = k0.got
          /\ \A n : [b(state) EXCEPT !.decoded = @ - n].got = k0.got
    BY <2>1 DEF Sound, Shape, Fields, NewConnection
  <2> QED BY <2>1, <2>2, <2>3 DEF TakesNone
<1>4. ASSUME NEW how, claim_refused(c, t, how)
      PROVE  TakesNone(c)
  <2> DEFINE b == IF k0.body = "Gone" THEN k0 ELSE settle(k0, "Refused")
  <2>1. /\ b.got = k0.got /\ b.answered = k0.answered /\ b.headSent = k0.headSent
        /\ b.heads = k0.heads /\ DOMAIN b = Fields
    BY <1>1, SettleEffect DEF RestKept, AnswerKept
  <2>2. Becomes(c, refuse_with(b))
    BY <1>4 DEF claim_refused
  <2>3. refuse_with(b).got = b.got
    <3> HIDE DEF b
    <3> QED BY <2>1 DEF refuse_with, enqueue, Fields, NewConnection
  <2> QED BY <2>1, <2>2, <2>3 DEF TakesNone
<1>5. CASE bytes(c, t)
  <2>1. /\ task[c][t] = "idle"
        /\ \/ BodyRead_poll(c, t, [k0 EXCEPT !.claim = "whole"])
           \/ claim_refused(c, t, "whole")
    BY <1>5 DEF bytes
  <2> QED BY <1>2, <1>3, <1>4, <2>1, TakesNoneIs
<1>6. CASE body_stream(c, t)
  <2>1. \/ Becomes(c, [k0 EXCEPT !.claim = "stream"])
        \/ claim_refused(c, t, "stream")
    BY <1>6 DEF body_stream
  <2> QED BY <1>2, <1>4, <2>1, TakesNoneIs DEF TakesNone
<1>7. CASE next(c, t)
  BY <1>1, <1>3, <1>7, TakesNoneIs DEF next
<1>8. CASE resume(c, t)
  BY <1>1, <1>3, <1>8, TakesNoneIs DEF resume
<1> QED BY <1>5, <1>6, <1>7, <1>8

LEMMA AnswersTakeNone ==
  ASSUME HttpInv, NEW c \in Conn,
         \/ answer(c) \/ panic(c) \/ open_returns(c) \/ stream_send(c) \/ stream_close(c)
         \/ socket_write(c) \/ socket_destroy(c)
  PROVE  NothingIsTaken
<1> DEFINE k == conn[c]
           b == body_left_unread(k, request[c])
<1>1. /\ Sound(k, task[c], c \in connections, request[c], given[c]) /\ DOMAIN k = Fields
      /\ Shape(k, task[c]) /\ AnsweredOnce(k)
  BY IsSound DEF Sound
<1>2. \A j : Responds(k, j) => j.got = k.got
  BY DEF Responds, RestKept
<1>3. CASE answer(c)
  <2>1. \/ \E bare \in BOOLEAN : Becomes(c, end_bytes(b, bare))
        \/ \E l : Becomes(c, [b EXCEPT !.streams = TRUE, !.listener = l])
    BY <1>3 DEF answer
  <2>2. b.got = k.got /\ Shape(b, task[c]) /\ AnsweredOnce(b) /\ DOMAIN b = Fields
    <3>1. /\ DOMAIN b = Fields /\ b.got = k.got
      BY <1>1, LeftUnreadEffect
    <3>2. task[c][Handler] = "idle"
      BY <1>3 DEF answer
    <3>3. Sound(b, [task[c] EXCEPT ![Handler] = "over"], c \in connections, request[c], given[c])
      BY <1>1, <3>2, SoundLeftUnread
    <3> HIDE DEF b
    <3>4. Shape(b, task[c]) /\ AnsweredOnce(b)
      BY <1>1, <3>3 DEF Sound, Shape
    <3> QED BY <3>1, <3>4
  <2> HIDE DEF b, k
  <2>3. \A bare \in BOOLEAN : end_bytes(b, bare).got = b.got
    <3> TAKE bare \in BOOLEAN
    <3>1. Responds(b, end_bytes(b, bare))
      BY <2>2, EndBytesEffect
    <3> QED BY <3>1 DEF Responds, RestKept
  <2>4. \A l : [b EXCEPT !.streams = TRUE, !.listener = l].got = b.got
    BY <2>2 DEF Fields, NewConnection
  <2>5. TakesNone(c)
    BY <2>1, <2>2, <2>3, <2>4 DEF TakesNone, k
  <2> QED BY <2>5, TakesNoneIs
<1>4. CASE panic(c)
  BY <1>1, <1>2, <1>4, FailEffect, TakesNoneIs DEF panic, TakesNone
<1>5. CASE open_returns(c)
  BY <1>5 DEF open_returns, NothingIsTaken
<1>6. CASE stream_send(c) \/ stream_close(c)
  BY <1>1, <1>2, <1>6, WriteEffect, EndBytesEffect, TakesNoneIs DEF stream_send, stream_close, TakesNone
<1>7. CASE socket_write(c)
  <2>1. enqueue(k, 0).got = k.got
    BY <1>1 DEF enqueue, Fields, NewConnection
  <2> QED BY <1>7, <2>1, TakesNoneIs DEF socket_write, TakesNone
<1>8. CASE socket_destroy(c)
  BY <1>1, <1>8, DestroyEffect, TakesNoneIs DEF socket_destroy, TakesNone, RestKept
<1> QED BY <1>3, <1>4, <1>5, <1>6, <1>7, <1>8

\* A poll begins with closes and fresh connections.
LEMMA BeginPollTakesNone ==
  ASSUME HttpInv, begin_poll, NEW c \in Conn, conn[c].body = "Refused" \/ conn[c].linger # "no"
  PROVE  conn'[c].got = conn[c].got
<1>1. Sound(conn[c], task[c], c \in connections, request[c], given[c])
  BY IsSound
<1>2. conn[c].stage # "None"
  BY <1>1 DEF Sound, Untouched
<1>3. c \notin Backlog
  BY <1>2 DEF Backlog
<1>4. conn'[c] = close(conn[c]) \/ conn'[c] = conn[c]
  BY <1>3 DEF begin_poll
<1>5. Closes(conn[c], close(conn[c]))
  BY <1>1, CloseEffect DEF Sound
<1> QED BY <1>4, <1>5 DEF Closes, RestKept

\* wants_bytes: a declined body is not asked for.
LEMMA DeclinedIsNotWanted ==
  ASSUME NEW k, NEW ts, NEW held, NEW r, NEW g, Sound(k, ts, held, r, g),
         k.body = "Refused" \/ k.linger # "no"
  PROVE  ~wants_bytes(k)
BY DEF Sound, Untouched, Lingering, wants_bytes

\* What a poll makes of a record keeps what it has read.
LEMMA ServiceReadTakes ==
  ASSUME HttpInv, NEW c \in Conn, service_read(c)
  PROVE  /\ \A d \in Conn : d # c => conn'[d].got = conn[d].got
         /\ ~wants_bytes(conn[c]) => conn'[c].got = conn[c].got
<1> DEFINE r == request[c]
<1>1. PICK d \in read_available(c) :
        LET k == [conn[c] EXCEPT !.got = @ + d.n]
        IN  \/ k.stage = "Reading" /\ dispatch(c, k)
            \/ Becomes(c, IF d.hungUp THEN close(k) ELSE k)
            \/ k.stage = "Dispatched" /\ Becomes(c, advance_body(k, r, d.hungUp))
            \/ Becomes(c, [k EXCEPT !.used = k.got])
            \/ Becomes(c, k)
  BY DEF service_read
<1> DEFINE k == [conn[c] EXCEPT !.got = @ + d.n]
<1>2. /\ d.n \in Nat /\ d.hungUp \in BOOLEAN
      /\ conn[c].got + d.n \in 0..Len(Message(r))
      /\ ~wants_bytes(conn[c]) => d.n = 0
  BY ReadBrings
<1>3. Sound(k, task[c], c \in connections, r, given[c])
  BY <1>2, IsSound, SoundGot
<1>4. DOMAIN conn[c] = Fields /\ conn[c].got \in Nat
  BY IsSound, MessageIsPieces DEF Sound, Counting
<1>5. k.got = conn[c].got + d.n
  BY <1>4 DEF Fields, NewConnection
<1>6. \/ k.stage = "Reading" /\ dispatch(c, k)
      \/ Becomes(c, IF d.hungUp THEN close(k) ELSE k)
      \/ k.stage = "Dispatched" /\ Becomes(c, advance_body(k, r, d.hungUp))
      \/ Becomes(c, [k EXCEPT !.used = k.got])
      \/ Becomes(c, k)
  BY <1>1
<1> HIDE DEF k
<1>7. close(k).got = k.got
  <2>1. Closes(k, close(k))
    BY <1>3, CloseEffect DEF Sound
  <2> QED BY <2>1 DEF Closes, RestKept
<1>8. refuse_with(k).got = k.got
  BY <1>3, RefuseEffect DEF Sound, RestKept
<1>9. k.stage = "Dispatched" => advance_body(k, r, d.hungUp).got = k.got
  <2>1. CASE k.body \notin {"Reading", "Streaming"}
    BY <2>1 DEF advance_body
  <2>2. CASE k.body \in {"Reading", "Streaming"} /\ k.stage = "Dispatched"
    <3>1. Measured(k, r)
      BY <1>3, <2>2 DEF Sound, Counting, Measured, Live
    <3>2. /\ Shape(k, task[c]) /\ AnsweredOnce(k) /\ r \in Requests
          /\ Placed(k, r) /\ Dispatched(k)
      BY <1>3, <2>2, IsSound DEF Sound, Dispatched
    <3>3. Progress(k, k.body, r, advance_body(k, r, d.hungUp))
      <4> HIDE DEF r
      <4> QED BY <1>2, <2>2, <3>1, <3>2, AdvanceEffect
    <3> QED BY <3>3 DEF Progress, RestKept
  <2> QED BY <2>1, <2>2
<1>10. /\ [k EXCEPT !.used = k.got].got = k.got
       /\ [k EXCEPT !.stage = "Upgraded", !.used = k.got].got = k.got
       /\ [k EXCEPT !.stage = "Dispatched", !.used = 1].got = k.got
  BY <1>3 DEF Sound, Shape, Fields, NewConnection
<1>11. PICK j : Becomes(c, j) /\ j.got = k.got
  <2>1. CASE dispatch(c, k)
    BY <1>7, <1>8, <1>10, <2>1 DEF dispatch
  <2> QED BY <1>6, <1>7, <1>9, <1>10, <2>1
<1>12. DOMAIN conn = Conn
  BY DEF HttpInv, Types
<1>13. conn'[c] = j /\ \A e \in Conn : e # c => conn'[e] = conn[e]
  BY <1>11, <1>12 DEF Becomes
<1>14. ~wants_bytes(conn[c]) => conn'[c].got = conn[c].got
  BY <1>2, <1>4, <1>5, <1>11, <1>13
<1> QED BY <1>13, <1>14

LEMMA DeclinedStays ==
  ASSUME HttpInv, [Next]_vars, NEW c \in Conn,
         conn[c].body = "Refused" \/ conn[c].linger # "no"
  PROVE  conn'[c].got = conn[c].got
<1>1. CASE UNCHANGED conn
  BY <1>1
<1>2. CASE NothingIsTaken
  BY <1>2 DEF NothingIsTaken
<1>3. CASE begin_poll
  BY <1>3, BeginPollTakesNone
<1>4. ASSUME NEW d \in Conn, service_read(d)
      PROVE  conn'[c].got = conn[c].got
  <2>1. ~wants_bytes(conn[c])
    BY IsSound, DeclinedIsNotWanted
  <2> QED BY <1>4, <2>1, ServiceReadTakes
<1>5. CASE service_write
  <2>1. current \in Conn
    BY DEF HttpInv, Types
  <2>2. TakesNone(current)
    BY <1>5, ServiceWriteKeeps DEF TakesNone
  <2> QED BY <1>2, <2>1, <2>2, TakesNoneIs
<1>6. CASE \E d \in Conn, t \in Task : resume(d, t)
  BY <1>2, <1>6, ReadsTakeNone
<1>7. CASE \E d \in Conn : Application(d)
  BY <1>2, <1>7, ReadsTakeNone, AnswersTakeNone DEF Application
<1>8. ASSUME NEW d \in Conn, linger_ends(d)
      PROVE  conn'[c].got = conn[c].got
  <2>1. DOMAIN conn[d] = Fields
    BY IsSound
  <2>2. [conn[d] EXCEPT !.linger = "past"].got = conn[d].got
    BY <2>1 DEF Fields, NewConnection
  <2>3. Becomes(d, [conn[d] EXCEPT !.linger = "past"])
    BY <1>8 DEF linger_ends, Becomes
  <2>4. TakesNone(d)
    BY <2>2, <2>3 DEF TakesNone
  <2> QED BY <1>2, <2>4, TakesNoneIs
<1>9. CASE \/ handler_done \/ end_poll \/ stop \/ Dropped \/ UNCHANGED vars
           \/ \E d \in Conn : connect(d) \/ leave(d)
  <2>1. UNCHANGED conn
    BY <1>9 DEF handler_done, end_poll, stop, Dropped, connect, leave, vars, connVars
  <2> QED BY <1>1, <2>1
<1> QED BY <1>3, <1>4, <1>5, <1>6, <1>7, <1>8, <1>9 DEF Next, Poll, World

\* refused_body_census: a body that was refused, or that an answered connection
\* lingers over, is never read again: nothing more of it leaves the kernel.
THEOREM DeclinedBodies == Spec => DeclinedStaysOnTheWire
<1>1. HttpInv /\ [Next]_vars =>
        [\A c \in Conn :
           conn[c].body = "Refused" \/ conn[c].linger # "no" => conn'[c].got = conn[c].got]_vars
  BY DeclinedStays
<1> QED BY <1>1, HttpInvariant, PTL DEF Spec, DeclinedStaysOnTheWire

-----------------------------------------------------------------------------
(***************************************************************************)
(* The close of an answered connection.                                    *)
(***************************************************************************)

\* A connection that does not stay for its body has all of it, unless its time is
\* past or nobody can read it any more.
LEMMA LastIsTaken ==
  ASSUME NEW r \in Requests, r.head = "plain", Framed(r),
         NEW k, DOMAIN k = Fields, NEW g, Counting(k, r, g),
         k.body = "Refused" \/ InPlace(k, r),
         k.body \notin {"Gone", "Reading", "Streaming"}, k.linger # "past",
         k.body \in Live \cup {"Read", "StreamEnded", "Gone", "Refused", "Abandoned", "Draining"},
         NEW hungUp, ~hungUp, ~lingers(k, r, hungUp).stays
  PROVE  ~(k.got < Len(Message(r)))
<1> DEFINE b == Drains(k, r)
           n == Least(b.owed, Len(Inbox(k, r)))
<1>1. \/ ~StillComing(b, r)
      \/ b.body = "Draining" /\ ~(n < b.owed)
  BY DEF lingers, Drains
<1>2. b.body = k.body \/ b.body = "Draining"
  BY DEF Drains, Fields, NewConnection
<1>3. Drains(k, r) = k \/ b.body = "Draining"
  BY DEF Drains, Fields, NewConnection
<1> HIDE DEF b
<1>4. InPlace(k, r)
  <2>1. k.body = "Refused" => b.body = "Refused"
    BY <1>3 DEF b, Drains
  <2> QED BY <1>1, <2>1 DEF StillComing
<1>5. /\ b.used = k.used /\ b.got = k.got
      /\ Len(Inbox(k, r)) \in Nat /\ Len(Inbox(k, r)) = k.got - k.used
      /\ b.body = "Draining" =>
           /\ r.framing = "length" /\ b.used \in 1..b.got
           /\ b.owed \in Nat /\ b.used + b.owed = 1 + r.length
  BY <1>4, DrainOwes DEF b
<1>6. /\ Len(Message(r)) = 1 + Len(r.body) /\ Len(r.body) \in Nat
      /\ k.got \in Nat /\ k.used \in 1..k.got
      /\ r.framing = "length" => r.length = Len(r.body)
      /\ r.framing \in {"empty", "length", "chunked"} /\ r.length \in Nat
  <2>1. k.got \in Nat /\ k.used \in 1..k.got
    BY <1>4 DEF Counting, InPlace
  <2>2. Len(Message(r)) = 1 + Len(r.body) /\ Len(r.body) \in Nat
    BY MessageIsPieces
  <2> QED BY <2>1, <2>2, HttpAssumption DEF Request
<1>7. CASE b.body = "Draining"
  <2>1. ~(n < b.owed)
    BY <1>1, <1>7 DEF StillComing
  <2>2. Len(Inbox(k, r)) >= b.owed
    BY <1>5, <1>7, <2>1 DEF Least
  <2> QED BY <1>5, <1>6, <1>7, <2>2
<1>8. CASE b.body # "Draining"
  <2>1. b = k /\ ~StillComing(k, r)
    BY <1>1, <1>3, <1>8 DEF b
  <2>2. k.body \in {"Unread", "Read", "StreamEnded"}
    BY <2>1 DEF StillComing, Live
  <2>3. CASE r.framing = "empty"
    <3>1. Len(r.body) = 0
      BY <2>3 DEF Framed
    <3> QED BY <1>6, <3>1
  <2>4. CASE r.framing # "empty" /\ k.body = "Unread"
    <3>1. r.framing = "length" /\ ~(Len(Inbox(k, r)) < r.length)
      BY <1>6, <2>1, <2>4 DEF StillComing
    <3>2. k.used = 1
      BY <1>4, <2>4 DEF InPlace
    <3> QED BY <1>5, <1>6, <3>1, <3>2
  <2>5. CASE r.framing = "length" /\ k.body \in {"Read", "StreamEnded"}
    <3>1. k.used = 1 + k.received /\ k.received = r.length
      BY <1>4, <2>5 DEF InPlace, ByLength
    <3> QED BY <1>6, <2>5, <3>1
  <2>6. CASE r.framing = "chunked" /\ k.body \in {"Read", "StreamEnded"}
    <3>1. k.used = 1 + Len(r.body)
      BY <1>4, <2>6 DEF InPlace, ByChunks, Ended
    <3> QED BY <1>6, <3>1
  <2> QED BY <1>6, <2>2, <2>3, <2>4, <2>5, <2>6
<1> QED BY <1>7, <1>8

\* A close leaves the outbox as it is.
LEMMA CloseKeepsOutbox ==
  ASSUME NEW k, DOMAIN k = Fields
  PROVE  close(k).outbox = k.outbox
<1> DEFINE b == IF k.body \in Live THEN settle(k, "Gone") ELSE k
           d == [b EXCEPT !.stage = "Closed", !.writeShut = TRUE]
<1>1. close(k) \in {k, d, end_bytes(d, FALSE)}
  BY DEF close, Live
<1>2. DOMAIN b = Fields /\ b.outbox = k.outbox
  BY DEF settle, Fields, NewConnection
<1> HIDE DEF b
<1>3. DOMAIN d = Fields /\ d.outbox = k.outbox /\ d.stage = "Closed"
  BY <1>2 DEF Fields, NewConnection
<1> HIDE DEF d
<1>4. \A h : h.stage = "Closed" => enqueue(h, 0) = h /\ enqueue(h, 1) = h
  BY DEF enqueue
<1>5. \A h : DOMAIN h = Fields =>
        /\ [h EXCEPT !.headSent = TRUE, !.ended = TRUE].outbox = h.outbox
        /\ [h EXCEPT !.headSent = TRUE, !.answered = TRUE].outbox = h.outbox
        /\ [h EXCEPT !.ended = TRUE, !.stage = "Closing"].outbox = h.outbox
        /\ DOMAIN [h EXCEPT !.headSent = TRUE, !.ended = TRUE] = Fields
        /\ DOMAIN [h EXCEPT !.headSent = TRUE, !.answered = TRUE] = Fields
        /\ [h EXCEPT !.headSent = TRUE, !.ended = TRUE].stage = h.stage
        /\ [h EXCEPT !.headSent = TRUE, !.answered = TRUE].stage = h.stage
  BY DEF Fields, NewConnection
<1> DEFINE h == send_head(d)
<1>6. \/ h = d
      \/ h = [d EXCEPT !.headSent = TRUE, !.ended = TRUE]
      \/ h = [d EXCEPT !.headSent = TRUE, !.answered = TRUE]
  BY <1>3, <1>4 DEF send_head
<1>7. DOMAIN h = Fields /\ h.outbox = d.outbox /\ h.stage = "Closed"
  BY <1>3, <1>5, <1>6
<1>8. \/ end_bytes(d, FALSE) = d
      \/ end_bytes(d, FALSE) = h
      \/ end_bytes(d, FALSE) = [h EXCEPT !.ended = TRUE, !.stage = "Closing"]
  <2>1. enqueue(h, 0) = h
    BY <1>4, <1>7
  <2> HIDE DEF h
  <2>2. end_bytes(d, FALSE) \in {d, h, [enqueue(h, 0) EXCEPT !.ended = TRUE, !.stage = "Closing"]}
    BY DEF end_bytes, h
  <2> QED BY <2>1, <2>2
<1>9. end_bytes(d, FALSE).outbox = d.outbox
  <2> HIDE DEF h
  <2> QED BY <1>5, <1>7, <1>8
<1> QED BY <1>1, <1>3, <1>9

\* A poll that found that the client had left has taken all it sent.
HungIsSpent ==
  /\ at = [c \in Conn |-> at[c]]
  /\ hung => at[current] = "spent"

LEMMA NextKeepsHung ==
  ASSUME HttpInv, HungIsSpent, [Next]_vars
  PROVE  HungIsSpent'
<1>1. ASSUME UNCHANGED <<at, hung, current>>
      PROVE  HungIsSpent'
  BY <1>1 DEF HungIsSpent
<1>2. ASSUME NEW c \in Conn, service_read(c)
      PROVE  HungIsSpent'
  <2>1. PICK d \in read_available(c) :
          /\ hung' = d.hungUp /\ current' = c
          /\ at' = [at EXCEPT ![c] = IF d.hungUp THEN "spent" ELSE @]
    BY <1>2 DEF service_read
  <2>2. at' = [e \in Conn |-> at'[e]] /\ at'[c] = IF d.hungUp THEN "spent" ELSE at[c]
    BY <2>1 DEF HungIsSpent
  <2> QED BY <2>1, <2>2 DEF HungIsSpent
<1>3. ASSUME NEW c \in Conn, connect(c) \/ leave(c)
      PROVE  HungIsSpent'
  <2>1. /\ at[c] # "spent" /\ UNCHANGED <<hung, current>>
        /\ \E w : at' = [at EXCEPT ![c] = w]
    BY <1>3 DEF connect, leave, loopVars
  <2>2. at' = [e \in Conn |-> at'[e]] /\ \A e \in Conn : e # c => at'[e] = at[e]
    BY <2>1 DEF HungIsSpent
  <2>3. current \in Conn
    BY DEF HttpInv, Types
  <2> QED BY <2>1, <2>2, <2>3 DEF HungIsSpent
<1>4. CASE end_poll
  BY <1>4 DEF end_poll, HungIsSpent, clientVars
<1>5. CASE begin_poll \/ handler_done \/ service_write
  BY <1>1, <1>5 DEF begin_poll, handler_done, service_write, clientVars
<1>6. ASSUME NEW c \in Conn, NEW t \in Task,
             resume(c, t) \/ bytes(c, t) \/ body_stream(c, t) \/ next(c, t)
      PROVE  HungIsSpent'
  BY <1>1, <1>6 DEF resume, bytes, body_stream, next, clientVars, loopVars
<1>7. ASSUME NEW c \in Conn,
             \/ answer(c) \/ panic(c) \/ open_returns(c) \/ stream_send(c) \/ stream_close(c)
             \/ socket_write(c) \/ socket_destroy(c) \/ linger_ends(c)
      PROVE  HungIsSpent'
  BY <1>1, <1>7 DEF answer, panic, open_returns, stream_send, stream_close, socket_write,
                    socket_destroy, linger_ends, clientVars, loopVars
<1>8. CASE stop \/ Dropped \/ UNCHANGED vars
  BY <1>1, <1>8 DEF stop, Dropped, vars, clientVars, loopVars
<1> QED BY <1>2, <1>3, <1>4, <1>5, <1>6, <1>7, <1>8 DEF Next, Poll, Application, World

\* Only the second half of a service closes a connection between the two.
LEMMA WriteCloses ==
  ASSUME HttpInv, HungIsSpent, [Next]_vars, NEW c \in Conn, ResetsTheAnswer(c)
  PROVE  c = current /\ service_write
<1>1. pc = "write" /\ conn'[c] # conn[c]
  BY DEF ResetsTheAnswer
<1>2. ~begin_poll /\ ~end_poll /\ ~handler_done /\ ~stop /\ ~Dropped
  BY <1>1 DEF begin_poll, end_poll, handler_done, stop, Dropped
<1>3. \A d \in Conn : ~service_read(d) /\ ~linger_ends(d)
  BY <1>1 DEF service_read, linger_ends
<1>4. \A d \in Conn : ~connect(d) /\ ~leave(d)
  BY <1>1 DEF connect, leave, connVars
<1>5. \A d \in Conn, t \in Task :
        ~resume(d, t) /\ ~bytes(d, t) /\ ~body_stream(d, t) /\ ~next(d, t)
  BY <1>1 DEF resume, bytes, body_stream, next, Runs
<1>6. \A d \in Conn :
        /\ ~answer(d) /\ ~panic(d) /\ ~open_returns(d) /\ ~stream_send(d) /\ ~stream_close(d)
        /\ ~socket_write(d) /\ ~socket_destroy(d)
  BY <1>1 DEF answer, panic, open_returns, stream_send, stream_close, socket_write,
              socket_destroy, Runs
<1>7. ~UNCHANGED vars
  BY <1>1 DEF vars, connVars
<1>8. service_write
  BY <1>2, <1>3, <1>4, <1>5, <1>6, <1>7 DEF Next, Poll, Application, World
<1>9. \E j : Becomes(current, j)
  BY <1>8, ServiceWriteKeeps
<1>10. c = current
  BY <1>1, <1>9 DEF Becomes, HttpInv, Types
<1> QED BY <1>8, <1>10

LEMMA NothingIsReset ==
  ASSUME HttpInv, HungIsSpent, [Next]_vars, NEW c \in Conn, ResetsTheAnswer(c)
  PROVE  conn[c].body \in {"Gone", "Reading", "Streaming"}
<1> SUFFICES ASSUME conn[c].body \notin {"Gone", "Reading", "Streaming"} PROVE FALSE
  OBVIOUS
<1> DEFINE r == request[c]
<1>1. /\ r.head = "plain" /\ conn[c].stage = "Closing" /\ conn'[c].stage = "Closed"
      /\ at[c] = "open" /\ ~conn'[c].outbox /\ conn[c].got < Len(Message(r))
      /\ conn[c].linger # "past"
  BY DEF ResetsTheAnswer
<1>2. c = current /\ service_write
  BY WriteCloses
<1>3. ~hung
  BY <1>1, <1>2 DEF HungIsSpent
<1>4. PICK w \in write_available(c) :
        LET k == [conn[c] EXCEPT !.outbox = w.left]
            l == lingers(k, r, hung)
            d == IF k.stage = "Closing" /\ ~k.outbox
                 THEN IF l.stays THEN l.k ELSE close(l.k)
                 ELSE k
        IN  Becomes(c, IF w.dead \/ (hung /\ ~d.outbox /\ d.stage # "Dispatched")
                       THEN close(IF w.dead THEN k ELSE d) ELSE d)
  BY <1>2 DEF service_write
<1> DEFINE k == [conn[c] EXCEPT !.outbox = w.left]
           l == lingers(k, r, hung)
<1>5. Sound(conn[c], task[c], c \in connections, r, given[c]) /\ r \in Requests
  BY IsSound
<1>6. /\ RestKept(conn[c], k) /\ BodyKept(conn[c], k) /\ AnswerKept(conn[c], k)
      /\ k.stage = conn[c].stage /\ k.outbox = w.left
  BY <1>5 DEF Sound, Shape, RestKept, BodyKept, AnswerKept, Fields, NewConnection
<1>7. \/ w.left = TRUE /\ w.dead = TRUE
      \/ w.left = TRUE /\ w.dead = FALSE
      \/ w.left = FALSE /\ w.dead = FALSE
  BY <1>1, <1>4 DEF write_available
<1>8. \/ w.dead = TRUE /\ Becomes(c, close(k))
      \/ w.left = TRUE /\ Becomes(c, k)
      \/ l.stays /\ Becomes(c, l.k)
      \/ w.left = FALSE /\ ~l.stays
  BY <1>1, <1>3, <1>4, <1>6, <1>7
<1> HIDE DEF k, l
<1>9. Sound(k, task[c], c \in connections, r, given[c])
  BY <1>5, <1>6, SoundKept
<1>10. \A j : Becomes(c, j) => conn'[c] = j
  BY DEF Becomes, HttpInv, Types
<1>11. CASE w.dead = TRUE /\ Becomes(c, close(k))
  <2>1. close(k).outbox = TRUE
    BY <1>6, <1>7, <1>9, <1>11, CloseKeepsOutbox DEF Sound, Shape
  <2> QED BY <1>1, <1>10, <1>11, <2>1
<1>12. CASE w.left = TRUE /\ Becomes(c, k)
  BY <1>1, <1>6, <1>10, <1>12
<1>13. CASE l.stays /\ Becomes(c, l.k)
  <2>1. DOMAIN k = Fields /\ k.drains \in BOOLEAN
    BY <1>9 DEF Sound, Shape
  <2>2. Stays(k, r, lingers(k, r, hung).k)
    BY <2>1, LingersEffect
  <2>3. Stays(k, r, l.k)
    BY <2>2 DEF l
  <2>4. l.k.stage = k.stage
    BY <2>3 DEF Stays
  <2> QED BY <1>1, <1>6, <1>10, <1>13, <2>4
<1>14. CASE ~l.stays
  <2>1. Framed(r)
    BY <1>1, <1>5, FramingAssumption
  <2>2. k.body = "Refused" \/ InPlace(k, r)
    BY <1>1, <1>6, <1>9, <2>1 DEF Sound, Placed, Dispatched, BodyKept
  <2>3. /\ DOMAIN k = Fields /\ Counting(k, r, given[c])
        /\ k.body \in Live \cup {"Read", "StreamEnded", "Gone", "Refused", "Abandoned", "Draining"}
        /\ k.body \notin {"Gone", "Reading", "Streaming"} /\ k.linger # "past"
        /\ k.got = conn[c].got
    BY <1>1, <1>6, <1>9 DEF Sound, Shape, RestKept, BodyKept
  <2> HIDE DEF r
  <2>4. ~(k.got < Len(Message(r)))
    <3> DEFINE h == hung
    <3>1. ~lingers(k, r, h).stays /\ ~h
      BY <1>3, <1>14 DEF l
    <3>2. r.head = "plain" /\ r \in Requests
      BY <1>1, <1>5
    <3> HIDE DEF h
    <3> QED BY <2>1, <2>2, <2>3, <3>1, <3>2, LastIsTaken
  <2> QED BY <1>1, <2>3, <2>4
<1> QED BY <1>8, <1>11, <1>12, <1>13, <1>14

\* lingers: "so the client reads its response rather than a reset".  No close over
\* a client that is still there leaves bytes of its body on the socket, unless its
\* time was past or its handler had asked for them.
THEOREM AnswersOutliveTheClose == Spec => AnswerOutlivesTheClose
<1>1. Init => HttpInv /\ HungIsSpent
  BY InitSound DEF Init, HungIsSpent
<1>2. HttpInv /\ HungIsSpent /\ [Next]_vars => HttpInv' /\ HungIsSpent'
  BY NextKeeps, NextKeepsHung
<1>3. HttpInv /\ HungIsSpent /\ [Next]_vars =>
        [\A c \in Conn :
           ResetsTheAnswer(c) => conn[c].body \in {"Gone", "Reading", "Streaming"}]_vars
  BY NothingIsReset
<1> QED BY <1>1, <1>2, <1>3, PTL DEF Spec, AnswerOutlivesTheClose

=============================================================================
