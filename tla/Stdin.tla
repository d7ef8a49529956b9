------------------------------- MODULE Stdin --------------------------------
(***************************************************************************)
(* The shared stdin reader (crates/vilan-rt/src/process.rs): tasks queue    *)
(* line reads and byte reads, a pump answers them from one buffer, a reader *)
(* thread does the blocking reads on demand, and the event loop watches it  *)
(* through an I/O source that lives only while a read waits.                *)
(*                                                                         *)
(* A byte is text, a carriage return or a newline.  The pump is one         *)
(* synchronous call of the loop's thread, taken one answer at a time; only  *)
(* the reader thread runs beside it.                                        *)
(***************************************************************************)
EXTENDS Naturals, Sequences, FiniteSets, SequencesExt, FiniteSetsExt

CONSTANTS
  Reader,    \* tasks that read stdin, one read at a time
  Wants,     \* the reads they make: "line", "bytes" or "bytes_wait"
  Text,      \* the bytes that end no line
  Inputs,    \* bound: what may be typed or piped, as sequences of bytes
  MaxReads,  \* bound: reads one task makes
  None

CR == "cr"
LF == "lf"
Byte == Text \cup {CR, LF}

ASSUME StdinAssumption ==
  /\ Wants \subseteq {"line", "bytes", "bytes_wait"}
  /\ CR \notin Text /\ LF \notin Text
  /\ None \notin Reader /\ IsFiniteSet(Reader)
  /\ Inputs \subseteq Seq(Byte)
  /\ MaxReads \in Nat

VARIABLES
  \* the reader thread and its two channels
  input,       \* history: all that is ever typed or piped
  todo,        \* the part of it not read yet
  thread,      \* "off", "waiting", "reading" or "gone"
  requests,    \* Reader.requests: chunks asked for
  chunks,      \* Reader.chunks: chunks sent back, <<>> standing for the end
  \* Stdin
  buffer, ended, carriage, requested, registered, waiters,
  arrived,     \* the chunk block() received, as a sequence of at most one
  \* QueuedRead and StdinBytes, by task
  want,        \* what its read asks for, "none" when it makes none
  answer,      \* Waiter.answer, as a sequence of at most one
  aborted,     \* its cancel signal has fired
  expired,     \* the wait of its byte read ran out
  reads,
  \* the loop
  queue,       \* microtasks: tasks to poll
  pc,          \* where the loop's thread is
  caller,      \* who called the pump: a task, or None for the source
  progressed,  \* what the source's poll answers
  position,    \* history: how much of the input the answers given out stand for
  given,       \* history: how many answers the pump gave out
  taken        \* history: how many of them their reads took

threadVars == <<input, todo, thread, requests, chunks>>
stdinVars  == <<buffer, ended, carriage, requested, registered, waiters, arrived>>
readVars   == <<want, answer, aborted, expired, reads>>
loopVars   == <<queue, pc, caller, progressed, position, given, taken>>
vars == <<threadVars, stdinVars, readVars, loopVars>>

End == [kind |-> "end", bytes |-> <<>>]
Line(b) == [kind |-> "line", bytes |-> b]
Bytes(b) == [kind |-> "bytes", bytes |-> b]

Answers == [kind : {"end", "line", "bytes"}, bytes : Seq(Byte)]

Waits(r) == r \in Range(waiters)

-----------------------------------------------------------------------------
(***************************************************************************)
(* Tasks.                                                                  *)
(***************************************************************************)

\* QueuedRead::poll for the first time: an aborted signal raises before the
\* read queues; otherwise it queues and the pump runs.
start_read(r) ==
  /\ pc = "drain" /\ want[r] = "none" /\ reads[r] > 0
  /\ reads' = [reads EXCEPT ![r] = @ - 1]
  /\ \/ /\ aborted[r]
        /\ UNCHANGED <<want, waiters, pc, caller>>
     \/ /\ ~aborted[r]
        /\ \E k \in Wants : want' = [want EXCEPT ![r] = k]
        /\ waiters' = Append(waiters, r)
        /\ pc' = "pump"
        /\ caller' = r
  /\ UNCHANGED <<threadVars, buffer, ended, carriage, requested, registered, arrived,
                 answer, aborted, expired, queue, progressed, position, given, taken>>

\* The read ends with what was left for it.
Take(r) ==
  /\ taken' = taken + 1
  /\ answer' = [answer EXCEPT ![r] = <<>>]
  /\ want' = [want EXCEPT ![r] = "none"]
  /\ expired' = [expired EXCEPT ![r] = FALSE]

\* Seeded fault: an abort that comes after the answer wins over it.
Answered_unlessAborted(r) == answer[r] # <<>> /\ ~aborted[r]

\* "An answer already left wins over an abort that came after it."
Answered(r) == answer[r] # <<>>

\* withdraw: the read leaves the queue.
Withdraw(r) ==
  IF Waits(r) THEN \E i \in DOMAIN waiters : waiters[i] = r /\ waiters' = RemoveAt(waiters, i)
  ELSE UNCHANGED waiters

\* A wake polls the read: an answer is taken, an abort withdraws the read and
\* raises, anything else pumps again.  A wake of a task that no longer reads
\* finds nothing to do here.
poll_read ==
  /\ pc = "drain" /\ queue # <<>>
  /\ queue' = Tail(queue)
  /\ LET r == Head(queue) IN
     \/ /\ want[r] = "none"
        /\ UNCHANGED <<waiters, want, answer, expired, pc, caller, taken>>
     \/ /\ want[r] # "none" /\ Answered(r)
        /\ Take(r)
        /\ UNCHANGED <<waiters, pc, caller>>
     \/ /\ want[r] # "none" /\ ~Answered(r) /\ aborted[r]
        /\ Withdraw(r)
        /\ want' = [want EXCEPT ![r] = "none"]
        /\ answer' = [answer EXCEPT ![r] = <<>>]
        /\ expired' = [expired EXCEPT ![r] = FALSE]
        /\ UNCHANGED <<pc, caller, taken>>
     \/ /\ want[r] # "none" /\ ~Answered(r) /\ ~aborted[r]
        /\ pc' = "pump"
        /\ caller' = r
        /\ UNCHANGED <<waiters, want, answer, expired, taken>>
  /\ UNCHANGED <<threadVars, buffer, ended, carriage, requested, registered, arrived,
                 aborted, reads, progressed, position, given>>

\* Another task cancels the nursery r reads in.
cancel(r) ==
  /\ pc = "drain" /\ ~aborted[r]
  /\ aborted' = [aborted EXCEPT ![r] = TRUE]
  /\ queue' = IF want[r] = "none" THEN queue ELSE Append(queue, r)
  /\ UNCHANGED <<threadVars, stdinVars, want, answer, expired, reads, pc, caller,
                 progressed, position, given, taken>>

-----------------------------------------------------------------------------
(***************************************************************************)
(* The pump.                                                               *)
(***************************************************************************)

\* A newline right after the carriage return that ended the last line belongs
\* to that ending.
Pairs == carriage /\ buffer # <<>>

pump_carriage ==
  /\ pc = "pump" /\ waiters # <<>> /\ Pairs
  /\ buffer' = IF Head(buffer) = LF THEN Tail(buffer) ELSE buffer
  /\ carriage' = FALSE
  /\ UNCHANGED <<threadVars, ended, requested, registered, waiters, arrived, readVars,
                 loopVars>>

Endings == {i \in DOMAIN buffer : buffer[i] \in {CR, LF}}

\* The buffer has what the oldest waiter wants.
Answerable ==
  /\ waiters # <<>>
  /\ \/ ended
     \/ want[Head(waiters)] = "line" /\ Endings # {}
     \/ want[Head(waiters)] # "line" /\ buffer # <<>>

\* The position in the input behind answer a, when it is read from position p:
\* a line takes its ending with it, a pair of carriage return and newline
\* whole; a byte read takes what it answers; the end comes after the last byte.
\* An answer that is not what the input has there is behind every position.
Consumed(p, a) ==
  LET ends == {i \in p + 1..Len(input) : input[i] \in {CR, LF}}
      end  == CASE a.kind = "end"   -> Len(input)
                [] a.kind = "bytes" -> p + Len(a.bytes)
                [] a.kind = "line"  -> IF ends = {} THEN Len(input) ELSE Min(ends)
      text == IF a.kind = "line" /\ ends # {} THEN end - 1 ELSE end
      pair == a.kind = "line" /\ ends # {}
              /\ IsPrefix(<<CR, LF>>, SubSeq(input, end, Len(input)))
  IN  IF a.bytes # SubSeq(input, p + 1, text) THEN Len(input) + 1
      ELSE IF pair THEN end + 1 ELSE end

\* Leaves answer a for the oldest waiter and wakes its task.
Give(a) ==
  /\ answer' = [answer EXCEPT ![Head(waiters)] = <<a>>]
  /\ waiters' = Tail(waiters)
  /\ position' = Consumed(position, a)
  /\ given' = given + 1
  /\ queue' = Append(queue, Head(waiters))

pump_answer ==
  /\ pc = "pump" /\ ~Pairs /\ Answerable
  /\ \/ /\ want[Head(waiters)] = "line" /\ Endings # {}
        /\ LET e == Min(Endings) IN
           /\ Give(Line(SubSeq(buffer, 1, e - 1)))
           /\ carriage' = (buffer[e] = CR)
           /\ buffer' = SubSeq(buffer, e + 1, Len(buffer))
     \/ /\ want[Head(waiters)] = "line" /\ Endings = {}
        /\ Give(IF buffer = <<>> THEN End ELSE Line(buffer))
        /\ buffer' = <<>>
        /\ UNCHANGED carriage
     \/ /\ want[Head(waiters)] # "line"
        /\ Give(IF buffer = <<>> THEN End ELSE Bytes(buffer))
        /\ buffer' = <<>>
        /\ UNCHANGED carriage
  /\ UNCHANGED <<threadVars, ended, requested, registered, arrived, want, aborted,
                 expired, reads, pc, caller, progressed, taken>>

\* Seeded fault: a chunk in flight is taken for a registered source.
NeedsSource_unlessRequested == ~requested

\* A read is left waiting: the loop has to watch for its chunk.
NeedsSource == TRUE

\* The pump ends.  A read left waiting has a chunk requested, once, and the
\* source registered; the caller goes on.
pump_done ==
  /\ pc = "pump"
  /\ ~Answerable /\ (waiters # <<>> => ~Pairs)
  /\ IF waiters # <<>> /\ ~ended
     THEN /\ requested' = TRUE
          /\ requests' = IF requested THEN requests ELSE requests + 1
          /\ thread' = IF thread = "off" THEN "waiting" ELSE thread
          /\ registered' = (registered \/ NeedsSource)
     ELSE UNCHANGED <<requested, requests, thread, registered>>
  /\ \/ /\ caller = None
        /\ pc' = "retain"
        /\ UNCHANGED <<waiters, want, answer, expired, taken>>
     \/ /\ caller # None /\ pc' = "drain"
        /\ \/ answer[caller] # <<>> /\ Take(caller) /\ UNCHANGED waiters
           \/ /\ answer[caller] = <<>> /\ expired[caller]
              /\ Withdraw(caller)
              /\ want' = [want EXCEPT ![caller] = "none"]
              /\ expired' = [expired EXCEPT ![caller] = FALSE]
              /\ UNCHANGED <<answer, taken>>
           \/ /\ answer[caller] = <<>> /\ ~expired[caller]
              /\ UNCHANGED <<waiters, want, answer, expired, taken>>
  /\ UNCHANGED <<input, todo, chunks, buffer, ended, carriage, arrived, aborted, reads,
                 queue, caller, progressed, position, given>>

-----------------------------------------------------------------------------
(***************************************************************************)
(* The loop and StdinSource.                                               *)
(***************************************************************************)

drained ==
  /\ pc = "drain" /\ queue = <<>>
  /\ pc' = IF registered THEN "poll" ELSE "timers"
  /\ UNCHANGED <<threadVars, stdinVars, readVars, queue, caller, progressed, position, given, taken>>

\* The chunks the source finds, oldest first.
Available == arrived \o chunks

\* StdinSource::poll: a chunk that arrived goes to the buffer (or ends stdin)
\* and the pump runs.
source_poll ==
  /\ pc = "poll"
  /\ IF requested /\ Available # <<>>
     THEN /\ requested' = FALSE
          /\ buffer' = buffer \o Head(Available)
          /\ ended' = (Head(Available) = <<>>)
          /\ arrived' = <<>>
          /\ chunks' = IF arrived = <<>> THEN Tail(chunks) ELSE chunks
          /\ progressed' = TRUE
          /\ pc' = "pump"
          /\ caller' = None
     ELSE /\ progressed' = FALSE
          /\ pc' = "retain"
          /\ UNCHANGED <<requested, buffer, ended, arrived, chunks, caller>>
  /\ UNCHANGED <<input, todo, thread, requests, carriage, registered, waiters, readVars,
                 queue, position, given, taken>>

\* StdinSource::is_live.
Live == waiters # <<>>

\* poll_io drops the source when no read waits.
retain ==
  /\ pc = "retain"
  /\ registered' = Live
  /\ pc' = IF progressed THEN "drain" ELSE IF Live THEN "idle" ELSE "timers"
  /\ UNCHANGED <<threadVars, buffer, ended, carriage, requested, waiters, arrived,
                 readVars, queue, caller, progressed, position, given, taken>>

\* The reads whose wait can run out.
Armed == {r \in Reader : want[r] = "bytes_wait" /\ ~expired[r]}

\* The timer of a byte read fires and wakes the read.
fire_timer ==
  /\ pc \in {"idle", "timers"}
  /\ \E r \in Armed :
       /\ expired' = [expired EXCEPT ![r] = TRUE]
       /\ queue' = Append(queue, r)
  /\ pc' = "drain"
  /\ UNCHANGED <<threadVars, stdinVars, want, answer, aborted, reads, caller,
                 progressed, position, given, taken>>

\* A timer that has nothing to do with stdin fires: the loop outlives a source
\* that was dropped, and a task it wakes may read again.
other_timer ==
  /\ pc = "timers"
  /\ pc' = "drain"
  /\ UNCHANGED <<threadVars, stdinVars, readVars, queue, caller, progressed, position, given, taken>>

\* With a second live source, or a chunk that cannot be waited for, the idle
\* turn just sleeps.
idle_sleep ==
  /\ pc = "idle"
  /\ pc' = "drain"
  /\ UNCHANGED <<threadVars, stdinVars, readVars, queue, caller, progressed, position, given, taken>>

\* StdinSource::block as the only source: until a chunk arrives, which is kept
\* for the next poll, or until the next deadline.
block ==
  /\ pc = "idle" /\ requested /\ arrived = <<>>
  /\ \/ /\ chunks # <<>>
        /\ arrived' = <<Head(chunks)>>
        /\ chunks' = Tail(chunks)
     \/ /\ chunks = <<>> /\ Armed # {}
        /\ UNCHANGED <<arrived, chunks>>
  /\ pc' = "drain"
  /\ UNCHANGED <<input, todo, thread, requests, buffer, ended, carriage, requested,
                 registered, waiters, readVars, queue, caller, progressed, position, given, taken>>

\* No source and no timer of any kind: the loop ends.
exit_loop ==
  /\ pc = "timers" /\ Armed = {}
  /\ pc' = "done"
  /\ UNCHANGED <<threadVars, stdinVars, readVars, queue, caller, progressed, position, given, taken>>

Terminated == pc = "done" /\ UNCHANGED vars

-----------------------------------------------------------------------------
(***************************************************************************)
(* The reader thread.                                                      *)
(***************************************************************************)
receive_request ==
  /\ thread = "waiting" /\ requests > 0
  /\ requests' = requests - 1
  /\ thread' = "reading"
  /\ UNCHANGED <<input, todo, chunks, stdinVars, readVars, loopVars>>

\* The blocking read returns some bytes, or the end of the input.
read_chunk ==
  /\ thread = "reading"
  /\ \/ /\ todo # <<>>
        /\ \E n \in 1..Len(todo) :
             /\ chunks' = Append(chunks, SubSeq(todo, 1, n))
             /\ todo' = SubSeq(todo, n + 1, Len(todo))
        /\ thread' = "waiting"
     \/ /\ todo = <<>>
        /\ chunks' = Append(chunks, <<>>)
        /\ thread' = "gone"
        /\ UNCHANGED todo
  /\ UNCHANGED <<input, requests, stdinVars, readVars, loopVars>>

-----------------------------------------------------------------------------
Init ==
  /\ input \in Inputs
  /\ todo = input
  /\ thread = "off" /\ requests = 0 /\ chunks = <<>>
  /\ buffer = <<>> /\ ended = FALSE /\ carriage = FALSE /\ requested = FALSE
  /\ registered = FALSE /\ waiters = <<>> /\ arrived = <<>>
  /\ want = [r \in Reader |-> "none"]
  /\ answer = [r \in Reader |-> <<>>]
  /\ aborted = [r \in Reader |-> FALSE]
  /\ expired = [r \in Reader |-> FALSE]
  /\ reads = [r \in Reader |-> MaxReads]
  /\ queue = <<>> /\ pc = "drain" /\ caller = None /\ progressed = FALSE
  /\ position = 0 /\ given = 0 /\ taken = 0

Loop ==
  \/ \E r \in Reader : start_read(r) \/ cancel(r)
  \/ poll_read
  \/ pump_carriage \/ pump_answer \/ pump_done
  \/ drained \/ source_poll \/ retain \/ fire_timer \/ other_timer
  \/ idle_sleep \/ block \/ exit_loop

Thread == receive_request \/ read_chunk

Next == Loop \/ Thread \/ Terminated

\* Both threads run whenever they can; that the blocking read returns is the
\* assumption that the terminal or the pipe eventually says something.
Spec == Init /\ [][Next]_vars /\ WF_vars(Loop) /\ WF_vars(Thread)

-----------------------------------------------------------------------------
\* Every field keeps its type.
TypeOK ==
  /\ thread \in {"off", "waiting", "reading", "gone"}
  /\ input \in Seq(Byte) /\ todo \in Seq(Byte)
  /\ requests \in 0..1
  /\ chunks \in Seq(Seq(Byte)) /\ arrived \in Seq(Seq(Byte)) /\ Len(arrived \o chunks) <= 1
  /\ ended \in BOOLEAN /\ carriage \in BOOLEAN
  /\ requested \in BOOLEAN /\ registered \in BOOLEAN
  /\ buffer \in Seq(Byte) /\ waiters \in Seq(Reader) /\ queue \in Seq(Reader)
  /\ want \in [Reader -> Wants \cup {"none"}]
  /\ answer \in [Reader -> {<<>>} \cup {<<a>> : a \in Answers}]
  /\ aborted \in [Reader -> BOOLEAN] /\ expired \in [Reader -> BOOLEAN]
  /\ reads \in [Reader -> 0..MaxReads]
  /\ pc \in {"drain", "pump", "poll", "retain", "idle", "timers", "done"}
  /\ caller \in Reader \cup {None} /\ progressed \in BOOLEAN
  /\ position \in Nat /\ given \in Nat /\ taken \in Nat

\* The chunk on its way from the thread to the buffer; there is one at most.
Coming == IF Available = <<>> THEN <<>> ELSE Head(Available)

\* What is left to read, without the newline that still belongs to the line
\* given out last.
Rest ==
  LET left == buffer \o Coming \o todo
  IN  IF carriage /\ left # <<>> /\ Head(left) = LF THEN Tail(left) ELSE left

\* "the split is the same whatever the chunk boundaries were", "cancellation
\* abandons the WAIT, never a line" and "the bytes that arrive afterwards stay
\* for the next read": whoever reads, is cancelled, times out or reads again,
\* lines and bytes in any mixture, the answers given out are the input from its
\* start, none lost, torn or given twice; the rest of it is still to come; and
\* every answer was taken by its read or waits for it.
AnswersAreTheInput ==
  /\ Rest = SubSeq(input, position + 1, Len(input))
  /\ position <= Len(input)
  /\ given = taken + Cardinality({r \in Reader : answer[r] # <<>>})

\* "an idle stdin never holds the loop open, and a pending read always does": at
\* the end of a drained turn the source is registered exactly while a read
\* waits, with its chunk requested.
WatchedWhileWaiting ==
  /\ pc \in {"idle", "timers", "done"} => (registered <=> waiters # <<>>)
  /\ pc = "idle" => requested

\* A read that waits is answered, cancelled or timed out.
ReadsEnd == \A r \in Reader : (want[r] # "none") ~> (want[r] = "none")

=============================================================================
