---------------------------- MODULE StdinProofs -----------------------------
(***************************************************************************)
(* Safety of the shared stdin reader, for any readers, inputs and numbers  *)
(* of reads: at most one chunk is under way, a read that waits is watched  *)
(* for, and the answers are the input from its start.                      *)
(***************************************************************************)
EXTENDS Stdin, FiniteSetTheorems, SequenceTheorems, WellFoundedInduction, TLAPS

-----------------------------------------------------------------------------
(***************************************************************************)
(* The parts of the inductive invariant.                                   *)
(***************************************************************************)

\* A chunk is asked for once: while one is requested, either the request, the
\* reading thread or the chunk is under way, and otherwise none of them is.
OneChunk ==
  \/ ~requested /\ requests = 0 /\ thread # "reading" /\ Available = <<>>
  \/ requested /\ requests = 1 /\ thread = "waiting" /\ Available = <<>>
  \/ requested /\ requests = 0 /\ thread = "reading" /\ Available = <<>>
  \/ requested /\ requests = 0 /\ thread \in {"waiting", "gone"} /\ Available # <<>>

\* The empty chunk is the last: the thread is gone and nothing is left to read.
EndIsLast ==
  /\ ended => thread = "gone" /\ ~requested
  /\ thread = "gone" => todo = <<>> /\ (ended \/ (Available # <<>> /\ Coming = <<>>))
  /\ Available # <<>> /\ Coming = <<>> => thread = "gone"

\* A read queues once, and waits without an answer.
WaitersWait ==
  /\ \A i, j \in DOMAIN waiters : waiters[i] = waiters[j] => i = j
  /\ \A i \in DOMAIN waiters : want[waiters[i]] # "none" /\ answer[waiters[i]] = <<>>
  /\ \A r \in Reader : want[r] = "none" => answer[r] = <<>>

\* Outside the pump, a read that waits has its chunk requested and its source
\* registered; the loop sleeps with a read and ends without.
LoopWatches ==
  /\ pc # "pump" /\ waiters # <<>> => requested /\ registered
  /\ pc = "idle" => waiters # <<>>
  /\ pc \in {"timers", "done"} => waiters = <<>> /\ ~registered

IInv == TypeOK /\ OneChunk /\ EndIsLast /\ WaitersWait /\ LoopWatches

-----------------------------------------------------------------------------
(***************************************************************************)
(* Lists.                                                                  *)
(***************************************************************************)

\* Removing closes the gap.
LEMMA RemoveAtProperties ==
  ASSUME NEW S, NEW q \in Seq(S), NEW i \in 1..Len(q)
  PROVE  /\ RemoveAt(q, i) \in Seq(S)
         /\ Len(RemoveAt(q, i)) = Len(q) - 1
         /\ \A j \in 1..Len(q) - 1 :
              RemoveAt(q, i)[j] = IF j < i THEN q[j] ELSE q[j + 1]
<1> DEFINE a == SubSeq(q, 1, i - 1)
           b == SubSeq(q, i + 1, Len(q))
<1>1. Len(q) \in Nat /\ \A j \in 1..Len(q) : q[j] \in S
  BY LenProperties
<1>2. /\ a \in Seq(S) /\ Len(a) = i - 1
      /\ \A j \in 1..i - 1 : a[j] = q[j]
  BY <1>1, SubSeqProperties
<1>3. /\ b \in Seq(S) /\ Len(b) = Len(q) - i
      /\ \A j \in 1..Len(q) - i : b[j] = q[i + j]
  BY <1>1, SubSeqProperties
<1> HIDE DEF a, b
<1>4. /\ a \o b \in Seq(S) /\ Len(a \o b) = Len(a) + Len(b)
      /\ \A j \in 1..Len(a) + Len(b) :
           (a \o b)[j] = IF j <= Len(a) THEN a[j] ELSE b[j - Len(a)]
  BY <1>2, <1>3, ConcatProperties
<1>5. /\ a \o b \in Seq(S) /\ Len(a \o b) = Len(q) - 1
      /\ \A j \in 1..Len(q) - 1 : (a \o b)[j] = IF j < i THEN q[j] ELSE q[j + 1]
  <2>1. Len(a) + Len(b) = Len(q) - 1
    BY <1>1, <1>2, <1>3
  <2>2. ASSUME NEW j \in 1..Len(q) - 1
        PROVE  (a \o b)[j] = IF j < i THEN q[j] ELSE q[j + 1]
    <3>1. CASE j < i
      BY <1>1, <1>2, <1>4, <2>1, <3>1
    <3>2. CASE ~(j < i)
      <4>1. j - Len(a) \in 1..Len(q) - i /\ i + (j - Len(a)) = j + 1
        BY <1>1, <1>2, <3>2
      <4> QED BY <1>1, <1>2, <1>3, <1>4, <2>1, <3>2, <4>1
    <3> QED BY <3>1, <3>2
  <2> QED BY <1>4, <2>1, <2>2
<1> QED BY <1>5 DEF RemoveAt, a, b

\* What the pieces of a list are made of.
LEMMA ListPieces ==
  ASSUME NEW S, NEW q \in Seq(S)
  PROVE  /\ Len(q) \in Nat /\ DOMAIN q = 1..Len(q)
         /\ q = <<>> <=> Len(q) = 0
         /\ \A i \in 1..Len(q) : q[i] \in S
         /\ q # <<>> => Head(q) = q[1] /\ Head(q) \in S /\ Tail(q) \in Seq(S)
                        /\ Len(Tail(q)) = Len(q) - 1
                        /\ \A i \in 1..Len(q) - 1 : Tail(q)[i] = q[i + 1]
<1>1. Len(q) \in Nat /\ DOMAIN q = 1..Len(q) /\ \A i \in 1..Len(q) : q[i] \in S
  BY LenProperties
<1>2. q = <<>> <=> Len(q) = 0
  BY EmptySeq
<1>3. q # <<>> => Head(q) = q[1] /\ Head(q) \in S /\ Tail(q) \in Seq(S)
                  /\ Len(Tail(q)) = Len(q) - 1
                  /\ \A i \in 1..Len(q) - 1 : Tail(q)[i] = q[i + 1]
  BY HeadTailProperties
<1> QED BY <1>1, <1>2, <1>3

\* The two parts of a list cut behind its place n.
LEMMA CutProperties ==
  ASSUME NEW S, NEW q \in Seq(S), NEW n \in 0..Len(q)
  PROVE  /\ SubSeq(q, 1, n) \in Seq(S) /\ Len(SubSeq(q, 1, n)) = n
         /\ \A i \in 1..n : SubSeq(q, 1, n)[i] = q[i]
         /\ SubSeq(q, n + 1, Len(q)) \in Seq(S)
         /\ Len(SubSeq(q, n + 1, Len(q))) = Len(q) - n
         /\ \A i \in 1..Len(q) - n : SubSeq(q, n + 1, Len(q))[i] = q[n + i]
<1>1. Len(q) \in Nat /\ \A i \in 1..Len(q) : q[i] \in S
  BY LenProperties
<1>2. \A i \in 1..n : q[i] \in S
  BY <1>1
<1>3. \A i \in n + 1..Len(q) : q[i] \in S
  BY <1>1
<1>4. /\ SubSeq(q, 1, n) \in Seq(S) /\ Len(SubSeq(q, 1, n)) = n
      /\ \A i \in 1..n : SubSeq(q, 1, n)[i] = q[i]
  BY <1>1, <1>2, SubSeqProperties
<1>5. /\ SubSeq(q, n + 1, Len(q)) \in Seq(S)
      /\ Len(SubSeq(q, n + 1, Len(q))) = Len(q) - n
      /\ \A i \in 1..Len(q) - n : SubSeq(q, n + 1, Len(q))[i] = q[n + i]
  BY <1>1, <1>3, SubSeqProperties
<1> QED BY <1>4, <1>5

\* A set of numbers that is not empty has a least one.
LEMMA LeastElement ==
  ASSUME NEW S \in SUBSET Nat, S # {}
  PROVE  Min(S) \in S /\ \A x \in S : Min(S) <= x
<1> DEFINE R == StrictSubsetOrdering(Nat)
           T == {0..n : n \in S}
<1>1. T \subseteq FiniteSubsetsOf(Nat) /\ T # {}
  <2>1. \A n \in S : 0..n \in SUBSET Nat /\ IsFiniteSet(0..n)
    <3> TAKE n \in S
    <3>1. 0 \in Int /\ n \in Int /\ 0..n \subseteq Nat
      OBVIOUS
    <3> QED BY <3>1, FS_Interval
  <2> QED BY <2>1 DEF FiniteSubsetsOf
<1>2. IsWellFoundedOn(R, FiniteSubsetsOf(Nat))
  BY FS_StrictSubsetOrderingWellFounded
<1>3. \E x \in T : \A y \in T : <<y, x>> \notin R
  <2> HIDE DEF R, T
  <2> QED BY <1>1, <1>2, WFMin
<1>4. PICK m \in S : \A n \in S : <<0..n, 0..m>> \notin R
  BY <1>3
<1>5. \A n \in S : m <= n
  <2> SUFFICES ASSUME NEW n \in S, n < m PROVE FALSE
    OBVIOUS
  <2>1. 0..n \in SUBSET Nat /\ 0..m \in SUBSET Nat /\ 0..n \subseteq 0..m /\ 0..n # 0..m
    OBVIOUS
  <2> QED BY <1>4, <2>1 DEF StrictSubsetOrdering
<1> QED BY <1>5 DEF Min

\* withdraw: the queue keeps its other reads.
LEMMA WithdrawKeepsTheOthers ==
  ASSUME TypeOK, WaitersWait, NEW r \in Reader, Withdraw(r)
  PROVE  /\ waiters' \in Seq(Reader)
         /\ \A i, j \in DOMAIN waiters' : waiters'[i] = waiters'[j] => i = j
         /\ \A i \in DOMAIN waiters' :
              waiters'[i] # r /\ \E j \in DOMAIN waiters : waiters[j] = waiters'[i]
<1>0. waiters \in Seq(Reader)
  BY DEF TypeOK
<1>1. Len(waiters) \in Nat /\ DOMAIN waiters = 1..Len(waiters)
  BY <1>0, ListPieces
<1>2. CASE Waits(r)
  <2>1. PICK k \in DOMAIN waiters : waiters[k] = r /\ waiters' = RemoveAt(waiters, k)
    BY <1>2 DEF Withdraw
  <2>2. /\ waiters' \in Seq(Reader) /\ Len(waiters') = Len(waiters) - 1
        /\ \A j \in 1..Len(waiters) - 1 :
             waiters'[j] = IF j < k THEN waiters[j] ELSE waiters[j + 1]
    BY <1>0, <1>1, <2>1, RemoveAtProperties
  <2>3. DOMAIN waiters' = 1..Len(waiters) - 1
    BY <2>2, ListPieces
  <2>4. \A i, j \in DOMAIN waiters : waiters[i] = waiters[j] => i = j
    BY DEF WaitersWait
  <2> DEFINE at(i) == IF i < k THEN i ELSE i + 1
  <2>5. \A i \in DOMAIN waiters' :
          /\ at(i) \in DOMAIN waiters /\ at(i) # k /\ waiters'[i] = waiters[at(i)]
          /\ \A j \in DOMAIN waiters' : at(i) = at(j) => i = j
    BY <1>1, <2>1, <2>2, <2>3
  <2>6. \A i, j \in DOMAIN waiters' : waiters'[i] = waiters'[j] => i = j
    <3> HIDE DEF at
    <3> QED BY <2>4, <2>5
  <2>7. \A i \in DOMAIN waiters' :
          waiters'[i] # r /\ \E j \in DOMAIN waiters : waiters[j] = waiters'[i]
    <3> HIDE DEF at
    <3> QED BY <2>1, <2>4, <2>5
  <2> QED BY <2>2, <2>6, <2>7
<1>3. CASE ~Waits(r)
  BY <1>0, <1>3 DEF Withdraw, Waits, Range, WaitersWait
<1> QED BY <1>2, <1>3

-----------------------------------------------------------------------------
(***************************************************************************)
(* The channel of chunks.                                                  *)
(***************************************************************************)

\* Where the one chunk is.
LEMMA TheChunk ==
  ASSUME TypeOK
  PROVE  /\ Available \in Seq(Seq(Byte)) /\ Coming \in Seq(Byte)
         /\ Available = <<>> <=> arrived = <<>> /\ chunks = <<>>
         /\ arrived # <<>> => Available = arrived /\ chunks = <<>> /\ Len(arrived) = 1
         /\ arrived = <<>> => Available = chunks
         /\ Len(chunks) <= 1
         /\ Available # <<>> => Coming = Head(Available) /\ Len(Available) = 1
<1>1. chunks \in Seq(Seq(Byte)) /\ arrived \in Seq(Seq(Byte)) /\ Len(Available) <= 1
  BY DEF TypeOK, Available
<1>2. /\ Available \in Seq(Seq(Byte))
      /\ Len(Available) = Len(arrived) + Len(chunks)
  BY <1>1, ConcatProperties DEF Available
<1>3. Len(arrived) \in Nat /\ Len(chunks) \in Nat
  BY <1>1, LenProperties
<1>4. /\ arrived = <<>> <=> Len(arrived) = 0
      /\ chunks = <<>> <=> Len(chunks) = 0
      /\ Available = <<>> <=> Len(Available) = 0
  BY <1>1, <1>2, EmptySeq
<1>5. /\ arrived = <<>> => Available = chunks
      /\ chunks = <<>> => Available = arrived
  BY <1>1, ConcatEmptySeq DEF Available
<1>6. Coming \in Seq(Byte) /\ (Available # <<>> => Coming = Head(Available))
  <2>1. CASE Available = <<>>
    BY <2>1, EmptySeq DEF Coming
  <2>2. CASE Available # <<>>
    BY <1>2, <2>2, HeadTailProperties DEF Coming
  <2> QED BY <2>1, <2>2
<1>7. arrived # <<>> => Available = arrived /\ chunks = <<>> /\ Len(arrived) = 1
  <2> SUFFICES ASSUME arrived # <<>>
               PROVE  Available = arrived /\ chunks = <<>> /\ Len(arrived) = 1
    OBVIOUS
  <2>1. Len(arrived) # 0
    BY <1>4
  <2>2. Len(arrived) + Len(chunks) <= 1
    BY <1>1, <1>2
  <2>3. \A a, b \in Nat : a # 0 /\ a + b <= 1 => a = 1 /\ b = 0
    OBVIOUS
  <2>4. Len(arrived) = 1 /\ Len(chunks) = 0
    BY <1>3, <2>1, <2>2, <2>3
  <2> QED BY <1>4, <1>5, <2>4
<1>8. Len(chunks) <= 1 /\ (Available # <<>> => Len(Available) = 1)
  BY <1>1, <1>2, <1>3, <1>4
<1>9. Available = <<>> <=> arrived = <<>> /\ chunks = <<>>
  BY <1>2, <1>3, <1>4
<1> QED BY <1>2, <1>5, <1>6, <1>7, <1>8, <1>9

\* source_poll, block and read_chunk move the chunk; nothing else does.
LEMMA TheChunkMoves ==
  ASSUME IInv
  PROVE  /\ source_poll /\ requested /\ Available # <<>> =>
              /\ arrived' = <<>> /\ chunks' = <<>> /\ Available' = <<>> /\ Coming' = <<>>
         /\ block => /\ Available' = Available /\ Coming' = Coming
                     /\ arrived' \in Seq(Seq(Byte)) /\ chunks' \in Seq(Seq(Byte))
         /\ read_chunk =>
              /\ Available = <<>> /\ Coming = <<>> /\ requested /\ requests = 0
              /\ arrived' \in Seq(Seq(Byte)) /\ chunks' \in Seq(Seq(Byte))
              /\ Available' # <<>> /\ Len(Available') = 1
              /\ \/ /\ todo # <<>> /\ thread' = "waiting" /\ Coming' # <<>>
                    /\ \E n \in 1..Len(todo) : /\ Coming' = SubSeq(todo, 1, n)
                                               /\ todo' = SubSeq(todo, n + 1, Len(todo))
                 \/ todo = <<>> /\ todo' = <<>> /\ thread' = "gone" /\ Coming' = <<>>
<1>0. TypeOK /\ OneChunk
  BY DEF IInv
<1>1. chunks \in Seq(Seq(Byte)) /\ arrived \in Seq(Seq(Byte)) /\ todo \in Seq(Byte)
  BY <1>0 DEF TypeOK
<1>2. <<>> \in Seq(Seq(Byte)) /\ <<>> \in Seq(Byte) /\ <<>> \o <<>> = <<>>
  BY EmptySeq, ConcatEmptySeq
<1>3. ASSUME source_poll, requested, Available # <<>>
      PROVE  arrived' = <<>> /\ chunks' = <<>> /\ Available' = <<>> /\ Coming' = <<>>
  <2>1. arrived' = <<>> /\ chunks' = IF arrived = <<>> THEN Tail(chunks) ELSE chunks
    BY <1>3 DEF source_poll
  <2>2. chunks' = <<>>
    <3>1. CASE arrived = <<>>
      <4>1. Available = chunks /\ Len(chunks) <= 1 /\ chunks # <<>>
        BY <1>0, <1>3, <3>1, TheChunk
      <4>2. Len(chunks) \in Nat \ {0}
        BY <1>1, <4>1, EmptySeq
      <4>3. Tail(chunks) \in Seq(Seq(Byte)) /\ Len(Tail(chunks)) = 0
        <5>1. \A n \in Nat \ {0} : n <= 1 => n = 1
          OBVIOUS
        <5>3. Len(chunks) <= 1
          BY <4>1
        <5>2. Len(chunks) = 1
          BY <4>2, <5>1, <5>3
        <5> QED BY <1>1, <4>1, <5>2, HeadTailProperties
      <4> QED BY <2>1, <3>1, <4>3, ListPieces
    <3>2. CASE arrived # <<>>
      BY <1>0, <2>1, <3>2, TheChunk
    <3> QED BY <3>1, <3>2
  <2> QED BY <1>2, <2>1, <2>2 DEF Available, Coming
<1>4. ASSUME block
      PROVE  /\ Available' = Available /\ Coming' = Coming
             /\ arrived' \in Seq(Seq(Byte)) /\ chunks' \in Seq(Seq(Byte))
  <2>1. CASE chunks # <<>> /\ arrived' = <<Head(chunks)>> /\ chunks' = Tail(chunks)
    <3>1. arrived = <<>> /\ Available = chunks /\ Len(chunks) <= 1
      BY <1>0, <1>4, TheChunk DEF block
    <3>2. Len(chunks) = 1
      BY <1>1, <2>1, <3>1, EmptySeq
    <3>3. Head(chunks) = chunks[1] /\ chunks[1] \in Seq(Byte)
      BY <1>1, <2>1, ListPieces
    <3>4. Tail(chunks) \in Seq(Seq(Byte)) /\ Len(Tail(chunks)) = 0
      BY <1>1, <2>1, <3>2, HeadTailProperties
    <3>5. chunks' = <<>>
      BY <2>1, <3>4, ListPieces
    <3>6. <<chunks[1]>> \in Seq(Seq(Byte)) /\ Len(<<chunks[1]>>) = 1
          /\ <<chunks[1]>>[1] = chunks[1]
      BY <3>3
    <3>7. <<chunks[1]>> = chunks
      BY <1>1, <3>2, <3>6, SeqEqual
    <3>8. arrived' = chunks
      BY <2>1, <3>3, <3>7
    <3>9. Available' = chunks \o <<>> /\ chunks \o <<>> = chunks
      BY <1>1, <3>5, <3>8, ConcatEmptySeq DEF Available
    <3> QED BY <1>1, <1>2, <3>1, <3>5, <3>8, <3>9 DEF Coming
  <2>2. CASE UNCHANGED <<arrived, chunks>>
    BY <1>1, <2>2 DEF Available, Coming
  <2> QED BY <1>4, <2>1, <2>2 DEF block
<1>5. ASSUME read_chunk
      PROVE  /\ Available = <<>> /\ Coming = <<>> /\ requested /\ requests = 0
             /\ arrived' \in Seq(Seq(Byte)) /\ chunks' \in Seq(Seq(Byte))
             /\ Available' # <<>> /\ Len(Available') = 1
             /\ \/ /\ todo # <<>> /\ thread' = "waiting" /\ Coming' # <<>>
                   /\ \E n \in 1..Len(todo) : /\ Coming' = SubSeq(todo, 1, n)
                                              /\ todo' = SubSeq(todo, n + 1, Len(todo))
                \/ todo = <<>> /\ todo' = <<>> /\ thread' = "gone" /\ Coming' = <<>>
  <2>1. Available = <<>> /\ requested /\ requests = 0
    BY <1>0, <1>5 DEF OneChunk, read_chunk
  <2>2. arrived = <<>> /\ chunks = <<>> /\ Coming = <<>>
    BY <1>0, <2>1, TheChunk DEF Coming
  <2>3. ASSUME NEW c \in Seq(Byte), chunks' = Append(chunks, c)
        PROVE  /\ arrived' \in Seq(Seq(Byte)) /\ chunks' \in Seq(Seq(Byte))
               /\ Available' # <<>> /\ Len(Available') = 1 /\ Coming' = c
    <3>1. chunks' \in Seq(Seq(Byte)) /\ Len(chunks') = 1 /\ chunks'[1] = c /\ chunks' # <<>>
      BY <1>1, <1>2, <2>2, <2>3, EmptySeq, AppendProperties
    <3>2. arrived' = <<>>
      BY <1>5, <2>2 DEF read_chunk, stdinVars
    <3>3. Available' = chunks'
      BY <3>1, <3>2, ConcatEmptySeq DEF Available
    <3>4. Head(chunks') = chunks'[1]
      BY <3>1, ListPieces
    <3> QED BY <1>2, <3>1, <3>2, <3>3, <3>4 DEF Coming
  <2>4. CASE todo # <<>> /\ thread' = "waiting"
             /\ \E n \in 1..Len(todo) : /\ chunks' = Append(chunks, SubSeq(todo, 1, n))
                                        /\ todo' = SubSeq(todo, n + 1, Len(todo))
    <3>1. PICK n \in 1..Len(todo) : /\ chunks' = Append(chunks, SubSeq(todo, 1, n))
                                    /\ todo' = SubSeq(todo, n + 1, Len(todo))
      BY <2>4
    <3>2. n \in 0..Len(todo) /\ n > 0
      BY <1>1, <3>1, LenProperties
    <3>3. SubSeq(todo, 1, n) \in Seq(Byte) /\ Len(SubSeq(todo, 1, n)) = n
      BY <1>1, <3>2, CutProperties
    <3>4. SubSeq(todo, 1, n) # <<>>
      BY <3>2, <3>3, EmptySeq
    <3> QED BY <2>1, <2>2, <2>3, <2>4, <3>1, <3>3, <3>4
  <2>5. CASE todo = <<>> /\ chunks' = Append(chunks, <<>>) /\ thread' = "gone" /\ todo' = todo
    BY <1>2, <2>1, <2>2, <2>3, <2>5
  <2> QED BY <1>5, <2>4, <2>5 DEF read_chunk
<1> QED BY <1>3, <1>4, <1>5

-----------------------------------------------------------------------------
(***************************************************************************)
(* A read that waits is watched for.                                       *)
(***************************************************************************)

\* What can change the thread and its channels, the queue of reads, and what
\* the reads are.
LEMMA StepsOfTheThread ==
  ASSUME [Next]_vars
  PROVE  \/ pump_done \/ source_poll \/ block \/ receive_request \/ read_chunk
         \/ UNCHANGED <<input, todo, thread, requests, chunks, arrived, requested, ended>>
BY DEF Next, Loop, Thread, start_read, cancel, poll_read, pump_carriage, pump_answer,
  drained, retain, fire_timer, other_timer, idle_sleep, exit_loop, Terminated, vars,
  threadVars, stdinVars, readVars, loopVars

LEMMA StepsOfTheReads ==
  ASSUME [Next]_vars
  PROVE  \/ \E r \in Reader : start_read(r)
         \/ poll_read \/ pump_answer \/ pump_done
         \/ UNCHANGED <<waiters, want, answer, position, given, taken>>
BY DEF Next, Loop, Thread, cancel, pump_carriage, source_poll, receive_request,
  read_chunk, block, drained, retain, fire_timer, other_timer, idle_sleep, exit_loop,
  Terminated, vars, threadVars, stdinVars, readVars, loopVars

\* pump_done asks for a chunk only when none is under way.
LEMMA PumpDoneAsks ==
  ASSUME IInv, pump_done
  PROVE  /\ arrived' = arrived /\ chunks' = chunks /\ todo' = todo /\ input' = input
         /\ ended' = ended /\ (waiters = <<>> \/ ~ended)
         /\ \/ waiters # <<>> /\ ~ended /\ ~requested /\ requests = 0 /\ Available = <<>>
               /\ requested' = TRUE /\ requests' = 1 /\ thread' = "waiting" /\ registered'
            \/ waiters # <<>> /\ requested' = TRUE /\ registered' /\ requested
               /\ UNCHANGED <<requests, thread>>
            \/ waiters = <<>> /\ UNCHANGED <<requested, requests, thread, registered>>
<1>1. /\ arrived' = arrived /\ chunks' = chunks /\ todo' = todo /\ input' = input
      /\ ended' = ended /\ (waiters = <<>> \/ ~ended)
  BY DEF pump_done, Answerable
<1>2. CASE waiters = <<>>
  BY <1>1, <1>2 DEF pump_done
<1>3. CASE waiters # <<>> /\ requested
  <2>1. thread # "off"
    BY <1>3 DEF IInv, OneChunk
  <2> QED BY <1>1, <1>3, <2>1 DEF pump_done, NeedsSource
<1>4. CASE waiters # <<>> /\ ~requested
  <2>1. requests = 0 /\ thread # "reading" /\ Available = <<>>
    BY <1>4 DEF IInv, OneChunk
  <2>2. thread # "gone"
    BY <1>1, <1>4, <2>1 DEF IInv, EndIsLast
  <2>3. thread \in {"off", "waiting"}
    BY <2>1, <2>2 DEF IInv, TypeOK
  <2>4. requested' = TRUE /\ requests' = requests + 1
    BY <1>1, <1>4 DEF pump_done
  <2>5. requests' = 1
    BY <2>1, <2>4
  <2>6. registered'
    BY <1>1, <1>4 DEF pump_done, NeedsSource
  <2>7. thread' = "waiting"
    BY <1>1, <1>4, <2>3 DEF pump_done
  <2> QED BY <1>1, <1>4, <2>1, <2>4, <2>5, <2>6, <2>7
<1> QED BY <1>2, <1>3, <1>4

\* The thread, its channels and the request for a chunk keep their types, and
\* the chunk stays one, with the empty one last.
LEMMA ThreadPreserved ==
  ASSUME IInv, [Next]_vars
  PROVE  /\ thread' \in {"off", "waiting", "reading", "gone"}
         /\ input' = input /\ input' \in Seq(Byte) /\ todo' \in Seq(Byte)
         /\ requests' \in 0..1 /\ requested' \in BOOLEAN /\ ended' \in BOOLEAN
         /\ chunks' \in Seq(Seq(Byte)) /\ arrived' \in Seq(Seq(Byte))
         /\ Len(Available') <= 1
         /\ OneChunk' /\ EndIsLast'
<1>0. TypeOK /\ OneChunk /\ EndIsLast
  BY DEF IInv
<1>1. /\ thread \in {"off", "waiting", "reading", "gone"}
      /\ input \in Seq(Byte) /\ todo \in Seq(Byte)
      /\ requests \in 0..1 /\ requested \in BOOLEAN /\ ended \in BOOLEAN
      /\ chunks \in Seq(Seq(Byte)) /\ arrived \in Seq(Seq(Byte))
      /\ Len(Available) <= 1
  BY <1>0 DEF TypeOK, Available
<1>2. Len(<<>>) = 0 /\ <<>> \in Seq(Seq(Byte)) /\ <<>> \in Seq(Byte)
  BY EmptySeq
<1>3. ASSUME UNCHANGED <<chunks, arrived>>
      PROVE  Available' = Available /\ Coming' = Coming
  BY <1>3 DEF Available, Coming
<1>4. CASE pump_done
  <2>1. Available' = Available /\ Coming' = Coming
    BY <1>3, <1>4, PumpDoneAsks
  <2>2. UNCHANGED <<arrived, chunks, todo, input, ended>>
    BY <1>4, PumpDoneAsks
  <2>3. /\ requests' \in 0..1 /\ requested' \in BOOLEAN
        /\ thread' \in {"off", "waiting", "reading", "gone"}
    <3>1. CASE requests' = 1 /\ requested' = TRUE /\ thread' = "waiting"
      BY <3>1
    <3>2. CASE requested' = TRUE /\ UNCHANGED <<requests, thread>>
      BY <1>1, <3>2
    <3>3. CASE UNCHANGED <<requested, requests, thread>>
      BY <1>1, <3>3
    <3> QED BY <1>4, <3>1, <3>2, <3>3, PumpDoneAsks
  <2>4. OneChunk'
    BY <1>0, <1>4, <2>1, PumpDoneAsks DEF OneChunk
  <2>5. EndIsLast'
    <3>1. (thread' = "gone" <=> thread = "gone") /\ (ended => requested' = requested)
      BY <1>4, PumpDoneAsks DEF IInv, EndIsLast
    <3> QED BY <1>0, <2>1, <2>2, <3>1 DEF EndIsLast
  <2> QED BY <1>1, <2>1, <2>2, <2>3, <2>4, <2>5
<1>5. CASE source_poll
  <2>1. CASE requested /\ Available # <<>>
    <3>1. arrived' = <<>> /\ chunks' = <<>> /\ Available' = <<>> /\ Coming' = <<>>
      BY <1>5, <2>1, TheChunkMoves
    <3>2. /\ requested' = FALSE /\ ended' = (Coming = <<>>)
          /\ UNCHANGED <<input, todo, thread, requests>>
      BY <1>0, <1>5, <2>1, TheChunk DEF source_poll
    <3>3. /\ requests = 0 /\ thread # "reading"
          /\ thread = "gone" => todo = <<>> /\ Coming = <<>>
          /\ Coming = <<>> => thread = "gone"
      BY <1>0, <2>1 DEF OneChunk, EndIsLast
    <3>4. OneChunk' /\ EndIsLast'
      BY <3>1, <3>2, <3>3 DEF OneChunk, EndIsLast
    <3>5. requested' \in BOOLEAN /\ ended' \in BOOLEAN
      BY <3>2
    <3>6. Len(Available') <= 1
      BY <1>2, <3>1
    <3> QED BY <1>1, <1>2, <3>1, <3>2, <3>4, <3>5, <3>6
  <2>2. CASE ~(requested /\ Available # <<>>)
    <3>1. UNCHANGED <<input, todo, thread, requests, chunks, arrived, requested, ended>>
      BY <1>5, <2>2 DEF source_poll
    <3> QED BY <1>0, <1>1, <1>3, <3>1 DEF OneChunk, EndIsLast
  <2> QED BY <2>1, <2>2
<1>6. CASE block
  <2>1. /\ Available' = Available /\ Coming' = Coming
        /\ arrived' \in Seq(Seq(Byte)) /\ chunks' \in Seq(Seq(Byte))
    BY <1>6, TheChunkMoves
  <2>2. UNCHANGED <<input, todo, thread, requests, requested, ended>>
    BY <1>6 DEF block
  <2> QED BY <1>0, <1>1, <2>1, <2>2 DEF OneChunk, EndIsLast
<1>7. CASE receive_request
  <2>1. UNCHANGED <<input, todo, chunks, arrived, requested, ended>>
    BY <1>7 DEF receive_request, stdinVars
  <2>2. thread = "waiting" /\ requests = 1 /\ requests' = 0 /\ thread' = "reading"
    BY <1>1, <1>7 DEF receive_request
  <2>3. requested /\ Available = <<>>
    BY <1>0, <2>2 DEF OneChunk
  <2> QED BY <1>0, <1>1, <1>3, <2>1, <2>2, <2>3 DEF OneChunk, EndIsLast
<1>8. CASE read_chunk
  <2>1. UNCHANGED <<input, requests, requested, ended>> /\ thread = "reading"
    BY <1>8 DEF read_chunk, stdinVars
  <2>2. todo' \in Seq(Byte)
    <3>1. CASE todo = <<>> /\ todo' = <<>>
      BY <1>2, <3>1
    <3>2. CASE \E n \in 1..Len(todo) : todo' = SubSeq(todo, n + 1, Len(todo))
      <4>1. PICK n \in 1..Len(todo) : todo' = SubSeq(todo, n + 1, Len(todo))
        BY <3>2
      <4>2. n \in 0..Len(todo)
        BY <1>1, LenProperties
      <4> QED BY <1>1, <4>1, <4>2, CutProperties
    <3> QED BY <1>8, <3>1, <3>2, TheChunkMoves
  <2>3. Available' # <<>> /\ Len(Available') = 1 /\ requested /\ requests = 0
    BY <1>8, TheChunkMoves
  <2>4. chunks' \in Seq(Seq(Byte)) /\ arrived' \in Seq(Seq(Byte))
    BY <1>8, TheChunkMoves
  <2>5. \/ thread' = "waiting" /\ Coming' # <<>>
        \/ thread' = "gone" /\ Coming' = <<>> /\ todo' = <<>>
    BY <1>8, TheChunkMoves
  <2>6. OneChunk' /\ EndIsLast'
    BY <1>0, <2>1, <2>3, <2>5 DEF OneChunk, EndIsLast
  <2> QED BY <1>1, <2>1, <2>2, <2>3, <2>4, <2>5, <2>6
<1>9. CASE UNCHANGED <<input, todo, thread, requests, chunks, arrived, requested, ended>>
  BY <1>0, <1>1, <1>3, <1>9 DEF OneChunk, EndIsLast
<1> QED BY <1>4, <1>5, <1>6, <1>7, <1>8, <1>9, StepsOfTheThread

\* The place behind an answer is a number.
LEMMA ConsumedIsAPlace ==
  ASSUME TypeOK, NEW a \in Answers
  PROVE  Consumed(position, a) \in Nat
<1>0. input \in Seq(Byte) /\ position \in Nat /\ Len(input) \in Nat /\ Len(a.bytes) \in Nat
      /\ a.kind \in {"end", "line", "bytes"}
  BY ListPieces DEF TypeOK, Answers
<1> DEFINE ends == {i \in position + 1..Len(input) : input[i] \in {CR, LF}}
           end == CASE a.kind = "end"   -> Len(input)
                    [] a.kind = "bytes" -> position + Len(a.bytes)
                    [] a.kind = "line"  -> IF ends = {} THEN Len(input) ELSE Min(ends)
<1>1. ends \in SUBSET Nat
  BY <1>0
<1>2. ends # {} => Min(ends) \in Nat
  <2> HIDE DEF ends
  <2> QED BY <1>1, LeastElement
<1>3. end \in Nat
  <2> HIDE DEF ends
  <2>1. CASE a.kind = "end"
    BY <1>0, <2>1
  <2>2. CASE a.kind = "bytes"
    BY <1>0, <2>2
  <2>3. CASE a.kind = "line"
    BY <1>0, <1>2, <2>3
  <2> QED BY <1>0, <2>1, <2>2, <2>3
<1>4. \/ Consumed(position, a) = Len(input) + 1
      \/ Consumed(position, a) = end + 1
      \/ Consumed(position, a) = end
  BY DEF Consumed
<1> HIDE DEF end
<1> QED BY <1>0, <1>3, <1>4

\* The end of the first line in the buffer.
LEMMA FirstEnding ==
  ASSUME TypeOK, Endings # {}
  PROVE  /\ Min(Endings) \in 1..Len(buffer)
         /\ buffer[Min(Endings)] \in {CR, LF}
         /\ \A i \in 1..Min(Endings) - 1 : buffer[i] \notin {CR, LF}
<1>1. buffer \in Seq(Byte) /\ Len(buffer) \in Nat /\ DOMAIN buffer = 1..Len(buffer)
  BY ListPieces DEF TypeOK
<1>2. Endings \in SUBSET Nat /\ Endings \subseteq 1..Len(buffer)
  BY <1>1 DEF Endings
<1>3. Min(Endings) \in Endings /\ \A i \in Endings : Min(Endings) <= i
  BY <1>2, LeastElement
<1>4. Min(Endings) \in 1..Len(buffer) /\ buffer[Min(Endings)] \in {CR, LF}
  BY <1>2, <1>3 DEF Endings
<1>5. ASSUME NEW i \in 1..Min(Endings) - 1, buffer[i] \in {CR, LF}
      PROVE  FALSE
  <2>1. i \in 1..Len(buffer) /\ ~(Min(Endings) <= i)
    BY <1>1, <1>4
  <2>2. i \in Endings
    BY <1>1, <1>5, <2>1 DEF Endings
  <2> QED BY <1>3, <2>1, <2>2
<1> QED BY <1>4, <1>5

\* pump_answer: an answer of the kind the oldest read asks for leaves the front
\* of the buffer.
LEMMA TheAnswer ==
  ASSUME TypeOK, pump_answer
  PROVE  \E a \in Answers :
           /\ Give(a) /\ buffer' \in Seq(Byte) /\ carriage' \in BOOLEAN
           /\ \/ /\ Endings # {} /\ buffer # <<>> /\ a.kind = "line"
                 /\ a.bytes = SubSeq(buffer, 1, Min(Endings) - 1)
                 /\ carriage' = (buffer[Min(Endings)] = CR)
                 /\ buffer' = SubSeq(buffer, Min(Endings) + 1, Len(buffer))
              \/ /\ buffer # <<>> /\ buffer' = <<>> /\ carriage' = carriage
                 /\ a.bytes = buffer
                 /\ a.kind = "bytes" \/ (a.kind = "line" /\ Endings = {} /\ ended)
              \/ /\ buffer = <<>> /\ buffer' = <<>> /\ carriage' = carriage
                 /\ a.bytes = <<>> /\ a.kind = "end" /\ ended
<1>0. buffer \in Seq(Byte) /\ carriage \in BOOLEAN /\ <<>> \in Seq(Byte)
  BY EmptySeq DEF TypeOK
<1>1. CASE Endings # {} /\ want[Head(waiters)] = "line"
  <2> DEFINE e == Min(Endings)
             b == SubSeq(buffer, 1, e - 1)
             rest == SubSeq(buffer, e + 1, Len(buffer))
  <2>1. e \in 1..Len(buffer) /\ Len(buffer) \in Nat
    BY <1>0, <1>1, FirstEnding, LenProperties
  <2>2. e - 1 \in 0..Len(buffer) /\ e \in 0..Len(buffer) /\ Len(buffer) # 0
    BY <2>1
  <2>3. b \in Seq(Byte) /\ rest \in Seq(Byte) /\ buffer # <<>>
    BY <1>0, <2>2, CutProperties, EmptySeq
  <2>4. Line(b) \in Answers /\ Line(b).kind = "line" /\ Line(b).bytes = b
    BY <2>3 DEF Line, Answers
  <2>5. Give(Line(b)) /\ carriage' = (buffer[e] = CR) /\ buffer' = rest
    BY <1>1 DEF pump_answer
  <2>6. carriage' \in BOOLEAN /\ buffer' \in Seq(Byte)
    BY <2>3, <2>5
  <2> HIDE DEF e, b, rest
  <2> QED BY <1>1, <2>3, <2>4, <2>5, <2>6 DEF e, b, rest
<1>2. CASE buffer # <<>> /\ (Endings = {} \/ want[Head(waiters)] # "line")
  <2>1. /\ Line(buffer) \in Answers /\ Line(buffer).kind = "line"
        /\ Line(buffer).bytes = buffer
        /\ Bytes(buffer) \in Answers /\ Bytes(buffer).kind = "bytes"
        /\ Bytes(buffer).bytes = buffer
    BY <1>0 DEF Line, Bytes, Answers
  <2>2. buffer' = <<>> /\ carriage' = carriage
    BY <1>2 DEF pump_answer
  <2>3. CASE want[Head(waiters)] = "line"
    <3>1. Give(Line(buffer)) /\ Endings = {} /\ ended
      BY <1>2, <2>3 DEF pump_answer, Answerable
    <3> QED BY <1>0, <1>2, <2>1, <2>2, <3>1
  <2>4. CASE want[Head(waiters)] # "line"
    <3>1. Give(Bytes(buffer))
      BY <1>2, <2>4 DEF pump_answer
    <3> QED BY <1>0, <1>2, <2>1, <2>2, <3>1
  <2> QED BY <2>3, <2>4
<1>3. CASE buffer = <<>>
  <2>1. Endings = {}
    BY <1>3, EmptySeq, ListPieces DEF Endings
  <2>2. End \in Answers /\ End.kind = "end" /\ End.bytes = <<>>
    BY <1>0 DEF End, Answers
  <2>3. Give(End) /\ buffer' = <<>> /\ carriage' = carriage /\ ended
    BY <1>3, <2>1 DEF pump_answer, Answerable
  <2> QED BY <1>0, <1>3, <2>2, <2>3
<1> QED BY <1>1, <1>2, <1>3

\* A read that ends leaves the queue and keeps no answer.
LEMMA AReadEnds ==
  ASSUME TypeOK, WaitersWait, NEW r \in Reader,
         want' = [want EXCEPT ![r] = "none"],
         answer' = [answer EXCEPT ![r] = <<>>],
         waiters' \in Seq(Reader),
         \A i, j \in DOMAIN waiters' : waiters'[i] = waiters'[j] => i = j,
         \A i \in DOMAIN waiters' :
           waiters'[i] # r /\ \E j \in DOMAIN waiters : waiters[j] = waiters'[i]
  PROVE  /\ want' \in [Reader -> Wants \cup {"none"}]
         /\ answer' \in [Reader -> {<<>>} \cup {<<a>> : a \in Answers}]
         /\ WaitersWait'
<1>1. /\ want \in [Reader -> Wants \cup {"none"}]
      /\ answer \in [Reader -> {<<>>} \cup {<<a>> : a \in Answers}]
  BY DEF TypeOK
<1>2. /\ want' \in [Reader -> Wants \cup {"none"}]
      /\ want'[r] = "none" /\ \A q \in Reader : q # r => want'[q] = want[q]
  BY <1>1
<1>3. /\ answer' \in [Reader -> {<<>>} \cup {<<a>> : a \in Answers}]
      /\ answer'[r] = <<>> /\ \A q \in Reader : q # r => answer'[q] = answer[q]
  BY <1>1
<1>4. \A i \in DOMAIN waiters' : waiters'[i] \in Reader
  BY ListPieces
<1>5. \A i \in DOMAIN waiters' : want'[waiters'[i]] # "none" /\ answer'[waiters'[i]] = <<>>
  BY <1>2, <1>3, <1>4 DEF WaitersWait
<1>6. \A q \in Reader : want'[q] = "none" => answer'[q] = <<>>
  BY <1>2, <1>3 DEF WaitersWait
<1> QED BY <1>2, <1>3, <1>5, <1>6 DEF WaitersWait

\* A read that has its answer does not wait.
LEMMA TheAnsweredHasLeft ==
  ASSUME TypeOK, WaitersWait, NEW r \in Reader, answer[r] # <<>> \/ want[r] = "none",
         waiters' = waiters
  PROVE  /\ waiters' \in Seq(Reader)
         /\ \A i, j \in DOMAIN waiters' : waiters'[i] = waiters'[j] => i = j
         /\ \A i \in DOMAIN waiters' :
              waiters'[i] # r /\ \E j \in DOMAIN waiters : waiters[j] = waiters'[i]
BY DEF TypeOK, WaitersWait

\* The queue of reads, what they ask for and their answers keep their types,
\* and the queued wait for an answer they do not have.
LEMMA ReadsPreserved ==
  ASSUME IInv, [Next]_vars
  PROVE  /\ waiters' \in Seq(Reader) /\ want' \in [Reader -> Wants \cup {"none"}]
         /\ answer' \in [Reader -> {<<>>} \cup {<<a>> : a \in Answers}]
         /\ position' \in Nat /\ given' \in Nat /\ taken' \in Nat
         /\ WaitersWait'
<1>0. TypeOK /\ WaitersWait
  BY DEF IInv
<1>1. /\ waiters \in Seq(Reader) /\ want \in [Reader -> Wants \cup {"none"}]
      /\ answer \in [Reader -> {<<>>} \cup {<<a>> : a \in Answers}]
      /\ position \in Nat /\ given \in Nat /\ taken \in Nat /\ queue \in Seq(Reader)
      /\ caller \in Reader \cup {None}
  BY <1>0 DEF TypeOK
<1>2. Len(waiters) \in Nat /\ DOMAIN waiters = 1..Len(waiters)
      /\ \A i \in DOMAIN waiters : waiters[i] \in Reader
  BY <1>1, ListPieces
<1>3. ASSUME UNCHANGED <<waiters, want, answer>>
      PROVE  /\ waiters' \in Seq(Reader) /\ want' \in [Reader -> Wants \cup {"none"}]
             /\ answer' \in [Reader -> {<<>>} \cup {<<a>> : a \in Answers}]
             /\ WaitersWait'
  BY <1>0, <1>1, <1>3 DEF WaitersWait
<1>4. ASSUME NEW r \in Reader, want' = [want EXCEPT ![r] = "none"],
             answer' = [answer EXCEPT ![r] = <<>>],
             \/ waiters' = waiters /\ answer[r] # <<>>
             \/ Withdraw(r)
      PROVE  /\ waiters' \in Seq(Reader) /\ want' \in [Reader -> Wants \cup {"none"}]
             /\ answer' \in [Reader -> {<<>>} \cup {<<a>> : a \in Answers}]
             /\ WaitersWait'
  <2>1. /\ waiters' \in Seq(Reader)
        /\ \A i, j \in DOMAIN waiters' : waiters'[i] = waiters'[j] => i = j
        /\ \A i \in DOMAIN waiters' :
             waiters'[i] # r /\ \E j \in DOMAIN waiters : waiters[j] = waiters'[i]
    BY <1>0, <1>4, WithdrawKeepsTheOthers, TheAnsweredHasLeft
  <2> QED BY <1>0, <1>4, <2>1, AReadEnds
<1>5. ASSUME NEW r \in Reader, start_read(r)
      PROVE  /\ waiters' \in Seq(Reader) /\ want' \in [Reader -> Wants \cup {"none"}]
             /\ answer' \in [Reader -> {<<>>} \cup {<<a>> : a \in Answers}]
             /\ UNCHANGED <<position, given, taken>> /\ WaitersWait'
  <2>1. UNCHANGED <<answer, position, given, taken>> /\ want[r] = "none"
    BY <1>5 DEF start_read
  <2>2. CASE UNCHANGED <<want, waiters>>
    BY <1>3, <2>1, <2>2
  <2>3. CASE /\ \E k \in Wants : want' = [want EXCEPT ![r] = k]
             /\ waiters' = Append(waiters, r)
    <3>1. PICK k \in Wants : want' = [want EXCEPT ![r] = k]
      BY <2>3
    <3>2. k # "none"
      BY StdinAssumption
    <3>3. /\ want' \in [Reader -> Wants \cup {"none"}]
          /\ want'[r] = k /\ \A q \in Reader : q # r => want'[q] = want[q]
      BY <1>1, <3>1
    <3>4. /\ waiters' \in Seq(Reader) /\ Len(waiters') = Len(waiters) + 1
          /\ \A i \in 1..Len(waiters) : waiters'[i] = waiters[i]
          /\ waiters'[Len(waiters) + 1] = r
      BY <1>1, <2>3, AppendProperties
    <3>5. DOMAIN waiters' = 1..Len(waiters) + 1
      BY <3>4, ListPieces
    <3>6. answer[r] = <<>> /\ \A i \in DOMAIN waiters : waiters[i] # r
      BY <1>0, <2>1 DEF WaitersWait
    <3>7. \A i \in DOMAIN waiters' : want'[waiters'[i]] # "none" /\ answer'[waiters'[i]] = <<>>
      <4> TAKE i \in DOMAIN waiters'
      <4>1. CASE i = Len(waiters) + 1
        BY <2>1, <3>2, <3>3, <3>4, <3>6, <4>1
      <4>2. CASE i # Len(waiters) + 1
        <5>1. i \in DOMAIN waiters /\ waiters'[i] = waiters[i] /\ waiters[i] \in Reader
          BY <1>2, <3>4, <3>5, <4>2
        <5> QED BY <1>0, <2>1, <3>3, <3>6, <5>1 DEF WaitersWait
      <4> QED BY <4>1, <4>2
    <3>8. \A i, j \in DOMAIN waiters' : waiters'[i] = waiters'[j] => i = j
      <4> TAKE i, j \in DOMAIN waiters'
      <4>1. \A m \in DOMAIN waiters' : m \in DOMAIN waiters \/ m = Len(waiters) + 1
        BY <1>2, <3>5
      <4>2. \A m, n \in DOMAIN waiters : waiters[m] = waiters[n] => m = n
        BY <1>0 DEF WaitersWait
      <4>3. \A m \in DOMAIN waiters : waiters'[m] = waiters[m]
        BY <1>2, <3>4
      <4> QED BY <3>4, <3>6, <4>1, <4>2, <4>3
    <3>9. \A q \in Reader : want'[q] = "none" => answer'[q] = <<>>
      BY <1>0, <2>1, <3>3, <3>6 DEF WaitersWait
    <3> QED BY <1>1, <2>1, <3>3, <3>4, <3>7, <3>8, <3>9 DEF WaitersWait
  <2> QED BY <1>5, <2>2, <2>3 DEF start_read
<1>6. CASE poll_read
  <2> DEFINE r == Head(queue)
  <2>0. r \in Reader
    BY <1>1, <1>6, ListPieces DEF poll_read
  <2>1. position' = position /\ given' = given
    BY <1>6 DEF poll_read
  <2>2. CASE UNCHANGED <<waiters, want, answer, taken>>
    BY <1>1, <1>3, <2>1, <2>2
  <2>3. CASE Answered(r) /\ Take(r) /\ waiters' = waiters
    <3>1. want' = [want EXCEPT ![r] = "none"] /\ answer' = [answer EXCEPT ![r] = <<>>]
          /\ answer[r] # <<>> /\ taken' = taken + 1
      BY <2>3 DEF Take, Answered
    <3> HIDE DEF r
    <3>2. /\ waiters' \in Seq(Reader) /\ want' \in [Reader -> Wants \cup {"none"}]
          /\ answer' \in [Reader -> {<<>>} \cup {<<a>> : a \in Answers}]
          /\ WaitersWait'
      BY <1>4, <2>0, <2>3, <3>1
    <3>3. taken' \in Nat
      BY <1>1, <3>1
    <3> QED BY <1>1, <2>1, <3>2, <3>3
  <2>4. CASE /\ Withdraw(r) /\ want' = [want EXCEPT ![r] = "none"]
             /\ answer' = [answer EXCEPT ![r] = <<>>] /\ taken' = taken
    <3> HIDE DEF r
    <3> QED BY <1>1, <1>4, <2>0, <2>1, <2>4
  <2> QED BY <1>6, <2>2, <2>3, <2>4 DEF poll_read
<1>7. CASE pump_answer
  <2>0. waiters # <<>> /\ want' = want /\ taken' = taken
    BY <1>7 DEF pump_answer, Answerable
  <2>1. PICK a \in Answers : Give(a)
    BY <1>0, <1>7, TheAnswer
  <2> DEFINE r == Head(waiters)
  <2>2. /\ r = waiters[1] /\ r \in Reader /\ Tail(waiters) \in Seq(Reader)
        /\ Len(Tail(waiters)) = Len(waiters) - 1 /\ 1 \in DOMAIN waiters
        /\ \A i \in 1..Len(waiters) - 1 : Tail(waiters)[i] = waiters[i + 1]
    BY <1>1, <1>2, <2>0, ListPieces
  <2>3. answer' = [answer EXCEPT ![r] = <<a>>] /\ waiters' = Tail(waiters)
        /\ position' \in Nat /\ given' \in Nat
    BY <1>0, <1>1, <2>1, ConsumedIsAPlace DEF Give
  <2> HIDE DEF r
  <2>4. /\ answer' \in [Reader -> {<<>>} \cup {<<b>> : b \in Answers}]
        /\ \A q \in Reader : q # r => answer'[q] = answer[q]
    BY <1>1, <2>2, <2>3
  <2>5. DOMAIN waiters' = 1..Len(waiters) - 1
    BY <2>2, <2>3, ListPieces
  <2>6. \A i, j \in DOMAIN waiters : waiters[i] = waiters[j] => i = j
    BY <1>0 DEF WaitersWait
  <2>7. \A i \in DOMAIN waiters' :
          i + 1 \in DOMAIN waiters /\ waiters'[i] = waiters[i + 1] /\ waiters'[i] # r
    BY <1>2, <2>2, <2>3, <2>5, <2>6
  <2>8. \A i, j \in DOMAIN waiters' : waiters'[i] = waiters'[j] => i = j
    <3> TAKE i, j \in DOMAIN waiters'
    <3>1. waiters'[i] = waiters'[j] => i + 1 = j + 1
      BY <2>6, <2>7
    <3> QED BY <2>5, <3>1
  <2>9. \A i \in DOMAIN waiters' : want'[waiters'[i]] # "none" /\ answer'[waiters'[i]] = <<>>
    BY <1>0, <1>2, <2>0, <2>4, <2>7 DEF WaitersWait
  <2>10. want[r] # "none"
    BY <1>0, <2>2 DEF WaitersWait
  <2>11. \A q \in Reader : want'[q] = "none" => answer'[q] = <<>>
    BY <1>0, <2>0, <2>4, <2>10 DEF WaitersWait
  <2>12. WaitersWait'
    BY <2>8, <2>9, <2>11 DEF WaitersWait
  <2> QED BY <1>1, <2>0, <2>2, <2>3, <2>4, <2>12
<1>8. CASE pump_done
  <2>1. position' = position /\ given' = given
    BY <1>8 DEF pump_done
  <2>2. CASE UNCHANGED <<waiters, want, answer, taken>>
    BY <1>1, <1>3, <2>1, <2>2
  <2>3. CASE caller # None /\ answer[caller] # <<>> /\ Take(caller) /\ waiters' = waiters
    <3>1. want' = [want EXCEPT ![caller] = "none"] /\ answer' = [answer EXCEPT ![caller] = <<>>]
          /\ caller \in Reader /\ taken' = taken + 1
      BY <1>1, <2>3 DEF Take
    <3>2. /\ waiters' \in Seq(Reader) /\ want' \in [Reader -> Wants \cup {"none"}]
          /\ answer' \in [Reader -> {<<>>} \cup {<<a>> : a \in Answers}]
          /\ WaitersWait'
      BY <1>4, <2>3, <3>1
    <3>3. taken' \in Nat
      BY <1>1, <3>1
    <3> QED BY <1>1, <2>1, <3>2, <3>3
  <2>4. CASE /\ caller # None /\ answer[caller] = <<>> /\ Withdraw(caller)
             /\ want' = [want EXCEPT ![caller] = "none"] /\ UNCHANGED <<answer, taken>>
    <3>1. answer' = [answer EXCEPT ![caller] = <<>>] /\ caller \in Reader
      BY <1>1, <2>4
    <3> QED BY <1>1, <1>4, <2>1, <2>4, <3>1
  <2> QED BY <1>8, <2>2, <2>3, <2>4 DEF pump_done
<1>9. CASE UNCHANGED <<waiters, want, answer, position, given, taken>>
  BY <1>1, <1>3, <1>9
<1> QED BY <1>1, <1>5, <1>6, <1>7, <1>8, <1>9, StepsOfTheReads

\* The loop keeps its types.
LEMMA LoopPreserved ==
  ASSUME IInv, [Next]_vars
  PROVE  /\ buffer' \in Seq(Byte) /\ carriage' \in BOOLEAN /\ registered' \in BOOLEAN
         /\ queue' \in Seq(Reader) /\ aborted' \in [Reader -> BOOLEAN]
         /\ expired' \in [Reader -> BOOLEAN] /\ reads' \in [Reader -> 0..MaxReads]
         /\ pc' \in {"drain", "pump", "poll", "retain", "idle", "timers", "done"}
         /\ caller' \in Reader \cup {None} /\ progressed' \in BOOLEAN
<1> DEFINE Typed ==
      /\ buffer \in Seq(Byte) /\ carriage \in BOOLEAN /\ registered \in BOOLEAN
      /\ queue \in Seq(Reader) /\ aborted \in [Reader -> BOOLEAN]
      /\ expired \in [Reader -> BOOLEAN] /\ reads \in [Reader -> 0..MaxReads]
      /\ pc \in {"drain", "pump", "poll", "retain", "idle", "timers", "done"}
      /\ caller \in Reader \cup {None} /\ progressed \in BOOLEAN
<1> SUFFICES Typed'
  OBVIOUS
<1>0. Typed /\ TypeOK /\ waiters \in Seq(Reader) /\ MaxReads \in Nat
  BY StdinAssumption DEF IInv, TypeOK
<1>1. \A r \in Reader : Append(queue, r) \in Seq(Reader)
  BY <1>0, AppendProperties
<1>2. \A r \in Reader : [expired EXCEPT ![r] = FALSE] \in [Reader -> BOOLEAN]
                        /\ [expired EXCEPT ![r] = TRUE] \in [Reader -> BOOLEAN]
  BY <1>0
<1>3. /\ buffer # <<>> => Tail(buffer) \in Seq(Byte)
      /\ waiters # <<>> => Head(waiters) \in Reader
      /\ queue # <<>> => Head(queue) \in Reader /\ Tail(queue) \in Seq(Reader)
  BY <1>0, ListPieces
<1>4. ASSUME NEW r \in Reader, start_read(r)
      PROVE  Typed'
  BY <1>0, <1>4 DEF start_read, threadVars
<1>5. ASSUME NEW r \in Reader, cancel(r)
      PROVE  Typed'
  BY <1>0, <1>1, <1>5 DEF cancel, threadVars, stdinVars
<1>6. CASE poll_read
  <2>1. Head(queue) \in Reader /\ Tail(queue) \in Seq(Reader)
    BY <1>3, <1>6 DEF poll_read
  <2>2. UNCHANGED <<buffer, carriage, registered, aborted, reads, progressed>>
    BY <1>6 DEF poll_read
  <2>3. queue' = Tail(queue) /\ pc' \in {pc, "pump"} /\ caller' \in {caller, Head(queue)}
        /\ (expired' = expired \/ expired' = [expired EXCEPT ![Head(queue)] = FALSE])
    BY <1>6 DEF poll_read, Take
  <2> QED BY <1>0, <1>2, <2>1, <2>2, <2>3
<1>7. CASE pump_carriage
  <2>1. buffer' \in Seq(Byte)
    BY <1>0, <1>3, <1>7 DEF pump_carriage, Pairs
  <2> QED BY <1>0, <1>7, <2>1 DEF pump_carriage, readVars, loopVars
<1>8. CASE pump_answer
  <2>1. buffer' \in Seq(Byte) /\ carriage' \in BOOLEAN
    BY <1>0, <1>8, TheAnswer
  <2>2. queue' = Append(queue, Head(waiters)) /\ waiters # <<>>
    BY <1>8 DEF pump_answer, Give, Answerable
  <2> QED BY <1>0, <1>1, <1>3, <1>8, <2>1, <2>2 DEF pump_answer
<1>9. CASE pump_done
  <2>1. UNCHANGED <<buffer, carriage, aborted, reads, queue, caller, progressed>>
        /\ pc' \in {"retain", "drain"}
    BY <1>9 DEF pump_done
  <2>2. registered' \in BOOLEAN
    BY <1>0, <1>9 DEF pump_done, NeedsSource
  <2>3. expired' \in [Reader -> BOOLEAN]
    <3>1. expired' = expired \/ (caller \in Reader /\ expired' = [expired EXCEPT ![caller] = FALSE])
      BY <1>0, <1>9 DEF pump_done, Take
    <3> QED BY <1>0, <1>2, <3>1
  <2> QED BY <1>0, <2>1, <2>2, <2>3
<1>10. CASE source_poll
  <2>1. buffer' \in Seq(Byte)
    <3>1. CASE requested /\ Available # <<>>
      <4>1. buffer' = buffer \o Coming /\ Coming \in Seq(Byte)
        BY <1>0, <1>10, <3>1, TheChunk DEF source_poll
      <4> QED BY <1>0, <4>1, ConcatProperties
    <3>2. CASE ~(requested /\ Available # <<>>)
      BY <1>0, <1>10, <3>2 DEF source_poll
    <3> QED BY <3>1, <3>2
  <2>2. UNCHANGED <<carriage, registered, queue, aborted, expired, reads>>
        /\ pc' \in {"pump", "retain"} /\ caller' \in {None, caller} /\ progressed' \in BOOLEAN
    BY <1>10 DEF source_poll, readVars
  <2> QED BY <1>0, <2>1, <2>2
<1>11. CASE retain
  <2>1. registered' \in BOOLEAN
    BY <1>11 DEF retain, Live
  <2> QED BY <1>0, <1>11, <2>1 DEF retain, threadVars, readVars
<1>12. CASE fire_timer
  <2>1. PICK r \in Armed : expired' = [expired EXCEPT ![r] = TRUE] /\ queue' = Append(queue, r)
    BY <1>12 DEF fire_timer
  <2>2. r \in Reader
    BY <2>1 DEF Armed
  <2> QED BY <1>0, <1>1, <1>2, <1>12, <2>1, <2>2 DEF fire_timer, threadVars, stdinVars
<1>13. CASE drained \/ other_timer \/ idle_sleep \/ block \/ exit_loop
  BY <1>0, <1>13 DEF drained, other_timer, idle_sleep, block, exit_loop, threadVars,
    stdinVars, readVars
<1>14. CASE receive_request \/ read_chunk
  BY <1>0, <1>14 DEF receive_request, read_chunk, stdinVars, readVars, loopVars
<1>15. CASE UNCHANGED vars
  BY <1>0, <1>15 DEF vars, stdinVars, readVars, loopVars
<1> QED BY <1>4, <1>5, <1>6, <1>7, <1>8, <1>9, <1>10, <1>11, <1>12, <1>13, <1>14, <1>15
        DEF Next, Loop, Thread, Terminated

\* Outside the pump, a read that waits is watched for.
LEMMA LoopWatchesPreserved ==
  ASSUME IInv, [Next]_vars
  PROVE  LoopWatches'
<1>0. TypeOK /\ LoopWatches /\ WaitersWait
  BY DEF IInv
<1>1. ASSUME NEW r \in Reader, Withdraw(r), waiters = <<>>
      PROVE  waiters' = <<>>
  <2>1. ~Waits(r)
    BY <1>1, EmptySeq, ListPieces DEF Waits, Range
  <2> QED BY <1>1, <2>1 DEF Withdraw
<1>2. ASSUME NEW r \in Reader, start_read(r)
      PROVE  LoopWatches'
  BY <1>0, <1>2 DEF LoopWatches, start_read
<1>3. ASSUME NEW r \in Reader, cancel(r)
      PROVE  LoopWatches'
  BY <1>0, <1>3 DEF LoopWatches, cancel, stdinVars
<1>4. CASE poll_read
  <2>1. pc' \in {"drain", "pump"} /\ UNCHANGED <<requested, registered>> /\ pc = "drain"
    BY <1>4 DEF poll_read
  <2>2. Head(queue) \in Reader
    BY <1>4, ListPieces DEF poll_read, IInv, TypeOK
  <2>3. waiters' = waiters \/ Withdraw(Head(queue))
    BY <1>4 DEF poll_read
  <2>4. waiters' # <<>> => waiters # <<>>
    BY <1>1, <2>2, <2>3
  <2> QED BY <1>0, <2>1, <2>4 DEF LoopWatches
<1>5. CASE pump_carriage \/ pump_answer
  BY <1>0, <1>5 DEF LoopWatches, pump_carriage, pump_answer, loopVars
<1>6. CASE pump_done
  <2>1. pc' \in {"drain", "retain"}
    BY <1>6 DEF pump_done
  <2>2. waiters # <<>> => requested' /\ registered'
    BY <1>6, PumpDoneAsks
  <2>3. waiters' = waiters \/ (caller \in Reader /\ Withdraw(caller))
    BY <1>0, <1>6 DEF pump_done, TypeOK
  <2>4. waiters' # <<>> => waiters # <<>>
    BY <1>1, <2>3
  <2> QED BY <2>1, <2>2, <2>4 DEF LoopWatches
<1>7. CASE source_poll
  BY <1>0, <1>7 DEF LoopWatches, source_poll
<1>8. CASE retain
  BY <1>0, <1>8 DEF LoopWatches, retain, Live
<1>9. CASE drained \/ fire_timer \/ other_timer \/ idle_sleep \/ exit_loop \/ block
  BY <1>0, <1>9 DEF LoopWatches, drained, fire_timer, other_timer, idle_sleep, exit_loop,
    block, stdinVars
<1>10. CASE receive_request \/ read_chunk \/ UNCHANGED vars
  BY <1>0, <1>10 DEF LoopWatches, receive_request, read_chunk, vars, stdinVars, loopVars
<1> QED BY <1>2, <1>3, <1>4, <1>5, <1>6, <1>7, <1>8, <1>9, <1>10
        DEF Next, Loop, Thread, Terminated

LEMMA InitIInv == Init => IInv
<1> SUFFICES ASSUME Init PROVE IInv
  OBVIOUS
<1>1. /\ <<>> \in Seq(Byte) /\ <<>> \in Seq(Seq(Byte)) /\ <<>> \in Seq(Reader)
      /\ Len(<<>>) = 0 /\ <<>> \o <<>> = <<>> /\ DOMAIN <<>> = {}
  BY EmptySeq, ConcatEmptySeq
<1>2. Available = <<>> /\ Coming = <<>>
  BY <1>1 DEF Init, Available, Coming
<1>3. TypeOK
  <2>1. Len(arrived \o chunks) <= 1
    BY <1>1 DEF Init
  <2>2. input \in Seq(Byte) /\ todo \in Seq(Byte)
    BY StdinAssumption DEF Init
  <2>3. /\ want \in [Reader -> Wants \cup {"none"}]
        /\ answer \in [Reader -> {<<>>} \cup {<<a>> : a \in Answers}]
        /\ aborted \in [Reader -> BOOLEAN] /\ expired \in [Reader -> BOOLEAN]
    BY DEF Init
  <2>4. reads \in [Reader -> 0..MaxReads]
    BY StdinAssumption DEF Init
  <2>5. requests \in 0..1 /\ position \in Nat /\ given \in Nat /\ taken \in Nat
    BY DEF Init
  <2> QED BY <1>1, <2>1, <2>2, <2>3, <2>4, <2>5 DEF Init, TypeOK
<1>4. OneChunk /\ EndIsLast
  BY <1>2 DEF Init, OneChunk, EndIsLast
<1>5. WaitersWait /\ LoopWatches
  BY <1>1 DEF Init, WaitersWait, LoopWatches
<1> QED BY <1>3, <1>4, <1>5 DEF IInv

LEMMA NextIInv == IInv /\ [Next]_vars => IInv'
<1> SUFFICES ASSUME IInv, [Next]_vars PROVE IInv'
  OBVIOUS
<1>1. TypeOK'
  BY ThreadPreserved, ReadsPreserved, LoopPreserved DEF TypeOK, Available
<1> QED BY <1>1, ThreadPreserved, ReadsPreserved, LoopWatchesPreserved DEF IInv

\* Every field keeps its type, one chunk at most is under way and the empty one
\* comes last, and a queued read waits for an answer it does not have.
THEOREM StdinInvariant == Spec => []IInv
BY InitIInv, NextIInv, PTL DEF Spec

\* add_source, StdinSource::is_live: "an idle stdin never holds the loop open,
\* and a pending read always does".
THEOREM PendingReadsHoldTheLoop == Spec => []WatchedWhileWaiting
<1>1. IInv => WatchedWhileWaiting
  BY DEF IInv, LoopWatches, WatchedWhileWaiting
<1> QED BY <1>1, StdinInvariant, PTL

-----------------------------------------------------------------------------
(***************************************************************************)
(* The answers are the input from its start.                               *)
(***************************************************************************)

\* Cutting the first part of two cuts the two.
LEMMA CutOfConcat ==
  ASSUME NEW S, NEW a \in Seq(S), NEW b \in Seq(S), NEW n \in 0..Len(a)
  PROVE  /\ SubSeq(a, n + 1, Len(a)) \o b = SubSeq(a \o b, n + 1, Len(a \o b))
         /\ SubSeq(a, 1, n) = SubSeq(a \o b, 1, n)
<1> DEFINE c == a \o b
           d == SubSeq(a, n + 1, Len(a))
           f == SubSeq(c, n + 1, Len(c))
<1>0. Len(a) \in Nat /\ Len(b) \in Nat
  BY LenProperties
<1>1. /\ c \in Seq(S) /\ Len(c) = Len(a) + Len(b)
      /\ \A i \in 1..Len(a) + Len(b) : c[i] = IF i <= Len(a) THEN a[i] ELSE b[i - Len(a)]
  BY ConcatProperties
<1>2. n \in 0..Len(c)
  BY <1>0, <1>1
<1>3. /\ d \in Seq(S) /\ Len(d) = Len(a) - n
      /\ \A i \in 1..Len(a) - n : d[i] = a[n + i]
      /\ SubSeq(a, 1, n) \in Seq(S) /\ Len(SubSeq(a, 1, n)) = n
      /\ \A i \in 1..n : SubSeq(a, 1, n)[i] = a[i]
  BY CutProperties
<1> HIDE DEF c
<1>4. /\ f \in Seq(S) /\ Len(f) = Len(c) - n
      /\ \A i \in 1..Len(c) - n : f[i] = c[n + i]
      /\ SubSeq(c, 1, n) \in Seq(S) /\ Len(SubSeq(c, 1, n)) = n
      /\ \A i \in 1..n : SubSeq(c, 1, n)[i] = c[i]
  BY <1>1, <1>2, CutProperties
<1> HIDE DEF d, f
<1>5. /\ d \o b \in Seq(S) /\ Len(d \o b) = Len(d) + Len(b)
      /\ \A i \in 1..Len(d) + Len(b) : (d \o b)[i] = IF i <= Len(d) THEN d[i] ELSE b[i - Len(d)]
  BY <1>3, ConcatProperties
<1>6. Len(d \o b) = Len(f) /\ Len(d) + Len(b) = Len(c) - n
  BY <1>0, <1>1, <1>3, <1>4, <1>5
<1>7. ASSUME NEW i \in 1..Len(f)
      PROVE  (d \o b)[i] = f[i]
  <2>0. /\ i \in 1..Len(d) + Len(b) /\ i \in 1..Len(c) - n /\ n + i \in 1..Len(a) + Len(b)
        /\ i <= Len(d) <=> n + i <= Len(a)
    BY <1>0, <1>1, <1>3, <1>4, <1>6
  <2>1. CASE i <= Len(d)
    <3>1. i \in 1..Len(a) - n
      BY <1>3, <2>0, <2>1
    <3> QED BY <1>1, <1>3, <1>4, <1>5, <2>0, <2>1, <3>1
  <2>2. CASE ~(i <= Len(d))
    <3>1. i - Len(d) = n + i - Len(a)
      BY <1>0, <1>3
    <3>2. (d \o b)[i] = b[i - Len(d)]
      BY <1>5, <2>0, <2>2
    <3>3. f[i] = c[n + i]
      BY <1>4, <2>0
    <3>4. c[n + i] = b[n + i - Len(a)]
      BY <1>1, <2>0, <2>2
    <3> QED BY <3>1, <3>2, <3>3, <3>4
  <2> QED BY <2>1, <2>2
<1>8. d \o b = f
  BY <1>4, <1>5, <1>6, <1>7, SeqEqual
<1>9. SubSeq(a, 1, n) = SubSeq(c, 1, n)
  <2>1. \A i \in 1..n : SubSeq(a, 1, n)[i] = SubSeq(c, 1, n)[i]
    BY <1>0, <1>1, <1>3, <1>4
  <2> QED BY <1>3, <1>4, <2>1, SeqEqual
<1> QED BY <1>8, <1>9 DEF c, d, f

\* What is left of w behind place p, cut behind its place n.
LEMMA CutOfTheRest ==
  ASSUME NEW S, NEW w \in Seq(S), NEW p \in 0..Len(w), NEW q,
         q = SubSeq(w, p + 1, Len(w))
  PROVE  /\ q \in Seq(S) /\ Len(q) = Len(w) - p
         /\ \A i \in 1..Len(q) : q[i] = w[p + i]
         /\ \A n \in 0..Len(q) : /\ SubSeq(q, 1, n) = SubSeq(w, p + 1, p + n)
                                 /\ SubSeq(q, n + 1, Len(q)) = SubSeq(w, p + n + 1, Len(w))
<1>0. Len(w) \in Nat /\ \A i \in 1..Len(w) : w[i] \in S
  BY ListPieces
<1>1. /\ q \in Seq(S) /\ Len(q) = Len(w) - p
      /\ \A i \in 1..Len(q) : q[i] = w[p + i]
  BY <1>0, CutProperties
<1>2. ASSUME NEW n \in 0..Len(q)
      PROVE  /\ SubSeq(q, 1, n) = SubSeq(w, p + 1, p + n)
             /\ SubSeq(q, n + 1, Len(q)) = SubSeq(w, p + n + 1, Len(w))
  <2>1. /\ SubSeq(q, 1, n) \in Seq(S) /\ Len(SubSeq(q, 1, n)) = n
        /\ \A i \in 1..n : SubSeq(q, 1, n)[i] = q[i]
        /\ SubSeq(q, n + 1, Len(q)) \in Seq(S)
        /\ Len(SubSeq(q, n + 1, Len(q))) = Len(q) - n
        /\ \A i \in 1..Len(q) - n : SubSeq(q, n + 1, Len(q))[i] = q[n + i]
    <3>1. \A t \in Seq(S) : \A k \in 0..Len(t) :
            /\ SubSeq(t, 1, k) \in Seq(S) /\ Len(SubSeq(t, 1, k)) = k
            /\ \A i \in 1..k : SubSeq(t, 1, k)[i] = t[i]
            /\ SubSeq(t, k + 1, Len(t)) \in Seq(S)
            /\ Len(SubSeq(t, k + 1, Len(t))) = Len(t) - k
            /\ \A i \in 1..Len(t) - k : SubSeq(t, k + 1, Len(t))[i] = t[k + i]
      BY CutProperties
    <3>2. q \in Seq(S)
      BY <1>1
    <3> QED BY <3>1, <3>2, Zenon
  <2>2. p + n \in 0..Len(w) /\ p + 1 \in Int /\ p + n \in Int
        /\ \A i \in p + 1..p + n : w[i] \in S
    BY <1>0, <1>1
  <2>3. /\ SubSeq(w, p + 1, p + n) \in Seq(S)
        /\ Len(SubSeq(w, p + 1, p + n)) = IF p + 1 <= p + n THEN p + n - (p + 1) + 1 ELSE 0
        /\ \A i \in 1..p + n - (p + 1) + 1 : SubSeq(w, p + 1, p + n)[i] = w[p + 1 + i - 1]
    BY <2>2, SubSeqProperties
  <2>4. Len(SubSeq(w, p + 1, p + n)) = n
        /\ \A i \in 1..n : SubSeq(w, p + 1, p + n)[i] = w[p + i]
    <3>1. p + n - (p + 1) + 1 = n /\ (p + 1 <= p + n <=> n # 0)
      BY <1>0, <1>1
    <3>2. \A i \in 1..n : p + 1 + i - 1 = p + i
      BY <1>0, <1>1
    <3> QED BY <2>3, <3>1, <3>2
  <2>5. /\ SubSeq(w, p + n + 1, Len(w)) \in Seq(S)
        /\ Len(SubSeq(w, p + n + 1, Len(w))) = Len(w) - (p + n)
        /\ \A i \in 1..Len(w) - (p + n) : SubSeq(w, p + n + 1, Len(w))[i] = w[p + n + i]
    BY <2>2, CutProperties
  <2>6. SubSeq(q, 1, n) = SubSeq(w, p + 1, p + n)
    <3>1. \A i \in 1..n : SubSeq(q, 1, n)[i] = SubSeq(w, p + 1, p + n)[i]
      BY <1>0, <1>1, <2>1, <2>4
    <3> QED BY <2>1, <2>3, <2>4, <3>1, SeqEqual
  <2>7. SubSeq(q, n + 1, Len(q)) = SubSeq(w, p + n + 1, Len(w))
    <3>1. Len(q) - n = Len(w) - (p + n)
      BY <1>0, <1>1
    <3>2. \A i \in 1..Len(q) - n : /\ n + i \in 1..Len(q) /\ p + (n + i) = p + n + i
      BY <1>0, <1>1
    <3>3. \A i \in 1..Len(q) - n :
            SubSeq(q, n + 1, Len(q))[i] = SubSeq(w, p + n + 1, Len(w))[i]
      BY <1>1, <2>1, <2>5, <3>1, <3>2
    <3> QED BY <2>1, <2>5, <3>1, <3>3, SeqEqual
  <2> QED BY <2>6, <2>7
<1> QED BY <1>1, <1>2

\* A list that begins with a carriage return and a newline.
LEMMA PairAhead ==
  ASSUME NEW S, NEW w \in Seq(S), CR \in S, LF \in S, NEW m \in 1..Len(w)
  PROVE  IsPrefix(<<CR, LF>>, SubSeq(w, m, Len(w)))
           <=> m + 1 <= Len(w) /\ w[m] = CR /\ w[m + 1] = LF
<1> DEFINE q == SubSeq(w, m, Len(w))
           h == SubSeq(q, 1, 2)
           two == <<CR, LF>>
<1>0. Len(w) \in Nat
  BY LenProperties
<1>1. m - 1 \in 0..Len(w) /\ m - 1 + 1 = m /\ Len(w) - (m - 1) = Len(w) - m + 1
      /\ \A i \in Int : m - 1 + i = m + i - 1
  BY <1>0
<1>2. /\ q \in Seq(S) /\ Len(q) = Len(w) - m + 1
      /\ \A i \in 1..Len(w) - m + 1 : q[i] = w[m + i - 1]
  <2> DEFINE k == m - 1
  <2>1. k \in 0..Len(w) /\ k + 1 = m /\ Len(w) - k = Len(w) - m + 1
        /\ \A i \in Int : k + i = m + i - 1
    BY <1>1
  <2> HIDE DEF k
  <2>2. /\ SubSeq(w, k + 1, Len(w)) \in Seq(S) /\ Len(SubSeq(w, k + 1, Len(w))) = Len(w) - k
        /\ \A i \in 1..Len(w) - k : SubSeq(w, k + 1, Len(w))[i] = w[k + i]
    BY <2>1, CutProperties
  <2> QED BY <2>1, <2>2
<1>3. two \in Seq(S) /\ Len(two) = 2 /\ two[1] = CR /\ two[2] = LF
  OBVIOUS
<1>4. SubSeq(two, 1, 2) = two
  BY <1>3, SubSeqFull
<1> HIDE DEF q, two
<1>5. IsPrefix(two, q) <=> 2 <= Len(q) /\ two = h
  BY <1>3, <1>4 DEF IsPrefix
<1>6. 2 <= Len(q) <=> m + 1 <= Len(w)
  BY <1>0, <1>2
<1>7. ASSUME m + 1 <= Len(w)
      PROVE  two = h <=> w[m] = CR /\ w[m + 1] = LF
  <2>1. 2 \in 0..Len(q) /\ 1 \in 1..Len(w) - m + 1 /\ 2 \in 1..Len(w) - m + 1
        /\ m + 1 - 1 = m /\ m + 2 - 1 = m + 1
    BY <1>0, <1>2, <1>7
  <2>2. /\ h \in Seq(S) /\ Len(h) = 2
        /\ \A i \in 1..2 : h[i] = q[i]
    BY <1>2, <2>1, CutProperties
  <2>3. q[1] = w[m] /\ q[2] = w[m + 1]
    BY <1>2, <2>1
  <2>4. h[1] = w[m] /\ h[2] = w[m + 1]
    BY <2>2, <2>3
  <2> HIDE DEF h
  <2>5. w[m] = CR /\ w[m + 1] = LF => two = h
    <3> SUFFICES ASSUME w[m] = CR, w[m + 1] = LF PROVE two = h
      OBVIOUS
    <3>1. \A i \in 1..Len(two) : two[i] = h[i]
      BY <1>3, <2>4
    <3> QED BY <1>3, <2>2, <3>1, SeqEqual
  <2> QED BY <1>3, <2>4, <2>5
<1> QED BY <1>5, <1>6, <1>7 DEF q, two

\* All that is left to read.
Left == buffer \o Coming \o todo

LEMMA LeftIsWhatIsLeft ==
  /\ Rest = IF carriage /\ Left # <<>> /\ Head(Left) = LF THEN Tail(Left) ELSE Left
  /\ TypeOK => /\ Left = buffer \o (Coming \o todo)
               /\ Left \in Seq(Byte) /\ Coming \o todo \in Seq(Byte)
               /\ buffer = <<>> => Left = Coming \o todo
               /\ buffer # <<>> => Left # <<>> /\ Head(Left) = Head(buffer)
<1>1. Rest = IF carriage /\ Left # <<>> /\ Head(Left) = LF THEN Tail(Left) ELSE Left
  BY DEF Rest, Left
<1>2. ASSUME TypeOK
      PROVE  /\ Left = buffer \o (Coming \o todo)
             /\ Left \in Seq(Byte) /\ Coming \o todo \in Seq(Byte)
             /\ buffer = <<>> => Left = Coming \o todo
             /\ buffer # <<>> => Left # <<>> /\ Head(Left) = Head(buffer)
  <2>1. buffer \in Seq(Byte) /\ todo \in Seq(Byte) /\ Coming \in Seq(Byte)
    BY <1>2, TheChunk DEF TypeOK
  <2>2. Left = buffer \o (Coming \o todo)
    BY <2>1, ConcatAssociative DEF Left
  <2>3. Coming \o todo \in Seq(Byte)
    BY <2>1, ConcatProperties
  <2> DEFINE r == Coming \o todo
  <2> HIDE DEF r
  <2>4. /\ Left \in Seq(Byte) /\ Len(Left) = Len(buffer) + Len(r)
        /\ \A i \in 1..Len(buffer) + Len(r) :
             Left[i] = IF i <= Len(buffer) THEN buffer[i] ELSE r[i - Len(buffer)]
    BY <2>1, <2>2, <2>3, ConcatProperties DEF r
  <2>5. buffer = <<>> => Left = r
    BY <2>2, <2>3, ConcatEmptySeq DEF r
  <2>6. ASSUME buffer # <<>>
        PROVE  Left # <<>> /\ Head(Left) = Head(buffer)
    <3>1. Len(buffer) \in Nat \ {0} /\ Len(r) \in Nat
      BY <2>1, <2>3, <2>6, EmptySeq, LenProperties DEF r
    <3>2. Left # <<>> /\ 1 \in 1..Len(buffer) + Len(r) /\ 1 <= Len(buffer)
      BY <2>4, <3>1, EmptySeq
    <3>3. Head(Left) = Left[1] /\ Head(buffer) = buffer[1]
      BY <2>1, <2>4, <2>6, <3>2, ListPieces
    <3> QED BY <2>4, <3>2, <3>3
  <2> QED BY <2>2, <2>3, <2>4, <2>5, <2>6 DEF r
<1> QED BY <1>1, <1>2

\* The rest of the input, and the place where it begins.
RestOfInput == Rest = SubSeq(input, position + 1, Len(input)) /\ position <= Len(input)

\* Once the end was read there is nothing left but the buffer.
LEMMA EndedLeavesTheBuffer ==
  ASSUME IInv, ended
  PROVE  Left = buffer
<1>1. ~requested /\ todo = <<>>
  BY DEF IInv, EndIsLast
<1>2. Available = <<>>
  BY <1>1 DEF IInv, OneChunk
<1>3. Coming = <<>> /\ <<>> \o <<>> = <<>> /\ buffer \in Seq(Byte) /\ buffer \o <<>> = buffer
  BY <1>2, EmptySeq, ConcatEmptySeq DEF Coming, IInv, TypeOK
<1> QED BY <1>1, <1>3 DEF Left

\* Without a carriage return in wait, all that is left is the rest of the input.
LEMMA LeftIsTheRest ==
  ASSUME TypeOK, RestOfInput, ~carriage
  PROVE  /\ Left = SubSeq(input, position + 1, Len(input)) /\ position \in 0..Len(input)
         /\ Len(Left) = Len(input) - position
         /\ \A i \in 1..Len(Left) : Left[i] = input[position + i]
         /\ \A n \in 0..Len(Left) :
              /\ SubSeq(Left, 1, n) = SubSeq(input, position + 1, position + n)
              /\ SubSeq(Left, n + 1, Len(Left)) = SubSeq(input, position + n + 1, Len(input))
<1>0. input \in Seq(Byte) /\ position \in Nat /\ Len(input) \in Nat
  BY ListPieces DEF TypeOK
<1>1. Rest = Left
  BY LeftIsWhatIsLeft
<1>2. Rest = SubSeq(input, position + 1, Len(input)) /\ position <= Len(input)
  BY DEF RestOfInput
<1>3. Left = SubSeq(input, position + 1, Len(input)) /\ position \in 0..Len(input)
  BY <1>0, <1>1, <1>2
<1>4. \A w \in Seq(Byte) : \A k \in 0..Len(w) : \A q :
        q = SubSeq(w, k + 1, Len(w)) =>
          /\ Len(q) = Len(w) - k
          /\ \A i \in 1..Len(q) : q[i] = w[k + i]
          /\ \A n \in 0..Len(q) : /\ SubSeq(q, 1, n) = SubSeq(w, k + 1, k + n)
                                  /\ SubSeq(q, n + 1, Len(q)) = SubSeq(w, k + n + 1, Len(w))
  BY CutOfTheRest
<1>5. \A q :
        q = SubSeq(input, position + 1, Len(input)) =>
          /\ Len(q) = Len(input) - position
          /\ \A i \in 1..Len(q) : q[i] = input[position + i]
          /\ \A n \in 0..Len(q) :
               /\ SubSeq(q, 1, n) = SubSeq(input, position + 1, position + n)
               /\ SubSeq(q, n + 1, Len(q)) = SubSeq(input, position + n + 1, Len(input))
  BY <1>0, <1>3, <1>4, Zenon
<1>6. /\ Len(Left) = Len(input) - position
      /\ \A i \in 1..Len(Left) : Left[i] = input[position + i]
      /\ \A n \in 0..Len(Left) :
           /\ SubSeq(Left, 1, n) = SubSeq(input, position + 1, position + n)
           /\ SubSeq(Left, n + 1, Len(Left)) = SubSeq(input, position + n + 1, Len(input))
  BY <1>3, <1>5, Zenon
<1> QED BY <1>3, <1>6

\* A line read ends where the input has its next ending.
LEMMA LineConsumes ==
  ASSUME IInv, RestOfInput, ~carriage, Endings # {},
         NEW a, a.kind = "line", a.bytes = SubSeq(buffer, 1, Min(Endings) - 1)
  PROVE  LET m == position + Min(Endings)
         IN  /\ m \in 1..Len(input) /\ input[m] = buffer[Min(Endings)]
             /\ SubSeq(buffer, Min(Endings) + 1, Len(buffer)) \o (Coming \o todo)
                  = SubSeq(input, m + 1, Len(input))
             /\ Consumed(position, a) =
                  IF input[m] = CR /\ m + 1 <= Len(input) /\ input[m + 1] = LF
                  THEN m + 1 ELSE m
<1> DEFINE e == Min(Endings)
           m == position + e
           X == Coming \o todo
           ends == {i \in position + 1..Len(input) : input[i] \in {CR, LF}}
<1>0. /\ TypeOK /\ input \in Seq(Byte) /\ buffer \in Seq(Byte) /\ position \in Nat
      /\ Len(input) \in Nat /\ Len(buffer) \in Nat /\ CR \in Byte /\ LF \in Byte
      /\ \A i \in 1..Len(input) : input[i] \in Byte
  BY ListPieces DEF IInv, TypeOK, Byte
<1>1. /\ e \in 1..Len(buffer) /\ buffer[e] \in {CR, LF}
      /\ \A i \in 1..e - 1 : buffer[i] \notin {CR, LF}
  BY <1>0, FirstEnding
<1>2. X \in Seq(Byte) /\ Left = buffer \o X /\ Left \in Seq(Byte)
  BY <1>0, LeftIsWhatIsLeft
<1>3. Left = SubSeq(input, position + 1, Len(input)) /\ position \in 0..Len(input)
  BY <1>0, LeftIsTheRest
<1> HIDE DEF X, e
<1>4. /\ Len(Left) = Len(input) - position
      /\ \A i \in 1..Len(Left) : Left[i] = input[position + i]
      /\ \A n \in 0..Len(Left) :
           /\ SubSeq(Left, 1, n) = SubSeq(input, position + 1, position + n)
           /\ SubSeq(Left, n + 1, Len(Left)) = SubSeq(input, position + n + 1, Len(input))
  BY <1>0, LeftIsTheRest
<1>5. /\ Len(Left) = Len(buffer) + Len(X) /\ Len(X) \in Nat
      /\ \A i \in 1..Len(buffer) : Left[i] = buffer[i]
  <2>1. /\ Len(Left) = Len(buffer) + Len(X) /\ Len(X) \in Nat
        /\ \A i \in 1..Len(buffer) + Len(X) :
             Left[i] = IF i <= Len(buffer) THEN buffer[i] ELSE X[i - Len(buffer)]
    BY <1>0, <1>2, ConcatProperties, LenProperties
  <2> QED BY <1>0, <2>1
<1>6. \A i \in 1..e : /\ position + i \in 1..Len(input)
                      /\ input[position + i] = buffer[i]
  <2> TAKE i \in 1..e
  <2>1. i \in 1..Len(buffer) /\ i \in 1..Len(Left) /\ position + i \in 1..Len(input)
    BY <1>0, <1>1, <1>4, <1>5
  <2> QED BY <1>4, <1>5, <2>1
<1>7. m \in 1..Len(input) /\ input[m] = buffer[e]
  BY <1>1, <1>6
<1>8. e - 1 \in 0..Len(buffer) /\ e \in 0..Len(buffer) /\ e \in 0..Len(Left)
      /\ e - 1 \in 0..Len(Left)
  BY <1>0, <1>1, <1>5
<1>9. SubSeq(buffer, e + 1, Len(buffer)) \o X = SubSeq(input, m + 1, Len(input))
  <2>1. SubSeq(buffer, e + 1, Len(buffer)) \o X = SubSeq(Left, e + 1, Len(Left))
    BY <1>0, <1>2, <1>8, CutOfConcat
  <2> QED BY <1>4, <1>8, <2>1
<1>10. a.bytes = SubSeq(input, position + 1, m - 1)
  <2>1. SubSeq(buffer, 1, e - 1) = SubSeq(Left, 1, e - 1)
    BY <1>0, <1>2, <1>8, CutOfConcat
  <2>2. SubSeq(Left, 1, e - 1) = SubSeq(input, position + 1, position + (e - 1))
    BY <1>4, <1>8
  <2>3. position + (e - 1) = m - 1
    BY <1>0, <1>1
  <2> QED BY <2>1, <2>2, <2>3 DEF e
<1>11. ends # {} /\ Min(ends) = m
  <2>1. m \in ends
    BY <1>0, <1>1, <1>7
  <2>2. ends \in SUBSET Nat
    BY <1>0
  <2>3. Min(ends) \in ends /\ Min(ends) <= m
    <3> HIDE DEF ends, m
    <3> QED BY <2>1, <2>2, LeastElement
  <2>4. Min(ends) \in position + 1..Len(input) /\ input[Min(ends)] \in {CR, LF}
    BY <2>3
  <2> DEFINE k == Min(ends) - position
  <2>5. k \in 1..e /\ position + k = Min(ends)
    <3> HIDE DEF ends
    <3> QED BY <1>0, <1>1, <2>3, <2>4
  <2>6. buffer[k] \in {CR, LF}
    <3> HIDE DEF ends, k
    <3> QED BY <1>6, <2>4, <2>5
  <2>7. k = e
    <3> HIDE DEF k
    <3> QED BY <1>1, <2>5, <2>6
  <2>8. Min(ends) = m
    <3> HIDE DEF ends, k
    <3> QED BY <2>5, <2>7
  <2> QED BY <2>1, <2>8
<1>12. Consumed(position, a) =
         IF input[m] = CR /\ m + 1 <= Len(input) /\ input[m + 1] = LF THEN m + 1 ELSE m
  <2>1. IsPrefix(<<CR, LF>>, SubSeq(input, m, Len(input)))
          <=> m + 1 <= Len(input) /\ input[m] = CR /\ input[m + 1] = LF
    BY <1>0, <1>7, PairAhead
  <2>2. a.kind # "end" /\ a.kind # "bytes"
    OBVIOUS
  <2>3. Consumed(position, a) =
          IF a.bytes # SubSeq(input, position + 1, m - 1) THEN Len(input) + 1
          ELSE IF IsPrefix(<<CR, LF>>, SubSeq(input, m, Len(input))) THEN m + 1 ELSE m
    <3> HIDE DEF m
    <3>1. ends # {} /\ Min(ends) = m
      BY <1>11
    <3> QED BY <2>2, <3>1 DEF Consumed
  <2> HIDE DEF m
  <2> QED BY <1>10, <2>1, <2>3
<1> QED BY <1>7, <1>9, <1>12 DEF e, X

\* Bytes read, and what the end leaves, end where the buffer does.
LEMMA BufferConsumes ==
  ASSUME IInv, RestOfInput, ~carriage, buffer # <<>>,
         NEW a, a.bytes = buffer, a.kind = "bytes" \/ (a.kind = "line" /\ Endings = {} /\ ended)
  PROVE  /\ Consumed(position, a) \in 0..Len(input)
         /\ Coming \o todo = SubSeq(input, Consumed(position, a) + 1, Len(input))
<1> DEFINE p == position + Len(buffer)
           X == Coming \o todo
           ends == {i \in position + 1..Len(input) : input[i] \in {CR, LF}}
<1>0. /\ TypeOK /\ input \in Seq(Byte) /\ buffer \in Seq(Byte) /\ position \in Nat
      /\ Len(input) \in Nat /\ Len(buffer) \in Nat /\ Len(buffer) \in 0..Len(buffer)
      /\ DOMAIN buffer = 1..Len(buffer)
  BY ListPieces DEF IInv, TypeOK
<1>1. X \in Seq(Byte) /\ Left = buffer \o X /\ Left \in Seq(Byte)
  BY <1>0, LeftIsWhatIsLeft
<1>2. Left = SubSeq(input, position + 1, Len(input)) /\ position \in 0..Len(input)
  BY <1>0, LeftIsTheRest
<1> HIDE DEF X
<1>3. /\ Len(Left) = Len(input) - position
      /\ \A i \in 1..Len(Left) : Left[i] = input[position + i]
      /\ \A n \in 0..Len(Left) :
           /\ SubSeq(Left, 1, n) = SubSeq(input, position + 1, position + n)
           /\ SubSeq(Left, n + 1, Len(Left)) = SubSeq(input, position + n + 1, Len(input))
  BY <1>0, LeftIsTheRest
<1>4. Len(Left) = Len(buffer) + Len(X) /\ Len(X) \in Nat
  BY <1>0, <1>1, ConcatProperties, LenProperties
<1>5. p \in 0..Len(input) /\ Len(buffer) \in 0..Len(Left)
  BY <1>0, <1>2, <1>3, <1>4
<1>6. SubSeq(buffer, 1, Len(buffer)) = buffer
  BY <1>0, SubSeqFull
<1>7. buffer = SubSeq(input, position + 1, p)
  <2>1. buffer = SubSeq(Left, 1, Len(buffer))
    BY <1>0, <1>1, <1>6, CutOfConcat
  <2> QED BY <1>3, <1>5, <2>1
<1>8. X = SubSeq(input, p + 1, Len(input))
  <2>1. SubSeq(buffer, Len(buffer) + 1, Len(buffer)) = <<>>
    BY <1>0, SubSeqEmpty
  <2>2. SubSeq(buffer, Len(buffer) + 1, Len(buffer)) \o X
          = SubSeq(Left, Len(buffer) + 1, Len(Left))
    BY <1>0, <1>1, CutOfConcat
  <2>3. <<>> \o X = X
    BY <1>1, ConcatEmptySeq
  <2> QED BY <1>3, <1>5, <2>1, <2>2, <2>3
<1>9. CASE a.kind = "bytes"
  <2>1. a.kind # "end" /\ a.kind # "line"
    BY <1>9
  <2>2. Consumed(position, a) =
          IF a.bytes # SubSeq(input, position + 1, p) THEN Len(input) + 1 ELSE p
    BY <1>9, <2>1 DEF Consumed
  <2>3. Consumed(position, a) = p
    <3> HIDE DEF p
    <3> QED BY <1>7, <2>2
  <2> QED BY <1>5, <1>8, <2>3 DEF X
<1>10. CASE a.kind = "line" /\ Endings = {} /\ ended
  <2>1. Left = buffer
    BY <1>10, EndedLeavesTheBuffer
  <2>2. p = Len(input)
    BY <1>0, <1>2, <1>3, <2>1
  <2>3. ASSUME NEW i \in ends
        PROVE  FALSE
    <3>1. i - position \in 1..Len(buffer) /\ position + (i - position) = i
      BY <1>0, <2>2, <2>3
    <3>2. input[i] = buffer[i - position]
      BY <1>3, <2>1, <3>1
    <3>3. buffer[i - position] \in {CR, LF}
      BY <2>3, <3>2
    <3> QED BY <1>0, <1>10, <3>1, <3>3 DEF Endings
  <2>4. ends = {}
    BY <2>3
  <2>5. a.kind # "end" /\ a.kind # "bytes"
    BY <1>10
  <2>6. Consumed(position, a) =
          IF a.bytes # SubSeq(input, position + 1, Len(input)) THEN Len(input) + 1
          ELSE Len(input)
    BY <1>10, <2>4, <2>5 DEF Consumed
  <2>7. Consumed(position, a) = p
    <3> HIDE DEF p
    <3> QED BY <1>7, <2>2, <2>6
  <2> QED BY <1>5, <1>8, <2>7 DEF X
<1> QED BY <1>9, <1>10

\* The end is given out when all of the input was.
LEMMA EndConsumes ==
  ASSUME IInv, RestOfInput, buffer = <<>>, ended,
         NEW a, a.kind = "end", a.bytes = <<>>
  PROVE  Consumed(position, a) = Len(input) /\ position = Len(input) /\ Rest = <<>>
<1>0. /\ TypeOK /\ input \in Seq(Byte) /\ position \in Nat /\ Len(input) \in Nat
  BY ListPieces DEF IInv, TypeOK
<1>1. Left = <<>> /\ Rest = <<>>
  BY EndedLeavesTheBuffer, LeftIsWhatIsLeft
<1>2. position \in 0..Len(input) /\ SubSeq(input, position + 1, Len(input)) = <<>>
  <2>1. Rest = SubSeq(input, position + 1, Len(input)) /\ position <= Len(input)
    BY DEF RestOfInput
  <2> QED BY <1>0, <1>1, <2>1
<1>3. Len(SubSeq(input, position + 1, Len(input))) = Len(input) - position
  BY <1>0, <1>2, CutProperties
<1>4. position = Len(input)
  <2>1. Len(input) - position = 0
    BY <1>2, <1>3, EmptySeq
  <2> QED BY <1>0, <2>1
<1>5. a.kind # "line" /\ a.kind # "bytes"
  OBVIOUS
<1>6. Consumed(position, a) =
        IF a.bytes # SubSeq(input, position + 1, Len(input)) THEN Len(input) + 1 ELSE Len(input)
  BY <1>5 DEF Consumed
<1> QED BY <1>1, <1>2, <1>4, <1>6

\* What can move the bytes on their way.
LEMMA StepsOfTheBytes ==
  ASSUME [Next]_vars
  PROVE  \/ pump_carriage \/ pump_answer \/ source_poll \/ block \/ read_chunk
         \/ UNCHANGED <<input, todo, arrived, chunks, buffer, carriage, position>>
BY DEF Next, Loop, Thread, start_read, cancel, poll_read, pump_done, receive_request,
  drained, retain, fire_timer, other_timer, idle_sleep, exit_loop, Terminated, vars,
  threadVars, stdinVars, readVars, loopVars

\* Taking answers, moving chunks and pairing newlines keep the rest.
LEMMA RestPreserved ==
  ASSUME IInv, RestOfInput, [Next]_vars
  PROVE  RestOfInput'
<1>0. /\ TypeOK /\ input \in Seq(Byte) /\ todo \in Seq(Byte) /\ buffer \in Seq(Byte)
      /\ position \in Nat /\ Len(input) \in Nat /\ <<>> \in Seq(Byte) /\ Coming \in Seq(Byte)
  <2>1. TypeOK /\ input \in Seq(Byte) /\ todo \in Seq(Byte) /\ buffer \in Seq(Byte) /\ position \in Nat
    BY DEF IInv, TypeOK
  <2>2. Coming \in Seq(Byte)
    BY <2>1, TheChunk
  <2>3. Len(input) \in Nat
    BY <2>1, LenProperties
  <2> QED BY <2>1, <2>2, <2>3
<1>1. input' = input
  BY ThreadPreserved
<1>2. ASSUME Left' = Left, carriage' = carriage, position' = position
      PROVE  RestOfInput'
  <2>1. Rest' = IF carriage' /\ Left' # <<>> /\ Head(Left') = LF THEN Tail(Left') ELSE Left'
    BY DEF Rest, Left
  <2>2. Rest' = Rest
    BY <1>2, <2>1, LeftIsWhatIsLeft
  <2> QED BY <1>1, <1>2, <2>2 DEF RestOfInput
<1>3. CASE pump_carriage
  <2>1. /\ buffer # <<>> /\ carriage /\ carriage' = FALSE
        /\ buffer' = IF Head(buffer) = LF THEN Tail(buffer) ELSE buffer
        /\ UNCHANGED <<todo, arrived, chunks, position>>
    BY <1>3 DEF pump_carriage, Pairs, threadVars, loopVars
  <2>2. Coming' = Coming
    BY <2>1 DEF Coming, Available
  <2>3. Left # <<>> /\ Head(Left) = Head(buffer) /\ Left = buffer \o (Coming \o todo)
        /\ Left \in Seq(Byte) /\ Coming \o todo \in Seq(Byte)
    BY <1>0, <2>1, LeftIsWhatIsLeft
  <2>4. buffer' \in Seq(Byte)
    BY LoopPreserved
  <2>5. Left' = buffer' \o (Coming \o todo)
    <3>1. Left' = (buffer' \o Coming) \o todo
      BY <2>1, <2>2 DEF Left
    <3>2. (buffer' \o Coming) \o todo = buffer' \o (Coming \o todo)
      <4>1. todo \in Seq(Byte) /\ Coming \in Seq(Byte)
        BY <1>0
      <4> QED BY <2>4, <4>1, ConcatAssociative
    <3> QED BY <3>1, <3>2
  <2>6. Rest' = Left'
    BY <2>1 DEF Rest, Left
  <2>7. Left' = Rest
    <3>1. CASE Head(buffer) = LF
      <4>1. Tail(buffer) = SubSeq(buffer, 1 + 1, Len(buffer))
            /\ Tail(Left) = SubSeq(Left, 1 + 1, Len(Left)) /\ 1 \in 0..Len(buffer)
        BY <1>0, <2>1, <2>3, TailIsSubSeq, EmptySeq
      <4>2. Tail(buffer) \o (Coming \o todo) = Tail(Left)
        <5> DEFINE r == Coming \o todo
        <5>1. r \in Seq(Byte) /\ Left = buffer \o r
          BY <2>3
        <5> HIDE DEF r
        <5>2. SubSeq(buffer, 1 + 1, Len(buffer)) \o r = SubSeq(Left, 1 + 1, Len(Left))
          BY <1>0, <4>1, <5>1, CutOfConcat
        <5> QED BY <4>1, <5>2 DEF r
      <4> QED BY <2>1, <2>3, <2>5, <3>1, <4>2, LeftIsWhatIsLeft
    <3>2. CASE Head(buffer) # LF
      BY <2>1, <2>3, <2>5, <3>2, LeftIsWhatIsLeft
    <3> QED BY <3>1, <3>2
  <2> QED BY <1>1, <2>1, <2>6, <2>7 DEF RestOfInput
<1>4. CASE pump_answer
  <2>0. /\ ~Pairs /\ UNCHANGED <<todo, arrived, chunks>>
    BY <1>4 DEF pump_answer, threadVars
  <2>1. Coming' = Coming
    BY <2>0 DEF Coming, Available
  <2>2. PICK a \in Answers :
          /\ Give(a)
          /\ \/ /\ Endings # {} /\ buffer # <<>> /\ a.kind = "line"
                /\ a.bytes = SubSeq(buffer, 1, Min(Endings) - 1)
                /\ carriage' = (buffer[Min(Endings)] = CR)
                /\ buffer' = SubSeq(buffer, Min(Endings) + 1, Len(buffer))
             \/ /\ buffer # <<>> /\ buffer' = <<>> /\ carriage' = carriage
                /\ a.bytes = buffer
                /\ a.kind = "bytes" \/ (a.kind = "line" /\ Endings = {} /\ ended)
             \/ /\ buffer = <<>> /\ buffer' = <<>> /\ carriage' = carriage
                /\ a.bytes = <<>> /\ a.kind = "end" /\ ended
    BY <1>0, <1>4, TheAnswer
  <2>3. position' = Consumed(position, a)
    BY <2>2 DEF Give
  <2>4. Left' = buffer' \o (Coming \o todo)
    <3>1. buffer' \in Seq(Byte)
      BY LoopPreserved
    <3>2. Left' = (buffer' \o Coming) \o todo
      BY <2>0, <2>1 DEF Left
    <3>3. (buffer' \o Coming) \o todo = buffer' \o (Coming \o todo)
      <4>1. todo \in Seq(Byte) /\ Coming \in Seq(Byte)
        BY <1>0
      <4> QED BY <3>1, <4>1, ConcatAssociative
    <3> QED BY <3>2, <3>3
  <2>5. Rest' = IF carriage' /\ Left' # <<>> /\ Head(Left') = LF THEN Tail(Left') ELSE Left'
    BY DEF Rest, Left
  <2>6. CASE /\ Endings # {} /\ buffer # <<>> /\ a.kind = "line"
             /\ a.bytes = SubSeq(buffer, 1, Min(Endings) - 1)
             /\ carriage' = (buffer[Min(Endings)] = CR)
             /\ buffer' = SubSeq(buffer, Min(Endings) + 1, Len(buffer))
    <3> DEFINE m == position + Min(Endings)
    <3>1. ~carriage
      BY <2>0, <2>6 DEF Pairs
    <3>2. /\ m \in 1..Len(input) /\ input[m] = buffer[Min(Endings)]
          /\ Left' = SubSeq(input, m + 1, Len(input))
          /\ position' = IF input[m] = CR /\ m + 1 <= Len(input) /\ input[m + 1] = LF
                         THEN m + 1 ELSE m
      BY <2>3, <2>4, <2>6, <3>1, LineConsumes
    <3>3. carriage' = (input[m] = CR)
      BY <2>6, <3>2
    <3> HIDE DEF m
    <3>4. /\ Left' \in Seq(Byte) /\ Len(Left') = Len(input) - m
          /\ \A i \in 1..Len(input) - m : (Left')[i] = input[m + i]
      <4>1. m \in 0..Len(input)
        BY <3>2
      <4>2. LET q == SubSeq(input, m + 1, Len(input))
            IN  /\ q \in Seq(Byte) /\ Len(q) = Len(input) - m
                /\ \A i \in 1..Len(input) - m : q[i] = input[m + i]
        BY <1>0, <4>1, CutProperties
      <4> QED BY <3>2, <4>2
    <3>5. Left' # <<>> <=> m + 1 <= Len(input)
      <4>1. Left' = <<>> <=> Len(Left') = 0
        BY <3>4, EmptySeq
      <4> QED BY <1>0, <3>2, <3>4, <4>1
    <3>6. Left' # <<>> => Head(Left') = input[m + 1]
      <4> SUFFICES ASSUME Left' # <<>> PROVE Head(Left') = input[m + 1]
        OBVIOUS
      <4>1. Head(Left') = (Left')[1]
        BY <3>4, ListPieces
      <4>2. 1 \in 1..Len(input) - m
        BY <1>0, <3>2, <3>5
      <4> QED BY <3>4, <4>1, <4>2
    <3>7. CASE input[m] = CR /\ m + 1 <= Len(input) /\ input[m + 1] = LF
      <4>1. position' = m + 1 /\ Rest' = Tail(Left') /\ Left' # <<>>
        BY <2>5, <3>2, <3>3, <3>5, <3>6, <3>7
      <4>2. Tail(Left') = SubSeq(Left', 2, Len(Left'))
        BY <3>4, <4>1, TailIsSubSeq
      <4>3. SubSeq(Left', 1 + 1, Len(Left')) = SubSeq(input, m + 1 + 1, Len(input))
        <5>1. \A w \in Seq(Byte) : \A k \in 0..Len(w) : \A q :
                q = SubSeq(w, k + 1, Len(w)) =>
                  \A n \in 0..Len(q) :
                    SubSeq(q, n + 1, Len(q)) = SubSeq(w, k + n + 1, Len(w))
          BY CutOfTheRest
        <5>2. m \in 0..Len(input) /\ 1 \in 0..Len(Left')
          BY <1>0, <3>2, <3>4, <3>7
        <5>3. \A q : q = SubSeq(input, m + 1, Len(input)) =>
                \A n \in 0..Len(q) :
                  SubSeq(q, n + 1, Len(q)) = SubSeq(input, m + n + 1, Len(input))
          <6>1. input \in Seq(Byte) /\ m \in 0..Len(input)
            BY <1>0, <5>2
          <6> HIDE DEF m
          <6> QED BY <5>1, <6>1, Zenon
        <5>4. Left' = SubSeq(input, m + 1, Len(input))
          BY <3>2
        <5>5. \A n \in 0..Len(Left') :
                  SubSeq(Left', n + 1, Len(Left')) = SubSeq(input, m + n + 1, Len(input))
          BY <5>3, <5>4, Zenon
        <5> QED BY <5>2, <5>5, Zenon
      <4>4. Rest' = SubSeq(input, position' + 1, Len(input)) /\ position' <= Len(input)
        <5>1. 1 + 1 = 2
          OBVIOUS
        <5> QED BY <3>7, <4>1, <4>2, <4>3, <5>1
      <4> QED BY <1>1, <4>4 DEF RestOfInput
    <3>8. CASE ~(input[m] = CR /\ m + 1 <= Len(input) /\ input[m + 1] = LF)
      <4>1. position' = m /\ Rest' = Left'
        BY <2>5, <3>2, <3>3, <3>5, <3>6, <3>8
      <4>2. m <= Len(input)
        BY <3>2
      <4> QED BY <1>1, <3>2, <4>1, <4>2 DEF RestOfInput
    <3> QED BY <3>7, <3>8
  <2>7. CASE /\ buffer # <<>> /\ buffer' = <<>> /\ carriage' = carriage
             /\ a.bytes = buffer
             /\ a.kind = "bytes" \/ (a.kind = "line" /\ Endings = {} /\ ended)
    <3>1. ~carriage
      BY <2>0, <2>7 DEF Pairs
    <3>2. /\ position' \in 0..Len(input)
          /\ Coming \o todo = SubSeq(input, position' + 1, Len(input))
      BY <2>3, <2>7, <3>1, BufferConsumes
    <3>3. Left' = Coming \o todo
      BY <1>0, <2>4, <2>7, LeftIsWhatIsLeft, ConcatEmptySeq
    <3>4. Rest' = Left'
      BY <2>5, <2>7, <3>1
    <3>5. Rest' = SubSeq(input, position' + 1, Len(input)) /\ position' <= Len(input)
      BY <1>0, <3>2, <3>3, <3>4
    <3> QED BY <1>1, <3>5 DEF RestOfInput
  <2>8. CASE /\ buffer = <<>> /\ buffer' = <<>> /\ carriage' = carriage
             /\ a.bytes = <<>> /\ a.kind = "end" /\ ended
    <3>1. position' = position
      BY <2>3, <2>8, EndConsumes
    <3>2. Left' = Left
      BY <2>0, <2>1, <2>8 DEF Left
    <3> QED BY <1>2, <2>8, <3>1, <3>2
  <2> QED BY <2>2, <2>6, <2>7, <2>8
<1>5. CASE source_poll
  <2>1. carriage' = carriage /\ position' = position /\ todo' = todo
    BY <1>5 DEF source_poll
  <2>2. CASE requested /\ Available # <<>>
    <3>1. Coming' = <<>>
      BY <1>5, <2>2, TheChunkMoves
    <3>2. buffer' = buffer \o Coming
      BY <1>0, <1>5, <2>2, TheChunk DEF source_poll
    <3>3. buffer \o Coming \in Seq(Byte)
      BY <1>0, ConcatProperties
    <3>4. (buffer \o Coming) \o <<>> = buffer \o Coming
      BY <3>3, ConcatEmptySeq
    <3>5. Left' = Left
      BY <2>1, <3>1, <3>2, <3>4 DEF Left
    <3> QED BY <1>2, <2>1, <3>5
  <2>3. CASE ~(requested /\ Available # <<>>)
    <3>1. Left' = Left
      BY <1>5, <2>1, <2>3 DEF source_poll, Left, Coming, Available
    <3> QED BY <1>2, <2>1, <3>1
  <2> QED BY <2>2, <2>3
<1>6. CASE block
  <2>1. Coming' = Coming
    BY <1>6, TheChunkMoves
  <2>2. UNCHANGED <<buffer, carriage, position, todo>>
    BY <1>6 DEF block
  <2> QED BY <1>2, <2>1, <2>2 DEF Left
<1>7. CASE read_chunk
  <2>1. UNCHANGED <<buffer, carriage, position>>
    BY <1>7 DEF read_chunk, stdinVars, loopVars
  <2>2. Coming = <<>> /\ buffer \o <<>> = buffer /\ buffer \o todo = Left
    BY <1>0, <1>7, TheChunkMoves, ConcatEmptySeq DEF Left
  <2>3. CASE \E n \in 1..Len(todo) : /\ Coming' = SubSeq(todo, 1, n)
                                     /\ todo' = SubSeq(todo, n + 1, Len(todo))
    <3>1. PICK n \in 1..Len(todo) : /\ Coming' = SubSeq(todo, 1, n)
                                    /\ todo' = SubSeq(todo, n + 1, Len(todo))
      BY <2>3
    <3>2. 1 \in 1..Len(todo) + 1 /\ n \in 1 - 1..Len(todo) /\ Len(todo) \in n..Len(todo)
          /\ n \in 0..Len(todo)
      BY <1>0, <3>1, LenProperties
    <3>3. SubSeq(todo, 1, n) \o SubSeq(todo, n + 1, Len(todo)) = SubSeq(todo, 1, Len(todo))
      BY <1>0, <3>2, ConcatAdjacentSubSeq
    <3>4. Coming' \o todo' = todo
      BY <1>0, <3>1, <3>3, SubSeqFull
    <3>5. Coming' \in Seq(Byte) /\ todo' \in Seq(Byte)
      BY <1>0, <3>1, <3>2, CutProperties
    <3>6. Left' = buffer \o (Coming' \o todo')
      <4>1. Left' = (buffer \o Coming') \o todo'
        BY <2>1 DEF Left
      <4>2. (buffer \o Coming') \o todo' = buffer \o (Coming' \o todo')
        <5>1. \A b, c, d \in Seq(Byte) : (b \o c) \o d = b \o (c \o d)
          BY ConcatAssociative
        <5>2. buffer \in Seq(Byte)
          BY <1>0
        <5> QED BY <3>5, <5>1, <5>2, Zenon
      <4> QED BY <4>1, <4>2
    <3> QED BY <1>2, <2>1, <2>2, <3>4, <3>6
  <2>4. CASE todo = <<>> /\ todo' = <<>> /\ Coming' = <<>>
    <3>1. Left' = Left
      BY <2>1, <2>2, <2>4 DEF Left
    <3> QED BY <1>2, <2>1, <3>1
  <2> QED BY <1>7, <2>3, <2>4, TheChunkMoves
<1>8. CASE UNCHANGED <<input, todo, arrived, chunks, buffer, carriage, position>>
  <2>1. Left' = Left
    BY <1>8 DEF Left, Coming, Available
  <2> QED BY <1>2, <1>8, <2>1
<1> QED BY <1>3, <1>4, <1>5, <1>6, <1>7, <1>8, StepsOfTheBytes

\* The reads whose answer waits for them.
Unread == {r \in Reader : answer[r] # <<>>}

EveryAnswerIsTakenOrWaits == given = taken + Cardinality(Unread)

LEMMA CountPreserved ==
  ASSUME IInv, EveryAnswerIsTakenOrWaits, [Next]_vars
  PROVE  EveryAnswerIsTakenOrWaits'
<1>0. /\ TypeOK /\ WaitersWait /\ IsFiniteSet(Reader)
      /\ answer \in [Reader -> {<<>>} \cup {<<a>> : a \in Answers}]
      /\ given \in Nat /\ taken \in Nat /\ waiters \in Seq(Reader) /\ queue \in Seq(Reader)
      /\ caller \in Reader \cup {None}
  BY StdinAssumption DEF IInv, TypeOK
<1>1. IsFiniteSet(Unread) /\ Cardinality(Unread) \in Nat
  <2>1. Unread \in SUBSET Reader
    BY DEF Unread
  <2>2. IsFiniteSet(Unread)
    BY <1>0, <2>1, FS_Subset
  <2> QED BY <2>2, FS_CardinalityType
<1>2. ASSUME UNCHANGED <<answer, given, taken>>
      PROVE  EveryAnswerIsTakenOrWaits'
  BY <1>2 DEF EveryAnswerIsTakenOrWaits, Unread
<1>3. ASSUME NEW r \in Reader, answer[r] # <<>>, Take(r), given' = given
      PROVE  EveryAnswerIsTakenOrWaits'
  <2>1. answer' = [answer EXCEPT ![r] = <<>>] /\ taken' = taken + 1
    BY <1>3 DEF Take
  <2>2. Unread' = Unread \ {r} /\ r \in Unread
    BY <1>0, <1>3, <2>1 DEF Unread
  <2>3. Cardinality(Unread') = Cardinality(Unread) - 1
    BY <1>1, <2>2, FS_RemoveElement
  <2> QED BY <1>0, <1>1, <1>3, <2>1, <2>3 DEF EveryAnswerIsTakenOrWaits
<1>4. ASSUME NEW r \in Reader, start_read(r)
      PROVE  EveryAnswerIsTakenOrWaits'
  BY <1>2, <1>4 DEF start_read
<1>5. CASE poll_read
  <2> DEFINE r == Head(queue)
  <2>1. r \in Reader /\ given' = given
    BY <1>0, <1>5, ListPieces DEF poll_read
  <2>2. CASE UNCHANGED <<answer, taken>>
    BY <1>2, <2>1, <2>2
  <2>3. CASE Answered(r) /\ Take(r)
    <3>1. answer[r] # <<>> /\ Take(r)
      BY <2>3 DEF Answered
    <3> HIDE DEF r
    <3> QED BY <1>3, <2>1, <3>1
  <2>4. CASE ~Answered(r) /\ answer' = [answer EXCEPT ![r] = <<>>] /\ taken' = taken
    <3>1. answer' = answer
      BY <1>0, <2>1, <2>4 DEF Answered
    <3> QED BY <1>2, <2>1, <2>4, <3>1
  <2> QED BY <1>5, <2>2, <2>3, <2>4 DEF poll_read
<1>6. CASE pump_answer
  <2>0. waiters # <<>> /\ taken' = taken
    BY <1>6 DEF pump_answer, Answerable
  <2>1. PICK a \in Answers : Give(a)
    BY <1>0, <1>6, TheAnswer
  <2> DEFINE r == Head(waiters)
  <2>2. r = waiters[1] /\ r \in Reader /\ 1 \in DOMAIN waiters
    <3>1. Len(waiters) \in Nat /\ Len(waiters) # 0 /\ DOMAIN waiters = 1..Len(waiters)
      BY <1>0, <2>0, ListPieces
    <3> QED BY <1>0, <2>0, <3>1, ListPieces
  <2>3. answer[r] = <<>>
    BY <1>0, <2>2 DEF WaitersWait
  <2>4. answer' = [answer EXCEPT ![r] = <<a>>] /\ given' = given + 1
    BY <2>1 DEF Give
  <2> HIDE DEF r
  <2>5. <<a>> # <<>>
    OBVIOUS
  <2>6. Unread' = Unread \cup {r} /\ r \notin Unread
    BY <1>0, <2>2, <2>3, <2>4, <2>5 DEF Unread
  <2>7. Cardinality(Unread') = Cardinality(Unread) + 1
    BY <1>1, <2>6, FS_AddElement
  <2> QED BY <1>0, <1>1, <2>0, <2>4, <2>7 DEF EveryAnswerIsTakenOrWaits
<1>7. CASE pump_done
  <2>1. given' = given
    BY <1>7 DEF pump_done
  <2>2. CASE UNCHANGED <<answer, taken>>
    BY <1>2, <2>1, <2>2
  <2>3. CASE caller # None /\ answer[caller] # <<>> /\ Take(caller)
    <3>1. caller \in Reader
      BY <1>0, <2>3
    <3> QED BY <1>3, <2>1, <2>3, <3>1
  <2> QED BY <1>7, <2>2, <2>3 DEF pump_done
<1>8. CASE UNCHANGED <<waiters, want, answer, position, given, taken>>
  BY <1>2, <1>8
<1> QED BY <1>4, <1>5, <1>6, <1>7, <1>8, StepsOfTheReads

\* pump, QueuedRead::poll: "the split is the same whatever the chunk boundaries
\* were", and "cancellation abandons the WAIT, never a line": no byte of the
\* input is lost, torn or given twice, and no answer is lost.
THEOREM NoByteIsLost == Spec => []AnswersAreTheInput
<1> DEFINE All == IInv /\ RestOfInput /\ EveryAnswerIsTakenOrWaits
<1>1. Init => All
  <2> SUFFICES ASSUME Init PROVE All
    OBVIOUS
  <2>1. IInv
    BY InitIInv
  <2>2. /\ buffer = <<>> /\ arrived = <<>> /\ chunks = <<>> /\ todo = input
        /\ carriage = FALSE /\ position = 0 /\ given = 0 /\ taken = 0
        /\ answer = [r \in Reader |-> <<>>] /\ input \in Seq(Byte)
    BY StdinAssumption DEF Init
  <2>3. Coming = <<>>
    BY <2>2, EmptySeq, ConcatEmptySeq DEF Coming, Available
  <2>4. Left = input
    BY <2>2, <2>3, EmptySeq, ConcatEmptySeq DEF Left
  <2>5. Rest = input
    BY <2>2, <2>4, LeftIsWhatIsLeft
  <2>6. SubSeq(input, 0 + 1, Len(input)) = input /\ Len(input) \in Nat /\ 0 <= Len(input)
    BY <2>2, SubSeqFull, LenProperties
  <2>7. RestOfInput
    BY <2>2, <2>5, <2>6 DEF RestOfInput
  <2>8. Unread = {}
    BY <2>2 DEF Unread
  <2>9. EveryAnswerIsTakenOrWaits
    BY <2>2, <2>8, FS_EmptySet DEF EveryAnswerIsTakenOrWaits
  <2> QED BY <2>1, <2>7, <2>9
<1>2. All /\ [Next]_vars => All'
  BY NextIInv, RestPreserved, CountPreserved
<1>3. All => AnswersAreTheInput
  BY DEF RestOfInput, EveryAnswerIsTakenOrWaits, Unread, AnswersAreTheInput
<1> HIDE DEF All
<1> QED BY <1>1, <1>2, <1>3, PTL DEF Spec

=============================================================================
