-------------------------- MODULE EventLoopProofs ---------------------------
(***************************************************************************)
(* Proofs about EventLoop: the deadline list stays in firing order, and    *)
(* with it the loop never waits past a deadline, never leaves a source     *)
(* unwatched for longer than a poll interval, and ends only when nothing   *)
(* is left.                                                                *)
(***************************************************************************)
EXTENDS EventLoop, SequenceTheorems, TLAPS

TypeOK ==
  /\ timers \in Seq(Timer)
  /\ left \in [Timer -> 0..MaxDelay]
  /\ unused \in SUBSET Timer
  /\ io \in SUBSET Source
  /\ open \in [Source -> BOOLEAN]
  /\ ready \in [Source -> BOOLEAN]
  /\ fresh \in SUBSET Source
  /\ awake \in BOOLEAN
  /\ steps \in 0..MaxSteps
  /\ wake \in 0..Forever

\* The list is in firing order: its head is the earliest deadline.
InFiringOrder ==
  \A i, j \in DOMAIN timers : i < j => left[timers[i]] <= left[timers[j]]

\* A timer not registered yet is not in the list.
ListedAreUsed == \A i \in DOMAIN timers : timers[i] \notin unused

\* Only a registered source is live.
LiveAreRegistered == \A x \in Source : open[x] => x \in io

\* What the loop knows at each of its points.
AtEachPoint ==
  /\ pc \in {"drain", "turn", "due", "idle", "asleep", "blocked", "timing", "done"}
  /\ pc # "drain" => ~awake
  /\ pc = "timing" => io = {} /\ timers # <<>>
  /\ pc = "done" => NothingLeft
  /\ pc = "asleep" => wake <= Interval
  /\ pc = "blocked" => \E x \in Blocking : io = {x}

IInv ==
  /\ TypeOK
  /\ InFiringOrder
  /\ ListedAreUsed
  /\ LiveAreRegistered
  /\ AtEachPoint
  /\ NeverWaitsPastADeadline

-----------------------------------------------------------------------------
(***************************************************************************)
(* Lists of timers.                                                        *)
(***************************************************************************)

\* Inserting shifts what follows by one place.
LEMMA InsertAtProperties ==
  ASSUME NEW S, NEW q \in Seq(S), NEW i \in 1..Len(q) + 1, NEW e \in S
  PROVE  /\ InsertAt(q, i, e) \in Seq(S)
         /\ Len(InsertAt(q, i, e)) = Len(q) + 1
         /\ \A j \in 1..Len(q) + 1 : InsertAt(q, i, e)[j] =
              IF j < i THEN q[j] ELSE IF j = i THEN e ELSE q[j - 1]
<1> DEFINE a == SubSeq(q, 1, i - 1)
           b == SubSeq(q, i, Len(q))
<1>1. Len(q) \in Nat /\ \A j \in 1..Len(q) : q[j] \in S
  BY LenProperties
<1>2. /\ a \in Seq(S) /\ Len(a) = i - 1
      /\ \A j \in 1..i - 1 : a[j] = q[j]
  BY <1>1, SubSeqProperties
<1>3. /\ b \in Seq(S) /\ Len(b) = Len(q) - i + 1
      /\ \A j \in 1..Len(q) - i + 1 : b[j] = q[i + j - 1]
  BY <1>1, SubSeqProperties
<1>4. <<e>> \in Seq(S) /\ Len(<<e>>) = 1 /\ <<e>>[1] = e
  OBVIOUS
<1> HIDE DEF a, b
<1>5. /\ a \o <<e>> \in Seq(S) /\ Len(a \o <<e>>) = i
      /\ \A j \in 1..i : (a \o <<e>>)[j] = IF j < i THEN q[j] ELSE e
  BY <1>1, <1>2, <1>4, ConcatProperties
<1> DEFINE c == a \o <<e>>
<1> HIDE DEF c
<1>6. /\ c \o b \in Seq(S) /\ Len(c \o b) = Len(q) + 1
      /\ \A j \in 1..Len(q) + 1 : (c \o b)[j] =
           IF j < i THEN q[j] ELSE IF j = i THEN e ELSE q[j - 1]
  <2>1. c \in Seq(S) /\ Len(c) = i /\ \A j \in 1..i : c[j] = IF j < i THEN q[j] ELSE e
    BY <1>5 DEF c
  <2>2. /\ c \o b \in Seq(S) /\ Len(c \o b) = Len(c) + Len(b)
        /\ \A j \in 1..Len(c) + Len(b) :
             (c \o b)[j] = IF j <= Len(c) THEN c[j] ELSE b[j - Len(c)]
    BY <2>1, <1>3, ConcatProperties
  <2> QED BY <1>1, <1>3, <2>1, <2>2
<1> QED BY <1>6 DEF InsertAt, a, b, c

\* Removing closes the gap.
LEMMA RemoveAtProperties ==
  ASSUME NEW S, NEW q \in Seq(S), NEW i \in 1..Len(q)
  PROVE  /\ RemoveAt(q, i) \in Seq(S)
         /\ Len(RemoveAt(q, i)) = Len(q) - 1
         /\ \A j \in 1..Len(q) - 1 :
              RemoveAt(q, i)[j] = IF j < i THEN q[j] ELSE q[j + 1]
<1> DEFINE a == SubSeq(q, 1, i - 1)
           b == SubSeq(q, i + 1, Len(q))
<1>1. Len(q) \in Nat /\ \A j \in 1..Len(q) : q[j] \in S
  BY LenProperties
<1>2. /\ a \in Seq(S) /\ Len(a) = i - 1
      /\ \A j \in 1..i - 1 : a[j] = q[j]
  BY <1>1, SubSeqProperties
<1>3. /\ b \in Seq(S) /\ Len(b) = Len(q) - i
      /\ \A j \in 1..Len(q) - i : b[j] = q[i + j]
  BY <1>1, SubSeqProperties
<1> HIDE DEF a, b
<1>4. /\ a \o b \in Seq(S) /\ Len(a \o b) = Len(a) + Len(b)
      /\ \A j \in 1..Len(a) + Len(b) :
           (a \o b)[j] = IF j <= Len(a) THEN a[j] ELSE b[j - Len(a)]
  BY <1>2, <1>3, ConcatProperties
<1>5. /\ a \o b \in Seq(S) /\ Len(a \o b) = Len(q) - 1
      /\ \A j \in 1..Len(q) - 1 : (a \o b)[j] = IF j < i THEN q[j] ELSE q[j + 1]
  <2>1. Len(a) + Len(b) = Len(q) - 1
    BY <1>1, <1>2, <1>3
  <2>2. ASSUME NEW j \in 1..Len(q) - 1
        PROVE  (a \o b)[j] = IF j < i THEN q[j] ELSE q[j + 1]
    <3>1. CASE j < i
      BY <1>1, <1>2, <1>4, <2>1, <3>1
    <3>2. CASE ~(j < i)
      <4>1. j - Len(a) \in 1..Len(q) - i /\ i + (j - Len(a)) = j + 1
        BY <1>1, <1>2, <3>2
      <4> QED BY <1>1, <1>2, <1>3, <1>4, <2>1, <3>2, <4>1
    <3> QED BY <3>1, <3>2
  <2> QED BY <1>4, <2>1, <2>2
<1> QED BY <1>5 DEF RemoveAt, a, b

-----------------------------------------------------------------------------
(***************************************************************************)
(* The inductive invariant.                                                *)
(***************************************************************************)

\* saturating_duration_since: a passing tick keeps deadlines in their order, and
\* a wait without limit has none afterwards.
LEMMA DownKeepsOrder ==
  /\ \A n \in 0..MaxDelay : Down(n) \in 0..MaxDelay
  /\ \A n \in 0..Forever : Down(n) \in 0..Forever
  /\ \A m, n \in 0..Forever : m <= n => Down(m) <= Down(n)
  /\ \A n \in 0..Interval : Down(n) \in 0..Interval
BY EventLoopAssumption DEF Forever, Down

\* What stands in the list.
LEMMA ListMembers ==
  ASSUME TypeOK
  PROVE  /\ Len(timers) \in Nat /\ DOMAIN timers = 1..Len(timers)
         /\ \A i \in DOMAIN timers :
              timers[i] \in Timer /\ left[timers[i]] \in 0..MaxDelay
         /\ timers # <<>> => Head(timers) = timers[1] /\ 1 \in DOMAIN timers
<1>1. timers \in Seq(Timer) /\ left \in [Timer -> 0..MaxDelay]
  BY DEF TypeOK
<1>2. Len(timers) \in Nat /\ DOMAIN timers = 1..Len(timers)
  BY <1>1, LenProperties
<1>3. \A i \in DOMAIN timers : timers[i] \in Timer
  BY <1>1, <1>2, LenProperties
<1>4. timers # <<>> => Head(timers) = timers[1] /\ 1 \in DOMAIN timers
  BY <1>1, <1>2, EmptySeq
<1> QED BY <1>1, <1>2, <1>3, <1>4

\* The limit of a block is a number of ticks, and no deadline is nearer.
LEMMA BlockLimitIsEarliest ==
  ASSUME TypeOK, InFiringOrder
  PROVE  /\ BlockLimit \in 0..Forever
         /\ timers # <<>> => left[Head(timers)] \in 0..MaxDelay
         /\ \A i \in DOMAIN timers :
              BlockLimit <= left[timers[i]] /\ left[Head(timers)] <= left[timers[i]]
<1>1. CASE timers = <<>>
  BY <1>1, EventLoopAssumption DEF BlockLimit, Forever
<1>2. CASE timers # <<>>
  <2>1. /\ Head(timers) = timers[1] /\ 1 \in DOMAIN timers
        /\ left[timers[1]] \in 0..MaxDelay
    BY <1>2, ListMembers
  <2>2. \A i \in DOMAIN timers : left[timers[1]] <= left[timers[i]]
    <3> TAKE i \in DOMAIN timers
    <3>1. CASE i = 1
      BY <2>1, <3>1
    <3>2. CASE i # 1
      BY <2>1, <3>2, ListMembers DEF InFiringOrder
    <3> QED BY <3>1, <3>2
  <2> QED BY <1>2, <2>1, <2>2, EventLoopAssumption DEF BlockLimit, Forever
<1> QED BY <1>1, <1>2

\* register_timer and cancel_timer on the list, fire on it, and the rest.
LEMMA ListSteps ==
  ASSUME Next
  PROVE  \/ register_timer \/ cancel_timer \/ fire_due \/ fire_slept \/ tick
         \/ UNCHANGED <<timers, left>>
BY DEF Next, Loop, register_io, close_io, drained, poll_io, none_due, wait_io,
  block_returns, sleep_returns, advance_timers, exit_loop, arrive, Terminated, vars

\* The list after register_timer.
LEMMA ListAfterRegister ==
  ASSUME IInv, register_timer
  PROVE  \E s \in unused, d \in 0..MaxDelay, i \in 1..Len(timers) + 1 :
           /\ left' = [left EXCEPT ![s] = d] /\ unused' = unused \ {s}
           /\ Place(i, d)
           /\ timers' \in Seq(Timer) /\ DOMAIN timers' = 1..Len(timers) + 1
           /\ \A j \in 1..Len(timers) + 1 : timers'[j] =
                IF j < i THEN timers[j] ELSE IF j = i THEN s ELSE timers[j - 1]
<1>1. PICK s \in unused, d \in 0..MaxDelay, i \in 1..Len(timers) + 1 :
        /\ left' = [left EXCEPT ![s] = d] /\ unused' = unused \ {s}
        /\ Place(i, d)
        /\ timers' = InsertAt(timers, i, s)
  BY DEF register_timer
<1>2. timers \in Seq(Timer) /\ s \in Timer
  BY DEF IInv, TypeOK
<1>3. /\ timers' \in Seq(Timer) /\ Len(timers') = Len(timers) + 1
      /\ \A j \in 1..Len(timers) + 1 : timers'[j] =
           IF j < i THEN timers[j] ELSE IF j = i THEN s ELSE timers[j - 1]
  BY <1>1, <1>2, InsertAtProperties
<1>4. DOMAIN timers' = 1..Len(timers')
  BY <1>3, LenProperties
<1> QED BY <1>1, <1>3, <1>4

\* The list after cancel_timer.
LEMMA ListAfterCancel ==
  ASSUME IInv, cancel_timer
  PROVE  \E i \in DOMAIN timers :
           /\ timers' \in Seq(Timer) /\ DOMAIN timers' = 1..Len(timers) - 1
           /\ \A j \in 1..Len(timers) - 1 :
                timers'[j] = IF j < i THEN timers[j] ELSE timers[j + 1]
<1>1. PICK i \in DOMAIN timers : timers' = RemoveAt(timers, i)
  BY DEF cancel_timer
<1>2. timers \in Seq(Timer) /\ i \in 1..Len(timers)
  BY ListMembers DEF IInv, TypeOK
<1>3. /\ timers' \in Seq(Timer) /\ Len(timers') = Len(timers) - 1
      /\ \A j \in 1..Len(timers) - 1 :
           timers'[j] = IF j < i THEN timers[j] ELSE timers[j + 1]
  BY <1>1, <1>2, RemoveAtProperties
<1>4. DOMAIN timers' = 1..Len(timers')
  BY <1>3, LenProperties
<1> QED BY <1>3, <1>4

\* The list after the earliest timer fired.
LEMMA ListAfterFire ==
  ASSUME IInv, fire_due \/ fire_slept
  PROVE  /\ timers' \in Seq(Timer) /\ DOMAIN timers' = 1..Len(timers) - 1
         /\ \A j \in 1..Len(timers) - 1 : timers'[j] = timers[j + 1]
<1>1. timers # <<>> /\ timers' = Tail(timers)
  BY DEF IInv, fire_due, fire_slept, fire, DueAfterPoll, AtEachPoint
<1>2. timers \in Seq(Timer)
  BY DEF IInv, TypeOK
<1>3. /\ timers' \in Seq(Timer) /\ Len(timers') = Len(timers) - 1
      /\ \A j \in 1..Len(timers') : timers'[j] = timers[j + 1]
  BY <1>1, <1>2, HeadTailProperties
<1>4. DOMAIN timers' = 1..Len(timers')
  BY <1>3, LenProperties
<1> QED BY <1>3, <1>4

\* cancel_timer and fire leave registrations out and reorder none.
LEMMA ListShrinks ==
  ASSUME IInv, cancel_timer \/ fire_due \/ fire_slept
  PROVE  /\ left' = left /\ unused' = unused
         /\ \A j \in DOMAIN timers' : \E m \in DOMAIN timers : timers'[j] = timers[m]
         /\ \A j, k \in DOMAIN timers' : j < k =>
              \E m, n \in DOMAIN timers :
                m < n /\ timers'[j] = timers[m] /\ timers'[k] = timers[n]
<1>1. left' = left /\ unused' = unused
  BY DEF cancel_timer, fire_due, fire_slept, programVars
<1>2. PICK i \in 1..Len(timers) + 1 :
        /\ DOMAIN timers' = 1..Len(timers) - 1
        /\ \A j \in 1..Len(timers) - 1 :
             timers'[j] = IF j < i THEN timers[j] ELSE timers[j + 1]
  <2>1. Len(timers) \in Nat /\ DOMAIN timers = 1..Len(timers)
    BY ListMembers DEF IInv
  <2>2. CASE cancel_timer
    BY <2>1, <2>2, ListAfterCancel
  <2>3. CASE fire_due \/ fire_slept
    <3>1. 1 \in 1..Len(timers) + 1
      BY <2>1
    <3>2. \A j \in 1..Len(timers) - 1 : ~(j < 1)
      BY <2>1
    <3> QED BY <2>3, <3>1, <3>2, ListAfterFire
  <2> QED BY <2>2, <2>3
<1>3. Len(timers) \in Nat /\ DOMAIN timers = 1..Len(timers)
  BY ListMembers DEF IInv
<1>4. ASSUME NEW j \in DOMAIN timers'
      PROVE  \E m \in DOMAIN timers : timers'[j] = timers[m]
  <2>1. j \in DOMAIN timers /\ j + 1 \in DOMAIN timers
    BY <1>2, <1>3
  <2> QED BY <1>2, <2>1
<1>5. ASSUME NEW j \in DOMAIN timers', NEW k \in DOMAIN timers', j < k
      PROVE  \E m, n \in DOMAIN timers :
               m < n /\ timers'[j] = timers[m] /\ timers'[k] = timers[n]
  <2>1. {j, j + 1, k, k + 1} \subseteq DOMAIN timers
    BY <1>2, <1>3
  <2>2. CASE j < i /\ k < i
    BY <1>2, <1>5, <2>1, <2>2
  <2>3. CASE j < i /\ ~(k < i)
    <3>1. j < k + 1 /\ timers'[j] = timers[j] /\ timers'[k] = timers[k + 1]
      BY <1>2, <1>3, <1>5, <2>3
    <3> QED BY <2>1, <3>1
  <2>4. CASE ~(j < i)
    <3>1. ~(k < i)
      BY <1>2, <1>3, <1>5, <2>4
    <3>2. /\ j + 1 < k + 1
          /\ timers'[j] = timers[j + 1] /\ timers'[k] = timers[k + 1]
      BY <1>2, <1>3, <1>5, <2>4, <3>1
    <3> QED BY <2>1, <3>2
  <2> QED BY <2>2, <2>3, <2>4
<1> QED BY <1>1, <1>4, <1>5

\* Every value has its type after every step.
LEMMA TypesAreKept ==
  ASSUME IInv, Next
  PROVE  TypeOK'
<1> USE DEF IInv, TypeOK
<1>1. (timers \in Seq(Timer))'
  <2>1. CASE tick
    BY <2>1 DEF tick
  <2> QED
    BY <2>1, ListSteps, ListAfterRegister, ListAfterCancel, ListAfterFire
<1>2. (left \in [Timer -> 0..MaxDelay])'
  <2>1. CASE register_timer
    BY <2>1 DEF register_timer
  <2>2. CASE tick
    BY <2>2, DownKeepsOrder DEF tick
  <2> QED BY <2>1, <2>2, ListSteps DEF cancel_timer, fire_due, fire_slept
<1>3. /\ (io \in SUBSET Source)' /\ (open \in [Source -> BOOLEAN])'
      /\ (ready \in [Source -> BOOLEAN])' /\ (fresh \in SUBSET Source)'
  <2>1. CASE register_io
    BY <2>1 DEF register_io
  <2>2. CASE close_io
    BY <2>2 DEF close_io
  <2>3. CASE poll_io
    BY <2>3 DEF poll_io, Retained, programVars
  <2>4. CASE arrive
    BY <2>4 DEF arrive, programVars
  <2>5. CASE UNCHANGED <<io, open, ready, fresh>>
    BY <2>5
  <2> QED
    BY <2>1, <2>2, <2>3, <2>4, <2>5
    DEF Next, Loop, register_timer, cancel_timer, drained, fire_due, none_due,
      wait_io, block_returns, sleep_returns, advance_timers, fire_slept,
      exit_loop, tick, Terminated, vars, programVars
<1>4. (unused \in SUBSET Timer)' /\ (steps \in 0..MaxSteps)'
  <2>1. CASE register_timer
    BY <2>1, EventLoopAssumption DEF register_timer, Program
  <2>2. CASE cancel_timer \/ register_io \/ close_io
    BY <2>2, EventLoopAssumption DEF cancel_timer, register_io, close_io, Program
  <2>3. CASE UNCHANGED programVars
    BY <2>3 DEF programVars
  <2> QED
    BY <2>1, <2>2, <2>3
    DEF Next, Loop, drained, poll_io, fire_due, none_due, wait_io,
      block_returns, sleep_returns, advance_timers, fire_slept, exit_loop,
      arrive, tick, Terminated, vars, programVars
<1>5. (awake \in BOOLEAN)'
  BY DEF Next, Loop, register_timer, cancel_timer, register_io, close_io,
    Program, drained, poll_io, fire_due, none_due, wait_io, block_returns,
    sleep_returns, advance_timers, fire_slept, fire, exit_loop, arrive, tick,
    Terminated, vars
<1>6. (wake \in 0..Forever)'
  <2>1. CASE wait_io
    BY <2>1, BlockLimitIsEarliest, EventLoopAssumption
    DEF wait_io, IdleWait, Forever
  <2>2. CASE advance_timers
    BY <2>2, BlockLimitIsEarliest, EventLoopAssumption
    DEF advance_timers, Forever
  <2>3. CASE tick
    BY <2>3, DownKeepsOrder DEF tick
  <2>4. CASE UNCHANGED wake
    BY <2>4 DEF Forever
  <2> QED
    BY <2>1, <2>2, <2>3, <2>4
    DEF Next, Loop, register_timer, cancel_timer, register_io, close_io,
      Program, drained, poll_io, fire_due, none_due, block_returns,
      sleep_returns, fire_slept, exit_loop, arrive, Terminated, vars
<1> QED BY <1>1, <1>2, <1>3, <1>4, <1>5, <1>6

\* register_timer files a registration at its place, the others keep the order.
LEMMA OrderIsKept ==
  ASSUME IInv, Next
  PROVE  InFiringOrder'
<1>0. TypeOK /\ InFiringOrder /\ ListedAreUsed
  BY DEF IInv
<1>1. CASE register_timer
  <2>1. PICK s \in unused, d \in 0..MaxDelay, i \in 1..Len(timers) + 1 :
          /\ left' = [left EXCEPT ![s] = d]
          /\ Place(i, d)
          /\ DOMAIN timers' = 1..Len(timers) + 1
          /\ \A j \in 1..Len(timers) + 1 : timers'[j] =
               IF j < i THEN timers[j] ELSE IF j = i THEN s ELSE timers[j - 1]
    BY <1>1, ListAfterRegister
  <2>2. s \in Timer /\ d \in Nat /\ left'[s] = d
    BY <1>0, <2>1 DEF TypeOK
  <2>3. \A j \in 1..Len(timers) :
          /\ timers[j] # s /\ left'[timers[j]] = left[timers[j]]
          /\ left[timers[j]] \in Nat
          /\ j < i <=> left[timers[j]] <= d
    BY <1>0, <2>1, ListMembers DEF ListedAreUsed, TypeOK, Place
  <2>4. SUFFICES ASSUME NEW j \in 1..Len(timers) + 1, NEW k \in 1..Len(timers) + 1, j < k
                 PROVE  left'[timers'[j]] <= left'[timers'[k]]
    BY <2>1 DEF InFiringOrder
  <2>5. Len(timers) \in Nat /\ DOMAIN timers = 1..Len(timers)
    BY <1>0, ListMembers
  <2>6. CASE k < i
    <3>1. j \in 1..Len(timers) /\ k \in 1..Len(timers)
      BY <2>1, <2>4, <2>5, <2>6
    <3>2. timers'[j] = timers[j] /\ timers'[k] = timers[k]
      BY <2>1, <2>4, <2>6
    <3> QED BY <1>0, <2>3, <2>4, <2>5, <3>1, <3>2 DEF InFiringOrder
  <2>7. CASE k = i
    <3>1. j \in 1..Len(timers) /\ j < i
      BY <2>1, <2>4, <2>5, <2>7
    <3>2. timers'[j] = timers[j] /\ timers'[k] = s
      BY <2>1, <2>4, <2>7
    <3> QED BY <2>2, <2>3, <3>1, <3>2
  <2>8. CASE k > i /\ j = i
    <3>1. k - 1 \in 1..Len(timers) /\ ~(k - 1 < i)
      BY <2>1, <2>4, <2>5, <2>8
    <3>2. timers'[j] = s /\ timers'[k] = timers[k - 1]
      BY <2>1, <2>4, <2>8
    <3> QED BY <2>2, <2>3, <3>1, <3>2
  <2>9. CASE k > i /\ j < i
    <3>1. k - 1 \in 1..Len(timers) /\ ~(k - 1 < i) /\ j \in 1..Len(timers)
      BY <2>1, <2>4, <2>5, <2>9
    <3>2. timers'[j] = timers[j] /\ timers'[k] = timers[k - 1]
      BY <2>1, <2>4, <2>9
    <3> QED BY <2>2, <2>3, <2>9, <3>1, <3>2
  <2>10. CASE k > i /\ j > i
    <3>1. k - 1 \in 1..Len(timers) /\ j - 1 \in 1..Len(timers) /\ j - 1 < k - 1
      BY <2>1, <2>4, <2>5, <2>10
    <3>2. timers'[j] = timers[j - 1] /\ timers'[k] = timers[k - 1]
      BY <2>1, <2>4, <2>10
    <3> QED BY <1>0, <2>3, <2>5, <3>1, <3>2 DEF InFiringOrder
  <2> QED BY <2>1, <2>4, <2>5, <2>6, <2>7, <2>8, <2>9, <2>10
<1>2. CASE cancel_timer \/ fire_due \/ fire_slept
  BY <1>0, <1>2, ListShrinks DEF InFiringOrder
<1>3. CASE tick
  <2>1. timers' = timers /\ left' = [s \in Timer |-> Down(left[s])]
    BY <1>3 DEF tick
  <2>2. \A i \in DOMAIN timers : left'[timers[i]] = Down(left[timers[i]])
    BY <1>0, <2>1, ListMembers
  <2>3. \A m, n \in 0..MaxDelay : m <= n => Down(m) <= Down(n)
    BY DownKeepsOrder, EventLoopAssumption DEF Forever
  <2> QED BY <1>0, <2>1, <2>2, <2>3, ListMembers DEF InFiringOrder
<1>4. CASE UNCHANGED <<timers, left>>
  BY <1>0, <1>4 DEF InFiringOrder
<1> QED BY <1>1, <1>2, <1>3, <1>4, ListSteps

\* Only register_timer lists a timer, and uses it.
LEMMA UseIsKept ==
  ASSUME IInv, Next
  PROVE  ListedAreUsed'
<1>0. TypeOK /\ ListedAreUsed
  BY DEF IInv
<1>1. CASE register_timer
  BY <1>0, <1>1, ListAfterRegister, ListMembers DEF ListedAreUsed
<1>2. CASE cancel_timer \/ fire_due \/ fire_slept
  BY <1>0, <1>2, ListShrinks DEF ListedAreUsed
<1>3. CASE UNCHANGED <<timers, unused>>
  BY <1>0, <1>3 DEF ListedAreUsed
<1> QED
  BY <1>1, <1>2, <1>3
  DEF Next, Loop, register_io, close_io, drained, poll_io, none_due, wait_io,
    block_returns, sleep_returns, advance_timers, exit_loop, arrive, tick,
    Terminated, vars, programVars

\* register_io lists a source before it opens it, poll_io drops closed ones only.
LEMMA LivenessIsKept ==
  ASSUME IInv, Next
  PROVE  LiveAreRegistered'
<1>0. TypeOK /\ LiveAreRegistered
  BY DEF IInv
<1>1. CASE register_io
  BY <1>0, <1>1 DEF register_io, LiveAreRegistered, TypeOK
<1>2. CASE close_io
  BY <1>0, <1>2 DEF close_io, LiveAreRegistered, TypeOK
<1>3. CASE poll_io
  <2>1. PICK closed \in SUBSET {x \in io : ready[x]} :
          /\ open' = [x \in Source |-> open[x] /\ x \notin closed]
          /\ io' = Retained(closed)
    BY <1>3 DEF poll_io
  <2> QED BY <1>0, <2>1 DEF LiveAreRegistered, Retained
<1>4. CASE UNCHANGED <<io, open>>
  BY <1>0, <1>4 DEF LiveAreRegistered
<1> QED
  BY <1>1, <1>2, <1>3, <1>4
  DEF Next, Loop, register_timer, cancel_timer, drained, fire_due, none_due,
    wait_io, block_returns, sleep_returns, advance_timers, fire_slept, exit_loop,
    arrive, tick, Terminated, vars

\* Every point of the loop is entered with what it relies on.
LEMMA PointsAreKept ==
  ASSUME IInv, Next
  PROVE  AtEachPoint'
<1>0. TypeOK /\ AtEachPoint
  BY DEF IInv
<1>1. CASE register_timer \/ cancel_timer \/ register_io \/ close_io
  BY <1>0, <1>1 DEF AtEachPoint, register_timer, cancel_timer, register_io,
    close_io, Program
<1>2. CASE drained
  BY <1>2 DEF AtEachPoint, drained
<1>3. CASE poll_io
  BY <1>3 DEF AtEachPoint, poll_io
<1>4. CASE fire_due \/ fire_slept
  BY <1>4 DEF AtEachPoint, fire_due, fire_slept, fire
<1>5. CASE none_due
  BY <1>0, <1>5 DEF AtEachPoint, none_due
<1>6. CASE wait_io
  <2>1. CASE \E x \in io : Blockable(x)
    BY <1>0, <1>6, <2>1 DEF AtEachPoint, wait_io, Blockable, Sole
  <2>2. CASE ~\E x \in io : Blockable(x)
    <3>1. pc' = "asleep" /\ wake' = IdleWait /\ awake' = awake
      BY <1>6, <2>2 DEF wait_io
    <3>2. IdleWait <= Interval
      BY <1>0, BlockLimitIsEarliest, EventLoopAssumption DEF IInv, IdleWait, Forever
    <3> QED BY <1>0, <1>6, <3>1, <3>2 DEF AtEachPoint, wait_io
  <2> QED BY <2>1, <2>2
<1>7. CASE block_returns \/ sleep_returns
  BY <1>7 DEF AtEachPoint, block_returns, sleep_returns
<1>8. CASE advance_timers
  BY <1>0, <1>8 DEF AtEachPoint, advance_timers
<1>9. CASE exit_loop
  BY <1>0, <1>9 DEF AtEachPoint, exit_loop, NothingLeft
<1>10. CASE arrive
  BY <1>0, <1>10 DEF AtEachPoint, arrive, NothingLeft
<1>11. CASE tick
  <2>1. UNCHANGED <<timers, io, awake, pc>> /\ wake' = Down(wake) /\ pc # "done"
    BY <1>11 DEF tick
  <2>2. pc = "asleep" => Down(wake) <= Interval
    BY <1>0, EventLoopAssumption DEF AtEachPoint, TypeOK, Down, Forever
  <2> QED BY <1>0, <2>1, <2>2 DEF AtEachPoint
<1>12. CASE Terminated
  BY <1>0, <1>12 DEF AtEachPoint, Terminated, vars, NothingLeft
<1> QED
  BY <1>1, <1>2, <1>3, <1>4, <1>5, <1>6, <1>7, <1>8, <1>9, <1>10, <1>11, <1>12
  DEF Next, Loop

\* A wait starts at the earliest deadline at the latest, and the deadlines come
\* nearer no faster than its end.
LEMMA DeadlinesAreKept ==
  ASSUME IInv, Next
  PROVE  NeverWaitsPastADeadline'
<1>0. TypeOK /\ InFiringOrder /\ AtEachPoint /\ NeverWaitsPastADeadline
  BY DEF IInv
<1>1. \A i \in DOMAIN timers : left[timers[i]] \in 0..MaxDelay
  BY <1>0, ListMembers
<1>2. CASE wait_io
  <2>1. wake' = BlockLimit \/ wake' = IdleWait
    BY <1>2 DEF wait_io
  <2>2. \A i \in DOMAIN timers :
          BlockLimit <= left[timers[i]] /\ IdleWait <= left[timers[i]]
    BY <1>0, <1>1, BlockLimitIsEarliest, EventLoopAssumption DEF IdleWait, Forever
  <2> QED BY <1>2, <2>1, <2>2 DEF wait_io, NeverWaitsPastADeadline
<1>3. CASE advance_timers
  BY <1>0, <1>3, BlockLimitIsEarliest DEF advance_timers, NeverWaitsPastADeadline
<1>4. CASE tick
  <2>1. /\ UNCHANGED <<timers, pc>> /\ wake' = Down(wake)
        /\ left' = [s \in Timer |-> Down(left[s])]
    BY <1>4 DEF tick
  <2>2. \A i \in DOMAIN timers : left'[timers[i]] = Down(left[timers[i]])
    BY <1>0, <2>1, ListMembers
  <2>3. Waiting => \A i \in DOMAIN timers : Down(wake) <= Down(left[timers[i]])
    <3>1. wake \in 0..Forever /\ \A i \in DOMAIN timers : left[timers[i]] \in 0..Forever
      BY <1>0, <1>1, EventLoopAssumption DEF TypeOK, Forever
    <3> QED BY <1>0, <3>1, DownKeepsOrder DEF NeverWaitsPastADeadline
  <2> QED BY <2>1, <2>2, <2>3 DEF NeverWaitsPastADeadline, Waiting
<1>5. CASE arrive \/ Terminated
  BY <1>0, <1>5 DEF arrive, Terminated, vars, NeverWaitsPastADeadline, Waiting
<1>6. CASE pc' \in {"drain", "turn", "due", "idle", "done"}
  BY <1>6 DEF NeverWaitsPastADeadline, Waiting
<1> QED
  BY <1>2, <1>3, <1>4, <1>5, <1>6
  DEF Next, Loop, register_timer, cancel_timer, register_io, close_io, Program,
    drained, poll_io, fire_due, none_due, block_returns, sleep_returns,
    fire_slept, fire, exit_loop

-----------------------------------------------------------------------------
(***************************************************************************)
(* The theorems.                                                           *)
(***************************************************************************)

\* The start of run_pending satisfies the invariant.
LEMMA InitIInv == Init => IInv
BY EmptySeq, EventLoopAssumption
DEF Init, IInv, TypeOK, InFiringOrder, ListedAreUsed, LiveAreRegistered,
  AtEachPoint, NeverWaitsPastADeadline, Waiting, Forever

\* So does every state that follows one.
LEMMA NextIInv == IInv /\ [Next]_vars => IInv'
<1> SUFFICES ASSUME IInv, [Next]_vars PROVE IInv'
  OBVIOUS
<1>1. CASE Next
  BY <1>1, TypesAreKept, OrderIsKept, UseIsKept, LivenessIsKept, PointsAreKept,
    DeadlinesAreKept DEF IInv
<1>2. CASE UNCHANGED vars
  BY <1>2 DEF vars, programVars, IInv, TypeOK, InFiringOrder, ListedAreUsed,
    LiveAreRegistered, AtEachPoint, NeverWaitsPastADeadline, Waiting, NothingLeft
<1> QED BY <1>1, <1>2

\* The invariant of advance_macrotasks: the deadline list is in firing order and
\* each point of the loop is entered with what it relies on.
THEOREM LoopInvariant == Spec => []IInv
BY InitIInv, NextIInv, PTL DEF Spec

\* block and the waits, with any timers, sources and delays: no wait lasts past
\* a deadline.
THEOREM NoWaitPastADeadline == Spec => []NeverWaitsPastADeadline
<1>1. IInv => NeverWaitsPastADeadline
  BY DEF IInv
<1> QED BY <1>1, LoopInvariant, PTL

\* IoSource, with any sources, blocking or not: a loop with a source to watch
\* waits a poll interval at most, unless the wait is the sole source's own.
THEOREM SourcesStayWatched == Spec => []SourcesAreWatched
<1>1. IInv => SourcesAreWatched
  BY DEF IInv, AtEachPoint, SourcesAreWatched, Waiting
<1> QED BY <1>1, LoopInvariant, PTL

\* run_pending and block_on: whatever the program registers, the loop ends only
\* with no task queued, no timer armed and no source live.
THEOREM EndIsIdle == Spec => []EndsOnlyWhenIdle
<1>1. IInv => EndsOnlyWhenIdle
  BY DEF IInv, AtEachPoint, LiveAreRegistered, EndsOnlyWhenIdle, NothingLeft
<1> QED BY <1>1, LoopInvariant, PTL

=============================================================================
