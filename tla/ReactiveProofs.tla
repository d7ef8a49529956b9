--------------------------- MODULE ReactiveProofs ---------------------------
(***************************************************************************)
(* Safety of std::reactive's scheduler, for any cells, observers and turns:  *)
(* no change is lost, no write is stranded, a run goes after its parent's   *)
(* and ends with it, and what was disposed never fires.                     *)
(***************************************************************************)
EXTENDS Reactive, FiniteSetTheorems, SequenceTheorems, WellFoundedInduction, TLAPS

-----------------------------------------------------------------------------
(***************************************************************************)
(* Lists: what is built along one, and the two operators on queues.         *)
(***************************************************************************)

\* A set of numbers that is not empty has a least element.
LEMMA LeastOf ==
  ASSUME NEW S \in SUBSET Nat, S # {}
  PROVE  \E m \in S : \A n \in S : m <= n
<1> DEFINE R == StrictSubsetOrdering(Nat)
           T == {0..n : n \in S}
<1>1. T \subseteq FiniteSubsetsOf(Nat) /\ T # {}
  <2>1. ASSUME NEW n \in S PROVE 0..n \in SUBSET Nat /\ IsFiniteSet(0..n)
    <3>1. 0 \in Int /\ n \in Int /\ 0..n \subseteq Nat
      OBVIOUS
    <3> QED BY <3>1, FS_Interval
  <2> QED BY <2>1 DEF FiniteSubsetsOf
<1>2. \E x \in T : \A y \in T : <<y, x>> \notin R
  <2>1. IsWellFoundedOn(R, FiniteSubsetsOf(Nat))
    BY FS_StrictSubsetOrderingWellFounded
  <2> HIDE DEF R, T
  <2> QED BY <1>1, <2>1, WFMin
<1>3. PICK m \in S : \A n \in S : <<0..n, 0..m>> \notin R
  BY <1>2
<1>4. ASSUME NEW n \in S, n < m PROVE FALSE
  <2>1. 0..n \in SUBSET Nat /\ 0..m \in SUBSET Nat /\ 0..n \subseteq 0..m /\ 0..n # 0..m
    BY <1>4
  <2> QED BY <1>3, <2>1 DEF StrictSubsetOrdering
<1> QED BY <1>4

\* What holds at 0, and goes from one number to the next, holds up to L.
LEMMA UpTo ==
  ASSUME NEW L \in Nat, NEW Good, 0 \in Good,
         \A n \in 1..L : n - 1 \in Good => n \in Good
  PROVE  \A n \in 0..L : n \in Good
<1> DEFINE Bad == {n \in 0..L : n \notin Good}
<1>1. SUFFICES ASSUME Bad # {} PROVE FALSE
  OBVIOUS
<1>2. PICK m \in Bad : \A n \in Bad : m <= n
  <2>1. Bad \in SUBSET Nat
    OBVIOUS
  <2> HIDE DEF Bad
  <2> QED BY <1>1, <2>1, LeastOf
<1>3. m \in 1..L /\ m \notin Good
  OBVIOUS
<1>4. m - 1 \in 0..L /\ ~ (m <= m - 1)
  BY <1>3
<1>5. m - 1 \in Good
  BY <1>2, <1>4
<1> QED BY <1>3, <1>5

\* F builds from x along the list.
Along(h, x, F, list, m) == h[0] = x /\ \A n \in 1..m : h[n] = F[<<h[n - 1], list[n]>>]

LEMMA AlongIsDefined ==
  ASSUME NEW S, NEW A, NEW x \in S, NEW F \in [S \X A -> S], NEW list \in Seq(A)
  PROVE  \E h \in [0..Len(list) -> S] : Along(h, x, F, list, Len(list))
<1> DEFINE L == Len(list)
           Good == {m \in 0..L : \E h \in [0..m -> S] : Along(h, x, F, list, m)}
<1>1. L \in Nat /\ \A n \in 1..L : list[n] \in A
  BY LenProperties
<1>2. 0 \in Good
  <2> DEFINE h == [n \in 0..0 |-> x]
  <2>1. h \in [0..0 -> S] /\ Along(h, x, F, list, 0)
    BY DEF Along
  <2> QED BY <1>1, <2>1
<1>3. ASSUME NEW m \in 1..L, m - 1 \in Good PROVE m \in Good
  <2>1. PICK h \in [0..m - 1 -> S] : Along(h, x, F, list, m - 1)
    BY <1>3
  <2> DEFINE last == F[<<h[m - 1], list[m]>>]
             g == [n \in 0..m |-> IF n = m THEN last ELSE h[n]]
  <2>2. m - 1 \in 0..m - 1 /\ m \in Nat /\ m # 0
    BY <1>1
  <2>3. last \in S
    BY <1>1, <2>2
  <2>4. g \in [0..m -> S]
    BY <2>3
  <2>5. g[0] = x
    BY <2>1, <2>2 DEF Along
  <2>6. ASSUME NEW n \in 1..m PROVE g[n] = F[<<g[n - 1], list[n]>>]
    <3>1. n - 1 \in 0..m /\ n - 1 # m /\ n \in 0..m
      BY <2>2
    <3>2. g[n - 1] = h[n - 1]
      BY <3>1
    <3>3. CASE n = m
      BY <3>1, <3>2, <3>3
    <3>4. CASE n # m
      <4>1. n \in 1..m - 1
        BY <2>2, <3>4
      <4>2. h[n] = F[<<h[n - 1], list[n]>>]
        BY <2>1, <4>1 DEF Along
      <4> QED BY <3>1, <3>2, <3>4, <4>2
    <3> QED BY <3>3, <3>4
  <2>7. Along(g, x, F, list, m)
    <3> HIDE DEF g
    <3> QED BY <2>5, <2>6 DEF Along
  <2> HIDE DEF g
  <2>8. m \in 0..L
    BY <1>1
  <2> QED BY <2>4, <2>7, <2>8
<1> HIDE DEF Good, L
<1>4. \A n \in 0..L : n \in Good
  BY <1>1, <1>2, <1>3, UpTo
<1>5. L \in Good
  BY <1>1, <1>4
<1> QED BY <1>5 DEF Good, L

\* The greatest of some numbers up to L.
LEMMA MaxOf ==
  ASSUME NEW L \in Nat, NEW S \in SUBSET (0..L), S # {}
  PROVE  Max(S) \in S /\ \A y \in S : Max(S) >= y
<1> DEFINE U == {n \in 0..L : \A y \in S : y <= n}
<1>1. U \in SUBSET Nat /\ L \in U
  OBVIOUS
<1>2. PICK m \in U : \A n \in U : m <= n
  <2> HIDE DEF U
  <2> QED BY <1>1, LeastOf
<1>3. m \in S
  <2> SUFFICES ASSUME m \notin S PROVE FALSE
    OBVIOUS
  <2>1. \A y \in S : y \in 0..L /\ y <= m /\ y # m
    OBVIOUS
  <2>5. \E y \in S : TRUE
    OBVIOUS
  <2>2. m \in 0..L /\ m # 0
    BY <2>1, <2>5
  <2>3. m - 1 \in 0..L /\ \A y \in S : y <= m - 1
    BY <2>1, <2>2
  <2>4. m - 1 \in U /\ ~ (m <= m - 1)
    BY <2>2, <2>3
  <2> QED BY <1>2, <2>4
<1>4. \E x \in S : \A y \in S : x >= y
  BY <1>3
<1> QED BY <1>4 DEF Max

Ascending(q) == \A i, j \in DOMAIN q : i < j => q[i] <= q[j]

\* An element put in after the n-th.
LEMMA InsertAtIs ==
  ASSUME NEW q \in Seq(Nat), NEW s \in Nat, NEW n \in 0..Len(q)
  PROVE  LET d == InsertAt(q, n + 1, s)
         IN  /\ d \in Seq(Nat) /\ Len(d) = Len(q) + 1
             /\ \A i \in 1..n : d[i] = q[i]
             /\ d[n + 1] = s
             /\ \A i \in n + 2..Len(q) + 1 : d[i] = q[i - 1]
<1> DEFINE a == SubSeq(q, 1, n)
           b == SubSeq(q, n + 1, Len(q))
           c == a \o <<s>>
           d == c \o b
<1>1. Len(q) \in Nat /\ n \in Nat /\ n <= Len(q)
  OBVIOUS
<1>2. InsertAt(q, n + 1, s) = d
  <2>1. (n + 1) - 1 = n
    BY <1>1
  <2>2. InsertAt(q, n + 1, s) = SubSeq(q, 1, (n + 1) - 1) \o <<s>> \o SubSeq(q, n + 1, Len(q))
    BY DEF InsertAt
  <2> QED BY <2>1, <2>2
<1>3. a \in Seq(Nat) /\ Len(a) = n /\ \A i \in 1..n : a[i] = q[i]
  BY <1>1
<1>4. b \in Seq(Nat)
  BY <1>1
<1>5. Len(b) = Len(q) - n
  <2>1. Len(q) + 1 - (n + 1) = Len(q) - n /\ Len(q) - n \in Nat
    BY <1>1
  <2> QED BY <1>1, <2>1, SubSeqProperties
<1>6. ASSUME NEW i \in 1..Len(q) - n PROVE b[i] = q[n + i]
  <2>1. n + 1 + i - 1 = n + i /\ i \in Nat
    BY <1>1
  <2>3. n + 1 \in Int /\ Len(q) \in Int /\ i \in 1..Len(q) - (n + 1) + 1
    BY <1>1
  <2>4. \A x \in n + 1..Len(q) : q[x] \in Nat
    BY <1>1
  <2>2. b[i] = q[n + 1 + i - 1]
    BY <2>3, <2>4, SubSeqProperties
  <2> QED BY <2>1, <2>2
<1> HIDE DEF a, b
<1>7. c \in Seq(Nat) /\ Len(c) = n + 1
  BY <1>1, <1>3
<1>8. c[n + 1] = s /\ \A i \in 1..n : c[i] = q[i]
  BY <1>1, <1>3
<1> HIDE DEF c
<1>9. d \in Seq(Nat) /\ Len(d) = Len(q) + 1
  BY <1>1, <1>4, <1>5, <1>7
<1>10. \A i \in 1..n + 1 : d[i] = c[i]
  BY <1>1, <1>4, <1>5, <1>7
<1>11. ASSUME NEW i \in n + 2..Len(q) + 1 PROVE d[i] = q[i - 1]
  <2>1. i - (n + 1) \in 1..Len(q) - n /\ i = n + 1 + (i - (n + 1)) /\ n + (i - (n + 1)) = i - 1
    BY <1>1
  <2>2. d[i] = b[i - (n + 1)]
    <3>1. i \in 1..Len(c) + Len(b) /\ ~ (i <= Len(c)) /\ i - Len(c) = i - (n + 1)
      BY <1>1, <1>5, <1>7
    <3>2. d[i] = IF i <= Len(c) THEN c[i] ELSE b[i - Len(c)]
      BY <1>4, <1>7, <3>1, ConcatProperties
    <3> QED BY <3>1, <3>2
  <2> QED BY <1>6, <2>1, <2>2
<1> HIDE DEF d
<1>12. n + 1 \in 1..n + 1 /\ \A i \in 1..n : i \in 1..n + 1
  BY <1>1
<1> QED BY <1>2, <1>8, <1>9, <1>10, <1>11, <1>12

\* Where an element goes in.
LEMMA InsertedIs ==
  ASSUME NEW q \in Seq(Nat), NEW s \in Nat
  PROVE  \E n \in 0..Len(q) :
           /\ Inserted(q, s) = InsertAt(q, n + 1, s)
           /\ n # 0 => q[n] <= s
           /\ \A i \in n + 1..Len(q) : q[i] > s
<1> DEFINE S == {0} \cup {k \in DOMAIN q : q[k] <= s}
<1>1. Len(q) \in Nat /\ DOMAIN q = 1..Len(q)
  OBVIOUS
<1>2. S \in SUBSET (0..Len(q)) /\ S # {}
  BY <1>1
<1>3. Max(S) \in S /\ \A y \in S : Max(S) >= y
  <2> HIDE DEF S
  <2> QED BY <1>1, <1>2, MaxOf
<1>4. PICK n \in 0..Len(q) : n = Max(S)
  <2> HIDE DEF S
  <2> QED BY <1>2, <1>3
<1>5. n # 0 => q[n] <= s
  BY <1>3, <1>4
<1>6. ASSUME NEW i \in n + 1..Len(q) PROVE q[i] > s
  <2>1. i \in DOMAIN q /\ ~ (n >= i) /\ q[i] \in Nat
    BY <1>1
  <2> QED BY <1>3, <1>4, <2>1
<1>7. Inserted(q, s) = InsertAt(q, n + 1, s)
  BY <1>4 DEF Inserted
<1> QED BY <1>5, <1>6, <1>7

LEMMA InsertedEffect ==
  ASSUME NEW q \in Seq(Nat), NEW s \in Nat
  PROVE  /\ Inserted(q, s) \in Seq(Nat)
         /\ Range(Inserted(q, s)) = Range(q) \cup {s}
         /\ Ascending(q) => Ascending(Inserted(q, s))
<1> DEFINE r == Inserted(q, s)
           L == Len(q)
<1>1. PICK n \in 0..Len(q) :
           /\ r \in Seq(Nat) /\ Len(r) = L + 1
           /\ \A i \in 1..n : r[i] = q[i]
           /\ r[n + 1] = s
           /\ \A i \in n + 2..L + 1 : r[i] = q[i - 1]
           /\ n # 0 => q[n] <= s
           /\ \A i \in n + 1..L : q[i] > s
  <2>1. PICK n \in 0..L : r = InsertAt(q, n + 1, s) /\ (n # 0 => q[n] <= s) /\ \A i \in n + 1..L : q[i] > s
    BY InsertedIs
  <2> DEFINE d == InsertAt(q, n + 1, s)
  <2>2. /\ d \in Seq(Nat) /\ Len(d) = L + 1
        /\ \A i \in 1..n : d[i] = q[i]
        /\ d[n + 1] = s
        /\ \A i \in n + 2..L + 1 : d[i] = q[i - 1]
    BY InsertAtIs
  <2>3. r = d
    BY <2>1
  <2> HIDE DEF r, d
  <2> QED BY <2>1, <2>2, <2>3
<1>2. L \in Nat /\ DOMAIN q = 1..L /\ \A i \in 1..L : q[i] \in Nat
  OBVIOUS
<1> HIDE DEF r
<1>3. DOMAIN r = 1..L + 1
  BY <1>1
<1> HIDE DEF L
<1>4. ASSUME NEW i \in 1..L + 1 PROVE r[i] \in Range(q) \cup {s}
  <2>1. i \in 1..n \/ i = n + 1 \/ (i \in n + 2..L + 1 /\ i - 1 \in 1..L)
    BY <1>1, <1>2 DEF L
  <2>2. CASE i \in 1..n
    <3>1. i \in 1..L /\ r[i] = q[i]
      BY <1>1, <1>2, <2>2 DEF L
    <3> QED BY <1>2, <3>1 DEF Range
  <2>3. CASE i = n + 1
    BY <1>1, <2>3
  <2>4. CASE i \in n + 2..L + 1 /\ i - 1 \in 1..L
    <3>1. r[i] = q[i - 1]
      BY <1>1, <2>4
    <3> QED BY <1>2, <2>4, <3>1 DEF Range
  <2> QED BY <2>1, <2>2, <2>3, <2>4
<1>5. ASSUME NEW i \in 1..L PROVE \E j \in 1..L + 1 : r[j] = q[i]
  <2>1. (i \in 1..n /\ i \in 1..L + 1) \/ (i + 1 \in n + 2..L + 1 /\ i + 1 \in 1..L + 1 /\ i + 1 - 1 = i)
    BY <1>1, <1>2 DEF L
  <2> QED BY <1>1, <2>1
<1>6. Range(r) = Range(q) \cup {s}
  <2>1. s = r[n + 1] /\ n + 1 \in 1..L + 1
    BY <1>1, <1>2 DEF L
  <2> QED BY <1>2, <1>3, <1>4, <1>5, <2>1 DEF Range
<1>7. ASSUME Ascending(q), NEW i \in 1..L + 1, NEW j \in 1..L + 1, i < j
      PROVE  r[i] <= r[j]
  <2>1. \A x, y \in 1..L : x < y => q[x] <= q[y]
    BY <1>2, <1>7 DEF Ascending
  <2>2. ASSUME NEW x \in 1..n PROVE q[x] <= s
    <3>1. x \in 1..L /\ n \in 1..L /\ (x = n \/ x < n) /\ q[n] <= s
      BY <1>1, <1>2 DEF L
    <3>2. q[x] \in Nat /\ q[n] \in Nat /\ q[x] <= q[n]
      BY <1>2, <2>1, <3>1
    <3> QED BY <3>1, <3>2
  <2>3. \A x \in n + 1..L : q[x] > s
    BY <1>1
  <2>4. CASE i \in 1..n /\ j \in 1..n
    <3>1. i \in 1..L /\ j \in 1..L
      BY <1>1, <1>2, <2>4 DEF L
    <3> QED BY <1>1, <1>7, <2>1, <2>4, <3>1
  <2>5. CASE i \in 1..n /\ j = n + 1
    BY <1>1, <2>2, <2>5
  <2>6. CASE i \in 1..n /\ j \in n + 2..L + 1
    <3>1. i \in 1..L /\ j - 1 \in n + 1..L /\ j - 1 \in 1..L
      BY <1>1, <1>2, <2>6 DEF L
    <3>2. r[i] = q[i] /\ r[j] = q[j - 1] /\ q[i] <= s /\ q[j - 1] > s
      BY <1>1, <2>2, <2>3, <2>6, <3>1
    <3>3. q[i] \in Nat /\ q[j - 1] \in Nat
      BY <1>2, <3>1
    <3> QED BY <3>2, <3>3
  <2>7. CASE i = n + 1 /\ j \in n + 2..L + 1
    <3>1. j - 1 \in n + 1..L /\ j - 1 \in 1..L
      BY <1>1, <1>2, <2>7 DEF L
    <3>2. r[j] = q[j - 1] /\ q[j - 1] > s /\ q[j - 1] \in Nat
      BY <1>1, <1>2, <2>3, <2>7, <3>1
    <3> QED BY <1>1, <2>7, <3>2
  <2>8. CASE i \in n + 2..L + 1 /\ j \in n + 2..L + 1
    <3>1. i - 1 \in 1..L /\ j - 1 \in 1..L /\ i - 1 < j - 1
      BY <1>1, <1>2, <1>7, <2>8 DEF L
    <3>2. q[i - 1] <= q[j - 1]
      BY <2>1, <3>1
    <3> QED BY <1>1, <2>8, <3>2
  <2> QED BY <1>1, <1>2, <1>7, <2>4, <2>5, <2>6, <2>7, <2>8 DEF L
<1>8. Ascending(q) => Ascending(r)
  BY <1>3, <1>7 DEF Ascending
<1> QED BY <1>1, <1>6, <1>8 DEF r

LEMMA AppendEffect ==
  ASSUME NEW q \in Seq(Nat), NEW s \in Nat
  PROVE  /\ Append(q, s) \in Seq(Nat)
         /\ Range(Append(q, s)) = Range(q) \cup {s}
         /\ Ascending(q) /\ (\A x \in Range(q) : x <= s) => Ascending(Append(q, s))
<1> DEFINE r == Append(q, s)
           L == Len(q)
<1>1. L \in Nat /\ DOMAIN q = 1..L
  OBVIOUS
<1>2. r \in Seq(Nat) /\ Len(r) = L + 1 /\ r[L + 1] = s /\ \A i \in 1..L : r[i] = q[i]
  OBVIOUS
<1> HIDE DEF r
<1>3. DOMAIN r = 1..L + 1
  BY <1>2
<1> HIDE DEF L
<1>4. \A i : i \in 1..L + 1 <=> i \in 1..L \/ i = L + 1
  BY <1>1
<1>5. Range(r) = Range(q) \cup {s}
  BY <1>1, <1>2, <1>3, <1>4 DEF Range
<1>6. ASSUME Ascending(q), \A x \in Range(q) : x <= s, NEW i \in 1..L + 1, NEW j \in 1..L + 1, i < j
      PROVE  r[i] <= r[j]
  <2>1. i \in 1..L
    BY <1>1, <1>6
  <2>2. CASE j \in 1..L
    BY <1>1, <1>2, <1>6, <2>1, <2>2 DEF Ascending
  <2>3. CASE j = L + 1
    <3>1. q[i] \in Range(q)
      BY <1>1, <2>1 DEF Range
    <3> QED BY <1>2, <1>6, <2>1, <2>3, <3>1
  <2> QED BY <1>4, <2>2, <2>3
<1> QED BY <1>2, <1>3, <1>5, <1>6 DEF Ascending, r

\* kept is built along its list.
LEMMA KeptIs ==
  ASSUME NEW list \in Seq(Nat), NEW D
  PROVE  \E k : /\ kept(list, D) = k[Len(list)]
                /\ k[0] = <<>>
                /\ \A n \in 1..Len(list) :
                     k[n] = IF list[n] \in D THEN k[n - 1] ELSE Append(k[n - 1], list[n])
<1> DEFINE L == Len(list)
           F == [p \in Seq(Nat) \X Nat |-> IF p[2] \in D THEN p[1] ELSE Append(p[1], p[2])]
           Step(k) == [n \in 0..L |->
                        IF n = 0 THEN <<>>
                        ELSE IF list[n] \in D THEN k[n - 1] ELSE Append(k[n - 1], list[n])]
<1>1. L \in Nat /\ \A n \in 1..L : list[n] \in Nat
  BY LenProperties
<1>2. F \in [Seq(Nat) \X Nat -> Seq(Nat)]
  OBVIOUS
<1>3. PICK h \in [0..L -> Seq(Nat)] : Along(h, <<>>, F, list, L)
  <2>1. <<>> \in Seq(Nat)
    OBVIOUS
  <2> HIDE DEF F
  <2> QED BY <1>2, <2>1, AlongIsDefined
<1>4. ASSUME NEW n \in 1..L
      PROVE  h[n] = IF list[n] \in D THEN h[n - 1] ELSE Append(h[n - 1], list[n])
  <2>1. n - 1 \in 0..L
    BY <1>1
  <2>2. h[n - 1] \in Seq(Nat) /\ list[n] \in Nat
    BY <1>1, <2>1
  <2>3. h[n] = F[<<h[n - 1], list[n]>>]
    BY <1>3 DEF Along
  <2> QED BY <2>2, <2>3
<1>5. h = Step(h)
  <2>1. h[0] = <<>>
    BY <1>3 DEF Along
  <2>2. \A n \in 0..L : n = 0 \/ n \in 1..L
    BY <1>1
  <2> QED BY <1>4, <2>1, <2>2
<1> DEFINE k == CHOOSE f : f = Step(f)
<1>6. k = Step(k)
  <2> HIDE DEF Step
  <2> QED BY <1>5
<1>7. kept(list, D) = k[L]
  BY DEF kept
<1> HIDE DEF k
<1>8. \A n \in 0..L : k[n] = Step(k)[n]
  BY <1>6
<1>9. k[0] = <<>>
  BY <1>1, <1>8
<1>10. \A n \in 1..L : k[n] = IF list[n] \in D THEN k[n - 1] ELSE Append(k[n - 1], list[n])
  BY <1>1, <1>8
<1> QED BY <1>7, <1>9, <1>10

\* Without D, a list keeps its order and loses the members of D.
LEMMA KeptEffect ==
  ASSUME NEW list \in Seq(Nat), NEW D
  PROVE  /\ kept(list, D) \in Seq(Nat)
         /\ Range(kept(list, D)) = Range(list) \ D
         /\ Ascending(list) => Ascending(kept(list, D))
<1> DEFINE L == Len(list)
<1>1. L \in Nat /\ DOMAIN list = 1..L /\ \A n \in 1..L : list[n] \in Nat
  BY LenProperties
<1>2. PICK k : /\ kept(list, D) = k[L] /\ k[0] = <<>>
               /\ \A n \in 1..L : k[n] = IF list[n] \in D THEN k[n - 1] ELSE Append(k[n - 1], list[n])
  BY KeptIs
<1> DEFINE P(n) == /\ k[n] \in Seq(Nat)
                   /\ Range(k[n]) = {list[i] : i \in 1..n} \ D
                   /\ Ascending(list) => Ascending(k[n])
           Good == {n \in 0..L : P(n)}
<1> HIDE DEF L
<1>3. 0 \in Good
  <2>1. <<>> \in Seq(Nat) /\ Range(<<>>) = {} /\ Ascending(<<>>) /\ 1..0 = {}
    BY DEF Range, Ascending
  <2>2. {list[i] : i \in 1..0} \ D = {}
    BY <2>1
  <2>3. P(0)
    BY <1>2, <2>1, <2>2
  <2>4. 0 \in 0..L
    BY <1>1
  <2> HIDE DEF P
  <2> QED BY <2>3, <2>4
<1>4. ASSUME NEW n \in 1..L, n - 1 \in Good PROVE n \in Good
  <2>1. P(n - 1) /\ list[n] \in Nat
    BY <1>1, <1>4
  <2>2. \A i : i \in 1..n <=> i \in 1..n - 1 \/ i = n
    BY <1>1
  <2>3. n \in 0..L
    BY <1>1
  <2>4. CASE list[n] \in D
    <3>1. k[n] = k[n - 1]
      BY <1>2, <2>4
    <3>2. {list[i] : i \in 1..n} \ D = {list[i] : i \in 1..n - 1} \ D
      BY <2>2, <2>4
    <3> QED BY <2>1, <2>3, <3>1, <3>2
  <2>5. CASE list[n] \notin D
    <3>1. k[n] = Append(k[n - 1], list[n])
      BY <1>2, <2>5
    <3>2. {list[i] : i \in 1..n} \ D = ({list[i] : i \in 1..n - 1} \ D) \cup {list[n]}
      BY <2>2, <2>5
    <3>3. ASSUME Ascending(list), NEW x \in Range(k[n - 1]) PROVE x <= list[n]
      <4>1. PICK i \in 1..n - 1 : x = list[i]
        BY <2>1
      <4>2. i \in 1..L /\ i < n
        BY <1>1
      <4> QED BY <1>1, <3>3, <4>1, <4>2 DEF Ascending
    <3>4. P(n)
      BY <2>1, <3>1, <3>2, <3>3, AppendEffect
    <3> QED BY <2>3, <3>4
  <2> QED BY <2>4, <2>5
<1>5. \A n \in 0..L : n \in Good
  <2> HIDE DEF Good
  <2> QED BY <1>1, <1>3, <1>4, UpTo
<1>6. P(L)
  <2>1. L \in 0..L
    BY <1>1
  <2> HIDE DEF P
  <2> QED BY <1>5, <2>1
<1>7. Range(list) = {list[i] : i \in 1..L}
  BY <1>1 DEF Range
<1> QED BY <1>2, <1>6, <1>7

-----------------------------------------------------------------------------
(***************************************************************************)
(* Turns: their queues, and what enqueue and a disposal do to them.         *)
(***************************************************************************)
TurnType ==
  [pending : Seq(Nat), pending_derived : Seq(Nat), queued : SUBSET Nat, queued_derived : SUBSET Nat,
   draining : BOOLEAN, settled : BOOLEAN, scheduled : BOOLEAN,
   extent : BOOLEAN, broke : BOOLEAN, abandoned : SUBSET Nat]

\* The queues are what their keyed sets say, by class, effects by id.
QueuesInStep(u) ==
  /\ Range(u.pending) = u.queued /\ Range(u.pending_derived) = u.queued_derived
  /\ Ascending(u.pending)
  /\ Refresh \notin u.queued /\ u.queued_derived \subseteq {Refresh}

\* What waits in a settled turn is being drained, or will be, or was left by a throw.
Served(u) ==
  u.settled = TRUE /\ u.draining = FALSE /\ u.scheduled = FALSE => Waiting(u) \subseteq u.abandoned

\* From u to w the turn's progress is the same, up to a microtask's schedule.
ProgressKept(u, w) ==
  /\ w.draining = u.draining /\ w.settled = u.settled
  /\ w.extent = u.extent /\ w.broke = u.broke /\ w.abandoned = u.abandoned

LEMMA QueuedEffect ==
  ASSUME NEW u \in TurnType, NEW s \in Nat
  PROVE  /\ Queued(u, s) \in TurnType
         /\ QueuesInStep(u) => QueuesInStep(Queued(u, s))
         /\ Waiting(Queued(u, s)) = Waiting(u) \cup {s}
         /\ ProgressKept(u, Queued(u, s)) /\ Queued(u, s).scheduled = u.scheduled
<1> DEFINE w == Queued(u, s)
<1>1. CASE Derived(s) /\ s \in u.queued_derived
  BY <1>1 DEF Queued, Waiting, ProgressKept
<1>2. CASE ~ Derived(s) /\ s \in u.queued
  BY <1>2 DEF Queued, Waiting, ProgressKept
<1>3. CASE Derived(s) /\ s \notin u.queued_derived
  <2> DEFINE q == Append(u.pending_derived, s)
  <2>1. u.pending_derived \in Seq(Nat)
    BY DEF TurnType
  <2>2. q \in Seq(Nat) /\ Range(q) = Range(u.pending_derived) \cup {s}
    BY <2>1, AppendEffect
  <2> HIDE DEF q
  <2>3. w = [u EXCEPT !.queued_derived = @ \cup {s}, !.pending_derived = q]
    BY <1>3 DEF Queued, q
  <2> HIDE DEF w
  <2>4. w \in TurnType
    BY <2>2, <2>3 DEF TurnType
  <2>5. /\ w.queued_derived = u.queued_derived \cup {s} /\ w.pending_derived = q
        /\ w.queued = u.queued /\ w.pending = u.pending
        /\ ProgressKept(u, w) /\ w.scheduled = u.scheduled
    BY <2>3 DEF TurnType, ProgressKept
  <2>6. QueuesInStep(u) => QueuesInStep(w)
    BY <1>3, <2>2, <2>5 DEF QueuesInStep, Derived
  <2>7. Waiting(w) = Waiting(u) \cup {s}
    BY <2>5 DEF Waiting
  <2> QED BY <2>4, <2>5, <2>6, <2>7 DEF w
<1>4. CASE ~ Derived(s) /\ s \notin u.queued
  <2> DEFINE q == Inserted(u.pending, s)
  <2>1. u.pending \in Seq(Nat)
    BY DEF TurnType
  <2>2. /\ q \in Seq(Nat) /\ Range(q) = Range(u.pending) \cup {s}
        /\ Ascending(u.pending) => Ascending(q)
    BY <2>1, InsertedEffect
  <2> HIDE DEF q
  <2>3. w = [u EXCEPT !.queued = @ \cup {s}, !.pending = q]
    BY <1>4 DEF Queued, q
  <2> HIDE DEF w
  <2>4. w \in TurnType
    BY <2>2, <2>3 DEF TurnType
  <2>5. /\ w.queued = u.queued \cup {s} /\ w.pending = q
        /\ w.queued_derived = u.queued_derived /\ w.pending_derived = u.pending_derived
        /\ ProgressKept(u, w) /\ w.scheduled = u.scheduled
    BY <2>3 DEF TurnType, ProgressKept
  <2>6. QueuesInStep(u) => QueuesInStep(w)
    BY <1>4, <2>2, <2>5 DEF QueuesInStep, Derived
  <2>7. Waiting(w) = Waiting(u) \cup {s}
    BY <2>5 DEF Waiting
  <2> QED BY <2>4, <2>5, <2>6, <2>7 DEF w
<1> QED BY <1>1, <1>2, <1>3, <1>4

\* enqueue's loop is built along its list.
LEMMA EnqueueIs ==
  ASSUME NEW list \in Seq(Nat), NEW t \in DOMAIN turns, turns[t] \in TurnType
  PROVE  \E k : /\ enqueue(t, list) = [turns EXCEPT ![t] = Scheduled(k[Len(list)])]
                /\ k[0] = turns[t]
                /\ \A n \in 1..Len(list) : k[n] = Queued(k[n - 1], list[n])
<1> DEFINE L == Len(list)
           F == [p \in TurnType \X Nat |-> Queued(p[1], p[2])]
           Step(k) == [n \in 0..L |-> IF n = 0 THEN turns[t] ELSE Queued(k[n - 1], list[n])]
<1>1. L \in Nat /\ \A n \in 1..L : list[n] \in Nat
  BY LenProperties
<1>2. F \in [TurnType \X Nat -> TurnType]
  BY QueuedEffect
<1>3. PICK h \in [0..L -> TurnType] : Along(h, turns[t], F, list, L)
  <2> HIDE DEF F
  <2> QED BY <1>2, AlongIsDefined
<1>4. ASSUME NEW n \in 1..L
      PROVE  h[n] = Queued(h[n - 1], list[n])
  <2>1. n - 1 \in 0..L
    BY <1>1
  <2>2. h[n - 1] \in TurnType /\ list[n] \in Nat
    BY <1>1, <2>1
  <2>3. h[n] = F[<<h[n - 1], list[n]>>]
    BY <1>3 DEF Along
  <2> QED BY <2>2, <2>3
<1>5. h = Step(h)
  <2>1. h[0] = turns[t]
    BY <1>3 DEF Along
  <2>2. \A n \in 0..L : n = 0 \/ n \in 1..L
    BY <1>1
  <2> QED BY <1>4, <2>1, <2>2
<1> DEFINE k == CHOOSE f : f = Step(f)
<1>6. k = Step(k)
  <2> HIDE DEF Step
  <2> QED BY <1>5
<1>7. enqueue(t, list) = [turns EXCEPT ![t] = Scheduled(k[L])]
  BY DEF enqueue
<1> HIDE DEF k
<1>8. \A n \in 0..L : k[n] = Step(k)[n]
  BY <1>6
<1>9. k[0] = turns[t]
  BY <1>1, <1>8
<1>10. \A n \in 1..L : k[n] = Queued(k[n - 1], list[n])
  BY <1>1, <1>8
<1> QED BY <1>7, <1>9, <1>10

\* What became of u when list was queued in it, w: all of it waits, and who
\* queued it late has scheduled its drain.
Enqueued(u, w, list) ==
  /\ w \in TurnType
  /\ QueuesInStep(u) => QueuesInStep(w)
  /\ Waiting(w) = Waiting(u) \cup Range(list)
  /\ ProgressKept(u, w)
  /\ u.scheduled = TRUE => w.scheduled = TRUE
  /\ w.settled = TRUE /\ w.draining = FALSE => w.scheduled = TRUE

LEMMA ScheduledEffect ==
  ASSUME NEW u \in TurnType
  PROVE  /\ Scheduled(u) \in TurnType
         /\ QueuesInStep(u) => QueuesInStep(Scheduled(u))
         /\ Waiting(Scheduled(u)) = Waiting(u)
         /\ ProgressKept(u, Scheduled(u))
         /\ u.scheduled = TRUE => Scheduled(u).scheduled = TRUE
         /\ u.settled = TRUE /\ u.draining = FALSE => Scheduled(u).scheduled = TRUE
<1>1. u.scheduled \in BOOLEAN /\ u.draining \in BOOLEAN /\ u.settled \in BOOLEAN
  BY DEF TurnType
<1>2. CASE u.settled /\ ~ u.scheduled /\ ~ u.draining
  <2>1. Scheduled(u) = [u EXCEPT !.scheduled = TRUE]
    BY <1>2 DEF Scheduled
  <2>2. Scheduled(u) \in TurnType
    BY <2>1 DEF TurnType
  <2>3. /\ Scheduled(u).pending = u.pending /\ Scheduled(u).pending_derived = u.pending_derived
        /\ Scheduled(u).queued = u.queued /\ Scheduled(u).queued_derived = u.queued_derived
        /\ Scheduled(u).scheduled = TRUE /\ ProgressKept(u, Scheduled(u))
    BY <2>1 DEF TurnType, ProgressKept
  <2> QED BY <2>2, <2>3 DEF QueuesInStep, Waiting
<1>3. CASE ~ (u.settled /\ ~ u.scheduled /\ ~ u.draining)
  BY <1>1, <1>3 DEF Scheduled, ProgressKept
<1> QED BY <1>2, <1>3

LEMMA EnqueueEffect ==
  ASSUME NEW list \in Seq(Nat), NEW t \in DOMAIN turns, turns[t] \in TurnType
  PROVE  \E w : enqueue(t, list) = [turns EXCEPT ![t] = w] /\ Enqueued(turns[t], w, list)
<1> DEFINE L == Len(list)
           u == turns[t]
<1>1. L \in Nat /\ DOMAIN list = 1..L /\ \A n \in 1..L : list[n] \in Nat
  BY LenProperties
<1>2. PICK k : /\ enqueue(t, list) = [turns EXCEPT ![t] = Scheduled(k[L])]
               /\ k[0] = u
               /\ \A n \in 1..L : k[n] = Queued(k[n - 1], list[n])
  BY EnqueueIs
<1> DEFINE P(n) == /\ k[n] \in TurnType
                   /\ QueuesInStep(u) => QueuesInStep(k[n])
                   /\ Waiting(k[n]) = Waiting(u) \cup {list[i] : i \in 1..n}
                   /\ ProgressKept(u, k[n]) /\ k[n].scheduled = u.scheduled
           Good == {n \in 0..L : P(n)}
<1> HIDE DEF L, u
<1>3. 0 \in Good
  <2>1. {list[i] : i \in 1..0} = {}
    OBVIOUS
  <2>2. u \in TurnType
    BY DEF u
  <2>3. P(0)
    BY <1>2, <2>1, <2>2 DEF ProgressKept
  <2>4. 0 \in 0..L
    BY <1>1
  <2> HIDE DEF P
  <2> QED BY <2>3, <2>4
<1>4. ASSUME NEW n \in 1..L, n - 1 \in Good PROVE n \in Good
  <2>1. P(n - 1) /\ list[n] \in Nat
    BY <1>1, <1>4
  <2>2. \A i : i \in 1..n <=> i \in 1..n - 1 \/ i = n
    BY <1>1
  <2>3. n \in 0..L
    BY <1>1
  <2>4. {list[i] : i \in 1..n} = {list[i] : i \in 1..n - 1} \cup {list[n]}
    BY <2>2
  <2>5. k[n] = Queued(k[n - 1], list[n])
    BY <1>2
  <2> DEFINE j == Queued(k[n - 1], list[n])
  <2>6. /\ j \in TurnType /\ (QueuesInStep(k[n - 1]) => QueuesInStep(j))
        /\ Waiting(j) = Waiting(k[n - 1]) \cup {list[n]}
        /\ ProgressKept(k[n - 1], j) /\ j.scheduled = k[n - 1].scheduled
    BY <2>1, QueuedEffect
  <2> HIDE DEF j
  <2>7. P(n)
    BY <2>1, <2>4, <2>5, <2>6 DEF ProgressKept, j
  <2> HIDE DEF P
  <2> QED BY <2>3, <2>7
<1>5. \A n \in 0..L : n \in Good
  <2> HIDE DEF Good
  <2> QED BY <1>1, <1>3, <1>4, UpTo
<1>6. P(L)
  <2>1. L \in 0..L
    BY <1>1
  <2> HIDE DEF P
  <2> QED BY <1>5, <2>1
<1>7. Range(list) = {list[i] : i \in 1..L}
  BY <1>1 DEF Range
<1> DEFINE w == Scheduled(k[L])
<1>8. /\ w \in TurnType /\ (QueuesInStep(k[L]) => QueuesInStep(w))
      /\ Waiting(w) = Waiting(k[L]) /\ ProgressKept(k[L], w)
      /\ k[L].scheduled = TRUE => w.scheduled = TRUE
      /\ k[L].settled = TRUE /\ k[L].draining = FALSE => w.scheduled = TRUE
  BY <1>6, ScheduledEffect
<1> HIDE DEF w
<1>9. Enqueued(u, w, list)
  BY <1>6, <1>7, <1>8 DEF Enqueued, ProgressKept
<1> QED BY <1>2, <1>9 DEF u, w

\* What became of u when D was taken out of it.
LEMMA ScrubbedEffect ==
  ASSUME NEW u \in TurnType, NEW D
  PROVE  LET w == Scrubbed(u, D)
         IN  /\ w \in TurnType
             /\ QueuesInStep(u) => QueuesInStep(w)
             /\ Waiting(w) = Waiting(u) \ D
             /\ ProgressKept(u, w) /\ w.scheduled = u.scheduled
<1> DEFINE p == kept(u.pending, D)
           q == kept(u.pending_derived, D)
           w == Scrubbed(u, D)
<1>1. u.pending \in Seq(Nat) /\ u.pending_derived \in Seq(Nat)
  BY DEF TurnType
<1>2. /\ p \in Seq(Nat) /\ Range(p) = Range(u.pending) \ D
      /\ Ascending(u.pending) => Ascending(p)
  BY <1>1, KeptEffect
<1>3. q \in Seq(Nat) /\ Range(q) = Range(u.pending_derived) \ D
  BY <1>1, KeptEffect
<1> HIDE DEF p, q
<1>4. w = [u EXCEPT !.pending = p, !.pending_derived = q, !.queued = @ \ D, !.queued_derived = @ \ D]
  BY DEF Scrubbed, p, q
<1> HIDE DEF w
<1>5. w \in TurnType
  BY <1>2, <1>3, <1>4 DEF TurnType
<1>6. /\ w.pending = p /\ w.pending_derived = q
      /\ w.queued = u.queued \ D /\ w.queued_derived = u.queued_derived \ D
      /\ ProgressKept(u, w) /\ w.scheduled = u.scheduled
  BY <1>4 DEF TurnType, ProgressKept
<1>7. QueuesInStep(u) => QueuesInStep(w)
  BY <1>2, <1>3, <1>6 DEF QueuesInStep
<1>8. Waiting(w) = Waiting(u) \ D
  BY <1>6 DEF Waiting
<1> QED BY <1>5, <1>6, <1>7, <1>8 DEF w

-----------------------------------------------------------------------------
(***************************************************************************)
(* The inductive invariant.                                                *)
(***************************************************************************)
Values == 0..Cardinality(Sources)
TurnIds == {NoTurn} \cup DOMAIN turns
SubscriberType == [turn : Nat, owner : Nat \X Nat, cells : SUBSET Cells]
SeenType == UNION {[S -> Values] : S \in SUBSET Cells}
FrameType == [f : {"code", "drain", "inline"}, turn : Nat, own : BOOLEAN,
              owner : Nat \X Nat, wave : Seq(Nat)]

GraphTypes ==
  /\ value \in [Cells -> Values] /\ \A c \in Sources : value[c] \in {0, 1}
  /\ subscribers \in [Cells -> Seq(Nat)]
  /\ subscriber \in Seq(SubscriberType) /\ Len(subscriber) >= 2
  /\ seen \in Seq(SeenType) /\ Len(seen) = Len(subscriber)
  /\ epoch \in Seq(Nat) /\ Len(epoch) = Len(subscriber)
  /\ live \subseteq Ids

\* The owner of an observer is the run of an older effect, that nothing owns.
Owners ==
  \A s \in Ids : LET owner == subscriber[s].owner IN
    owner # NoOwner => owner[1] \in 2..s - 1 /\ subscriber[owner[1]].owner = NoOwner

\* The lists of a live observer's cells have it, and no list has another.
Listed ==
  /\ Observed(Refresh) = Sources
  /\ \A c \in Cells : Range(subscribers[c]) \subseteq live
  /\ \A s \in live : \A c \in Observed(s) : s \in Range(subscribers[c])

Graph == GraphTypes /\ Owners /\ Listed /\ OwnedByALiveRun

TurnTypes ==
  /\ turns \in Seq(TurnType)
  /\ draining_turns \in Seq(Nat) /\ Range(draining_turns) \subseteq DOMAIN turns
  /\ \A s \in Ids : subscriber[s].turn \in TurnIds

\* A turn that drains has its drain on the call stack.
Drains(t) == \E fr \in Range(stack) : fr.f = "drain" /\ fr.turn = t

TurnsSound ==
  \A t \in DOMAIN turns : /\ QueuesInStep(turns[t]) /\ Served(turns[t])
                          /\ turns[t].draining = TRUE => Drains(t)

\* Code goes on in a run no later than the one under way; once its effect is
\* disposed, in one before it.
Held(owner) ==
  owner # NoOwner =>
    /\ owner[1] \in 2..Len(subscriber)
    /\ subscriber[owner[1]].owner = NoOwner =>
         /\ owner[2] <= epoch[owner[1]]
         /\ owner[1] \notin live => owner[2] < epoch[owner[1]]

FrameSound(fr) ==
  /\ fr.turn \in TurnIds
  /\ fr.f = "code" => fr.wave = <<>> /\ (fr.own = TRUE => fr.turn # NoTurn)
  /\ fr.f = "drain" => fr.turn # NoTurn /\ Ascending(fr.wave)
  /\ Held(fr.owner)

StackSound ==
  /\ stack \in Seq(FrameType)
  /\ \A fr \in Range(stack) : FrameSound(fr)

ReactiveInv == Graph /\ TurnTypes /\ TurnsSound /\ StackSound /\ threw \in BOOLEAN /\ StaleIsInFlight

-----------------------------------------------------------------------------
(***************************************************************************)
(* The call stack as the set of its frames.                                *)
(***************************************************************************)
LEMMA MakesASeq ==
  ASSUME NEW S, NEW n \in Nat, NEW q, q = [i \in 1..n |-> q[i]], \A i \in 1..n : q[i] \in S
  PROVE  q \in Seq(S)
OBVIOUS

LEMMA PushEffect ==
  ASSUME NEW S, NEW q \in Seq(S), NEW x \in S
  PROVE  Append(q, x) \in Seq(S) /\ Range(Append(q, x)) = Range(q) \cup {x}
<1> DEFINE r == Append(q, x)
           L == Len(q)
<1>1. L \in Nat /\ DOMAIN q = 1..L
  OBVIOUS
<1>2. r \in Seq(S) /\ Len(r) = L + 1 /\ r[L + 1] = x /\ \A i \in 1..L : r[i] = q[i]
  OBVIOUS
<1> HIDE DEF r
<1>3. DOMAIN r = 1..L + 1
  BY <1>2
<1> HIDE DEF L
<1>4. \A i : i \in 1..L + 1 <=> i \in 1..L \/ i = L + 1
  BY <1>1
<1>5. Range(r) = Range(q) \cup {x}
  BY <1>1, <1>2, <1>3, <1>4 DEF Range
<1> QED BY <1>2, <1>5 DEF r

LEMMA OneFrame ==
  ASSUME NEW S, NEW x \in S
  PROVE  <<x>> \in Seq(S) /\ Range(<<x>>) = {x} /\ <<>> \in Seq(S) /\ Range(<<>>) = {}
<1>1. DOMAIN <<x>> = {1} /\ <<x>>[1] = x
  OBVIOUS
<1>2. DOMAIN <<>> = {}
  OBVIOUS
<1> QED BY <1>1, <1>2 DEF Range

LEMMA PopEffect ==
  ASSUME NEW S, NEW q \in Seq(S), q # <<>>
  PROVE  LET b == SubSeq(q, 1, Len(q) - 1)
         IN  /\ b \in Seq(S) /\ q[Len(q)] \in S
             /\ Range(q) = Range(b) \cup {q[Len(q)]}
             /\ Len(b) = Len(q) - 1
             /\ \A n \in 1..Len(q) - 1 : b[n] = q[n]
<1> DEFINE L == Len(q)
           b == SubSeq(q, 1, L - 1)
<1>1. L \in Nat /\ L # 0 /\ DOMAIN q = 1..L /\ \A n \in 1..L : q[n] \in S
  BY EmptySeq, LenProperties
<1>2. b \in Seq(S) /\ Len(b) = L - 1 /\ \A n \in 1..L - 1 : b[n] = q[n]
  <2>1. 1 \in Int /\ L - 1 \in Int /\ \A n \in 1..L - 1 : q[n] \in S
    BY <1>1
  <2>2. /\ b \in Seq(S) /\ Len(b) = IF 1 <= L - 1 THEN (L - 1) - 1 + 1 ELSE 0
        /\ \A n \in 1..(L - 1) - 1 + 1 : b[n] = q[1 + n - 1]
    BY <2>1, SubSeqProperties
  <2>3. (IF 1 <= L - 1 THEN (L - 1) - 1 + 1 ELSE 0) = L - 1 /\ (L - 1) - 1 + 1 = L - 1
    BY <1>1
  <2>4. \A n \in 1..L - 1 : 1 + n - 1 = n
    BY <1>1
  <2> QED BY <2>2, <2>3, <2>4
<1> HIDE DEF b, L
<1>3. DOMAIN b = 1..L - 1
  BY <1>1, <1>2
<1>4. \A n : n \in 1..L <=> n \in 1..L - 1 \/ n = L
  BY <1>1
<1>5. Range(q) = Range(b) \cup {q[L]}
  BY <1>1, <1>2, <1>3, <1>4 DEF Range
<1>6. q[L] \in S
  BY <1>1
<1> QED BY <1>2, <1>5, <1>6 DEF b, L

\* The frame that runs, and those that wait for it.
LEMMA TopEffect ==
  ASSUME StackSound, stack # <<>>
  PROVE  /\ Below \in Seq(FrameType) /\ Top \in FrameType
         /\ Range(stack) = Range(Below) \cup {Top} /\ FrameSound(Top)
         /\ Len(stack) = 1 => Range(Below) = {}
<1>1. /\ Below \in Seq(FrameType) /\ Top \in FrameType
      /\ Range(stack) = Range(Below) \cup {Top} /\ Len(Below) = Len(stack) - 1
  BY PopEffect DEF StackSound, Below, Top
<1>2. ASSUME Len(stack) = 1 PROVE Range(Below) = {}
  <2>1. Below = <<>>
    BY <1>1, <1>2, EmptySeq
  <2> QED BY <2>1 DEF Range
<1> QED BY <1>1, <1>2 DEF StackSound

\* Who is in flight waits in a turn, or stands in the wave of a frame.
Flies(s) == \/ \E t \in DOMAIN turns : s \in Waiting(turns[t])
            \/ \E fr \in Range(stack) : s \in Range(fr.wave)

LEMMA InFlightIs ==
  ASSUME NEW s
  PROVE  (InFlight(s) <=> Flies(s)) /\ (InFlight(s)' <=> Flies(s)')
BY DEF InFlight, Flies, Range

-----------------------------------------------------------------------------
(***************************************************************************)
(* What is kept from a state to the next.                                  *)
(***************************************************************************)

\* The turns are sound; none is gone; who drains is on the stack.
TurnsKept ==
  /\ turns' \in Seq(TurnType) /\ DOMAIN turns \subseteq DOMAIN turns'
  /\ draining_turns' \in Seq(Nat) /\ Range(draining_turns') \subseteq DOMAIN turns'
  /\ TurnsSound'

\* No owner's epoch goes back, and who is disposed has ended its run.
RunsKept ==
  /\ Ids \subseteq Ids' /\ Len(subscriber) <= Len(subscriber')
  /\ \A s \in Ids : /\ subscriber'[s] = subscriber[s] /\ epoch[s] <= epoch'[s]
                    /\ s # Refresh /\ subscriber[s].owner = NoOwner /\ s \notin live' =>
                         s \notin live \/ epoch[s] < epoch'[s]

LEMMA HeldKept ==
  ASSUME GraphTypes, GraphTypes', RunsKept, NEW owner \in Nat \X Nat, Held(owner)
  PROVE  Held(owner)'
<1> SUFFICES ASSUME owner # NoOwner
             PROVE  /\ owner[1] \in 2..Len(subscriber')
                    /\ subscriber'[owner[1]].owner = NoOwner =>
                         /\ owner[2] <= epoch'[owner[1]]
                         /\ owner[1] \notin live' => owner[2] < epoch'[owner[1]]
  BY DEF Held
<1> DEFINE s == owner[1]
<1>1. s \in 2..Len(subscriber) /\ owner[2] \in Nat
  BY DEF Held
<1>2. s \in Ids /\ s # Refresh /\ s \in 2..Len(subscriber')
  BY <1>1 DEF GraphTypes, Ids, RunsKept, Refresh
<1>3. epoch[s] \in Nat /\ epoch'[s] \in Nat
  <2>1. s \in 1..Len(epoch) /\ s \in 1..Len(epoch')
    BY <1>1, <1>2 DEF GraphTypes
  <2> QED BY <2>1, LenProperties DEF GraphTypes
<1>4. subscriber'[s] = subscriber[s] /\ epoch[s] <= epoch'[s]
      /\ (subscriber[s].owner = NoOwner /\ s \notin live' => s \notin live \/ epoch[s] < epoch'[s])
  BY <1>2 DEF RunsKept
<1>5. ASSUME subscriber'[s].owner = NoOwner
      PROVE  owner[2] <= epoch'[s] /\ (s \notin live' => owner[2] < epoch'[s])
  <2>1. owner[2] <= epoch[s] /\ (s \notin live => owner[2] < epoch[s])
    BY <1>4, <1>5 DEF Held
  <2> HIDE DEF s
  <2>2. owner[2] <= epoch'[s]
    BY <1>1, <1>3, <1>4, <2>1
  <2>3. ASSUME s \notin live' PROVE owner[2] < epoch'[s]
    <3>1. s \notin live \/ epoch[s] < epoch'[s]
      BY <1>4, <1>5, <2>3
    <3> QED BY <1>1, <1>3, <1>4, <2>1, <3>1
  <2> QED BY <2>2, <2>3
<1> QED BY <1>2, <1>5

LEMMA FrameKept ==
  ASSUME GraphTypes, GraphTypes', RunsKept, DOMAIN turns \subseteq DOMAIN turns',
         NEW fr \in FrameType, FrameSound(fr)
  PROVE  FrameSound(fr)'
<1>1. fr.owner \in Nat \X Nat
  BY DEF FrameType
<1>2. Held(fr.owner)'
  BY <1>1, HeldKept DEF FrameSound
<1> QED BY <1>2 DEF FrameSound, TurnIds

\* A step that leaves the graph alone has only its turns and frames to answer for.
LEMMA SchedulingKeeps ==
  ASSUME ReactiveInv, UNCHANGED graphVars, TurnsKept,
         stack' \in Seq(FrameType),
         \A fr \in Range(stack') : FrameSound(fr) \/ FrameSound(fr)',
         threw' \in BOOLEAN, threw' = FALSE => threw = FALSE,
         threw' = FALSE => \A s \in live : Flies(s) => Flies(s)'
  PROVE  ReactiveInv'
<1>1. Graph'
  <2>1. GraphTypes'
    BY DEF ReactiveInv, Graph, GraphTypes, graphVars, Ids, Cells
  <2>2. Owners'
    BY DEF ReactiveInv, Graph, Owners, graphVars, Ids
  <2>3. Listed'
    BY DEF ReactiveInv, Graph, Listed, graphVars, Observed, Cells
  <2>4. OwnedByALiveRun'
    BY DEF ReactiveInv, Graph, OwnedByALiveRun, graphVars, IsDisposed
  <2> QED BY <2>1, <2>2, <2>3, <2>4 DEF Graph
<1>2. TurnTypes'
  BY DEF ReactiveInv, TurnTypes, TurnsKept, TurnIds, graphVars, Ids
<1>3. RunsKept
  <2>1. \A s \in Ids : epoch[s] \in Nat
    BY LenProperties DEF ReactiveInv, Graph, GraphTypes, Ids
  <2>2. Len(subscriber) \in Nat
    BY DEF ReactiveInv, Graph, GraphTypes
  <2> QED BY <2>1, <2>2 DEF RunsKept, graphVars, Ids
<1>4. StackSound'
  <2>1. ASSUME NEW fr \in Range(stack'), FrameSound(fr) PROVE FrameSound(fr)'
    <3>1. fr \in FrameType
      BY DEF Range
    <3> QED BY <1>1, <1>3, <2>1, <3>1, FrameKept DEF ReactiveInv, Graph, TurnsKept
  <2> QED BY <2>1 DEF StackSound
<1>5. StaleIsInFlight'
  <2>1. \A s \in live : UpToDate(s) => UpToDate(s)'
    BY DEF UpToDate, Derived, Observed, Pull, graphVars
  <2>2. live' = live
    BY DEF graphVars
  <2>3. \A s : (InFlight(s) <=> Flies(s)) /\ (InFlight(s)' <=> Flies(s)')
    BY InFlightIs
  <2> QED BY <2>1, <2>2, <2>3 DEF ReactiveInv, StaleIsInFlight
<1> QED BY <1>1, <1>2, <1>4, <1>5 DEF ReactiveInv, TurnsKept

\* One turn becomes w.
LEMMA OneTurn ==
  ASSUME TurnTypes, NEW t \in DOMAIN turns, NEW w \in TurnType, turns' = [turns EXCEPT ![t] = w]
  PROVE  /\ turns' \in Seq(TurnType) /\ DOMAIN turns' = DOMAIN turns
         /\ turns'[t] = w /\ turns[t] \in TurnType
         /\ \A u \in DOMAIN turns : u # t => turns'[u] = turns[u]
BY LenProperties DEF TurnTypes

\* In every turn no more waits than did, and its progress is the same.
ProgressStays ==
  /\ turns' \in Seq(TurnType) /\ DOMAIN turns' = DOMAIN turns
  /\ \A t \in DOMAIN turns : /\ QueuesInStep(turns'[t]) /\ Served(turns'[t])
                             /\ ProgressKept(turns[t], turns'[t])

\* enqueue makes all of the list wait in the turn, and keeps who waits.
LEMMA EnqueueKeeps ==
  ASSUME TurnTypes, TurnsSound, NEW list \in Seq(Nat), NEW t \in DOMAIN turns,
         turns' = enqueue(t, list)
  PROVE  /\ ProgressStays
         /\ \A u \in DOMAIN turns : Waiting(turns[u]) \subseteq Waiting(turns'[u])
         /\ Range(list) \subseteq Waiting(turns'[t])
<1>1. turns[t] \in TurnType
  BY LenProperties DEF TurnTypes
<1>2. PICK w : turns' = [turns EXCEPT ![t] = w] /\ Enqueued(turns[t], w, list)
  BY <1>1, EnqueueEffect
<1>3. /\ turns' \in Seq(TurnType) /\ DOMAIN turns' = DOMAIN turns /\ turns'[t] = w
      /\ \A u \in DOMAIN turns : u # t => turns'[u] = turns[u]
  BY <1>2, OneTurn DEF Enqueued
<1>4. QueuesInStep(w) /\ Served(w) /\ ProgressKept(turns[t], w)
  BY <1>2 DEF TurnsSound, Enqueued, Served
<1>5. \A u \in DOMAIN turns : ProgressKept(turns[u], turns[u])
  BY DEF ProgressKept
<1>6. ProgressStays
  BY <1>3, <1>4, <1>5 DEF ProgressStays, TurnsSound
<1> QED BY <1>2, <1>3, <1>6 DEF Enqueued

\* What is scrubbed out of the turns waits no longer; the rest does.
LEMMA ScrubKeeps ==
  ASSUME TurnTypes, TurnsSound, NEW D,
         turns' = [u \in DOMAIN turns |-> Scrubbed(turns[u], D[u])]
  PROVE  /\ ProgressStays
         /\ \A u \in DOMAIN turns : Waiting(turns'[u]) = Waiting(turns[u]) \ D[u]
<1>1. DOMAIN turns' = DOMAIN turns /\ \A u \in DOMAIN turns : turns[u] \in TurnType
  BY LenProperties DEF TurnTypes
<1>2. ASSUME NEW u \in DOMAIN turns
      PROVE  /\ turns'[u] \in TurnType /\ QueuesInStep(turns'[u]) /\ Served(turns'[u])
             /\ ProgressKept(turns[u], turns'[u])
             /\ Waiting(turns'[u]) = Waiting(turns[u]) \ D[u]
  <2> DEFINE w == Scrubbed(turns[u], D[u])
  <2>1. /\ w \in TurnType /\ QueuesInStep(w)
        /\ Waiting(w) = Waiting(turns[u]) \ D[u]
        /\ ProgressKept(turns[u], w) /\ w.scheduled = turns[u].scheduled
    BY <1>1, ScrubbedEffect DEF TurnsSound
  <2>2. turns'[u] = w
    OBVIOUS
  <2> HIDE DEF w
  <2>3. Served(w)
    BY <2>1 DEF TurnsSound, Served, ProgressKept
  <2> QED BY <2>1, <2>2, <2>3
<1>3. turns' \in Seq(TurnType)
  BY <1>1, <1>2 DEF TurnTypes
<1> QED BY <1>1, <1>2, <1>3 DEF ProgressStays

-----------------------------------------------------------------------------
(***************************************************************************)
(* The steps that leave the graph alone.                                   *)
(***************************************************************************)
LEMMA DrainsKept ==
  ASSUME NEW t, Drains(t), \A fr \in Range(stack) : fr.f = "drain" => fr \in Range(stack')
  PROVE  Drains(t)'
BY DEF Drains

\* The turns' progress being the same, and their drains.
LEMMA ProgressIsKept ==
  ASSUME ReactiveInv, ProgressStays, draining_turns' = draining_turns,
         \A t \in DOMAIN turns : Drains(t) => Drains(t)'
  PROVE  TurnsKept
BY DEF ReactiveInv, TurnTypes, TurnsSound, ProgressStays, ProgressKept, TurnsKept

LEMMA CodeFrame ==
  ASSUME NEW t \in TurnIds, TurnTypes, NEW own \in BOOLEAN, NEW owner \in Nat \X Nat
  PROVE  /\ Code(t, own, owner) \in FrameType
         /\ Held(owner) /\ (own = TRUE => t # NoTurn) => FrameSound(Code(t, own, owner))
<1>1. t \in Nat
  BY DEF TurnIds, NoTurn, TurnTypes
<1>2. <<>> \in Seq(Nat)
  OBVIOUS
<1> QED BY <1>1, <1>2 DEF Code, FrameType, FrameSound

LEMMA DrainFrame ==
  ASSUME TurnTypes, NEW t \in DOMAIN turns, NEW own \in BOOLEAN
  PROVE  Drain(t, own) \in FrameType /\ FrameSound(Drain(t, own))
<1>1. t \in Nat /\ t # NoTurn /\ t \in TurnIds
  BY DEF TurnIds, NoTurn, TurnTypes
<1>2. <<>> \in Seq(Nat) /\ Ascending(<<>>)
  BY DEF Ascending
<1>3. NoOwner \in Nat \X Nat /\ Held(NoOwner)
  BY DEF NoOwner, Held
<1> QED BY <1>1, <1>2, <1>3 DEF Drain, FrameType, FrameSound

LEMMA InlineFrame ==
  ASSUME NEW wave \in Seq(Nat)
  PROVE  Inline(wave) \in FrameType /\ FrameSound(Inline(wave))
<1>1. NoOwner \in Nat \X Nat /\ Held(NoOwner) /\ NoTurn \in TurnIds /\ NoTurn \in Nat
  BY DEF NoOwner, Held, TurnIds, NoTurn
<1> QED BY <1>1 DEF Inline, FrameType, FrameSound

\* A frame's wave changes.
LEMMA WaveFrame ==
  ASSUME NEW fr \in FrameType, FrameSound(fr), fr.f # "code", NEW wave \in Seq(Nat),
         fr.f = "drain" => Ascending(wave)
  PROVE  LET g == [fr EXCEPT !.wave = wave]
         IN  /\ g \in FrameType /\ FrameSound(g)
             /\ g.wave = wave /\ g.f = fr.f /\ g.turn = fr.turn
<1> DEFINE g == [fr EXCEPT !.wave = wave]
<1>1. g \in FrameType /\ g.wave = wave /\ g.f = fr.f /\ g.turn = fr.turn /\ g.owner = fr.owner
  BY DEF FrameType
<1> HIDE DEF g
<1>2. FrameSound(g)
  BY <1>1 DEF FrameSound
<1> QED BY <1>1, <1>2 DEF g

\* A drain begins, unless its turn has one: on the stack st, that has lost no
\* wave.
LEMMA StartDrainKeeps ==
  ASSUME ReactiveInv, UNCHANGED graphVars, NEW t \in DOMAIN turns, NEW own \in BOOLEAN,
         NEW st \in Seq(FrameType), Range(st) \subseteq Range(stack),
         \A fr \in Range(stack) : fr \in Range(st) \/ (fr.f # "drain" /\ fr.wave = <<>>),
         StartDrain(t, own, st), threw' = threw
  PROVE  ReactiveInv'
<1>1. turns \in Seq(TurnType) /\ turns[t] \in TurnType
  BY LenProperties DEF ReactiveInv, TurnTypes
<1>2. \A fr \in Range(st) : FrameSound(fr)
  BY DEF ReactiveInv, StackSound
<1>3. \A fr \in Range(stack) : \A s : s \in Range(fr.wave) => fr \in Range(st)
  <2>1. Range(<<>>) = {}
    BY DEF Range
  <2> QED BY <2>1
<1>4. CASE turns[t].draining = TRUE
  <2>1. stack' = st /\ turns' = turns /\ draining_turns' = draining_turns
    BY <1>4 DEF StartDrain
  <2>2. ASSUME NEW u \in DOMAIN turns, Drains(u) PROVE Drains(u)'
    BY <2>1, <2>2 DEF Drains
  <2>3. TurnsKept
    BY <2>1, <2>2 DEF ReactiveInv, TurnTypes, TurnsSound, TurnsKept
  <2>4. \A s \in live : Flies(s) => Flies(s)'
    BY <1>3, <2>1 DEF Flies
  <2> QED BY <1>2, <2>1, <2>3, <2>4, SchedulingKeeps DEF ReactiveInv
<1>5. CASE turns[t].draining # TRUE
  <2> DEFINE w == [turns[t] EXCEPT !.draining = TRUE]
             d == Drain(t, own)
  <2>1. /\ turns' = [turns EXCEPT ![t] = w]
        /\ draining_turns' = Append(draining_turns, t) /\ stack' = Append(st, d)
    BY <1>1, <1>5 DEF StartDrain, TurnType
  <2>2. /\ w \in TurnType /\ Waiting(w) = Waiting(turns[t]) /\ w.draining = TRUE
        /\ QueuesInStep(turns[t]) => QueuesInStep(w)
    BY <1>1 DEF TurnType, Waiting, QueuesInStep
  <2>3. d \in FrameType /\ FrameSound(d) /\ d.f = "drain" /\ d.turn = t
    BY DrainFrame DEF ReactiveInv, Drain
  <2> HIDE DEF w, d
  <2>4. stack' \in Seq(FrameType) /\ Range(stack') = Range(st) \cup {d}
    BY <2>1, <2>3, PushEffect
  <2>5. /\ turns' \in Seq(TurnType) /\ DOMAIN turns' = DOMAIN turns /\ turns'[t] = w
        /\ \A u \in DOMAIN turns : u # t => turns'[u] = turns[u]
    BY <2>1, <2>2, OneTurn DEF ReactiveInv
  <2>6. t \in Nat
    BY <1>1
  <2>7. draining_turns' \in Seq(Nat) /\ Range(draining_turns') = Range(draining_turns) \cup {t}
    BY <2>1, <2>6, PushEffect DEF ReactiveInv, TurnTypes
  <2>8. ASSUME NEW u \in DOMAIN turns', turns'[u].draining = TRUE PROVE Drains(u)'
    <3>1. CASE u = t
      BY <2>3, <2>4, <3>1 DEF Drains
    <3>2. CASE u # t
      <4>1. Drains(u)
        BY <2>5, <2>8, <3>2 DEF ReactiveInv, TurnsSound
      <4> QED BY <2>4, <4>1 DEF Drains
    <3> QED BY <3>1, <3>2
  <2>9. ASSUME NEW u \in DOMAIN turns' PROVE QueuesInStep(turns'[u]) /\ Served(turns'[u])
    <3>1. CASE u = t
      BY <2>2, <2>5, <3>1 DEF ReactiveInv, TurnsSound, Served
    <3>2. CASE u # t
      BY <2>5, <3>2 DEF ReactiveInv, TurnsSound
    <3> QED BY <3>1, <3>2
  <2>10. TurnsSound'
    BY <2>8, <2>9 DEF TurnsSound
  <2>11. TurnsKept
    BY <2>5, <2>7, <2>10 DEF ReactiveInv, TurnTypes, TurnsKept
  <2>12. \A s \in live : Flies(s) => Flies(s)'
    <3>1. \A u \in DOMAIN turns : Waiting(turns'[u]) = Waiting(turns[u])
      BY <2>2, <2>5
    <3> QED BY <1>3, <2>4, <2>5, <3>1 DEF Flies
  <2> QED BY <1>2, <2>3, <2>4, <2>11, <2>12, SchedulingKeeps DEF ReactiveInv
<1> QED BY <1>4, <1>5

\* The stack becomes st, that has lost no drain and no wave.
LEMMA StackKeeps ==
  ASSUME ReactiveInv, UNCHANGED <<graphVars, turns, draining_turns, threw>>,
         stack' \in Seq(FrameType),
         \A fr \in Range(stack') : FrameSound(fr),
         \A fr \in Range(stack) : fr \in Range(stack') \/ (fr.f # "drain" /\ fr.wave = <<>>)
  PROVE  ReactiveInv'
<1>1. \A u : Drains(u) => Drains(u)'
  BY DEF Drains
<1>2. TurnsKept
  BY <1>1 DEF ReactiveInv, TurnTypes, TurnsSound, TurnsKept
<1>3. \A s \in live : Flies(s) => Flies(s)'
  <2>1. Range(<<>>) = {}
    BY DEF Range
  <2> QED BY <2>1 DEF Flies
<1> QED BY <1>2, <1>3, SchedulingKeeps DEF ReactiveInv

-----------------------------------------------------------------------------
(***************************************************************************)
(* Steps on the call stack alone.                                          *)
(***************************************************************************)
LEMMA EndInlineKeeps ==
  ASSUME ReactiveInv, EndInline, UNCHANGED threw
  PROVE  ReactiveInv'
<1>1. /\ stack' = Below /\ Top.f = "inline" /\ Top.wave = <<>> /\ stack # <<>>
      /\ UNCHANGED <<graphVars, turns, draining_turns, threw>>
  BY DEF EndInline
<1>2. Below \in Seq(FrameType) /\ Range(stack) = Range(Below) \cup {Top}
  BY <1>1, TopEffect DEF ReactiveInv
<1>3. \A fr \in Range(Below) : FrameSound(fr)
  BY <1>2 DEF ReactiveInv, StackSound
<1> QED BY <1>1, <1>2, <1>3, StackKeeps

\* A frame of code begins on an empty stack.
LEMMA CodeBegins ==
  ASSUME ReactiveInv, UNCHANGED <<graphVars, turns, draining_turns, threw>>, stack = <<>>,
         NEW t \in TurnIds, NEW own \in BOOLEAN, own = TRUE => t # NoTurn,
         NEW owner \in Nat \X Nat, Held(owner),
         stack' = <<Code(t, own, owner)>>
  PROVE  ReactiveInv'
<1>1. Code(t, own, owner) \in FrameType /\ FrameSound(Code(t, own, owner))
  BY CodeFrame DEF ReactiveInv
<1>2. stack' \in Seq(FrameType) /\ Range(stack') = {Code(t, own, owner)} /\ Range(stack) = {}
  BY <1>1, OneFrame
<1> QED BY <1>1, <1>2, StackKeeps

LEMMA EventKeeps ==
  ASSUME ReactiveInv, Event, UNCHANGED threw
  PROVE  ReactiveInv'
<1>1. NoTurn \in TurnIds /\ NoOwner \in Nat \X Nat /\ Held(NoOwner)
  BY DEF TurnIds, NoOwner, Held
<1> QED BY <1>1, CodeBegins DEF Event

LEMMA ContinueKeeps ==
  ASSUME ReactiveInv, UNCHANGED threw, NEW t \in DOMAIN turns, Continue(t) \/ Resume(t)
  PROVE  ReactiveInv'
<1>1. t \in TurnIds /\ t # NoTurn /\ NoOwner \in Nat \X Nat /\ Held(NoOwner)
  BY DEF TurnIds, NoTurn, NoOwner, Held, ReactiveInv, TurnTypes
<1> QED BY <1>1, CodeBegins DEF Continue, Resume

LEMMA ContinueRunKeeps ==
  ASSUME ReactiveInv, UNCHANGED threw, NEW e \in Runs(Effect), ContinueRun(Effect, e)
  PROVE  ReactiveInv'
<1> DEFINE owner == <<Effect, e>>
<1>1. Effect \in Ids /\ Effect \in 2..Len(subscriber)
  BY DEF Effect, Ids, ReactiveInv, Graph, GraphTypes
<1>2. epoch[Effect] \in Nat /\ subscriber[Effect].turn \in TurnIds
  <2>1. Effect \in 1..Len(epoch)
    BY <1>1 DEF ReactiveInv, Graph, GraphTypes
  <2> QED BY <1>1, <2>1, LenProperties DEF ReactiveInv, Graph, GraphTypes, TurnTypes
<1>3. e \in Nat /\ e <= epoch[Effect] /\ (Effect \notin live => e < epoch[Effect])
  BY <1>2 DEF Runs
<1>4. owner \in Nat \X Nat /\ owner[1] = Effect /\ owner[2] = e
  BY <1>3 DEF Effect
<1>5. Held(owner)
  BY <1>1, <1>3, <1>4 DEF Held
<1>6. stack = <<>> /\ stack' = <<Code(subscriber[Effect].turn, FALSE, owner)>>
      /\ UNCHANGED <<graphVars, turns, draining_turns>>
  BY DEF ContinueRun
<1> HIDE DEF owner
<1> QED BY <1>2, <1>4, <1>5, <1>6, CodeBegins

LEMMA SuspendKeeps ==
  ASSUME ReactiveInv, Suspend, UNCHANGED threw
  PROVE  ReactiveInv'
<1>1. /\ stack' = <<>> /\ stack # <<>> /\ Len(stack) = 1 /\ Top.f = "code"
      /\ UNCHANGED <<graphVars, turns, draining_turns, threw>>
  BY DEF Suspend, InCode
<1>2. Range(stack) = {Top} /\ Top.wave = <<>>
  BY <1>1, TopEffect DEF ReactiveInv, FrameSound
<1>3. stack' \in Seq(FrameType) /\ Range(stack') = {}
  BY <1>1, OneFrame DEF Range
<1> QED BY <1>1, <1>2, <1>3, StackKeeps

LEMMA ReturnKeeps ==
  ASSUME ReactiveInv, Return, UNCHANGED threw
  PROVE  ReactiveInv'
<1>1. stack # <<>> /\ Top.f = "code" /\ UNCHANGED <<graphVars, threw>>
  BY DEF Return
<1>2. /\ Below \in Seq(FrameType) /\ Top \in FrameType
      /\ Range(stack) = Range(Below) \cup {Top} /\ FrameSound(Top)
  BY <1>1, TopEffect DEF ReactiveInv
<1>3. \A fr \in Range(stack) : fr \in Range(Below) \/ (fr.f # "drain" /\ fr.wave = <<>>)
  BY <1>1, <1>2 DEF FrameSound
<1>4. CASE Top.own = TRUE
  <2>1. Top.turn \in DOMAIN turns
    BY <1>1, <1>2, <1>4 DEF FrameSound, TurnIds
  <2>2. StartDrain(Top.turn, TRUE, Below)
    BY <1>4 DEF Return
  <2> QED BY <1>1, <1>2, <1>3, <2>1, <2>2, StartDrainKeeps
<1>5. CASE Top.own # TRUE
  <2>1. stack' = Below /\ UNCHANGED <<turns, draining_turns>>
    BY <1>2, <1>5 DEF Return, FrameType
  <2>2. \A fr \in Range(Below) : FrameSound(fr)
    BY <1>2 DEF ReactiveInv, StackSound
  <2> QED BY <1>1, <1>2, <1>3, <2>1, <2>2, StackKeeps
<1> QED BY <1>4, <1>5

LEMMA FlushKeeps ==
  ASSUME ReactiveInv, flush, UNCHANGED threw
  PROVE  ReactiveInv'
<1>1. stack # <<>> /\ Top.turn # NoTurn /\ StartDrain(Top.turn, FALSE, stack) /\ UNCHANGED graphVars
  BY DEF flush, InCode
<1>2. FrameSound(Top) /\ stack \in Seq(FrameType)
  BY <1>1, TopEffect DEF ReactiveInv, StackSound
<1>3. Top.turn \in DOMAIN turns
  BY <1>1, <1>2 DEF FrameSound, TurnIds
<1> QED BY <1>1, <1>2, <1>3, StartDrainKeeps

\* The stack's last frame gets another wave.
LEMMA NextWave ==
  ASSUME StackSound, stack # <<>>, Top.f # "code", NEW wave \in Seq(Nat),
         Top.f = "drain" => Ascending(wave)
  PROVE  LET g == [Top EXCEPT !.wave = wave]
             st == Append(Below, g)
         IN  /\ st \in Seq(FrameType) /\ Range(st) = Range(Below) \cup {g}
             /\ \A fr \in Range(st) : FrameSound(fr)
             /\ g.wave = wave /\ g.f = Top.f /\ g.turn = Top.turn
<1> DEFINE g == [Top EXCEPT !.wave = wave]
           st == Append(Below, g)
<1>1. /\ Below \in Seq(FrameType) /\ Top \in FrameType /\ FrameSound(Top)
      /\ Range(stack) = Range(Below) \cup {Top}
  BY TopEffect
<1>2. /\ g \in FrameType /\ FrameSound(g)
      /\ g.wave = wave /\ g.f = Top.f /\ g.turn = Top.turn
  BY <1>1, WaveFrame
<1> HIDE DEF g
<1>3. st \in Seq(FrameType) /\ Range(st) = Range(Below) \cup {g}
  BY <1>1, <1>2, PushEffect
<1>4. \A fr \in Range(st) : FrameSound(fr)
  BY <1>1, <1>2, <1>3 DEF StackSound
<1> QED BY <1>2, <1>3, <1>4 DEF g

\* Who was drained on the stack still is, when only the last frame's wave changed.
LEMMA NextWaveDrains ==
  ASSUME StackSound, stack # <<>>, NEW g, g.f = Top.f, g.turn = Top.turn,
         Range(Below) \cup {g} \subseteq Range(stack')
  PROVE  \A t : Drains(t) => Drains(t)'
<1>1. Range(stack) = Range(Below) \cup {Top}
  BY TopEffect
<1> QED BY <1>1 DEF Drains

\* One turn becomes w, under the drains of the next stack.
LEMMA OneTurnKept ==
  ASSUME ReactiveInv, NEW t \in DOMAIN turns, NEW w \in TurnType, turns' = [turns EXCEPT ![t] = w],
         draining_turns' \in Seq(Nat), Range(draining_turns') \subseteq DOMAIN turns,
         QueuesInStep(w), Served(w), w.draining = TRUE => Drains(t)',
         \A u \in DOMAIN turns : u # t /\ Drains(u) => Drains(u)'
  PROVE  TurnsKept
<1>1. /\ turns' \in Seq(TurnType) /\ DOMAIN turns' = DOMAIN turns /\ turns'[t] = w
      /\ \A u \in DOMAIN turns : u # t => turns'[u] = turns[u]
  BY OneTurn DEF ReactiveInv
<1>2. ASSUME NEW u \in DOMAIN turns'
      PROVE  /\ QueuesInStep(turns'[u]) /\ Served(turns'[u])
             /\ turns'[u].draining = TRUE => Drains(u)'
  <2>1. CASE u = t
    BY <1>1, <2>1
  <2>2. CASE u # t
    BY <1>1, <2>2 DEF ReactiveInv, TurnsSound
  <2> QED BY <2>1, <2>2
<1>3. TurnsSound'
  BY <1>2 DEF TurnsSound
<1> QED BY <1>1, <1>3 DEF TurnsKept

-----------------------------------------------------------------------------
(***************************************************************************)
(* Steps on the turns.                                                     *)
(***************************************************************************)
LEMMA MicrotaskKeeps ==
  ASSUME ReactiveInv, NEW t \in DOMAIN turns, Microtask(t), UNCHANGED threw
  PROVE  ReactiveInv'
<1> DEFINE w == [turns[t] EXCEPT !.scheduled = FALSE, !.draining = TRUE]
           d == Drain(t, FALSE)
<1>1. turns[t] \in TurnType /\ t \in Nat
  BY LenProperties DEF ReactiveInv, TurnTypes
<1>2. /\ stack = <<>> /\ stack' = <<d>> /\ turns' = [turns EXCEPT ![t] = w]
      /\ draining_turns' = Append(draining_turns, t)
  BY <1>1 DEF Microtask, TurnType
<1>3. /\ w \in TurnType /\ Waiting(w) = Waiting(turns[t]) /\ w.draining = TRUE
      /\ QueuesInStep(turns[t]) => QueuesInStep(w)
  BY <1>1 DEF TurnType, Waiting, QueuesInStep
<1>4. d \in FrameType /\ FrameSound(d) /\ d.f = "drain" /\ d.turn = t
  BY DrainFrame DEF ReactiveInv, Drain
<1> HIDE DEF w, d
<1>5. stack' \in Seq(FrameType) /\ Range(stack') = {d} /\ Range(stack) = {}
  BY <1>2, <1>4, OneFrame
<1>6. draining_turns' \in Seq(Nat) /\ Range(draining_turns') \subseteq DOMAIN turns
  <2>1. /\ draining_turns \in Seq(Nat) /\ Range(draining_turns) \subseteq DOMAIN turns
        /\ draining_turns' = Append(draining_turns, t)
    BY <1>2 DEF ReactiveInv, TurnTypes
  <2>2. Append(draining_turns, t) \in Seq(Nat)
        /\ Range(Append(draining_turns, t)) = Range(draining_turns) \cup {t}
    BY <1>1, <2>1, PushEffect
  <2> QED BY <2>1, <2>2
<1>7. QueuesInStep(w) /\ Served(w) /\ Drains(t)'
  BY <1>3, <1>4, <1>5 DEF ReactiveInv, TurnsSound, Served, Drains
<1>8. \A u : ~ Drains(u)
  BY <1>5 DEF Drains
<1>9. TurnsKept
  BY <1>2, <1>3, <1>6, <1>7, <1>8, OneTurnKept
<1>10. \A s \in live : Flies(s) => Flies(s)'
  <2>1. \A u \in DOMAIN turns : u \in DOMAIN turns' /\ Waiting(turns'[u]) = Waiting(turns[u])
    BY <1>2, <1>3, OneTurn DEF ReactiveInv
  <2> QED BY <1>5, <2>1 DEF Flies
<1>11. \A fr \in Range(stack') : FrameSound(fr)
  BY <1>4, <1>5
<1>12. UNCHANGED graphVars
  BY DEF Microtask
<1> QED BY <1>5, <1>9, <1>10, <1>11, <1>12, SchedulingKeeps DEF ReactiveInv

LEMMA TurnKeeps ==
  ASSUME ReactiveInv, turn, UNCHANGED threw
  PROVE  ReactiveInv'
<1>1. /\ turns' = Append(turns, NewTurn)
      /\ stack' = Append(stack, Code(Len(turns) + 1, TRUE, IF stack = <<>> THEN NoOwner ELSE Top.owner))
      /\ UNCHANGED <<graphVars, draining_turns, threw>>
  BY DEF turn
<1>2. turns \in Seq(TurnType) /\ Len(turns) \in Nat /\ stack \in Seq(FrameType)
  BY DEF ReactiveInv, TurnTypes, StackSound
<1>3. /\ NewTurn \in TurnType /\ QueuesInStep(NewTurn) /\ Served(NewTurn)
      /\ NewTurn.draining = FALSE
  <2>1. <<>> \in Seq(Nat) /\ Range(<<>>) = {} /\ Ascending(<<>>)
    BY DEF Range, Ascending
  <2> QED BY <2>1 DEF NewTurn, TurnType, QueuesInStep, Served, Waiting
<1>15. PICK n \in Nat : n = Len(turns) + 1
  BY <1>2
<1>4. /\ turns' \in Seq(TurnType) /\ DOMAIN turns' = DOMAIN turns \cup {n}
      /\ turns'[n] = NewTurn /\ \A u \in DOMAIN turns : turns'[u] = turns[u]
  BY <1>1, <1>2, <1>3, <1>15
<1>5. PICK owner \in Nat \X Nat : Held(owner) /\ stack' = Append(stack, Code(n, TRUE, owner))
  <2>1. NoOwner \in Nat \X Nat /\ Held(NoOwner)
    BY DEF NoOwner, Held
  <2>2. CASE stack # <<>>
    BY <1>1, <1>15, <2>2, TopEffect DEF ReactiveInv, FrameType, FrameSound
  <2> QED BY <1>1, <1>15, <2>1, <2>2
<1>6. Held(owner)'
  BY <1>1, <1>5 DEF Held, graphVars
<1> DEFINE fr == Code(n, TRUE, owner)
<1>7. fr \in FrameType /\ fr.f = "code"
  BY <1>2, <1>5 DEF Code, FrameType
<1>8. FrameSound(fr)'
  <2>1. n \in DOMAIN turns' /\ n # NoTurn
    BY <1>2, <1>4, <1>15 DEF NoTurn
  <2> QED BY <1>6, <2>1 DEF FrameSound, TurnIds, Code
<1> HIDE DEF fr
<1>9. stack' \in Seq(FrameType) /\ Range(stack') = Range(stack) \cup {fr}
  BY <1>2, <1>5, <1>7, PushEffect DEF fr
<1>10. \A u : Drains(u) => Drains(u)'
  BY <1>9 DEF Drains
<1>11. TurnsSound'
  <2> SUFFICES ASSUME NEW u \in DOMAIN turns'
               PROVE  /\ QueuesInStep(turns'[u]) /\ Served(turns'[u])
                      /\ turns'[u].draining = TRUE => Drains(u)'
    BY DEF TurnsSound
  <2>1. CASE u = n
    BY <1>3, <1>4, <2>1
  <2>2. CASE u # n
    BY <1>4, <1>10, <2>2 DEF ReactiveInv, TurnsSound
  <2> QED BY <2>1, <2>2
<1>12. TurnsKept
  BY <1>1, <1>4, <1>11 DEF TurnsKept, ReactiveInv, TurnTypes
<1>13. \A s \in live : Flies(s) => Flies(s)'
  BY <1>4, <1>9 DEF Flies
<1>14. \A g \in Range(stack') : FrameSound(g) \/ FrameSound(g)'
  BY <1>8, <1>9 DEF ReactiveInv, StackSound
<1> QED BY <1>1, <1>9, <1>12, <1>13, <1>14, SchedulingKeeps DEF ReactiveInv

LEMMA ResolvedIs ==
  ASSUME TurnTypes, NEW t \in TurnIds, Resolved(t) # NoTurn
  PROVE  Resolved(t) \in DOMAIN turns
<1>1. CASE t # NoTurn
  BY <1>1 DEF Resolved, TurnIds
<1>2. CASE t = NoTurn
  <2>1. draining_turns # <<>> /\ Resolved(t) = draining_turns[Len(draining_turns)]
    BY <1>2 DEF Resolved, Last
  <2>2. draining_turns[Len(draining_turns)] \in Range(draining_turns)
    BY <2>1, PopEffect DEF TurnTypes
  <2> QED BY <2>1, <2>2 DEF TurnTypes
<1> QED BY <1>1, <1>2

LEMMA SettleKeeps ==
  ASSUME ReactiveInv, at_settle, UNCHANGED threw
  PROVE  ReactiveInv'
<1> DEFINE t == Resolved(Top.turn)
<1>1. /\ stack # <<>> /\ UNCHANGED <<graphVars, draining_turns, stack, threw>>
      /\ turns' = IF t = NoTurn THEN turns ELSE enqueue(t, <<Deferred>>)
  BY DEF at_settle, InCode
<1>2. FrameSound(Top) /\ stack \in Seq(FrameType) /\ \A fr \in Range(stack) : FrameSound(fr)
  BY <1>1, TopEffect DEF ReactiveInv, StackSound
<1>3. CASE t = NoTurn
  BY <1>1, <1>2, <1>3, StackKeeps
<1>4. CASE t # NoTurn
  <2>1. t \in DOMAIN turns
    BY <1>2, <1>4, ResolvedIs DEF FrameSound, ReactiveInv
  <2>2. <<Deferred>> \in Seq(Nat)
    BY DEF Deferred
  <2> HIDE DEF t
  <2>3. ProgressStays /\ \A u \in DOMAIN turns : Waiting(turns[u]) \subseteq Waiting(turns'[u])
    BY <1>1, <1>4, <2>1, <2>2, EnqueueKeeps DEF ReactiveInv
  <2>4. \A u : Drains(u) => Drains(u)'
    BY <1>1 DEF Drains
  <2>5. TurnsKept
    BY <1>1, <2>3, <2>4, ProgressIsKept
  <2>6. \A s \in live : Flies(s) => Flies(s)'
    BY <1>1, <2>3 DEF Flies, ProgressStays
  <2> QED BY <1>1, <1>2, <2>5, <2>6, SchedulingKeeps DEF ReactiveInv
<1> QED BY <1>3, <1>4

\* A drain takes a queue out of its turn and runs it as a wave: w is what is
\* left of the turn.
LEMMA TakeWaveEffect ==
  ASSUME ReactiveInv, TakeWave
  PROVE  \E wave \in Seq(Nat), w \in TurnType :
           LET t == Top.turn IN
           /\ stack' = Append(Below, [Top EXCEPT !.wave = wave]) /\ turns' = [turns EXCEPT ![t] = w]
           /\ Ascending(wave) /\ QueuesInStep(w) /\ ProgressKept(turns[t], w)
           /\ w.scheduled = turns[t].scheduled
           /\ Waiting(turns[t]) = Waiting(w) \cup Range(wave)
           /\ w.queued # turns[t].queued => turns[t].queued_derived = {}
<1> DEFINE t == Top.turn
           u == turns[t]
<1>1. stack # <<>> /\ Top.f = "drain"
  BY DEF TakeWave
<1>2. t \in DOMAIN turns /\ t \in Nat
  BY <1>1, TopEffect DEF ReactiveInv, FrameSound, TurnIds, TurnTypes
<1>3. u \in TurnType /\ QueuesInStep(u)
  BY <1>2, LenProperties DEF ReactiveInv, TurnTypes, TurnsSound
<1>4. u.pending \in Seq(Nat) /\ u.pending_derived \in Seq(Nat) /\ <<>> \in Seq(Nat)
      /\ Range(<<>>) = {} /\ Ascending(<<>>)
  BY <1>3 DEF TurnType, Range, Ascending
<1>5. CASE TakesDerived(t)
  <2> DEFINE w == [u EXCEPT !.pending_derived = <<>>, !.queued_derived = {}]
             wave == u.pending_derived
  <2>1. turns' = [turns EXCEPT ![t] = w] /\ stack' = Append(Below, [Top EXCEPT !.wave = wave])
    BY <1>2, <1>3, <1>5 DEF TakeWave, TurnType
  <2>2. /\ w.pending_derived = <<>> /\ w.queued_derived = {}
        /\ w.pending = u.pending /\ w.queued = u.queued
        /\ ProgressKept(u, w) /\ w.scheduled = u.scheduled /\ w \in TurnType
    BY <1>3, <1>4 DEF TurnType, ProgressKept
  <2>3. Ascending(wave)
    <3>1. ASSUME NEW i \in DOMAIN wave PROVE wave[i] = Refresh
      BY <1>3 DEF QueuesInStep, Range
    <3>2. Refresh <= Refresh
      BY DEF Refresh
    <3> QED BY <3>1, <3>2 DEF Ascending
  <2> HIDE DEF w
  <2>4. QueuesInStep(w) /\ Waiting(u) = Waiting(w) \cup Range(wave)
    BY <1>3, <1>4, <2>2 DEF QueuesInStep, Waiting
  <2> QED BY <1>4, <2>1, <2>2, <2>3, <2>4
<1>6. CASE ~ TakesDerived(t)
  <2> DEFINE w == [u EXCEPT !.pending = <<>>, !.queued = {}]
             wave == u.pending
  <2>1. turns' = [turns EXCEPT ![t] = w] /\ stack' = Append(Below, [Top EXCEPT !.wave = wave])
    BY <1>2, <1>3, <1>6 DEF TakeWave, TurnType
  <2>2. /\ w.pending = <<>> /\ w.queued = {}
        /\ w.pending_derived = u.pending_derived /\ w.queued_derived = u.queued_derived
        /\ ProgressKept(u, w) /\ w.scheduled = u.scheduled /\ w \in TurnType
    BY <1>3, <1>4 DEF TurnType, ProgressKept
  <2> HIDE DEF w
  <2>3. QueuesInStep(w) /\ Waiting(u) = Waiting(w) \cup Range(wave) /\ Ascending(wave)
    BY <1>3, <1>4, <2>2 DEF QueuesInStep, Waiting
  <2>4. u.queued_derived = {}
    BY <1>3, <1>4, <1>6 DEF TakesDerived, QueuesInStep
  <2> QED BY <1>4, <2>1, <2>2, <2>3, <2>4
<1> QED BY <1>5, <1>6

LEMMA TakeWaveKeeps ==
  ASSUME ReactiveInv, TakeWave, UNCHANGED threw
  PROVE  ReactiveInv'
<1>1. stack # <<>> /\ Top.f = "drain" /\ Top.wave = <<>> /\ UNCHANGED <<graphVars, draining_turns, threw>>
  BY DEF TakeWave
<1>2. PICK t \in DOMAIN turns : t = Top.turn
  BY <1>1, TopEffect DEF ReactiveInv, FrameSound, TurnIds
<1>3. PICK wave \in Seq(Nat), w \in TurnType :
           /\ stack' = Append(Below, [Top EXCEPT !.wave = wave]) /\ turns' = [turns EXCEPT ![t] = w]
           /\ Ascending(wave) /\ QueuesInStep(w) /\ ProgressKept(turns[t], w)
           /\ w.scheduled = turns[t].scheduled
           /\ Waiting(turns[t]) = Waiting(w) \cup Range(wave)
  BY <1>2, TakeWaveEffect
<1> DEFINE g == [Top EXCEPT !.wave = wave]
<1>4. /\ stack' \in Seq(FrameType) /\ Range(stack') = Range(Below) \cup {g}
      /\ \A fr \in Range(stack') : FrameSound(fr)
      /\ g.wave = wave /\ g.f = Top.f /\ g.turn = t
  BY <1>1, <1>2, <1>3, NextWave DEF ReactiveInv
<1> HIDE DEF g
<1>5. \A u : Drains(u) => Drains(u)'
  BY <1>1, <1>2, <1>4, NextWaveDrains DEF ReactiveInv
<1>6. Served(w) /\ (w.draining = TRUE => Drains(t)')
  BY <1>2, <1>3, <1>5 DEF ReactiveInv, TurnsSound, Served, ProgressKept
<1>7. TurnsKept
  BY <1>1, <1>2, <1>3, <1>5, <1>6, OneTurnKept DEF ReactiveInv, TurnTypes
<1>8. \A s \in live : Flies(s) => Flies(s)'
  <2>1. /\ DOMAIN turns' = DOMAIN turns /\ turns'[t] = w
        /\ \A u \in DOMAIN turns : u # t => turns'[u] = turns[u]
    BY <1>2, <1>3, OneTurn DEF ReactiveInv
  <2>2. Range(stack) = Range(Below) \cup {Top}
    BY <1>1, TopEffect DEF ReactiveInv
  <2>3. Range(Top.wave) = {}
    BY <1>1 DEF Range
  <2> QED BY <1>2, <1>3, <1>4, <2>1, <2>2, <2>3 DEF Flies
<1> QED BY <1>1, <1>4, <1>7, <1>8, SchedulingKeeps DEF ReactiveInv

LEMMA FrontEffect ==
  ASSUME NEW q \in Seq(Nat)
  PROVE  Front(q) \in Seq(Nat) /\ Range(Front(q)) \subseteq Range(q)
<1> DEFINE L == Len(q)
           b == SubSeq(q, 1, L - 1)
<1>1. L \in Nat /\ DOMAIN q = 1..L /\ \A n \in 1..L : q[n] \in Nat
  BY LenProperties
<1>2. 1 \in Int /\ L - 1 \in Int /\ \A n \in 1..L - 1 : q[n] \in Nat
  BY <1>1
<1>3. /\ b \in Seq(Nat) /\ Len(b) = IF 1 <= L - 1 THEN (L - 1) - 1 + 1 ELSE 0
      /\ \A n \in 1..(L - 1) - 1 + 1 : b[n] = q[1 + n - 1]
  BY <1>2, SubSeqProperties
<1> HIDE DEF b, L
<1>4. ASSUME NEW n \in DOMAIN b PROVE \E k \in 1..L : b[n] = q[k]
  <2>1. DOMAIN b = 1..Len(b)
    BY <1>3
  <2>2. n \in 1..(L - 1) - 1 + 1 /\ 1 + n - 1 = n /\ n \in 1..L
    BY <1>1, <1>3, <2>1
  <2> QED BY <1>3, <2>2
<1>5. Range(b) \subseteq Range(q)
  BY <1>1, <1>4 DEF Range
<1> QED BY <1>3, <1>5 DEF Front, b, L

LEMMA EndDrainKeeps ==
  ASSUME ReactiveInv, EndDrain, UNCHANGED threw
  PROVE  ReactiveInv'
<1>1. /\ stack # <<>> /\ Top.f = "drain" /\ Top.wave = <<>> /\ stack' = Below
      /\ draining_turns' = Front(draining_turns) /\ UNCHANGED <<graphVars, threw>>
      /\ is_quiescent(Top.turn)
  BY DEF EndDrain
<1>2. /\ Below \in Seq(FrameType) /\ Top \in FrameType
      /\ Range(stack) = Range(Below) \cup {Top} /\ FrameSound(Top)
  BY <1>1, TopEffect DEF ReactiveInv
<1>3. PICK t \in DOMAIN turns : t = Top.turn
  BY <1>1, <1>2 DEF FrameSound, TurnIds
<1> DEFINE u == turns[t]
           w == [u EXCEPT !.draining = FALSE, !.settled = @ \/ Top.own, !.extent = @ /\ ~ Top.own]
<1>4. u \in TurnType /\ QueuesInStep(u) /\ Top.own \in BOOLEAN
  BY <1>2, LenProperties DEF ReactiveInv, TurnTypes, TurnsSound, FrameType
<1>5. turns' = [turns EXCEPT ![t] = w]
  BY <1>3, <1>4 DEF EndDrain, TurnType
<1>6. /\ w \in TurnType /\ Waiting(w) = Waiting(u) /\ w.draining = FALSE
      /\ QueuesInStep(w)
  BY <1>4 DEF TurnType, Waiting, QueuesInStep
<1>7. Waiting(u) = {}
  BY <1>1, <1>3, <1>4 DEF is_quiescent, QueuesInStep, Waiting, Range
<1> HIDE DEF w, u
<1>8. Served(w)
  BY <1>6, <1>7 DEF Served
<1>9. \A n \in DOMAIN turns : n # t /\ Drains(n) => Drains(n)'
  BY <1>1, <1>2, <1>3 DEF Drains
<1>10. draining_turns' \in Seq(Nat) /\ Range(draining_turns') \subseteq DOMAIN turns
  BY <1>1, FrontEffect DEF ReactiveInv, TurnTypes
<1>11. TurnsKept
  BY <1>5, <1>6, <1>8, <1>9, <1>10, OneTurnKept
<1>12. \A s \in live : Flies(s) => Flies(s)'
  <2>1. /\ DOMAIN turns' = DOMAIN turns /\ turns'[t] = w
        /\ \A n \in DOMAIN turns : n # t => turns'[n] = turns[n]
    BY <1>5, <1>6, OneTurn DEF ReactiveInv
  <2>2. \A n \in DOMAIN turns : Waiting(turns'[n]) = Waiting(turns[n])
    BY <1>6, <2>1 DEF u
  <2>3. Range(Top.wave) = {}
    BY <1>1 DEF Range
  <2> QED BY <1>1, <1>2, <2>1, <2>2, <2>3 DEF Flies
<1>13. \A fr \in Range(stack') : FrameSound(fr)
  BY <1>1, <1>2 DEF ReactiveInv, StackSound
<1> QED BY <1>1, <1>2, <1>11, <1>12, <1>13, SchedulingKeeps DEF ReactiveInv

LEMMA ThrowKeeps ==
  ASSUME ReactiveInv, throw
  PROVE  ReactiveInv'
<1>1. /\ turns' = [t \in DOMAIN turns |-> Unwound(t)] /\ draining_turns' = <<>>
      /\ stack' = <<>> /\ threw' = TRUE /\ UNCHANGED graphVars
  BY DEF throw
<1>2. /\ DOMAIN turns' = DOMAIN turns
      /\ \A t \in DOMAIN turns : turns[t] \in TurnType /\ turns'[t] = Unwound(t)
  BY <1>1, LenProperties DEF ReactiveInv, TurnTypes
<1>3. ASSUME NEW t \in DOMAIN turns
      PROVE  /\ turns'[t] \in TurnType /\ QueuesInStep(turns'[t]) /\ Served(turns'[t])
             /\ turns'[t].draining = FALSE
  <2> DEFINE u == turns[t]
             w == Unwound(t)
             drained == Frames(t, "drain") # {}
             ended == \E n \in DOMAIN stack : stack[n].turn = t /\ stack[n].own
             left == IF drained \/ ended THEN u.queued \cup u.queued_derived ELSE {}
  <2>1. u \in TurnType /\ QueuesInStep(u) /\ Served(u) /\ left \subseteq Nat
    BY <1>2 DEF ReactiveInv, TurnsSound, TurnType
  <2>2. u.draining = TRUE => drained
    BY DEF ReactiveInv, TurnsSound, Drains, Frames, Range
  <2>3. Restored(t) = FALSE
    BY <2>1, <2>2 DEF Restored, TurnType
  <2>4. w = [u EXCEPT !.draining = FALSE, !.extent = @ /\ ~ ended, !.broke = @ \/ drained,
                      !.abandoned = @ \cup left]
    BY <2>3 DEF Unwound
  <2>5. ended \in BOOLEAN /\ drained \in BOOLEAN
    OBVIOUS
  <2>6. drained => left = Waiting(u)
    BY DEF Waiting
  <2> HIDE DEF u, w, ended, drained, left
  <2>7. w \in TurnType
    BY <2>1, <2>4, <2>5 DEF TurnType
  <2>8. /\ w.pending = u.pending /\ w.pending_derived = u.pending_derived
        /\ w.queued = u.queued /\ w.queued_derived = u.queued_derived
        /\ w.settled = u.settled /\ w.scheduled = u.scheduled /\ w.draining = FALSE
        /\ w.abandoned = u.abandoned \cup left
    BY <2>1, <2>4 DEF TurnType
  <2>9. QueuesInStep(w) /\ Waiting(w) = Waiting(u)
    BY <2>1, <2>8 DEF QueuesInStep, Waiting
  <2>10. u.draining = TRUE \/ u.draining = FALSE
    BY <2>1 DEF TurnType
  <2>11. Served(w)
    BY <2>1, <2>2, <2>6, <2>8, <2>9, <2>10 DEF Served, u
  <2> QED BY <1>2, <2>7, <2>8, <2>9, <2>11 DEF w
<1>4. turns' \in Seq(TurnType)
  <2>1. turns \in Seq(TurnType) /\ Len(turns) \in Nat /\ DOMAIN turns = 1..Len(turns)
    BY DEF ReactiveInv, TurnTypes
  <2>2. turns' = [t \in 1..Len(turns) |-> turns'[t]]
    BY <1>1, <1>2, <2>1
  <2>3. \A t \in 1..Len(turns) : turns'[t] \in TurnType
    BY <1>3, <2>1
  <2> QED BY <2>1, <2>2, <2>3, MakesASeq
<1>5. TurnsSound'
  BY <1>2, <1>3 DEF TurnsSound
<1>6. draining_turns' \in Seq(Nat) /\ Range(draining_turns') = {}
      /\ stack' \in Seq(FrameType) /\ Range(stack') = {}
  BY <1>1, OneFrame DEF Range
<1>7. TurnsKept
  BY <1>2, <1>4, <1>5, <1>6 DEF TurnsKept
<1> QED BY <1>1, <1>6, <1>7, SchedulingKeeps

-----------------------------------------------------------------------------
(***************************************************************************)
(* The steps of a wave, and a write.                                       *)
(***************************************************************************)

LEMMA SubscriberIs ==
  ASSUME GraphTypes, NEW s \in Ids
  PROVE  /\ s \in 1..Len(subscriber) /\ epoch[s] \in Nat /\ subscriber[s].turn \in Nat
         /\ subscriber[s].owner \in Nat \X Nat /\ Observed(s) \subseteq Cells
<1>1. s \in 1..Len(subscriber) /\ s \in 1..Len(epoch)
  BY DEF GraphTypes, Ids
<1>2. subscriber[s] \in SubscriberType /\ epoch[s] \in Nat
  BY <1>1, LenProperties DEF GraphTypes
<1> QED BY <1>1, <1>2 DEF SubscriberType, Observed

\* A step that changes the graph answers for it too.
LEMMA GraphStepKeeps ==
  ASSUME ReactiveInv, Graph', TurnsKept, RunsKept, \A s \in Ids' : subscriber'[s].turn \in TurnIds',
         stack' \in Seq(FrameType),
         \A fr \in Range(stack') : FrameSound(fr) \/ FrameSound(fr)',
         threw' = threw,
         threw = FALSE => \A s \in live' : UpToDate(s)' \/ Flies(s)'
  PROVE  ReactiveInv'
<1>1. TurnTypes'
  BY DEF TurnTypes, TurnsKept
<1>2. StackSound'
  <2>1. ASSUME NEW fr \in Range(stack'), FrameSound(fr) PROVE FrameSound(fr)'
    <3>1. fr \in FrameType
      BY DEF Range
    <3> QED BY <2>1, <3>1, FrameKept DEF ReactiveInv, Graph, TurnsKept
  <2> QED BY <2>1 DEF StackSound
<1>3. StaleIsInFlight'
  <2>1. \A s : InFlight(s)' <=> Flies(s)'
    BY InFlightIs
  <2> QED BY <2>1 DEF ReactiveInv, StaleIsInFlight
<1> QED BY <1>1, <1>2, <1>3 DEF ReactiveInv, TurnsKept

\* The first of a wave, and the rest of it.
LEMMA TailEffect ==
  ASSUME NEW q \in Seq(Nat), q # <<>>
  PROVE  /\ Tail(q) \in Seq(Nat) /\ Head(q) \in Nat
         /\ Range(q) = {Head(q)} \cup Range(Tail(q))
         /\ Ascending(q) => Ascending(Tail(q))
<1> DEFINE L == Len(q)
           r == Tail(q)
<1>1. L \in Nat /\ L # 0 /\ DOMAIN q = 1..L /\ \A n \in 1..L : q[n] \in Nat
  BY EmptySeq, LenProperties
<1>2. r \in Seq(Nat) /\ Len(r) = L - 1 /\ Head(q) = q[1] /\ \A n \in 1..L - 1 : r[n] = q[n + 1]
  BY HeadTailProperties
<1> HIDE DEF r, L
<1>3. DOMAIN r = 1..L - 1
  BY <1>1, <1>2
<1>4. \A n \in 1..L - 1 : n + 1 \in 1..L
  BY <1>1
<1>5. \A n \in 1..L : n = 1 \/ (n - 1 \in 1..L - 1 /\ n - 1 + 1 = n)
  BY <1>1
<1>6. 1 \in 1..L
  BY <1>1
<1>7. Range(q) = {q[1]} \cup Range(r)
  <2>1. ASSUME NEW n \in 1..L PROVE q[n] \in {q[1]} \cup Range(r)
    <3>1. CASE n # 1
      <4>1. n - 1 \in 1..L - 1 /\ r[n - 1] = q[n]
        BY <1>2, <1>5, <3>1
      <4> QED BY <1>3, <4>1 DEF Range
    <3> QED BY <3>1
  <2>2. ASSUME NEW n \in 1..L - 1 PROVE r[n] \in Range(q)
    BY <1>1, <1>2, <1>4 DEF Range
  <2> QED BY <1>1, <1>3, <1>6, <2>1, <2>2 DEF Range
<1>8. ASSUME Ascending(q), NEW i \in 1..L - 1, NEW j \in 1..L - 1, i < j PROVE r[i] <= r[j]
  <2>1. i + 1 < j + 1
    BY <1>8
  <2> QED BY <1>1, <1>2, <1>4, <1>8, <2>1 DEF Ascending
<1> QED BY <1>1, <1>2, <1>3, <1>6, <1>7, <1>8 DEF Ascending, r

\* The wave that runs is one subscriber shorter, on the stack st.
LEMMA RestOfWave ==
  ASSUME ReactiveInv, stack # <<>>, Top.f \in {"drain", "inline"}, Top.wave # <<>>
  PROVE  LET st == Append(Below, [Top EXCEPT !.wave = Tail(@)])
         IN  /\ st \in Seq(FrameType) /\ Head(Top.wave) \in Nat
             /\ \A fr \in Range(st) : FrameSound(fr)
             /\ \A t : Drains(t) => \E fr \in Range(st) : fr.f = "drain" /\ fr.turn = t
             /\ \A s : (\E fr \in Range(stack) : s \in Range(fr.wave)) =>
                         s = Head(Top.wave) \/ \E fr \in Range(st) : s \in Range(fr.wave)
<1> DEFINE wave == Tail(Top.wave)
           g == [Top EXCEPT !.wave = wave]
           st == Append(Below, g)
<1>1. /\ Top \in FrameType /\ Range(stack) = Range(Below) \cup {Top} /\ FrameSound(Top)
  BY TopEffect DEF ReactiveInv
<1>2. /\ wave \in Seq(Nat) /\ Head(Top.wave) \in Nat
      /\ Range(Top.wave) = {Head(Top.wave)} \cup Range(wave)
      /\ Ascending(Top.wave) => Ascending(wave)
  BY <1>1, TailEffect DEF FrameType
<1>3. [Top EXCEPT !.wave = Tail(@)] = g
  BY <1>1 DEF FrameType
<1> HIDE DEF wave
<1>4. /\ st \in Seq(FrameType) /\ Range(st) = Range(Below) \cup {g}
      /\ \A fr \in Range(st) : FrameSound(fr)
      /\ g.wave = wave /\ g.f = Top.f /\ g.turn = Top.turn
  BY <1>1, <1>2, NextWave DEF ReactiveInv, FrameSound
<1> HIDE DEF g
<1>5. \A t : Drains(t) => \E fr \in Range(st) : fr.f = "drain" /\ fr.turn = t
  BY <1>1, <1>4 DEF Drains
<1>6. ASSUME NEW s, NEW fr \in Range(stack), s \in Range(fr.wave)
      PROVE  s = Head(Top.wave) \/ \E h \in Range(st) : s \in Range(h.wave)
  BY <1>1, <1>2, <1>4, <1>6
<1> QED BY <1>2, <1>3, <1>4, <1>5, <1>6

\* Whoever is not live is passed over; so is an action handed to at_settle.
LEMMA PassKeeps ==
  ASSUME ReactiveInv, stack # <<>>, Top.f \in {"drain", "inline"}, Top.wave # <<>>,
         Head(Top.wave) \notin live,
         stack' = Append(Below, [Top EXCEPT !.wave = Tail(@)]),
         UNCHANGED <<graphVars, turns, draining_turns, threw>>
  PROVE  ReactiveInv'
<1>1. /\ stack' \in Seq(FrameType) /\ \A fr \in Range(stack') : FrameSound(fr)
      /\ \A t : Drains(t) => Drains(t)'
  BY RestOfWave DEF Drains
<1>2. \A s \in live : Flies(s) => Flies(s)'
  BY RestOfWave DEF Flies
<1>3. TurnsKept
  BY <1>1 DEF ReactiveInv, TurnTypes, TurnsSound, TurnsKept
<1> QED BY <1>1, <1>2, <1>3, SchedulingKeeps DEF ReactiveInv

\* A notification has every subscriber of its cell in flight, and no one else
\* out of it.
LEMMA NotifyKeeps ==
  ASSUME ReactiveInv, NEW c \in Cells, NEW t \in TurnIds, NEW st \in Seq(FrameType),
         \A fr \in Range(st) : FrameSound(fr),
         \A u : Drains(u) => \E fr \in Range(st) : fr.f = "drain" /\ fr.turn = u,
         notify(c, t, st), UNCHANGED draining_turns
  PROVE  /\ TurnsKept /\ stack' \in Seq(FrameType) /\ \A fr \in Range(stack') : FrameSound(fr)
         /\ Range(st) \subseteq Range(stack')
         /\ \A u \in DOMAIN turns : u \in DOMAIN turns' /\ Waiting(turns[u]) \subseteq Waiting(turns'[u])
         /\ \A s \in Range(subscribers[c]) : Flies(s)'
<1> DEFINE r == Resolved(t)
           list == subscribers[c]
<1>1. list \in Seq(Nat)
  BY DEF ReactiveInv, Graph, GraphTypes
<1>2. CASE r # NoTurn
  <2>1. turns' = enqueue(r, list) /\ stack' = st
    BY <1>2 DEF notify
  <2>2. r \in DOMAIN turns
    BY <1>2, ResolvedIs DEF ReactiveInv
  <2>3. /\ ProgressStays
        /\ \A u \in DOMAIN turns : Waiting(turns[u]) \subseteq Waiting(turns'[u])
        /\ Range(list) \subseteq Waiting(turns'[r])
    BY <1>1, <2>1, <2>2, EnqueueKeeps DEF ReactiveInv
  <2>4. \A u : Drains(u) => Drains(u)'
    BY <2>1 DEF Drains
  <2>5. TurnsKept
    BY <2>3, <2>4, ProgressIsKept
  <2>6. \A s \in Range(list) : Flies(s)'
    BY <2>2, <2>3 DEF Flies, ProgressStays
  <2> QED BY <2>1, <2>3, <2>5, <2>6 DEF ProgressStays
<1>3. CASE r = NoTurn
  <2> DEFINE fr == Inline(list)
  <2>1. stack' = Append(st, fr) /\ turns' = turns
    BY <1>3 DEF notify
  <2>2. fr \in FrameType /\ FrameSound(fr) /\ fr.wave = list
    BY <1>1, InlineFrame DEF Inline
  <2> HIDE DEF fr
  <2>3. stack' \in Seq(FrameType) /\ Range(stack') = Range(st) \cup {fr}
    BY <2>1, <2>2, PushEffect
  <2>4. \A u : Drains(u) => Drains(u)'
    BY <2>3 DEF Drains
  <2>5. TurnsKept
    BY <2>1, <2>4 DEF ReactiveInv, TurnTypes, TurnsSound, TurnsKept
  <2>6. \A s \in Range(list) : Flies(s)'
    BY <2>2, <2>3 DEF Flies
  <2> QED BY <2>1, <2>2, <2>3, <2>5, <2>6
<1> QED BY <1>2, <1>3

\* A cell is written and its subscribers are notified, from the stack st, that
\* only lacks who is up to date.
LEMMA WriteKeeps ==
  ASSUME ReactiveInv, NEW c \in Cells, NEW v \in Values, c \in Sources => v \in {0, 1},
         NEW t \in TurnIds, NEW st \in Seq(FrameType),
         \A fr \in Range(st) : FrameSound(fr),
         \A u : Drains(u) => \E fr \in Range(st) : fr.f = "drain" /\ fr.turn = u,
         value' = [value EXCEPT ![c] = v], notify(c, t, st),
         UNCHANGED <<subscribers, subscriber, live, seen, epoch, draining_turns, threw>>,
         c = Memo => UpToDate(Refresh)',
         \A s \in live : (\E fr \in Range(stack) : s \in Range(fr.wave)) =>
           (c = Memo /\ s = Refresh) \/ \E fr \in Range(st) : s \in Range(fr.wave)
  PROVE  ReactiveInv'
<1>1. /\ TurnsKept /\ stack' \in Seq(FrameType) /\ \A fr \in Range(stack') : FrameSound(fr)
      /\ Range(st) \subseteq Range(stack')
      /\ \A u \in DOMAIN turns : u \in DOMAIN turns' /\ Waiting(turns[u]) \subseteq Waiting(turns'[u])
      /\ \A s \in Range(subscribers[c]) : Flies(s)'
  BY NotifyKeeps
<1>2. Graph'
  <2>1. GraphTypes'
    BY DEF ReactiveInv, Graph, GraphTypes, Ids, Cells
  <2>2. Owners'
    BY DEF ReactiveInv, Graph, Owners, Ids
  <2>3. Listed'
    BY DEF ReactiveInv, Graph, Listed, Observed, Cells
  <2>4. OwnedByALiveRun'
    BY DEF ReactiveInv, Graph, OwnedByALiveRun, IsDisposed
  <2> QED BY <2>1, <2>2, <2>3, <2>4 DEF Graph
<1>3. RunsKept
  <2>1. \A s \in Ids : epoch[s] \in Nat
    BY LenProperties DEF ReactiveInv, Graph, GraphTypes, Ids
  <2>2. Len(subscriber) \in Nat
    BY DEF ReactiveInv, Graph, GraphTypes
  <2> QED BY <2>1, <2>2 DEF RunsKept, Ids
<1>4. \A s \in Ids' : subscriber'[s].turn \in TurnIds'
  BY <1>1 DEF ReactiveInv, TurnTypes, TurnIds, Ids
<1>5. ASSUME threw = FALSE, NEW s \in live PROVE UpToDate(s)' \/ Flies(s)'
  <2>1. UpToDate(s) \/ Flies(s)
    BY <1>5, InFlightIs DEF ReactiveInv, StaleIsInFlight
  <2>2. CASE Flies(s)
    BY <1>1, <2>2 DEF Flies
  <2>3. CASE UpToDate(s) /\ c \in Observed(s)
    BY <1>1, <2>3 DEF ReactiveInv, Graph, Listed
  <2>4. CASE UpToDate(s) /\ c \notin Observed(s) /\ s = Refresh
    BY <2>4 DEF ReactiveInv, Graph, Listed, Cells
  <2>5. CASE UpToDate(s) /\ c \notin Observed(s) /\ s # Refresh
    <3>1. \A d \in Observed(s) : d \in Cells /\ value'[d] = value[d]
      <4>1. Observed(s) \subseteq Cells
        BY SubscriberIs DEF ReactiveInv, Graph, GraphTypes
      <4> QED BY <2>5, <4>1 DEF ReactiveInv, Graph, GraphTypes
    <3> QED BY <2>5, <3>1 DEF UpToDate, Derived, Observed
  <2> QED BY <2>1, <2>2, <2>3, <2>4, <2>5
<1> QED BY <1>1, <1>2, <1>3, <1>4, <1>5, GraphStepKeeps

LEMMA SetKeeps ==
  ASSUME ReactiveInv, NEW c \in Sources, set(c), UNCHANGED threw
  PROVE  ReactiveInv'
<1> DEFINE v == 1 - value[c]
<1>1. /\ stack # <<>> /\ notify(c, Top.turn, stack)
      /\ UNCHANGED <<subscribers, subscriber, live, seen, epoch, draining_turns, threw>>
  BY DEF set, InCode
<1>2. c \in Cells /\ c # Memo
  BY ReactiveAssumption DEF Cells
<1>3. value[c] \in {0, 1} /\ value \in [Cells -> Values]
  BY DEF ReactiveInv, Graph, GraphTypes
<1>4. value' = [value EXCEPT ![c] = v]
  BY DEF set
<1>5. v \in {0, 1} /\ v \in Values
  <2>1. IsFiniteSet(Sources) /\ Sources # {}
    BY ReactiveAssumption
  <2>2. Cardinality(Sources) \in Nat /\ Cardinality(Sources) # 0
    BY <2>1, FS_CardinalityType, FS_EmptySet
  <2> QED BY <1>3, <2>2 DEF Values
<1>6. stack \in Seq(FrameType) /\ Top.turn \in TurnIds /\ \A fr \in Range(stack) : FrameSound(fr)
  BY <1>1, TopEffect DEF ReactiveInv, StackSound, FrameSound
<1>7. \A u : Drains(u) => \E fr \in Range(stack) : fr.f = "drain" /\ fr.turn = u
  BY DEF Drains
<1> HIDE DEF v
<1> QED BY <1>1, <1>2, <1>4, <1>5, <1>6, <1>7, WriteKeeps

LEMMA PullType ==
  ASSUME NEW v
  PROVE  Pull(v) \in Values
<1> DEFINE S == {c \in Sources : v[c] = 1}
<1>1. S \subseteq Sources /\ IsFiniteSet(Sources)
  BY ReactiveAssumption
<1>2. Cardinality(S) \in Nat /\ Cardinality(Sources) \in Nat /\ Cardinality(S) <= Cardinality(Sources)
  <2> HIDE DEF S
  <2> QED BY <1>1, FS_Subset, FS_CardinalityType
<1> QED BY <1>2 DEF Pull, Values

\* The memo's refresh.
LEMMA RefreshKeeps ==
  ASSUME ReactiveInv, RunNext, UNCHANGED threw, Head(Top.wave) = Refresh, Refresh \in live
  PROVE  ReactiveInv'
<1> DEFINE st == Append(Below, [Top EXCEPT !.wave = Tail(@)])
<1>1. /\ stack # <<>> /\ Top.f \in {"drain", "inline"} /\ Top.wave # <<>>
      /\ UNCHANGED draining_turns /\ Fire(Refresh, st)
  BY DEF RunNext, Fires
<1>2. /\ st \in Seq(FrameType) /\ \A fr \in Range(st) : FrameSound(fr)
      /\ \A t : Drains(t) => \E fr \in Range(st) : fr.f = "drain" /\ fr.turn = t
      /\ \A s : (\E fr \in Range(stack) : s \in Range(fr.wave)) =>
                  s = Refresh \/ \E fr \in Range(st) : s \in Range(fr.wave)
  BY <1>1, RestOfWave
<1> HIDE DEF st
<1>3. /\ value' = [value EXCEPT ![Memo] = Pull(value)] /\ notify(Memo, subscriber[Refresh].turn, st)
      /\ UNCHANGED <<subscribers, subscriber, live, seen, epoch>>
  BY <1>1 DEF Fire, Derived, Refresh, Deferred
<1>4. Memo \in Cells /\ Memo \notin Sources /\ Pull(value) \in Values
  BY PullType, ReactiveAssumption DEF Cells
<1>5. subscriber[Refresh].turn \in TurnIds
  BY DEF ReactiveInv, TurnTypes, Graph, GraphTypes
<1>6. UpToDate(Refresh)'
  <2>1. value'[Memo] = Pull(value) /\ \A c \in Sources : value'[c] = value[c]
    BY <1>3, <1>4 DEF ReactiveInv, Graph, GraphTypes, Cells
  <2>2. {c \in Sources : value'[c] = 1} = {c \in Sources : value[c] = 1}
    BY <2>1
  <2>3. Pull(value') = Pull(value)
    BY <2>2 DEF Pull
  <2> QED BY <2>1, <2>3 DEF UpToDate, Derived
<1> QED BY <1>1, <1>2, <1>3, <1>4, <1>5, <1>6, WriteKeeps

-----------------------------------------------------------------------------
(***************************************************************************)
(* The release of observers: by their owner's next run, or their disposal.  *)
(***************************************************************************)
LEMMA UnlistedEffect ==
  ASSUME GraphTypes, NEW D
  PROVE  /\ Unlisted(D) \in [Cells -> Seq(Nat)]
         /\ \A c \in Cells : Range(Unlisted(D)[c]) = Range(subscribers[c]) \ D
<1>1. \A c \in Cells : kept(subscribers[c], D) \in Seq(Nat)
                       /\ Range(kept(subscribers[c], D)) = Range(subscribers[c]) \ D
  BY KeptEffect DEF GraphTypes
<1> QED BY <1>1 DEF Unlisted

\* D is out of the lists, and no longer live.
LEMMA ReleaseLists ==
  ASSUME Graph, NEW D, live' = live \ D, subscribers' = Unlisted(D), subscriber' = subscriber
  PROVE  /\ subscribers' \in [Cells -> Seq(Nat)] /\ live' \subseteq Ids' /\ Owners' /\ Listed'
<1>1. /\ subscribers' \in [Cells -> Seq(Nat)]
      /\ \A c \in Cells : Range(subscribers'[c]) = Range(subscribers[c]) \ D
  BY UnlistedEffect DEF Graph
<1>2. Owners' /\ live' \subseteq Ids'
  BY DEF Graph, GraphTypes, Owners, Ids
<1>3. \A s \in live : Observed(s) \subseteq Cells
  BY SubscriberIs DEF Graph, GraphTypes
<1>4. Listed'
  BY <1>1, <1>3 DEF Graph, Listed, Observed, Cells
<1> QED BY <1>1, <1>2, <1>4

\* D is out of the turns it can be reached from.
LEMMA ReleaseTurns ==
  ASSUME ReactiveInv, NEW D, NEW DD,
         turns' = [u \in DOMAIN turns |-> Scrubbed(turns[u], DD[u])],
         \A u \in DOMAIN turns : DD[u] \subseteq D
  PROVE  /\ ProgressStays
         /\ \A u \in DOMAIN turns : \A s : s \in Waiting(turns[u]) /\ s \notin D => s \in Waiting(turns'[u])
BY ScrubKeeps DEF ReactiveInv

\* What a run made is told from what is live by its owner.
LEMMA ChildrenAre ==
  ASSUME Graph, NEW s \in live, s # Refresh
  PROVE  /\ s \in 2..Len(subscriber) /\ epoch[s] \in Nat
         /\ Children(s) \subseteq Ids /\ s \notin Children(s)
         /\ \A d \in Children(s) : subscriber[d].owner # NoOwner
         /\ \A d \in live : subscriber[d].owner # NoOwner /\ d \notin Children(s) =>
              subscriber[d].owner[1] # s
<1>1. s \in 2..Len(subscriber)
  <2>1. s \in 1..Len(subscriber) /\ Len(subscriber) \in Nat
    BY SubscriberIs DEF Graph, GraphTypes
  <2> QED BY <2>1 DEF Refresh
<1>2. epoch[s] \in Nat
  BY SubscriberIs DEF Graph, GraphTypes
<1>3. \A d \in Ids : subscriber[d].owner \in Nat \X Nat
  BY SubscriberIs DEF Graph
<1>4. \A d \in Children(s) : d \in Ids /\ subscriber[d].owner = <<s, epoch[s]>>
  BY DEF Children
<1>5. <<s, epoch[s]>> # NoOwner
  BY <1>1 DEF NoOwner
<1>6. s \notin Children(s)
  <2> SUFFICES ASSUME s \in Children(s) PROVE FALSE
    OBVIOUS
  <2>1. s \in Ids /\ subscriber[s].owner[1] = s /\ subscriber[s].owner # NoOwner
    BY <1>4, <1>5
  <2>2. s \in 2..s - 1
    BY <2>1 DEF Graph, Owners
  <2> QED BY <1>1, <2>2
<1>7. ASSUME NEW d \in live, subscriber[d].owner # NoOwner, subscriber[d].owner[1] = s
      PROVE  d \in Children(s)
  <2>1. d \in Ids /\ epoch[s] = subscriber[d].owner[2]
    BY <1>7 DEF Graph, GraphTypes, OwnedByALiveRun, IsDisposed
  <2>2. subscriber[d].owner = <<s, epoch[s]>>
    BY <1>3, <1>7, <2>1
  <2> QED BY <2>1, <2>2 DEF Children
<1> QED BY <1>1, <1>2, <1>4, <1>5, <1>6, <1>7

\* The runs D of s are over: with its next one, or its disposal.
LEMMA ReleaseOwners ==
  ASSUME Graph, NEW s \in live, s # Refresh,
         live' = live \ Children(s) \/ live' = live \ ({s} \cup Children(s)),
         subscriber' = subscriber, epoch' = [epoch EXCEPT ![s] = @ + 1]
  PROVE  OwnedByALiveRun' /\ RunsKept /\ epoch' \in Seq(Nat) /\ Len(epoch') = Len(epoch)
         /\ epoch'[s] = epoch[s] + 1
<1>1. /\ s \in 2..Len(subscriber) /\ epoch[s] \in Nat
      /\ Children(s) \subseteq Ids /\ s \notin Children(s)
      /\ \A d \in Children(s) : subscriber[d].owner # NoOwner
      /\ \A d \in live : subscriber[d].owner # NoOwner /\ d \notin Children(s) =>
           subscriber[d].owner[1] # s
  BY ChildrenAre
<1>2. epoch \in Seq(Nat) /\ s \in Ids /\ s \in DOMAIN epoch /\ live \subseteq Ids /\ Len(subscriber) \in Nat
  BY <1>1 DEF Graph, GraphTypes, Ids
<1>3. /\ epoch' \in Seq(Nat) /\ Len(epoch') = Len(epoch) /\ epoch'[s] = epoch[s] + 1
      /\ \A d : d # s => epoch'[d] = epoch[d]
  <2>1. epoch[s] + 1 \in Nat
    BY <1>1
  <2> QED BY <1>2, <2>1
<1>4. ASSUME NEW d \in live', subscriber[d].owner # NoOwner
      PROVE  /\ epoch'[subscriber[d].owner[1]] = subscriber[d].owner[2]
             /\ subscriber[d].owner[1] \in live'
  <2> DEFINE o == subscriber[d].owner[1]
  <2>1. d \in live /\ d \notin Children(s) /\ d \in Ids
    BY <1>2
  <2>2. epoch[o] = subscriber[d].owner[2] /\ o \in live
    BY <1>4, <2>1 DEF Graph, OwnedByALiveRun, IsDisposed
  <2>3. subscriber[o].owner = NoOwner
    BY <1>4, <2>1 DEF Graph, Owners
  <2>4. o # s /\ o \notin Children(s)
    BY <1>1, <1>4, <2>1, <2>3
  <2> QED BY <1>3, <2>2, <2>4
<1>5. OwnedByALiveRun'
  BY <1>4 DEF OwnedByALiveRun, IsDisposed
<1>6. RunsKept
  <2>1. \A d \in Ids : epoch[d] \in Nat
    BY SubscriberIs DEF Graph
  <2>2. \A d \in Ids : epoch[d] <= epoch'[d]
    BY <1>3, <2>1
  <2>3. ASSUME NEW d \in Ids, d # Refresh, subscriber[d].owner = NoOwner, d \notin live'
        PROVE  d \notin live \/ epoch[d] < epoch'[d]
    <3>1. CASE d = s
      BY <1>1, <1>3, <3>1
    <3>2. CASE d # s
      BY <1>1, <2>3, <3>2
    <3> QED BY <3>1, <3>2
  <2> QED BY <1>2, <2>2, <2>3 DEF RunsKept, Ids
<1> QED BY <1>3, <1>5, <1>6

\* An effect's run.
LEMMA RunKeeps ==
  ASSUME ReactiveInv, RunNext, UNCHANGED threw, NEW s \in live, s # Refresh, s = Head(Top.wave)
  PROVE  ReactiveInv'
<1> DEFINE st == Append(Below, [Top EXCEPT !.wave = Tail(@)])
           D == Children(s)
           DD == [u \in DOMAIN turns |-> {d \in D : Resolved(subscriber[d].turn) = u}]
           now == [c \in Observed(s) |-> value[c]]
<1>1. /\ stack # <<>> /\ Top.f \in {"drain", "inline"} /\ Top.wave # <<>>
      /\ UNCHANGED draining_turns /\ Fire(s, st)
  BY DEF RunNext, Fires
<1>2. /\ st \in Seq(FrameType) /\ \A fr \in Range(st) : FrameSound(fr)
      /\ \A t : Drains(t) => \E fr \in Range(st) : fr.f = "drain" /\ fr.turn = t
      /\ \A x : (\E fr \in Range(stack) : x \in Range(fr.wave)) =>
                  x = s \/ \E fr \in Range(st) : x \in Range(fr.wave)
  BY <1>1, RestOfWave
<1>3. Graph /\ GraphTypes
  BY DEF ReactiveInv, Graph
<1>4. s \in 2..Len(subscriber) /\ epoch[s] \in Nat
  BY <1>3, ChildrenAre
<1>5. s \in Ids /\ s # Deferred /\ ~ Derived(s)
  BY <1>3, <1>4 DEF GraphTypes, Deferred, Derived
<1> HIDE DEF st
<1>6. /\ seen' = [seen EXCEPT ![s] = now] /\ epoch' = [epoch EXCEPT ![s] = @ + 1]
      /\ live' = live \ D /\ subscribers' = Unlisted(D) /\ turns' = ScrubbedTurns(D)
      /\ stack' = Append(st, Code(subscriber[s].turn, FALSE, <<s, epoch[s] + 1>>))
      /\ UNCHANGED <<value, subscriber>>
  BY <1>1, <1>5 DEF Fire
<1>7. /\ OwnedByALiveRun' /\ RunsKept /\ epoch' \in Seq(Nat) /\ Len(epoch') = Len(epoch)
      /\ epoch'[s] = epoch[s] + 1
  BY <1>3, <1>6, ReleaseOwners
<1>8. subscribers' \in [Cells -> Seq(Nat)] /\ live' \subseteq Ids' /\ Owners' /\ Listed'
  BY <1>3, <1>6, ReleaseLists
<1>9. /\ seen' \in Seq(SeenType) /\ Len(seen') = Len(seen) /\ seen'[s] = now
      /\ \A x : x # s => seen'[x] = seen[x]
  <2>1. Observed(s) \in SUBSET Cells /\ value \in [Cells -> Values]
    BY <1>3, <1>5, SubscriberIs DEF GraphTypes
  <2>2. now \in [Observed(s) -> Values]
    BY <2>1
  <2>3. now \in SeenType
    BY <2>1, <2>2 DEF SeenType
  <2>4. seen \in Seq(SeenType) /\ s \in DOMAIN seen
    BY <1>3, <1>4 DEF GraphTypes
  <2> HIDE DEF now
  <2> QED BY <1>6, <2>3, <2>4
<1>10. Graph'
  <2>1. GraphTypes'
    BY <1>3, <1>6, <1>7, <1>8, <1>9 DEF GraphTypes, Cells
  <2> QED BY <1>7, <1>8, <2>1 DEF Graph
<1>11. /\ ProgressStays
       /\ \A u \in DOMAIN turns : \A x : x \in Waiting(turns[u]) /\ x \notin D => x \in Waiting(turns'[u])
  <2>1. turns' = [u \in DOMAIN turns |-> Scrubbed(turns[u], DD[u])]
    BY <1>6 DEF ScrubbedTurns
  <2>2. \A u \in DOMAIN turns : DD[u] \subseteq D
    OBVIOUS
  <2> HIDE DEF DD
  <2> QED BY <2>1, <2>2, ReleaseTurns
<1>12. PICK t \in TurnIds, owner \in Nat \X Nat :
         stack' = Append(st, Code(t, FALSE, owner)) /\ owner = <<s, epoch[s] + 1>>
  <2>1. subscriber[s].turn \in TurnIds
    BY <1>5 DEF ReactiveInv, TurnTypes
  <2>2. <<s, epoch[s] + 1>> \in Nat \X Nat
    BY <1>4
  <2> QED BY <1>6, <2>1, <2>2
<1> DEFINE fr == Code(t, FALSE, owner)
<1>13. fr \in FrameType /\ fr.f = "code" /\ fr.own = FALSE /\ fr.turn = t /\ fr.owner = owner /\ fr.wave = <<>>
  BY CodeFrame DEF Code, ReactiveInv
<1> HIDE DEF fr
<1>14. FrameSound(fr)'
  <2>1. owner[1] = s /\ owner[2] = epoch'[s] /\ s \in live'
    BY <1>3, <1>6, <1>7, <1>12, ChildrenAre
  <2>2. Held(owner)'
    <3>1. s \in 2..Len(subscriber') /\ epoch'[s] \in Nat
      BY <1>4, <1>6, <1>7
    <3> QED BY <2>1, <3>1 DEF Held
  <2>3. t \in TurnIds'
    BY <1>11 DEF ProgressStays, TurnIds
  <2> QED BY <1>13, <2>2, <2>3 DEF FrameSound
<1>15. stack' \in Seq(FrameType) /\ Range(stack') = Range(st) \cup {fr}
  <2>1. stack' = Append(st, fr)
    BY <1>12 DEF fr
  <2>2. st \in Seq(FrameType) /\ fr \in FrameType
    BY <1>2, <1>13
  <2> QED BY <2>1, <2>2, PushEffect
<1>16. TurnsKept
  <2>1. \A u : Drains(u) => Drains(u)'
    BY <1>2, <1>15 DEF Drains
  <2> QED BY <1>1, <1>11, <2>1, ProgressIsKept
<1>17. \A x \in Ids' : subscriber'[x].turn \in TurnIds'
  BY <1>6, <1>11 DEF ReactiveInv, TurnTypes, TurnIds, Ids, ProgressStays
<1>18. ASSUME threw = FALSE, NEW x \in live' PROVE UpToDate(x)' \/ Flies(x)'
  <2>1. x \in live /\ x \notin D
    BY <1>6
  <2>2. CASE x = s
    <3>1. \A c \in Observed(s)' : seen'[s][c] = value'[c]
      BY <1>6, <1>9 DEF Observed
    <3> QED BY <1>5, <2>2, <3>1 DEF UpToDate, Derived
  <2>3. CASE x # s /\ UpToDate(x)
    BY <1>6, <1>9, <2>3 DEF UpToDate, Derived, Observed, Pull
  <2>4. CASE x # s /\ Flies(x)
    <3>1. DOMAIN turns' = DOMAIN turns
      BY <1>11 DEF ProgressStays
    <3> HIDE DEF D
    <3> QED BY <1>2, <1>11, <1>15, <2>1, <2>4, <3>1 DEF Flies
  <2>5. UpToDate(x) \/ Flies(x)
    BY <1>18, <2>1, InFlightIs DEF ReactiveInv, StaleIsInFlight
  <2> QED BY <2>2, <2>3, <2>4, <2>5
<1>19. \A g \in Range(stack') : FrameSound(g) \/ FrameSound(g)'
  BY <1>2, <1>14, <1>15
<1> QED BY <1>7, <1>10, <1>15, <1>16, <1>17, <1>18, <1>19, GraphStepKeeps

LEMMA RunNextKeeps ==
  ASSUME ReactiveInv, RunNext, UNCHANGED threw
  PROVE  ReactiveInv'
<1> DEFINE st == Append(Below, [Top EXCEPT !.wave = Tail(@)])
<1>1. /\ stack # <<>> /\ Top.f \in {"drain", "inline"} /\ Top.wave # <<>>
      /\ UNCHANGED draining_turns
      /\ IF Fires(Head(Top.wave)) THEN Fire(Head(Top.wave), st)
         ELSE stack' = st /\ UNCHANGED <<graphVars, turns>>
  BY DEF RunNext
<1>2. CASE Head(Top.wave) \in live
  <2>1. PICK s \in live : s = Head(Top.wave)
    BY <1>2
  <2> QED BY <2>1, RefreshKeeps, RunKeeps
<1>3. CASE Head(Top.wave) \notin live
  <2>1. stack' = st /\ UNCHANGED <<graphVars, turns>>
    BY <1>1, <1>3 DEF Fires, Fire
  <2> QED BY <1>1, <1>3, <2>1, PassKeeps
<1> QED BY <1>2, <1>3

\* What a disposal takes out of a turn, by its two scrubbings.
LEMMA ScrubTwice ==
  ASSUME ReactiveInv, NEW D, NEW DD, NEW EE,
         turns' = [u \in DOMAIN turns |-> Scrubbed(Scrubbed(turns[u], DD[u]), EE[u])],
         \A u \in DOMAIN turns : DD[u] \subseteq D /\ EE[u] \subseteq D
  PROVE  /\ ProgressStays
         /\ \A u \in DOMAIN turns : \A s : s \in Waiting(turns[u]) /\ s \notin D => s \in Waiting(turns'[u])
<1>1. turns \in Seq(TurnType) /\ \A u \in DOMAIN turns : turns[u] \in TurnType
  BY LenProperties DEF ReactiveInv, TurnTypes
<1>2. ASSUME NEW u \in DOMAIN turns
      PROVE  /\ turns'[u] \in TurnType /\ QueuesInStep(turns'[u]) /\ Served(turns'[u])
             /\ ProgressKept(turns[u], turns'[u])
             /\ \A s : s \in Waiting(turns[u]) /\ s \notin D => s \in Waiting(turns'[u])
  <2> DEFINE v == Scrubbed(turns[u], DD[u])
             w == Scrubbed(v, EE[u])
  <2>1. /\ v \in TurnType /\ QueuesInStep(v) /\ Waiting(v) = Waiting(turns[u]) \ DD[u]
        /\ ProgressKept(turns[u], v) /\ v.scheduled = turns[u].scheduled
    BY <1>1, ScrubbedEffect DEF ReactiveInv, TurnsSound
  <2> HIDE DEF v
  <2>2. /\ w \in TurnType /\ QueuesInStep(w) /\ Waiting(w) = Waiting(v) \ EE[u]
        /\ ProgressKept(v, w) /\ w.scheduled = v.scheduled
    BY <2>1, ScrubbedEffect
  <2>3. turns'[u] = w
    BY DEF v
  <2> HIDE DEF w
  <2>4. Served(w) /\ ProgressKept(turns[u], w)
    BY <2>1, <2>2 DEF ReactiveInv, TurnsSound, Served, ProgressKept
  <2>5. DD[u] \subseteq D /\ EE[u] \subseteq D
    OBVIOUS
  <2> QED BY <2>1, <2>2, <2>3, <2>4, <2>5
<1>3. turns' \in Seq(TurnType) /\ DOMAIN turns' = DOMAIN turns
  <2>1. Len(turns) \in Nat /\ DOMAIN turns = 1..Len(turns) /\ DOMAIN turns' = DOMAIN turns
    BY <1>1
  <2>2. turns' = [u \in 1..Len(turns) |-> turns'[u]]
    BY <2>1
  <2>3. \A u \in 1..Len(turns) : turns'[u] \in TurnType
    BY <1>2, <2>1
  <2> QED BY <2>1, <2>2, <2>3, MakesASeq
<1> QED BY <1>2, <1>3 DEF ProgressStays

LEMMA DisposeKeeps ==
  ASSUME ReactiveInv, NEW s \in Ids, dispose(s), UNCHANGED threw
  PROVE  ReactiveInv'
<1> DEFINE children == IF Derived(s) THEN {} ELSE Children(s)
           D == {s} \cup children
           DD == [u \in DOMAIN turns |-> {d \in children : Resolved(subscriber[d].turn) = u}]
           EE == [u \in DOMAIN turns |-> IF u = Resolved(Top.turn) THEN {s} ELSE {}]
<1>1. /\ s \in live /\ live' = live \ D /\ subscribers' = Unlisted(D)
      /\ turns' = [u \in DOMAIN turns |->
                    Scrubbed(ScrubbedTurns(children)[u], IF u = Resolved(Top.turn) THEN {s} ELSE {})]
      /\ epoch' = IF Derived(s) THEN epoch ELSE [epoch EXCEPT ![s] = @ + 1]
      /\ UNCHANGED <<value, subscriber, seen, draining_turns, stack, threw>>
  BY DEF dispose
<1>2. Graph /\ GraphTypes
  BY DEF ReactiveInv, Graph
<1>3. /\ ProgressStays
      /\ \A u \in DOMAIN turns : \A x : x \in Waiting(turns[u]) /\ x \notin D => x \in Waiting(turns'[u])
  <2>1. turns' = [u \in DOMAIN turns |-> Scrubbed(Scrubbed(turns[u], DD[u]), EE[u])]
    BY <1>1 DEF ScrubbedTurns
  <2>2. \A u \in DOMAIN turns : DD[u] \subseteq D /\ EE[u] \subseteq D
    OBVIOUS
  <2> HIDE DEF DD, EE, D
  <2> QED BY <2>1, <2>2, ScrubTwice
<1>4. subscribers' \in [Cells -> Seq(Nat)] /\ live' \subseteq Ids' /\ Owners' /\ Listed'
  <2> HIDE DEF D
  <2> QED BY <1>1, <1>2, ReleaseLists
<1>5. OwnedByALiveRun' /\ RunsKept /\ epoch' \in Seq(Nat) /\ Len(epoch') = Len(epoch)
  <2>1. CASE Derived(s)
    <3>1. epoch' = epoch /\ s = Refresh /\ live' = live \ {Refresh}
      BY <1>1, <2>1 DEF Derived
    <3>2. ASSUME NEW d \in live', subscriber[d].owner # NoOwner
          PROVE  /\ epoch'[subscriber[d].owner[1]] = subscriber[d].owner[2]
                 /\ subscriber[d].owner[1] \in live'
      <4>1. d \in live /\ d \in Ids /\ d \in Nat
        BY <1>2, <3>1, SubscriberIs DEF GraphTypes
      <4>2. epoch[subscriber[d].owner[1]] = subscriber[d].owner[2] /\ subscriber[d].owner[1] \in live
        BY <1>2, <3>2, <4>1 DEF Graph, OwnedByALiveRun, IsDisposed
      <4>3. subscriber[d].owner[1] \in 2..d - 1
        BY <1>2, <3>2, <4>1 DEF Graph, Owners
      <4>4. subscriber[d].owner[1] # Refresh
        BY <4>1, <4>3 DEF Refresh
      <4> QED BY <3>1, <4>2, <4>4
    <3>3. OwnedByALiveRun'
      BY <1>1, <3>2 DEF OwnedByALiveRun, IsDisposed
    <3>4. RunsKept
      <4>1. \A d \in Ids : epoch[d] \in Nat
        BY <1>2, SubscriberIs
      <4>2. Len(subscriber) \in Nat
        BY <1>2 DEF GraphTypes
      <4> QED BY <1>1, <3>1, <4>1, <4>2 DEF RunsKept, Ids
    <3> QED BY <1>2, <3>1, <3>3, <3>4 DEF GraphTypes
  <2>2. CASE ~ Derived(s)
    <3>1. s # Refresh /\ live' = live \ ({s} \cup Children(s)) /\ epoch' = [epoch EXCEPT ![s] = @ + 1]
      BY <1>1, <2>2 DEF Derived
    <3> QED BY <1>1, <1>2, <3>1, ReleaseOwners
  <2> QED BY <2>1, <2>2
<1> HIDE DEF D
<1>6. Graph'
  <2>1. GraphTypes'
    BY <1>1, <1>2, <1>4, <1>5 DEF GraphTypes, Cells
  <2> QED BY <1>4, <1>5, <2>1 DEF Graph
<1>7. TurnsKept
  <2>1. \A u : Drains(u) => Drains(u)'
    BY <1>1 DEF Drains
  <2> QED BY <1>1, <1>3, <2>1, ProgressIsKept
<1>8. \A x \in Ids' : subscriber'[x].turn \in TurnIds'
  BY <1>1, <1>3 DEF ReactiveInv, TurnTypes, TurnIds, Ids, ProgressStays
<1>9. ASSUME threw = FALSE, NEW x \in live' PROVE UpToDate(x)' \/ Flies(x)'
  <2>1. x \in live /\ x \notin D
    BY <1>1
  <2>2. UpToDate(x) \/ Flies(x)
    BY <1>9, <2>1, InFlightIs DEF ReactiveInv, StaleIsInFlight
  <2>3. UpToDate(x) => UpToDate(x)'
    BY <1>1 DEF UpToDate, Derived, Observed, Pull
  <2>4. Flies(x) => Flies(x)'
    <3>1. DOMAIN turns' = DOMAIN turns
      BY <1>3 DEF ProgressStays
    <3> QED BY <1>1, <1>3, <2>1, <3>1 DEF Flies
  <2> QED BY <2>2, <2>3, <2>4
<1>10. stack' \in Seq(FrameType) /\ \A fr \in Range(stack') : FrameSound(fr)
  BY <1>1 DEF ReactiveInv, StackSound
<1> QED BY <1>1, <1>5, <1>6, <1>7, <1>8, <1>9, <1>10, GraphStepKeeps

\* An effect that a run attaches.
LEMMA AttachKeeps ==
  ASSUME ReactiveInv, NEW c \in ChildCells, attach(c), UNCHANGED threw
  PROVE  ReactiveInv'
<1>1. Graph /\ GraphTypes /\ Len(subscriber) \in Nat /\ DOMAIN subscriber = 1..Len(subscriber)
  BY DEF ReactiveInv, Graph, GraphTypes
<1>2. Cardinality(Ids) = Len(subscriber)
  <2>1. Ids = 1..Len(subscriber) /\ 1 \in Int /\ Len(subscriber) \in Int /\ Len(subscriber) >= 2
    BY <1>1 DEF Ids, GraphTypes
  <2>2. Cardinality(1..Len(subscriber)) = IF 1 > Len(subscriber) THEN 0 ELSE Len(subscriber) - 1 + 1
    BY <2>1, FS_Interval
  <2>3. ~ (1 > Len(subscriber)) /\ Len(subscriber) - 1 + 1 = Len(subscriber)
    BY <2>1
  <2> QED BY <2>1, <2>2, <2>3
<1>3. PICK n \in Nat : n = Len(subscriber) + 1
  BY <1>1
<1>4. PICK owner \in Nat \X Nat, t \in TurnIds : owner = Top.owner /\ t = Top.turn /\ Held(owner)
  BY TopEffect DEF attach, InCode, ReactiveInv, FrameType, FrameSound
<1> DEFINE late == IsDisposed(owner)
           record == [turn |-> t, owner |-> owner, cells |-> {c}]
           now == [d \in {c} |-> value[d]]
<1>5. /\ owner # NoOwner /\ subscriber[owner[1]].owner = NoOwner
      /\ subscriber' = Append(subscriber, record)
      /\ seen' = Append(seen, now) /\ epoch' = Append(epoch, 0)
      /\ live' = IF late THEN live ELSE live \cup {n}
      /\ subscribers' = IF late THEN subscribers ELSE [subscribers EXCEPT ![c] = Append(@, n)]
      /\ UNCHANGED <<value, turns, draining_turns, stack, threw>>
  BY <1>2, <1>3, <1>4 DEF attach
<1>6. owner[1] \in 2..n - 1 /\ c \in Cells /\ t \in Nat
  BY <1>1, <1>3, <1>4, <1>5, ReactiveAssumption DEF Held, Cells, TurnIds, NoTurn, ReactiveInv, TurnTypes
<1>7. record \in SubscriberType /\ record.owner = owner /\ record.cells = {c} /\ record.turn = t
  BY <1>6 DEF SubscriberType
<1>8. now \in SeenType /\ now[c] = value[c]
  <2>1. now \in [{c} -> Values] /\ {c} \in SUBSET Cells
    BY <1>1, <1>6 DEF GraphTypes
  <2> QED BY <2>1 DEF SeenType
<1> HIDE DEF record, now
<1>9. /\ subscriber' \in Seq(SubscriberType) /\ Len(subscriber') = n /\ subscriber'[n] = record
      /\ \A x \in Ids : subscriber'[x] = subscriber[x]
      /\ Ids' = Ids \cup {n} /\ n \notin Ids
  <2>1. subscriber \in Seq(SubscriberType)
    BY <1>1 DEF GraphTypes
  <2> QED BY <1>1, <1>3, <1>5, <1>7, <2>1 DEF Ids
<1>10. seen' \in Seq(SeenType) /\ Len(seen') = n /\ seen'[n] = now /\ \A x \in Ids : seen'[x] = seen[x]
  <2>1. seen \in Seq(SeenType) /\ Len(seen) = Len(subscriber)
    BY <1>1 DEF GraphTypes
  <2> QED BY <1>1, <1>3, <1>5, <1>8, <2>1 DEF Ids
<1>11. epoch' \in Seq(Nat) /\ Len(epoch') = n /\ \A x \in Ids : epoch'[x] = epoch[x]
  <2>1. epoch \in Seq(Nat) /\ Len(epoch) = Len(subscriber)
    BY <1>1 DEF GraphTypes
  <2> QED BY <1>1, <1>3, <1>5, <2>1 DEF Ids
<1>12. /\ subscribers' \in [Cells -> Seq(Nat)]
       /\ \A d \in Cells : Range(subscribers[d]) \subseteq Range(subscribers'[d])
       /\ \A d \in Cells : Range(subscribers'[d]) \subseteq Range(subscribers[d]) \cup (live' \ live)
       /\ late \/ n \in Range(subscribers'[c])
  <2>1. subscribers \in [Cells -> Seq(Nat)] /\ live \subseteq Ids
    BY <1>1 DEF GraphTypes
  <2>2. CASE late
    BY <1>5, <2>1, <2>2
  <2>3. CASE ~ late
    <3> DEFINE list == Append(subscribers[c], n)
    <3>1. list \in Seq(Nat) /\ Range(list) = Range(subscribers[c]) \cup {n}
      BY <1>6, <2>1, AppendEffect
    <3>2. subscribers' = [subscribers EXCEPT ![c] = list] /\ live' = live \cup {n} /\ n \notin live
      BY <1>5, <1>9, <2>1, <2>3
    <3> HIDE DEF list
    <3> QED BY <1>6, <2>1, <3>1, <3>2
  <2> QED BY <2>2, <2>3
<1>13. live \subseteq live' /\ live' \subseteq live \cup {n} /\ (n \in live' <=> ~ late) /\ live' \subseteq Ids'
  BY <1>1, <1>5, <1>9 DEF GraphTypes
<1>14. owner[1] \in Ids /\ n # Refresh /\ owner[1] # n
  BY <1>1, <1>3, <1>6 DEF Ids, Refresh
<1>15. GraphTypes'
  <2>1. n >= 2
    BY <1>1, <1>3 DEF GraphTypes
  <2> QED BY <1>1, <1>5, <1>9, <1>10, <1>11, <1>12, <1>13, <2>1 DEF GraphTypes, Cells
<1>16. Owners'
  <2> SUFFICES ASSUME NEW x \in Ids', subscriber'[x].owner # NoOwner
               PROVE  /\ subscriber'[x].owner[1] \in 2..x - 1
                      /\ subscriber'[subscriber'[x].owner[1]].owner = NoOwner
    BY DEF Owners
  <2>1. CASE x = n
    BY <1>5, <1>6, <1>7, <1>9, <1>14, <2>1
  <2>2. CASE x # n
    <3>1. x \in Ids /\ subscriber'[x] = subscriber[x]
      BY <1>9, <2>2
    <3>2. subscriber[x].owner[1] \in 2..x - 1 /\ subscriber[subscriber[x].owner[1]].owner = NoOwner
      BY <1>1, <3>1 DEF Graph, Owners
    <3>3. subscriber[x].owner[1] \in Ids
      BY <1>1, <3>1, <3>2 DEF Ids
    <3> QED BY <1>9, <3>1, <3>2, <3>3
  <2> QED BY <2>1, <2>2
<1>17. Listed'
  <2>1. Refresh \in Ids /\ subscriber'[Refresh] = subscriber[Refresh]
    BY <1>1, <1>9 DEF GraphTypes, Ids, Refresh
  <2>2. ASSUME NEW x \in live', NEW d \in subscriber'[x].cells PROVE x \in Range(subscribers'[d])
    <3>1. CASE x = n
      BY <1>7, <1>9, <1>12, <1>13, <2>2, <3>1
    <3>2. CASE x # n
      <4>1. x \in live /\ x \in Ids /\ subscriber'[x] = subscriber[x]
        BY <1>1, <1>9, <1>13, <3>2 DEF GraphTypes
      <4>2. d \in Cells /\ x \in Range(subscribers[d])
        BY <1>1, <2>2, <4>1, SubscriberIs DEF Graph, Listed, Observed
      <4> QED BY <1>12, <4>2
    <3> QED BY <3>1, <3>2
  <2>3. \A d \in Cells : Range(subscribers'[d]) \subseteq live'
    BY <1>1, <1>12, <1>13 DEF Graph, Listed
  <2> QED BY <1>1, <2>1, <2>2, <2>3 DEF Graph, Listed, Observed, Cells
<1>18. OwnedByALiveRun'
  <2> SUFFICES ASSUME NEW x \in live', subscriber'[x].owner # NoOwner
               PROVE  /\ epoch'[subscriber'[x].owner[1]] = subscriber'[x].owner[2]
                      /\ subscriber'[x].owner[1] \in live'
    BY DEF OwnedByALiveRun, IsDisposed
  <2>1. CASE x = n
    <3>1. epoch[owner[1]] = owner[2]
      BY <1>13, <2>1 DEF IsDisposed
    <3>2. owner[1] \in live
      <4>1. owner[2] \in Nat /\ ~ (owner[2] < owner[2])
        BY <1>4
      <4> QED BY <1>4, <1>5, <3>1, <4>1 DEF Held
    <3> QED BY <1>7, <1>9, <1>11, <1>13, <1>14, <2>1, <3>1, <3>2
  <2>2. CASE x # n
    <3>1. x \in live /\ x \in Ids /\ subscriber'[x] = subscriber[x]
      BY <1>1, <1>9, <1>13, <2>2 DEF GraphTypes
    <3>2. epoch[subscriber[x].owner[1]] = subscriber[x].owner[2] /\ subscriber[x].owner[1] \in live
      BY <1>1, <3>1 DEF Graph, OwnedByALiveRun, IsDisposed
    <3>3. subscriber[x].owner[1] \in Ids
      BY <1>1, <3>2 DEF GraphTypes
    <3> QED BY <1>11, <1>13, <3>1, <3>2, <3>3
  <2> QED BY <2>1, <2>2
<1>19. RunsKept
  <2>1. \A x \in Ids : epoch[x] \in Nat
    BY <1>1, SubscriberIs
  <2>2. \A x \in Ids : epoch[x] <= epoch'[x]
    BY <1>11, <2>1
  <2>3. Len(subscriber) <= Len(subscriber')
    BY <1>1, <1>3, <1>9
  <2> QED BY <1>9, <1>13, <2>2, <2>3 DEF RunsKept
<1>20. TurnsKept
  <2>1. \A u : Drains(u) => Drains(u)'
    BY <1>5 DEF Drains
  <2> QED BY <1>5, <2>1 DEF ReactiveInv, TurnTypes, TurnsSound, TurnsKept
<1>21. ASSUME NEW x \in Ids' PROVE subscriber'[x].turn \in TurnIds'
  <2>1. TurnIds' = TurnIds
    BY <1>5 DEF TurnIds
  <2>2. CASE x = n
    BY <1>4, <1>7, <1>9, <2>1, <2>2
  <2>3. CASE x # n
    BY <1>9, <2>1, <2>3 DEF ReactiveInv, TurnTypes
  <2> QED BY <2>2, <2>3
<1>22. ASSUME threw = FALSE, NEW x \in live' PROVE UpToDate(x)' \/ Flies(x)'
  <2>1. CASE x = n
    <3>1. \A d \in {c} : seen'[n][d] = value'[d]
      BY <1>5, <1>8, <1>10
    <3>2. Observed(n)' = {c}
      BY <1>7, <1>9 DEF Observed
    <3> QED BY <1>14, <2>1, <3>1, <3>2 DEF UpToDate, Derived, Observed
  <2>2. CASE x # n
    <3>1. x \in live /\ x \in Ids
      BY <1>1, <1>13, <2>2 DEF GraphTypes
    <3>2. UpToDate(x) \/ Flies(x)
      BY <1>22, <3>1, InFlightIs DEF ReactiveInv, StaleIsInFlight
    <3>3. Flies(x) => Flies(x)'
      BY <1>5 DEF Flies
    <3>4. UpToDate(x) => UpToDate(x)'
      BY <1>5, <1>9, <1>10, <3>1 DEF UpToDate, Derived, Observed, Pull
    <3> QED BY <3>2, <3>3, <3>4
  <2> QED BY <2>1, <2>2
<1>23. stack' \in Seq(FrameType) /\ \A fr \in Range(stack') : FrameSound(fr)
  BY <1>5 DEF ReactiveInv, StackSound
<1>24. Graph'
  BY <1>15, <1>16, <1>17, <1>18 DEF Graph
<1>25. threw' = threw
  BY <1>5
<1> QED BY <1>19, <1>20, <1>21, <1>22, <1>23, <1>24, <1>25, GraphStepKeeps

-----------------------------------------------------------------------------
(***************************************************************************)
(* The invariant, and what it says.                                        *)
(***************************************************************************)
LEMMA InitIsSound ==
  ASSUME Init
  PROVE  ReactiveInv
<1>1. <<>> \in Seq(Nat) /\ Range(<<>>) = {}
  BY DEF Range
<1>2. /\ <<Refresh>> \in Seq(Nat) /\ Range(<<Refresh>>) = {Refresh}
      /\ <<Effect>> \in Seq(Nat) /\ Range(<<Effect>>) = {Effect}
      /\ <<Refresh>> \o <<Effect>> \in Seq(Nat) /\ Range(<<Refresh>> \o <<Effect>>) = {Refresh, Effect}
      /\ <<>> \o <<>> = <<>> /\ <<Refresh>> \o <<>> = <<Refresh>> /\ <<>> \o <<Effect>> = <<Effect>>
  <2>1. Refresh \in Nat /\ Effect \in Nat
    BY DEF Refresh, Effect
  <2>2. /\ <<Refresh>> \in Seq(Nat) /\ Range(<<Refresh>>) = {Refresh}
        /\ <<Effect>> \in Seq(Nat) /\ Range(<<Effect>>) = {Effect}
    BY <2>1, OneFrame
  <2>3. Append(<<Refresh>>, Effect) \in Seq(Nat)
        /\ Range(Append(<<Refresh>>, Effect)) = {Refresh} \cup {Effect}
    BY <2>1, <2>2, AppendEffect
  <2>4. <<Refresh>> \o <<Effect>> = Append(<<Refresh>>, Effect)
    OBVIOUS
  <2>5. <<>> \o <<>> = <<>> /\ <<Refresh>> \o <<>> = <<Refresh>> /\ <<>> \o <<Effect>> = <<Effect>>
    BY <1>1, <2>2, ConcatEmptySeq
  <2> QED BY <2>2, <2>3, <2>4, <2>5
<1>3. ASSUME NEW c \in Cells
      PROVE  /\ subscribers[c] \in Seq(Nat)
             /\ Range(subscribers[c]) = {s \in {Refresh, Effect} :
                                          (s = Refresh /\ c \in Sources) \/ (s = Effect /\ c \in Watched)}
  <2>1. subscribers[c] = (IF c \in Sources THEN <<Refresh>> ELSE <<>>)
                         \o (IF c \in Watched THEN <<Effect>> ELSE <<>>)
    BY DEF Init
  <2>2. Refresh # Effect
    BY DEF Refresh, Effect
  <2>3. CASE c \in Sources /\ c \in Watched
    BY <1>2, <2>1, <2>2, <2>3
  <2>4. CASE c \in Sources /\ c \notin Watched
    BY <1>2, <2>1, <2>2, <2>4
  <2>5. CASE c \notin Sources /\ c \in Watched
    BY <1>2, <2>1, <2>2, <2>5
  <2>6. CASE c \notin Sources /\ c \notin Watched
    BY <1>1, <1>2, <2>1, <2>2, <2>6
  <2> QED BY <2>3, <2>4, <2>5, <2>6
<1>4. /\ Ids = {Refresh, Effect} /\ live = {Refresh, Effect} /\ Refresh = 1 /\ Effect = 2
      /\ Len(subscriber) = 2
      /\ subscriber[Refresh].turn = NoTurn /\ subscriber[Refresh].owner = NoOwner
      /\ subscriber[Refresh].cells = Sources
      /\ subscriber[Effect].turn = NoTurn /\ subscriber[Effect].owner = NoOwner
      /\ subscriber[Effect].cells = Watched
  BY DEF Init, Ids, Refresh, Effect
<1>5. 0 \in Values /\ Watched \subseteq Cells
  <2>1. Cardinality(Sources) \in Nat
    BY ReactiveAssumption, FS_CardinalityType
  <2> QED BY <2>1, ReactiveAssumption DEF Values, Cells
<1>6. GraphTypes
  <2>1. subscriber \in Seq(SubscriberType)
    <3>1. /\ [turn |-> NoTurn, owner |-> NoOwner, cells |-> Sources] \in SubscriberType
          /\ [turn |-> NoTurn, owner |-> NoOwner, cells |-> Watched] \in SubscriberType
      BY <1>5 DEF SubscriberType, NoTurn, NoOwner, Cells
    <3> QED BY <3>1 DEF Init
  <2>2. seen \in Seq(SeenType) /\ Len(seen) = 2
    <3>1. <<>> \in [{} -> Values] /\ {} \in SUBSET Cells
      OBVIOUS
    <3>2. [c \in Watched |-> 0] \in [Watched -> Values] /\ Watched \in SUBSET Cells
      BY <1>5
    <3>3. <<>> \in SeenType /\ [c \in Watched |-> 0] \in SeenType
      BY <3>1, <3>2 DEF SeenType
    <3> QED BY <3>3 DEF Init
  <2>3. epoch \in Seq(Nat) /\ Len(epoch) = 2
    BY DEF Init
  <2>4. value \in [Cells -> Values] /\ \A c \in Sources : value[c] \in {0, 1}
    BY <1>5 DEF Init, Cells
  <2>5. subscribers \in [Cells -> Seq(Nat)]
    BY <1>3 DEF Init
  <2> QED BY <1>4, <2>1, <2>2, <2>3, <2>4, <2>5 DEF GraphTypes
<1>7. Owners /\ OwnedByALiveRun
  BY <1>4 DEF Owners, OwnedByALiveRun
<1>8. Listed
  <2>1. \A c \in Sources : c \in Cells
    BY DEF Cells
  <2>2. Observed(Refresh) = Sources /\ Observed(Effect) = Watched
    BY <1>4 DEF Observed
  <2>3. \A c \in Cells : Range(subscribers[c]) \subseteq live
    BY <1>3, <1>4
  <2>4. \A s \in live : \A c \in Observed(s) : s \in Range(subscribers[c])
    BY <1>3, <1>4, <1>5, <2>1, <2>2
  <2> QED BY <2>2, <2>3, <2>4 DEF Listed
<1>9. TurnTypes /\ TurnsSound
  <2>1. turns = <<>> /\ draining_turns = <<>> /\ <<>> \in Seq(TurnType) /\ DOMAIN turns = {}
    BY DEF Init
  <2> QED BY <1>1, <1>4, <2>1 DEF TurnTypes, TurnsSound, TurnIds
<1>10. StackSound
  <2>1. stack = <<>> /\ <<>> \in Seq(FrameType)
    BY DEF Init
  <2> QED BY <1>1, <2>1 DEF StackSound
<1>11. StaleIsInFlight
  <2>1. UpToDate(Refresh)
    <3>1. \A c \in Cells : value[c] = 0
      BY DEF Init
    <3>2. {c \in Sources : value[c] = 1} = {}
      BY <3>1 DEF Cells
    <3>3. Pull(value) = 0 /\ Memo \in Cells
      BY <3>2, FS_EmptySet DEF Pull, Cells
    <3> QED BY <3>1, <3>3 DEF UpToDate, Derived
  <2>2. UpToDate(Effect)
    <3>1. \A c \in Watched : seen[Effect][c] = 0 /\ value[c] = 0
      BY <1>5 DEF Init, Effect
    <3> QED BY <1>4, <3>1 DEF UpToDate, Derived, Observed
  <2> QED BY <1>4, <2>1, <2>2 DEF StaleIsInFlight
<1>12. threw \in BOOLEAN
  BY DEF Init
<1> QED BY <1>6, <1>7, <1>8, <1>9, <1>10, <1>11, <1>12 DEF ReactiveInv, Graph

LEMMA NextKeeps ==
  ASSUME ReactiveInv, [Next]_vars
  PROVE  ReactiveInv'
<1>1. CASE Scheduler
  <2>1. CASE RunNext
    BY <1>1, <2>1, RunNextKeeps DEF Scheduler
  <2>2. CASE TakeWave
    BY <1>1, <2>2, TakeWaveKeeps DEF Scheduler
  <2>3. CASE EndDrain
    BY <1>1, <2>3, EndDrainKeeps DEF Scheduler
  <2>4. CASE EndInline
    BY <1>1, <2>4, EndInlineKeeps DEF Scheduler
  <2>5. CASE Return
    BY <1>1, <2>5, ReturnKeeps DEF Scheduler
  <2>6. CASE \E t \in DOMAIN turns : Microtask(t)
    BY <1>1, <2>6, MicrotaskKeeps DEF Scheduler
  <2> QED BY <1>1, <2>1, <2>2, <2>3, <2>4, <2>5, <2>6 DEF Scheduler
<1>2. CASE Application
  <2>1. CASE throw
    BY <2>1, ThrowKeeps
  <2>2. CASE turn /\ UNCHANGED threw
    BY <2>2, TurnKeeps
  <2>3. CASE flush /\ UNCHANGED threw
    BY <2>3, FlushKeeps
  <2>4. CASE at_settle /\ UNCHANGED threw
    BY <2>4, SettleKeeps
  <2>5. CASE Event /\ UNCHANGED threw
    BY <2>5, EventKeeps
  <2>6. CASE Suspend /\ UNCHANGED threw
    BY <2>6, SuspendKeeps
  <2>7. CASE (\E c \in Sources : set(c)) /\ UNCHANGED threw
    BY <2>7, SetKeeps
  <2>8. CASE (\E s \in Ids : dispose(s)) /\ UNCHANGED threw
    BY <2>8, DisposeKeeps
  <2>9. CASE (\E c \in ChildCells : attach(c)) /\ UNCHANGED threw
    BY <2>9, AttachKeeps
  <2>10. CASE (\E t \in DOMAIN turns : Continue(t) \/ Resume(t)) /\ UNCHANGED threw
    BY <2>10, ContinueKeeps
  <2>11. CASE (\E e \in Runs(Effect) : ContinueRun(Effect, e)) /\ UNCHANGED threw
    BY <2>11, ContinueRunKeeps
  <2> QED BY <1>2, <2>1, <2>2, <2>3, <2>4, <2>5, <2>6, <2>7, <2>8, <2>9, <2>10, <2>11 DEF Application
<1>3. CASE UNCHANGED vars
  <2>1. UNCHANGED <<graphVars, turns, draining_turns, stack, threw>>
    BY <1>3 DEF vars
  <2>2. stack \in Seq(FrameType) /\ \A fr \in Range(stack) : FrameSound(fr)
    BY DEF ReactiveInv, StackSound
  <2> QED BY <2>1, <2>2, StackKeeps
<1> QED BY <1>1, <1>2, <1>3 DEF Next

\* In every state of every behaviour, the types, the queues, the frames and the
\* observers are what the parts of the invariant say (enqueue, drain, turn,
\* SignalCell::set, Subscription::dispose, Owner).
THEOREM ReactiveInvariant == Spec => []ReactiveInv
<1>1. Init => ReactiveInv
  BY InitIsSound
<1>2. ReactiveInv /\ [Next]_vars => ReactiveInv'
  BY NextKeeps
<1> QED BY <1>1, <1>2, PTL DEF Spec

\* No change is lost: who saw values its cells no longer have is queued in a
\* turn, or stands in a wave that is being run (enqueue's deduplication,
\* drain's waves, inline notifications).
THEOREM NoChangeIsLost == Spec => []StaleIsInFlight
<1>1. ReactiveInv => StaleIsInFlight
  BY DEF ReactiveInv
<1> QED BY <1>1, ReactiveInvariant, PTL

\* At rest a settled turn has nothing queued but what a throw left there
\* (enqueue's late path, drain's finally).
THEOREM NoWriteIsStranded == Spec => []NothingIsStranded
<1>1. ASSUME ReactiveInv PROVE NothingIsStranded
  <2> SUFFICES ASSUME AtRest, NEW t \in DOMAIN turns, turns[t].settled
               PROVE  Waiting(turns[t]) \subseteq turns[t].abandoned
    BY DEF NothingIsStranded
  <2>1. stack = <<>> /\ ~ turns[t].scheduled
    BY DEF AtRest
  <2>2. Range(stack) = {}
    BY <2>1 DEF Range
  <2>3. turns[t].draining # TRUE
    BY <1>1, <2>2 DEF ReactiveInv, TurnsSound, Drains
  <2>4. turns[t] \in TurnType
    BY <1>1, LenProperties DEF ReactiveInv, TurnTypes
  <2>5. turns[t].settled = TRUE /\ turns[t].scheduled = FALSE /\ turns[t].draining = FALSE
    BY <2>1, <2>3, <2>4 DEF TurnType
  <2> QED BY <1>1, <2>5 DEF ReactiveInv, TurnsSound, Served
<1> QED BY <1>1, ReactiveInvariant, PTL

\* Within a wave of a drain, no run goes before that of the effect that owns it
\* (enqueue's ordered insert: an owner is older than what its runs attach).
THEOREM ParentsGoFirst == Spec => []ParentFirst
<1>1. ASSUME ReactiveInv PROVE ParentFirst
  <2> SUFFICES ASSUME NEW n \in DOMAIN stack, stack[n].f = "drain",
                      NEW i \in DOMAIN stack[n].wave, NEW j \in DOMAIN stack[n].wave,
                      i < j, stack[n].wave[i] \in Ids
               PROVE  subscriber[stack[n].wave[i]].owner[1] # stack[n].wave[j]
    BY DEF ParentFirst
  <2> DEFINE wave == stack[n].wave
             s == wave[i]
  <2>1. stack[n] \in FrameType /\ FrameSound(stack[n])
    BY <1>1, LenProperties DEF ReactiveInv, StackSound, Range
  <2>2. wave \in Seq(Nat) /\ Ascending(wave)
    BY <2>1 DEF FrameType, FrameSound
  <2>3. wave[i] \in Nat /\ wave[j] \in Nat /\ wave[i] <= wave[j]
    BY <2>2, LenProperties DEF Ascending
  <2> HIDE DEF wave
  <2>4. s \in Ids /\ s \in 1..Len(subscriber)
    BY <1>1, SubscriberIs DEF ReactiveInv, Graph, wave
  <2>5. CASE subscriber[s].owner = NoOwner
    <3>1. subscriber[s].owner[1] = 0
      BY <2>5 DEF NoOwner
    <3> QED BY <2>3, <2>4, <3>1 DEF wave
  <2>6. CASE subscriber[s].owner # NoOwner
    <3>1. subscriber[s].owner[1] \in 2..s - 1
      BY <1>1, <2>4, <2>6 DEF ReactiveInv, Graph, Owners
    <3> QED BY <2>3, <3>1 DEF wave
  <2> QED BY <2>5, <2>6
<1> QED BY <1>1, ReactiveInvariant, PTL

\* No live observer belongs to a run that was released (Owner::defer, advance,
\* renew).
THEOREM RunsOwnTheirObservers == Spec => []OwnedByALiveRun
<1>1. ReactiveInv => OwnedByALiveRun
  BY DEF ReactiveInv, Graph
<1> QED BY <1>1, ReactiveInvariant, PTL

-----------------------------------------------------------------------------
(***************************************************************************)
(* What a step may never do.                                                *)
(***************************************************************************)
\* Before a drain turns to its effects there is nothing left of its
\* derivations, so that a stale memo can only be waiting elsewhere.
LEMMA DerivationsAreDone ==
  ASSUME ReactiveInv, TakeWave, ~ threw, Refresh \in live,
         Effect \in turns[Top.turn].queued, Effect \notin turns'[Top.turn].queued
  PROVE  \/ UpToDate(Refresh)
         \/ \E t \in DOMAIN turns \ {Top.turn} : Refresh \in Waiting(turns[t])
         \/ \E n \in DOMAIN Below : Refresh \in Range(stack[n].wave)
<1>1. stack # <<>> /\ Top.f = "drain" /\ Top.wave = <<>>
  BY DEF TakeWave
<1>2. PICK t \in DOMAIN turns : t = Top.turn
  BY <1>1, TopEffect DEF ReactiveInv, FrameSound, TurnIds
<1>3. PICK w \in TurnType :
        turns' = [turns EXCEPT ![t] = w] /\ (w.queued # turns[t].queued => turns[t].queued_derived = {})
  BY <1>2, TakeWaveEffect
<1>4. turns[t].queued_derived = {}
  BY <1>2, <1>3
<1>5. Refresh \notin Waiting(turns[t])
  BY <1>2, <1>4, LenProperties DEF ReactiveInv, TurnsSound, QueuesInStep, Waiting
<1>6. UpToDate(Refresh) \/ InFlight(Refresh)
  BY DEF ReactiveInv, StaleIsInFlight
<1>7. ASSUME NEW n \in DOMAIN stack, Refresh \in Range(stack[n].wave) PROVE n \in DOMAIN Below
  <2>1. n # Len(stack)
    BY <1>1, <1>7 DEF Top, Range
  <2>2. stack \in Seq(FrameType) /\ Len(stack) \in Nat /\ DOMAIN stack = 1..Len(stack)
    BY LenProperties DEF ReactiveInv, StackSound
  <2>3. n \in 1..Len(stack) - 1
    BY <2>1, <2>2
  <2>4. DOMAIN Below = 1..Len(stack) - 1
    BY <1>1, <2>2 DEF Below
  <2> QED BY <2>3, <2>4
<1> QED BY <1>2, <1>5, <1>6, <1>7 DEF InFlight

\* Effects run on settled derivations (drain's two phases): only a drain takes
\* a queue's effects, and only when no derivation of its turn is waiting.
THEOREM EffectsAfterDerivations == Spec => EffectsFollowDerivations
<1> DEFINE Turns == /\ stack # <<>> /\ Top.f = "drain" /\ Top.wave = <<>>
                    /\ Effect \in turns[Top.turn].queued /\ Effect \notin turns'[Top.turn].queued
                    /\ ~ threw' /\ Refresh \in live
<1>1. ASSUME ReactiveInv, [Next]_vars, Turns
      PROVE  \/ UpToDate(Refresh)
             \/ \E t \in DOMAIN turns \ {Top.turn} : Refresh \in Waiting(turns[t])
             \/ \E n \in DOMAIN Below : Refresh \in Range(stack[n].wave)
  <2>1. stack # <<>> /\ Top.f = "drain" /\ Top.wave = <<>> /\ turns' # turns
    BY <1>1
  <2>2. ~ Application
    BY <2>1 DEF Application, throw, turn, flush, at_settle, Event, Suspend, set, dispose, attach, Continue,
                Resume, ContinueRun, InCode
  <2>3. ~ UNCHANGED vars
    BY <2>1 DEF vars
  <2>4. ~ EndDrain
    <3> SUFFICES ASSUME EndDrain PROVE FALSE
      OBVIOUS
    <3>1. PICK t \in DOMAIN turns : t = Top.turn
      BY <1>1, <2>1, TopEffect DEF ReactiveInv, FrameSound, TurnIds
    <3>2. turns[t] \in TurnType
      BY <1>1, LenProperties DEF ReactiveInv, TurnTypes
    <3>3. turns' = [turns EXCEPT ![t].draining = FALSE, ![t].settled = @ \/ Top.own,
                                 ![t].extent = @ /\ ~ Top.own]
      BY <3>1 DEF EndDrain
    <3>4. turns'[t].queued = turns[t].queued
      BY <3>1, <3>2, <3>3 DEF TurnType
    <3> QED BY <1>1, <3>1, <3>4
  <2>5. TakeWave /\ UNCHANGED threw
    BY <1>1, <2>1, <2>2, <2>3, <2>4 DEF Next, Scheduler, RunNext, EndInline, Return, Microtask
  <2> QED BY <1>1, <2>5, DerivationsAreDone
<1> HIDE DEF Turns
<1>2. ReactiveInv /\ [Next]_vars =>
        [Turns => \/ UpToDate(Refresh)
                  \/ \E t \in DOMAIN turns \ {Top.turn} : Refresh \in Waiting(turns[t])
                  \/ \E n \in DOMAIN Below : Refresh \in Range(stack[n].wave)]_vars
  BY <1>1
<1> USE DEF Turns
<1> QED BY <1>2, ReactiveInvariant, PTL DEF Spec, EffectsFollowDerivations

\* The types, a list that holds only observers still live, and queues "kept in
\* exact step with pending" (enqueue, release_under).
THEOREM QueuesMatchTheirSets == Spec => []TypeOK
<1>1. ASSUME ReactiveInv PROVE TypeOK
  <2>1. value \in [Cells -> 0..Cardinality(Sources)]
    BY <1>1 DEF ReactiveInv, Graph, GraphTypes, Values
  <2>2. live \subseteq Ids /\ DOMAIN seen = Ids /\ DOMAIN epoch = Ids
    BY <1>1 DEF ReactiveInv, Graph, GraphTypes, Ids
  <2>3. \A c \in Cells : Range(subscribers[c]) \subseteq live
    BY <1>1 DEF ReactiveInv, Graph, Listed
  <2>4. \A n \in DOMAIN stack : stack[n].turn \in {NoTurn} \cup DOMAIN turns
    BY <1>1, LenProperties DEF ReactiveInv, StackSound, FrameSound, TurnIds, Range
  <2>5. \A t \in DOMAIN turns : /\ turns[t].queued = Range(turns[t].pending)
                                /\ turns[t].queued_derived = Range(turns[t].pending_derived)
    BY <1>1 DEF ReactiveInv, TurnsSound, QueuesInStep
  <2> QED BY <2>1, <2>2, <2>3, <2>4, <2>5 DEF TypeOK
<1> QED BY <1>1, ReactiveInvariant, PTL

=============================================================================
