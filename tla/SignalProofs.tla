----------------------------- MODULE SignalProofs -----------------------------
(***************************************************************************)
(* Theorems about the threads of SignalThreads, for any threads, arguments  *)
(* and signals.  The queues are seen as the sets of their entries, each of  *)
(* which is there once; the scheduler's edits move entries between them.    *)
(***************************************************************************)
EXTENDS SignalThreads, SelectionProofs

\* The queues share nothing and hold the live threads, each once.
Apart(r, w) ==
    /\ Distinct(r) /\ Distinct(w)
    /\ Entries(r) \cap Entries(w) = {}

Queued ==
    /\ Apart(ready_queue, waiting_queue)
    /\ Entries(ready_queue) \cup Entries(waiting_queue) = Live

\* rq_current is in the ready queue, or waits at the first place of an empty one.
CurrentFits ==
    /\ mode = "run" => rq_current \in DOMAIN ready_queue
    /\ mode # "run" => rq_current = 1 /\ ready_queue = <<>>
    /\ mode = "exited" => waiting_queue = <<>>

\* The waiting threads are in async_read, RUNNING is where it goes on.
WaitersRead == \A t \in Entries(waiting_queue) : at[t] = "read"

SInv == TypeOK /\ Queued /\ CurrentFits /\ WaitersRead

------------------------------------------------------------------------------
\* Edits of the queues.

\* The entries of two sequences one after the other, and whether they are distinct.
LEMMA Concatenated ==
    ASSUME NEW S, NEW r \in Seq(S), NEW w \in Seq(S)
    PROVE  /\ r \o w \in Seq(S)
           /\ Entries(r \o w) = Entries(r) \cup Entries(w)
           /\ Distinct(r \o w) <=> Apart(r, w)
<1>1. /\ r \o w \in Seq(S) /\ Len(r \o w) = Len(r) + Len(w)
      /\ \A i \in 1..Len(r) : (r \o w)[i] = r[i]
      /\ \A i \in 1..Len(w) : (r \o w)[Len(r) + i] = w[i]
      /\ DOMAIN r = 1..Len(r) /\ DOMAIN w = 1..Len(w)
      /\ DOMAIN (r \o w) = 1..(Len(r) + Len(w))
      /\ Len(r) \in Nat /\ Len(w) \in Nat
  OBVIOUS
<1> DEFINE both == r \o w
<1> HIDE DEF both
<1>2. ASSUME NEW k \in 1..(Len(r) + Len(w))
      PROVE  \/ k \in 1..Len(r) /\ both[k] = r[k]
             \/ \E i \in 1..Len(w) : k = Len(r) + i /\ both[k] = w[i]
  <2>1. CASE k <= Len(r)
    BY <1>1, <2>1 DEF both
  <2>2. CASE k > Len(r)
    <3>1. k - Len(r) \in 1..Len(w) /\ k = Len(r) + (k - Len(r))
      BY <1>1, <2>2
    <3> QED
      BY <1>1, <3>1 DEF both
  <2> QED
    BY <1>1, <2>1, <2>2
<1>3. \A i \in 1..Len(w) : Len(r) + i \in 1..(Len(r) + Len(w))
  BY <1>1
<1>4. \A i \in 1..Len(r) : i \in 1..(Len(r) + Len(w))
  BY <1>1
<1>5. Entries(both) = Entries(r) \cup Entries(w)
  <2>1. ASSUME NEW i \in 1..Len(r) PROVE r[i] \in Entries(both)
    BY <1>1, <1>4 DEF Entries, both
  <2>2. ASSUME NEW i \in 1..Len(w) PROVE w[i] \in Entries(both)
    BY <1>1, <1>3 DEF Entries, both
  <2>3. ASSUME NEW k \in 1..(Len(r) + Len(w)) PROVE both[k] \in Entries(r) \cup Entries(w)
    BY <1>1, <1>2 DEF Entries
  <2>4. DOMAIN both = 1..(Len(r) + Len(w))
    BY <1>1 DEF both
  <2>5. Entries(both) \subseteq Entries(r) \cup Entries(w)
    BY <2>3, <2>4 DEF Entries
  <2>6. Entries(r) \subseteq Entries(both) /\ Entries(w) \subseteq Entries(both)
    BY <1>1, <2>1, <2>2 DEF Entries
  <2> QED
    BY <2>5, <2>6
<1>6. ASSUME Distinct(both) PROVE Apart(r, w)
  <2>1. Distinct(r)
    BY <1>1, <1>4, <1>6 DEF Distinct, both
  <2>2. Distinct(w)
    <3>1. ASSUME NEW i \in 1..Len(w), NEW j \in 1..Len(w), w[i] = w[j] PROVE i = j
      <4>1. both[Len(r) + i] = both[Len(r) + j]
        BY <1>1, <3>1 DEF both
      <4>2. Len(r) + i = Len(r) + j
        BY <1>1, <1>3, <1>6, <4>1 DEF Distinct, both
      <4> QED
        BY <1>1, <4>2
    <3> QED
      BY <1>1, <3>1 DEF Distinct
  <2>3. ASSUME NEW i \in 1..Len(r), NEW j \in 1..Len(w) PROVE r[i] # w[j]
    <3>1. both[i] = r[i] /\ both[Len(r) + j] = w[j] /\ i # Len(r) + j
      BY <1>1 DEF both
    <3> QED
      BY <1>1, <1>3, <1>4, <1>6, <3>1 DEF Distinct, both
  <2> QED
    BY <1>1, <2>1, <2>2, <2>3 DEF Apart, Entries
<1>7. ASSUME Apart(r, w) PROVE Distinct(both)
  <2>1. ASSUME NEW k \in 1..(Len(r) + Len(w)), NEW l \in 1..(Len(r) + Len(w)),
               both[k] = both[l]
        PROVE  k = l
    <3>1. \A i \in 1..Len(r), j \in 1..Len(w) : r[i] # w[j]
      BY <1>1, <1>7 DEF Apart, Entries
    <3>2. \A i, j \in 1..Len(r) : r[i] = r[j] => i = j
      BY <1>1, <1>7 DEF Apart, Distinct
    <3>3. \A i, j \in 1..Len(w) : w[i] = w[j] => i = j
      BY <1>1, <1>7 DEF Apart, Distinct
    <3>4. \/ k \in 1..Len(r) /\ both[k] = r[k]
          \/ \E i \in 1..Len(w) : k = Len(r) + i /\ both[k] = w[i]
      BY <1>2
    <3>5. \/ l \in 1..Len(r) /\ both[l] = r[l]
          \/ \E i \in 1..Len(w) : l = Len(r) + i /\ both[l] = w[i]
      BY <1>2
    <3> QED
      BY <2>1, <3>1, <3>2, <3>3, <3>4, <3>5
  <2> QED
    BY <1>1, <2>1 DEF Distinct, both
<1> QED
  BY <1>1, <1>5, <1>6, <1>7 DEF both

\* waiting2ready moves threads from one queue to the other.
LEMMA MovedApart ==
    ASSUME TypeOK, Queued
    PROVE  /\ NowReady \in Seq(Threads) /\ StillWaiting \in Seq(Threads)
           /\ Apart(NowReady, StillWaiting)
           /\ Entries(NowReady) \cup Entries(StillWaiting) = Live
           /\ Entries(StillWaiting) \subseteq Entries(waiting_queue)
           /\ Len(NowReady) >= Len(ready_queue)
           /\ \A i \in DOMAIN ready_queue : i \in DOMAIN NowReady /\ NowReady[i] = ready_queue[i]
<1> DEFINE moved == Selected(waiting_queue, WithLine)
<1>1. /\ ready_queue \in Seq(Threads) /\ waiting_queue \in Seq(Threads)
      /\ Distinct(ready_queue) /\ Distinct(waiting_queue)
      /\ Entries(ready_queue) \cap Entries(waiting_queue) = {}
      /\ Entries(ready_queue) \cup Entries(waiting_queue) = Live
  BY DEF TypeOK, Queued, Apart
<1>2. WithLine \subseteq DOMAIN waiting_queue
  BY DEF WithLine
<1>3. /\ moved \in Seq(Threads) /\ Distinct(moved)
      /\ Entries(moved) = {waiting_queue[i] : i \in WithLine}
  BY <1>1, <1>2, SelectedEntries
<1>4. /\ StillWaiting \in Seq(Threads) /\ Distinct(StillWaiting)
      /\ Entries(StillWaiting) =
            {waiting_queue[i] : i \in DOMAIN waiting_queue \ WithLine}
  BY <1>1, SelectedEntries DEF StillWaiting
<1> HIDE DEF moved
<1>5. /\ Entries(moved) \cup Entries(StillWaiting) = Entries(waiting_queue)
      /\ Entries(moved) \cap Entries(StillWaiting) = {}
  <2>1. Entries(moved) \cup Entries(StillWaiting) = Entries(waiting_queue)
    BY <1>2, <1>3, <1>4 DEF Entries
  <2>2. ASSUME NEW i \in WithLine, NEW j \in DOMAIN waiting_queue \ WithLine
        PROVE  waiting_queue[i] # waiting_queue[j]
    BY <1>1, <1>2 DEF Distinct
  <2> QED
    BY <1>3, <1>4, <2>1, <2>2
<1>6. NowReady = ready_queue \o moved
  BY DEF NowReady, moved
<1>7. Apart(ready_queue, moved)
  BY <1>1, <1>3, <1>5 DEF Apart
<1>8. /\ NowReady \in Seq(Threads) /\ Distinct(NowReady)
      /\ Entries(NowReady) = Entries(ready_queue) \cup Entries(moved)
  BY <1>1, <1>3, <1>6, <1>7, Concatenated
<1>9. Apart(NowReady, StillWaiting)
  BY <1>1, <1>4, <1>5, <1>8 DEF Apart
<1>10. /\ Len(NowReady) >= Len(ready_queue)
       /\ \A i \in DOMAIN ready_queue : i \in DOMAIN NowReady /\ NowReady[i] = ready_queue[i]
  BY <1>1, <1>3, <1>6
<1> QED
  BY <1>1, <1>4, <1>5, <1>8, <1>9, <1>10

\* The last thread takes the place of RUNNING: all the others stay.
LEMMA WithoutEntries ==
    ASSUME NEW q \in Seq(Threads), rq_current \in DOMAIN q, Distinct(q)
    PROVE  /\ WithoutCurrent(q) \in Seq(Threads) /\ Distinct(WithoutCurrent(q))
           /\ Entries(WithoutCurrent(q)) = Entries(q) \ {q[rq_current]}
           /\ Len(WithoutCurrent(q)) = Len(q) - 1
           /\ Len(q) > 1 => IndexWithout(q) \in DOMAIN WithoutCurrent(q)
           /\ Len(q) = 1 => IndexWithout(q) = 1 /\ WithoutCurrent(q) = <<>>
<1> DEFINE c == rq_current
           n == Len(q)
           left1 == WithoutCurrent(q)
<1>1. n \in Nat /\ DOMAIN q = 1..n /\ c \in 1..n /\ \A i \in 1..n : q[i] \in Threads
  OBVIOUS
<1>2. /\ left1 = [i \in 1..(n - 1) |-> IF i = c THEN q[n] ELSE q[i]]
      /\ left1 \in Seq(Threads)
  <2>1. left1 = [i \in 1..(n - 1) |-> IF i = c THEN q[n] ELSE q[i]]
    <3>1. CASE c = n
      <4>1. left1 = SubSeq(q, 1, n - 1)
        BY <3>1 DEF WithoutCurrent, Front
      <4>2. SubSeq(q, 1, n - 1) = [i \in 1..(n - 1) |-> q[i]]
        BY <1>1
      <4> QED
        BY <1>1, <3>1, <4>1, <4>2
    <3>2. CASE c # n
      <4> DEFINE p == [q EXCEPT ![c] = q[n]]
      <4>1. p \in Seq(Threads) /\ Len(p) = n
        BY <1>1
      <4>2. left1 = SubSeq(p, 1, n - 1)
        BY <3>2, <4>1 DEF WithoutCurrent, Front
      <4>3. SubSeq(p, 1, n - 1) = [i \in 1..(n - 1) |-> p[i]]
        BY <1>1, <4>1
      <4>4. \A i \in 1..(n - 1) : p[i] = IF i = c THEN q[n] ELSE q[i]
        BY <1>1
      <4> HIDE DEF p
      <4> QED
        BY <4>2, <4>3, <4>4
    <3> QED
      BY <3>1, <3>2
  <2> QED
    BY <1>1, <2>1
<1> HIDE DEF left1
<1>3. /\ DOMAIN left1 = 1..(n - 1) /\ Len(left1) = n - 1
      /\ \A i \in 1..(n - 1) : left1[i] = IF i = c THEN q[n] ELSE q[i]
  BY <1>1, <1>2
<1>4. \A i, j \in 1..n : q[i] = q[j] => i = j
  BY <1>1 DEF Distinct
<1>5. Distinct(left1)
  BY <1>1, <1>3, <1>4 DEF Distinct
<1>6. Entries(left1) = Entries(q) \ {q[c]}
  <2>1. ASSUME NEW i \in 1..(n - 1) PROVE left1[i] \in Entries(q) /\ left1[i] # q[c]
    BY <1>1, <1>3, <1>4 DEF Entries
  <2>2. ASSUME NEW i \in 1..n, q[i] # q[c] PROVE q[i] \in Entries(left1)
    <3>1. CASE i = n
      <4>1. c \in 1..(n - 1) /\ left1[c] = q[i]
        BY <1>1, <1>3, <2>2, <3>1
      <4> QED
        BY <1>3, <4>1 DEF Entries
    <3>2. CASE i # n
      <4>1. i \in 1..(n - 1) /\ i # c
        <5>1. i # c
          BY <2>2
        <5>2. n \in Nat /\ i \in 1..n /\ i # n
          BY <1>1, <3>2
        <5>3. i \in 1..(n - 1)
          BY <5>2
        <5> QED
          BY <5>1, <5>3
      <4>2. left1[i] = q[i]
        BY <1>3, <4>1
      <4> QED
        BY <1>3, <4>1, <4>2 DEF Entries
    <3> QED
      BY <3>1, <3>2
  <2> QED
    BY <1>1, <1>3, <2>1, <2>2 DEF Entries
<1>7. /\ n > 1 => IndexWithout(q) \in DOMAIN left1
      /\ n = 1 => IndexWithout(q) = 1 /\ left1 = <<>>
  BY <1>1, <1>2, <1>3 DEF IndexWithout
<1> QED
  BY <1>2, <1>3, <1>5, <1>6, <1>7 DEF left1

\* A queue without doubles is no longer than the list of all threads.
LEMMA QueueFits ==
    ASSUME NEW q \in Seq(Threads), Distinct(q)
    PROVE  Len(q) <= Len(Order)
<1> DEFINE f == [k \in 1..Len(q) |-> CHOOSE i \in 1..Len(Order) : Order[i] = q[k]]
<1>1. /\ Len(q) \in Nat /\ DOMAIN q = 1..Len(q) /\ Len(Order) \in Nat
      /\ DOMAIN Order = 1..Len(Order)
  BY OrderAssumption
<1>2. \A k \in 1..Len(q) : \E i \in 1..Len(Order) : Order[i] = q[k]
  BY <1>1 DEF Threads
<1>3. \A k \in 1..Len(q) : f[k] \in 1..Len(Order) /\ Order[f[k]] = q[k]
  BY <1>2
<1>4. f \in [1..Len(q) -> 1..Len(Order)]
  BY <1>3
<1> HIDE DEF f
<1>5. \A k, l \in 1..Len(q) : f[k] = f[l] => k = l
  BY <1>1, <1>3 DEF Distinct
<1>6. f \in Injection(1..Len(q), 1..Len(Order))
  BY <1>4, <1>5 DEF Injection, IsInjective
<1>0. ASSUME NEW n \in Nat PROVE IsFiniteSet(1..n) /\ Cardinality(1..n) = n
  <2>1. IsFiniteSet(1..n) /\ Cardinality(1..n) = IF 1 > n THEN 0 ELSE n - 1 + 1
    BY FS_Interval
  <2> QED
    BY <2>1
<1>7. IsFiniteSet(1..Len(Order)) /\ Cardinality(1..Len(Order)) = Len(Order)
  BY <1>0, <1>1
<1>8. Cardinality(1..Len(q)) = Len(q)
  BY <1>0, <1>1
<1>9. Cardinality(1..Len(q)) <= Cardinality(1..Len(Order))
  BY <1>6, <1>7, FS_Injection
<1> QED
  BY <1>7, <1>8, <1>9

\* Wherever the scheduler jumps to, it is in order that the queues are.
LEMMA Continued ==
    ASSUME TypeOK, NEW q \in Seq(Threads), NEW w \in Seq(Threads), NEW i \in Nat,
           Continue(q, w, i), Apart(q, w), Entries(q) \cup Entries(w) = Live',
           q # <<>> => i \in DOMAIN q, q = <<>> => i = 1,
           \A t \in Entries(w) : at'[t] = "read"
    PROVE  /\ ready_queue' \in Seq(Threads) /\ waiting_queue' \in Seq(Threads)
           /\ rq_current' \in 1..Len(Order)
           /\ fifo' \in [Threads -> 0..MaxLines]
           /\ mode' \in {"run", "spin", "exited"}
           /\ Queued' /\ CurrentFits' /\ WaitersRead'
<1>1. /\ ready_queue' = q /\ waiting_queue' = w /\ rq_current' = i /\ fifo' = FifoRead
      /\ mode' = IF q # <<>> THEN "run" ELSE IF w # <<>> THEN "spin" ELSE "exited"
  BY DEF Continue
<1>2. i \in 1..Len(Order)
  <2>1. Len(q) <= Len(Order) /\ Len(q) \in Nat /\ Len(Order) \in Nat
    BY QueueFits, OrderAssumption DEF Apart
  <2>2. CASE q # <<>>
    BY <2>1, <2>2
  <2>3. CASE q = <<>>
    BY <2>1, <2>3 DEF TypeOK
  <2> QED
    BY <2>2, <2>3
<1>3. fifo' \in [Threads -> 0..MaxLines]
  <2>1. ASSUME NEW t \in Threads
        PROVE  fifo[t] \in 0..MaxLines /\ (HasLine(t) => fifo[t] - 1 \in 0..MaxLines)
    <3>1. fifo[t] \in 0..MaxLines /\ MaxLines \in Nat
      BY ArgsAssumption DEF TypeOK
    <3> QED
      BY <3>1 DEF HasLine
  <2> QED
    BY <1>1, <2>1 DEF FifoRead
<1>4. Queued'
  BY <1>1 DEF Queued
<1>5. CurrentFits'
  BY <1>1 DEF CurrentFits
<1>6. WaitersRead'
  BY <1>1 DEF WaitersRead
<1> QED
  BY <1>1, <1>2, <1>3, <1>4, <1>5, <1>6

\* A thread that has its turn is at the current place of the ready queue.
LEMMA RunningIsReady ==
    ASSUME SInv, NEW t \in Threads, Running(t)
    PROVE  /\ mode = "run" /\ rq_current \in DOMAIN ready_queue
           /\ ready_queue[rq_current] = t /\ t \in Entries(ready_queue)
           /\ t \notin Entries(waiting_queue)
<1>1. mode = "run" /\ rq_current \in DOMAIN ready_queue /\ ready_queue[rq_current] = t
  BY DEF SInv, CurrentFits, Running, RUNNING
<1> QED
  BY <1>1 DEF Entries, SInv, Queued, Apart

\* An iteration ends in thread_yield or thread_exit; the queues stay.
LEMMA IterationStep ==
    ASSUME SInv, NEW t \in Threads, Running(t), at[t] \in {"body", "read"},
           EndIteration(t)
    PROVE  SInv'
<1>1. t \notin Entries(waiting_queue)
  BY RunningIsReady
<1>2. at' \in [Threads -> {"none", "body", "read", "yield", "exit", "done"}]
  BY DEF EndIteration, SInv, TypeOK
<1>3. left' \in [Threads -> Nat]
  BY DEF EndIteration, SInv, TypeOK
<1>4. Live' = Live
  BY DEF EndIteration, Live, SInv, TypeOK
<1>5. \A s \in Entries(waiting_queue) : at'[s] = "read"
  BY <1>1 DEF EndIteration, SInv, WaitersRead, TypeOK
<1> QED
  BY <1>2, <1>3, <1>4, <1>5
  DEF EndIteration, SInv, TypeOK, Queued, CurrentFits, WaitersRead

\* Reading puts RUNNING behind the waiting threads.
LEMMA AsyncReadStep ==
    ASSUME SInv, NEW t \in Threads, AsyncRead(t)
    PROVE  SInv'
<1> DEFINE q == WithoutCurrent(NowReady)
           w == Append(StillWaiting, t)
           i == IndexWithout(NowReady)
<1>0. TypeOK /\ Queued /\ CurrentFits /\ WaitersRead
  BY DEF SInv
<1>1. /\ mode = "run" /\ rq_current \in DOMAIN ready_queue
      /\ ready_queue[rq_current] = t /\ t \in Entries(ready_queue)
      /\ t \notin Entries(waiting_queue)
  BY RunningIsReady DEF AsyncRead
<1>2. /\ NowReady \in Seq(Threads) /\ StillWaiting \in Seq(Threads)
      /\ Apart(NowReady, StillWaiting)
      /\ Entries(NowReady) \cup Entries(StillWaiting) = Live
      /\ Entries(StillWaiting) \subseteq Entries(waiting_queue)
      /\ rq_current \in DOMAIN NowReady /\ NowReady[rq_current] = t
  BY <1>0, <1>1, MovedApart
<1>3. /\ q \in Seq(Threads) /\ Distinct(q) /\ Entries(q) = Entries(NowReady) \ {t}
      /\ Len(q) = Len(NowReady) - 1
      /\ Len(NowReady) > 1 => i \in DOMAIN q
      /\ Len(NowReady) = 1 => i = 1 /\ q = <<>>
  BY <1>2, WithoutEntries DEF Apart
<1>4. /\ w \in Seq(Threads) /\ Entries(w) = Entries(StillWaiting) \cup {t}
      /\ Distinct(w)
  <2> DEFINE one == <<t>>
  <2>1. /\ one \in Seq(Threads) /\ Entries(one) = {t} /\ Distinct(one)
    BY DEF Entries, Distinct
  <2>2. w = StillWaiting \o one
    BY <1>2
  <2> HIDE DEF one
  <2>3. Apart(StillWaiting, one)
    BY <1>1, <1>2, <2>1 DEF Apart
  <2>4. /\ StillWaiting \o one \in Seq(Threads) /\ Distinct(StillWaiting \o one)
        /\ Entries(StillWaiting \o one) = Entries(StillWaiting) \cup Entries(one)
    BY <1>2, <2>1, <2>3, Concatenated
  <2> QED
    BY <2>1, <2>2, <2>4
<1>5. i \in Nat /\ (q # <<>> => i \in DOMAIN q) /\ (q = <<>> => i = 1)
  <2>1. Len(NowReady) \in Nat /\ Len(NowReady) > 0 /\ rq_current \in Nat
    BY <1>2
  <2>2. q # <<>> => Len(q) > 0
    BY <1>3
  <2>3. i \in Nat
    BY <2>1 DEF IndexWithout
  <2>4. CASE Len(NowReady) = 1
    BY <1>3, <2>3, <2>4
  <2>5. CASE Len(NowReady) > 1
    BY <1>3, <2>3, <2>5
  <2>6. Len(NowReady) = 1 \/ Len(NowReady) > 1
    <3>1. \A n \in Nat : n > 0 => n = 1 \/ n > 1
      OBVIOUS
    <3> QED
      BY <2>1, <3>1
  <2> QED
    BY <2>4, <2>5, <2>6
<1>6. /\ at' \in [Threads -> {"none", "body", "read", "yield", "exit", "done"}]
      /\ Live' = Live /\ at'[t] = "read"
      /\ \A s \in Threads : s # t => at'[s] = at[s]
  BY <1>0 DEF AsyncRead, Live, TypeOK
<1>7. Apart(q, w) /\ Entries(q) \cup Entries(w) = Live'
  <2>1. t \in Entries(NowReady) /\ t \notin Entries(StillWaiting)
    BY <1>1, <1>2 DEF Entries
  <2> QED
    BY <1>2, <1>3, <1>4, <1>6, <2>1 DEF Apart
<1>8. \A s \in Entries(w) : at'[s] = "read"
  <2>1. ASSUME NEW s \in Entries(StillWaiting), s # t PROVE at'[s] = "read"
    <3>0. s \in Entries(waiting_queue) /\ waiting_queue \in Seq(Threads)
      BY <1>0, <1>2 DEF TypeOK
    <3>1. s \in Threads /\ at[s] = "read"
      BY <1>0, <3>0 DEF WaitersRead, Entries
    <3> QED
      BY <1>6, <2>1, <3>1
  <2> QED
    BY <1>4, <1>6, <2>1
<1>9. Continue(q, w, i)
  BY DEF AsyncRead
<1> HIDE DEF q, w, i
<1>10. /\ ready_queue' \in Seq(Threads) /\ waiting_queue' \in Seq(Threads)
       /\ rq_current' \in 1..Len(Order) /\ fifo' \in [Threads -> 0..MaxLines]
       /\ mode' \in {"run", "spin", "exited"}
       /\ Queued' /\ CurrentFits' /\ WaitersRead'
  BY <1>0, <1>3, <1>4, <1>5, <1>7, <1>8, <1>9, Continued
<1> QED
  BY <1>0, <1>6, <1>10 DEF AsyncRead, SInv, TypeOK

\* thread_exit takes RUNNING out of the ready queue, into none.
LEMMA ExitStep ==
    ASSUME SInv, NEW t \in Threads, Exit(t)
    PROVE  SInv'
<1> DEFINE q == WithoutCurrent(NowReady)
           w == StillWaiting
           i == IndexWithout(NowReady)
<1>0. TypeOK /\ Queued /\ CurrentFits /\ WaitersRead
  BY DEF SInv
<1>1. /\ mode = "run" /\ rq_current \in DOMAIN ready_queue
      /\ ready_queue[rq_current] = t /\ t \in Entries(ready_queue)
      /\ t \notin Entries(waiting_queue)
  BY RunningIsReady DEF Exit
<1>2. /\ NowReady \in Seq(Threads) /\ StillWaiting \in Seq(Threads)
      /\ Apart(NowReady, StillWaiting)
      /\ Entries(NowReady) \cup Entries(StillWaiting) = Live
      /\ Entries(StillWaiting) \subseteq Entries(waiting_queue)
      /\ rq_current \in DOMAIN NowReady /\ NowReady[rq_current] = t
  BY <1>0, <1>1, MovedApart
<1>3. /\ q \in Seq(Threads) /\ Distinct(q) /\ Entries(q) = Entries(NowReady) \ {t}
      /\ Len(q) = Len(NowReady) - 1
      /\ Len(NowReady) > 1 => i \in DOMAIN q
      /\ Len(NowReady) = 1 => i = 1 /\ q = <<>>
  BY <1>2, WithoutEntries DEF Apart
<1>5. i \in Nat /\ (q # <<>> => i \in DOMAIN q) /\ (q = <<>> => i = 1)
  <2>1. Len(NowReady) \in Nat /\ Len(NowReady) > 0 /\ rq_current \in Nat
    BY <1>2
  <2>2. q # <<>> => Len(q) > 0
    BY <1>3
  <2>3. i \in Nat
    BY <2>1 DEF IndexWithout
  <2>4. CASE Len(NowReady) = 1
    BY <1>3, <2>3, <2>4
  <2>5. CASE Len(NowReady) > 1
    BY <1>3, <2>3, <2>5
  <2>6. Len(NowReady) = 1 \/ Len(NowReady) > 1
    <3>1. \A n \in Nat : n > 0 => n = 1 \/ n > 1
      OBVIOUS
    <3> QED
      BY <2>1, <3>1
  <2> QED
    BY <2>4, <2>5, <2>6
<1>6. /\ at' \in [Threads -> {"none", "body", "read", "yield", "exit", "done"}]
      /\ Live' = Live \ {t}
      /\ \A s \in Threads : s # t => at'[s] = at[s]
  BY <1>0 DEF Exit, Live, TypeOK
<1>7. Apart(q, w) /\ Entries(q) \cup Entries(w) = Live'
  BY <1>1, <1>2, <1>3, <1>6 DEF Apart
<1>8. \A s \in Entries(w) : at'[s] = "read"
  <2>1. ASSUME NEW s \in Entries(StillWaiting) PROVE at'[s] = "read"
    <3>0. s \in Entries(waiting_queue) /\ waiting_queue \in Seq(Threads) /\ s # t
      BY <1>0, <1>1, <1>2 DEF TypeOK
    <3>1. s \in Threads /\ at[s] = "read"
      BY <1>0, <3>0 DEF WaitersRead, Entries
    <3> QED
      BY <1>6, <3>0, <3>1
  <2> QED
    BY <2>1
<1>9. Continue(q, w, i)
  BY DEF Exit
<1> HIDE DEF q, w, i
<1>10. /\ ready_queue' \in Seq(Threads) /\ waiting_queue' \in Seq(Threads)
       /\ rq_current' \in 1..Len(Order) /\ fifo' \in [Threads -> 0..MaxLines]
       /\ mode' \in {"run", "spin", "exited"}
       /\ Queued' /\ CurrentFits' /\ WaitersRead'
  BY <1>0, <1>2, <1>3, <1>5, <1>7, <1>8, <1>9, Continued DEF w
<1> QED
  BY <1>0, <1>6, <1>10 DEF Exit, SInv, TypeOK

\* A handler of thread_yield goes to the next thread of the longer queue.
LEMMA YieldStep ==
    ASSUME SInv, NEW t \in Threads, Yield(t)
    PROVE  SInv'
<1> DEFINE i == Rotate(NowReady)
<1>0. TypeOK /\ Queued /\ CurrentFits /\ WaitersRead
  BY DEF SInv
<1>1. /\ mode = "run" /\ rq_current \in DOMAIN ready_queue
      /\ ready_queue[rq_current] = t /\ t \notin Entries(waiting_queue)
  BY RunningIsReady DEF Yield
<1>2. /\ NowReady \in Seq(Threads) /\ StillWaiting \in Seq(Threads)
      /\ Apart(NowReady, StillWaiting)
      /\ Entries(NowReady) \cup Entries(StillWaiting) = Live
      /\ Entries(StillWaiting) \subseteq Entries(waiting_queue)
      /\ rq_current \in DOMAIN NowReady
  BY <1>0, <1>1, MovedApart
<1>3. /\ at' \in [Threads -> {"none", "body", "read", "yield", "exit", "done"}]
      /\ Live' = Live
      /\ \A s \in Threads : s # t => at'[s] = at[s]
  BY <1>0 DEF Yield, Live, TypeOK
<1>4. ASSUME NEW s \in Entries(waiting_queue) PROVE at'[s] = "read"
  <2>1. s \in Threads /\ s # t /\ at[s] = "read"
    <3>1. waiting_queue \in Seq(Threads)
      BY <1>0 DEF TypeOK
    <3> QED
      BY <1>0, <1>1, <3>1 DEF WaitersRead, Entries
  <2> QED
    BY <1>3, <2>1
<1>5. CASE pending = {}
  <2>1. UNCHANGED <<ready_queue, waiting_queue, rq_current, pending, armed, fifo, mode, left>>
    BY <1>5 DEF Yield
  <2>2. Queued' /\ CurrentFits' /\ WaitersRead'
    BY <1>0, <1>3, <1>4, <2>1 DEF Queued, CurrentFits, WaitersRead
  <2> QED
    BY <1>0, <1>3, <2>1, <2>2 DEF SInv, TypeOK
<1>6. CASE pending # {}
  <2>1. /\ Continue(NowReady, StillWaiting, i) /\ left' = left
        /\ pending' \subseteq pending /\ armed' \in BOOLEAN
    BY <1>0, <1>6 DEF Yield, Handle, TypeOK
  <2>2. i \in Nat /\ i \in DOMAIN NowReady
    BY <1>2 DEF Rotate
  <2>3. NowReady # <<>>
    BY <2>2
  <2> HIDE DEF i
  <2>4. \A s \in Entries(StillWaiting) : at'[s] = "read"
    BY <1>2, <1>4
  <2>5. /\ ready_queue' \in Seq(Threads) /\ waiting_queue' \in Seq(Threads)
        /\ rq_current' \in 1..Len(Order) /\ fifo' \in [Threads -> 0..MaxLines]
        /\ mode' \in {"run", "spin", "exited"}
        /\ Queued' /\ CurrentFits' /\ WaitersRead'
    BY <1>0, <1>2, <1>3, <2>1, <2>2, <2>3, <2>4, Continued
  <2> QED
    BY <1>0, <1>3, <2>1, <2>5 DEF SInv, TypeOK
<1> QED
  BY <1>5, <1>6

\* A line ends the wait of a scheduler without a ready thread.
LEMMA SpinStep ==
    ASSUME SInv, Spin
    PROVE  SInv'
<1>0. TypeOK /\ Queued /\ CurrentFits /\ WaitersRead
  BY DEF SInv
<1>1. /\ Continue(NowReady, StillWaiting, rq_current) /\ NowReady # <<>>
      /\ UNCHANGED <<at, left, pending, armed>> /\ rq_current = 1
  BY <1>0 DEF Spin, CurrentFits
<1>2. /\ NowReady \in Seq(Threads) /\ StillWaiting \in Seq(Threads)
      /\ Apart(NowReady, StillWaiting)
      /\ Entries(NowReady) \cup Entries(StillWaiting) = Live
      /\ Entries(StillWaiting) \subseteq Entries(waiting_queue)
  BY <1>0, MovedApart
<1>3. rq_current \in DOMAIN NowReady /\ rq_current \in Nat
  BY <1>1, <1>2
<1>4. Live' = Live /\ \A s \in Entries(StillWaiting) : at'[s] = "read"
  BY <1>0, <1>1, <1>2 DEF Live, WaitersRead
<1>5. /\ ready_queue' \in Seq(Threads) /\ waiting_queue' \in Seq(Threads)
      /\ rq_current' \in 1..Len(Order) /\ fifo' \in [Threads -> 0..MaxLines]
      /\ mode' \in {"run", "spin", "exited"}
      /\ Queued' /\ CurrentFits' /\ WaitersRead'
  BY <1>0, <1>1, <1>2, <1>3, <1>4, Continued
<1> QED
  BY <1>0, <1>1, <1>5 DEF SInv, TypeOK

\* Signals and lines arrive without touching the queues.
LEMMA OutsideStep ==
    ASSUME SInv, Suspend \/ AlarmExpires \/ \E t \in Threads : WriteLine(t)
    PROVE  SInv'
<1>0. TypeOK /\ Queued /\ CurrentFits /\ WaitersRead
  BY DEF SInv
<1>1. UNCHANGED <<ready_queue, waiting_queue, rq_current, at, left, mode>>
  BY DEF Suspend, AlarmExpires, WriteLine
<1>2. Queued' /\ CurrentFits' /\ WaitersRead'
  BY <1>0, <1>1 DEF Queued, CurrentFits, WaitersRead, Live
<1>3. pending' \subseteq {"TSTP", "ALRM"} /\ armed' \in BOOLEAN
  BY <1>0 DEF Suspend, AlarmExpires, WriteLine, TypeOK
<1>4. fifo' \in [Threads -> 0..MaxLines]
  <2>1. ASSUME NEW t \in Threads, WriteLine(t) PROVE fifo' \in [Threads -> 0..MaxLines]
    <3>1. fifo[t] + 1 \in 0..MaxLines
      <4>1. fifo[t] \in 0..MaxLines /\ fifo[t] < MaxLines /\ MaxLines \in Nat
        BY <1>0, <2>1, ArgsAssumption DEF WriteLine, TypeOK
      <4> QED
        BY <4>1
    <3> QED
      BY <1>0, <2>1, <3>1 DEF WriteLine, TypeOK
  <2> QED
    BY <1>0, <2>1 DEF Suspend, AlarmExpires, TypeOK
<1> QED
  BY <1>0, <1>1, <1>2, <1>3, <1>4 DEF SInv, TypeOK

\* main creates at least one thread, and none waits.
LEMMA InitSInv == Init => SInv
<1> SUFFICES ASSUME Init PROVE SInv
  OBVIOUS
<1>1. PICK made \in (SUBSET Threads) \ {{}} :
        /\ ready_queue = Selected(Order, {i \in DOMAIN Order : Order[i] \in made})
        /\ at = [t \in Threads |-> IF t \in made THEN "body" ELSE "none"]
  BY DEF Init
<1> DEFINE P == {i \in DOMAIN Order : Order[i] \in made}
<1>2. Order \in Seq(Threads) /\ Distinct(Order) /\ P \subseteq DOMAIN Order
  BY OrderAssumption DEF Distinct
<1>3. /\ ready_queue \in Seq(Threads) /\ Distinct(ready_queue)
      /\ Entries(ready_queue) = {Order[i] : i \in P}
  BY <1>1, <1>2, SelectedEntries
<1>4. Entries(ready_queue) = made
  BY <1>3 DEF Threads
<1>5. Live = made
  BY <1>1 DEF Live
<1>6. ready_queue # <<>> /\ 1 \in DOMAIN ready_queue
  <2>0. made # {}
    OBVIOUS
  <2>1. PICK t \in made : TRUE
    BY <2>0
  <2>2. PICK i \in DOMAIN ready_queue : ready_queue[i] = t
    BY <1>4, <2>1 DEF Entries
  <2> QED
    BY <1>3, <2>2
<1>7. waiting_queue = <<>> /\ Entries(waiting_queue) = {} /\ Distinct(waiting_queue)
  BY DEF Init, Entries, Distinct
<1>8. Queued
  BY <1>3, <1>4, <1>5, <1>7 DEF Queued, Apart
<1>9. CurrentFits /\ WaitersRead
  BY <1>6, <1>7 DEF Init, CurrentFits, WaitersRead
<1>10. rq_current \in 1..Len(Order)
  <2>1. Len(ready_queue) <= Len(Order)
    BY <1>3, QueueFits
  <2> QED
    BY <1>2, <1>3, <1>6, <2>1 DEF Init
<1>11. TypeOK
  <2>1. left \in [Threads -> Nat] /\ fifo \in [Threads -> 0..MaxLines]
    <3>1. Args \subseteq Nat /\ 0 \in 0..MaxLines
      BY ArgsAssumption
    <3> QED
      BY <3>1 DEF Init
  <2>2. at \in [Threads -> {"none", "body", "read", "yield", "exit", "done"}]
    BY <1>1
  <2> QED
    BY <1>3, <1>7, <1>10, <2>1, <2>2 DEF Init, TypeOK
<1> QED
  BY <1>8, <1>9, <1>11 DEF SInv

LEMMA NextSInv == SInv /\ [Next]_vars => SInv'
<1> SUFFICES ASSUME SInv, [Next]_vars PROVE SInv'
  OBVIOUS
<1>1. CASE UNCHANGED vars
  BY <1>1 DEF vars, SInv, TypeOK, Queued, CurrentFits, WaitersRead, Live
<1>2. ASSUME NEW t \in Threads, Compute(t) PROVE SInv'
  BY <1>2, IterationStep DEF Compute
<1>3. ASSUME NEW t \in Threads, FinishRead(t) PROVE SInv'
  BY <1>3, IterationStep DEF FinishRead
<1>4. CASE \E t \in Threads : AsyncRead(t)
  BY <1>4, AsyncReadStep
<1>5. CASE \E t \in Threads : Yield(t)
  BY <1>5, YieldStep
<1>6. CASE \E t \in Threads : Exit(t)
  BY <1>6, ExitStep
<1>7. CASE Spin
  BY <1>7, SpinStep
<1>8. CASE Suspend \/ AlarmExpires \/ \E t \in Threads : WriteLine(t)
  BY <1>8, OutsideStep
<1> QED
  BY <1>1, <1>2, <1>3, <1>4, <1>5, <1>6, <1>7, <1>8 DEF Next, Program

------------------------------------------------------------------------------
\* The queues and the index that scheduler.c edits by hand fit each other always.
THEOREM Invariant == Spec => []SInv
BY InitSInv, NextSInv, PTL DEF Spec

\* Every variable keeps its type; rq_current never leaves the array of threads.
THEOREM TypeCorrect == Spec => []TypeOK
<1>1. SInv => TypeOK
  BY DEF SInv
<1> QED
  BY <1>1, Invariant, PTL

\* No thread is lost or doubled, whatever signals and lines come between: each
\* live thread is in one queue, once, and an ended one in none.
THEOREM NoThreadIsLost == Spec => []NoThreadLost
<1>1. SInv => NoThreadLost
  <2> SUFFICES ASSUME SInv PROVE NoThreadLost
    OBVIOUS
  <2> DEFINE both == ready_queue \o waiting_queue
  <2>1. /\ ready_queue \in Seq(Threads) /\ waiting_queue \in Seq(Threads)
        /\ Apart(ready_queue, waiting_queue)
        /\ Entries(ready_queue) \cup Entries(waiting_queue) = Live
    BY DEF SInv, TypeOK, Queued
  <2>2. Entries(both) = Live /\ Distinct(both)
    <3>1. /\ Entries(both) = Entries(ready_queue) \cup Entries(waiting_queue)
          /\ Distinct(both) <=> Apart(ready_queue, waiting_queue)
      BY <2>1, Concatenated
    <3> QED
      BY <2>1, <3>1
  <2>3. mode = "run" <=> rq_current \in DOMAIN ready_queue
    BY DEF SInv, CurrentFits
  <2>4. \A i \in DOMAIN waiting_queue : at[waiting_queue[i]] = "read"
    BY DEF SInv, WaitersRead, Entries
  <2> HIDE DEF both
  <2>5. /\ {both[i] : i \in DOMAIN both} = Live
        /\ \A i, j \in DOMAIN both : both[i] = both[j] => i = j
    BY <2>2 DEF Entries, Distinct
  <2> QED
    BY <2>3, <2>4, <2>5 DEF NoThreadLost, both
<1> QED
  BY <1>1, Invariant, PTL

\* The alarm is running or has arrived until the program ends: thread_yield
\* handles one signal and keeps the other.
THEOREM AlarmStaysAlive == Spec => []AlarmAlive
<1>1. Init => AlarmAlive
  BY DEF Init, AlarmAlive
<1>2. SInv /\ AlarmAlive /\ [Next]_vars => AlarmAlive'
  <2> SUFFICES ASSUME SInv, AlarmAlive, [Next]_vars PROVE AlarmAlive'
    OBVIOUS
  <2>0. pending \subseteq {"TSTP", "ALRM"} /\ armed \in BOOLEAN
    BY DEF SInv, TypeOK
  <2>1. CASE \/ UNCHANGED vars \/ Suspend
             \/ \E t \in Threads : Compute(t) \/ FinishRead(t) \/ WriteLine(t)
    BY <2>1 DEF vars, Suspend, Compute, FinishRead, WriteLine, EndIteration, AlarmAlive
  <2>2. CASE Spin
    BY <2>2 DEF Spin, Continue, AlarmAlive
  <2>3. ASSUME NEW t \in Threads, AsyncRead(t) \/ Exit(t) PROVE AlarmAlive'
    BY <2>3 DEF AsyncRead, Exit, Running, AlarmAlive
  <2>4. ASSUME NEW t \in Threads, Yield(t) PROVE AlarmAlive'
    BY <2>0, <2>4 DEF Yield, Handle, Running, AlarmAlive
  <2>5. CASE AlarmExpires
    BY <2>0, <2>5 DEF AlarmExpires, AlarmAlive
  <2> QED
    BY <2>1, <2>2, <2>3, <2>4, <2>5 DEF Next, Program
<1> QED
  BY <1>1, <1>2, Invariant, PTL DEF Spec
================================================================================
