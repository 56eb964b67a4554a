----------------------------- MODULE SignalThreads -----------------------------
(***************************************************************************)
(* The user-level threads of System-Programming/hw3: threads share one      *)
(* stack and switch by setjmp and longjmp, at a thread_yield that finds a   *)
(* signal pending, in async_read, which waits for a line on the thread's    *)
(* fifo, and at thread_exit.  SIGTSTP and SIGALRM are blocked everywhere    *)
(* but in thread_yield.  A line is written to a fifo as a whole; what a     *)
(* thread computes is left out but for the number of its iterations.        *)
(***************************************************************************)
EXTENDS Integers, Sequences, Selection

CONSTANTS
    Order,        \* the threads main can create, in the order it creates them
    Readers,      \* those that run max_subarray; the others compute
    Args,         \* numbers of iterations asked for; 0: the thread never ends
    MaxLines      \* bound: lines in a fifo

Threads == {Order[i] : i \in DOMAIN Order}

ASSUME OrderAssumption ==
    /\ Order \in Seq(Threads)
    /\ \A i, j \in DOMAIN Order : Order[i] = Order[j] => i = j
ASSUME ArgsAssumption == Args \subseteq Nat /\ MaxLines \in Nat \ {0}

VARIABLES
    ready_queue, waiting_queue,
    rq_current,   \* the index of RUNNING in ready_queue, from 1 on
    at,           \* where a thread goes on: "body", "read", "yield", "exit" or "done"
    left,         \* the iterations it has left, while its argument is not 0
    pending,      \* blocked signals that have arrived
    armed,        \* alarm(timeslice) is running
    fifo,         \* lines in the fifo of each thread
    mode          \* "run", "spin" (in scheduler, no thread is ready) or "exited"

vars == <<ready_queue, waiting_queue, rq_current, at, left, pending, armed,
          fifo, mode>>

RUNNING == ready_queue[rq_current]
Running(t) == mode = "run" /\ RUNNING = t

\* init_threads creates the threads with an argument of at least 0.
Init ==
    /\ \E made \in (SUBSET Threads) \ {{}} :
          /\ ready_queue = Selected(Order, {i \in DOMAIN Order : Order[i] \in made})
          /\ at = [t \in Threads |-> IF t \in made THEN "body" ELSE "none"]
    /\ waiting_queue = <<>> /\ rq_current = 1
    /\ left \in [Threads -> Args]
    /\ pending = {} /\ armed = TRUE
    /\ fifo = [t \in Threads |-> 0]
    /\ mode = "run"

------------------------------------------------------------------------------
\* scheduler().

\* Mutant: one more line is waited for.
HasLineTwo(t) == fifo[t] > 1

HasLine(t) == fifo[t] > 0

\* Mutant: a thread that gets ready stays in the waiting queue too.
StillWaitingAll == waiting_queue

\* waiting2ready, whose read takes the line of every thread it moves.
WithLine == {i \in DOMAIN waiting_queue : HasLine(waiting_queue[i])}
NowReady == ready_queue \o Selected(waiting_queue, WithLine)
StillWaiting == Selected(waiting_queue, DOMAIN waiting_queue \ WithLine)

\* Mutant: a line is taken from every waiting thread's fifo.
FifoReadBlind ==
    [t \in Threads |->
        IF \E i \in DOMAIN waiting_queue : waiting_queue[i] = t
        THEN fifo[t] - 1 ELSE fifo[t]]

FifoRead ==
    [t \in Threads |->
        IF \E i \in DOMAIN waiting_queue : waiting_queue[i] = t /\ HasLine(t)
        THEN fifo[t] - 1 ELSE fifo[t]]

\* Mutant: the next in the queue is not taken.
RotateNot(q) == rq_current

\* ret = 1: the next thread of the queue.
Rotate(q) == IF rq_current = Len(q) THEN 1 ELSE rq_current + 1

Front(q) == SubSeq(q, 1, Len(q) - 1)

\* ret = 2 and 3: the last thread takes the place of RUNNING.
WithoutCurrent(q) ==
    IF rq_current = Len(q) THEN Front(q)
    ELSE Front([q EXCEPT ![rq_current] = q[Len(q)]])

IndexWithout(q) == IF rq_current = Len(q) THEN 1 ELSE rq_current

\* The scheduler goes on with these queues: it jumps to a thread, waits for a
\* line, or ends the program.
Continue(q, w, i) ==
    /\ ready_queue' = q /\ waiting_queue' = w /\ rq_current' = i
    /\ fifo' = FifoRead
    /\ mode' = IF q # <<>> THEN "run" ELSE IF w # <<>> THEN "spin" ELSE "exited"

\* while (rq_size == 0) waiting2ready().
Spin ==
    /\ mode = "spin" /\ NowReady # <<>>
    /\ Continue(NowReady, StillWaiting, rq_current)
    /\ UNCHANGED <<at, left, pending, armed>>

------------------------------------------------------------------------------
\* The threads.

\* The end of an iteration: thread_exit if it was the last, else thread_yield.
EndIteration(t) ==
    /\ left' = [left EXCEPT ![t] = IF @ = 0 THEN 0 ELSE @ - 1]
    /\ at' = [at EXCEPT ![t] = IF left[t] = 1 THEN "exit" ELSE "yield"]
    /\ UNCHANGED <<ready_queue, waiting_queue, rq_current, pending, armed,
                   fifo, mode>>

\* fibonacci and collatz.
Compute(t) ==
    /\ Running(t) /\ at[t] = "body" /\ t \notin Readers
    /\ EndIteration(t)

\* async_read: its setjmp, and ret = 2.
AsyncRead(t) ==
    /\ Running(t) /\ at[t] = "body" /\ t \in Readers
    /\ at' = [at EXCEPT ![t] = "read"]
    /\ Continue(WithoutCurrent(NowReady), Append(StillWaiting, t),
                IndexWithout(NowReady))
    /\ UNCHANGED <<left, pending, armed>>

\* The thread was moved to the ready queue and has its turn.
FinishRead(t) ==
    /\ Running(t) /\ at[t] = "read"
    /\ EndIteration(t)

\* Mutant: SIGALRM does not set the next alarm.
HandleNoAlarm(signo) ==
    /\ pending' = pending \ {signo}
    /\ UNCHANGED armed

\* sighandler: it leaves by longjmp(sched_buf, 1) with both signals blocked again.
Handle(signo) ==
    /\ pending' = pending \ {signo}
    /\ armed' = (armed \/ signo = "ALRM")

\* thread_yield: SIGTSTP is let in first; a pending SIGALRM then stays for the
\* next thread_yield.
Yield(t) ==
    /\ Running(t) /\ at[t] = "yield"
    /\ at' = [at EXCEPT ![t] = "body"]
    /\ IF pending = {}
       THEN UNCHANGED <<ready_queue, waiting_queue, rq_current, pending, armed,
                        fifo, mode>>
       ELSE /\ Handle(IF "TSTP" \in pending THEN "TSTP" ELSE "ALRM")
            /\ Continue(NowReady, StillWaiting, Rotate(NowReady))
    /\ UNCHANGED left

\* thread_exit: ret = 3.
Exit(t) ==
    /\ Running(t) /\ at[t] = "exit"
    /\ at' = [at EXCEPT ![t] = "done"]
    /\ Continue(WithoutCurrent(NowReady), StillWaiting, IndexWithout(NowReady))
    /\ UNCHANGED <<left, pending, armed>>

------------------------------------------------------------------------------
\* The outside: kill -TSTP, the alarm, a writer of the fifo.

Suspend ==
    /\ mode # "exited" /\ pending' = pending \cup {"TSTP"}
    /\ UNCHANGED <<ready_queue, waiting_queue, rq_current, at, left, armed,
                   fifo, mode>>

AlarmExpires ==
    /\ mode # "exited" /\ armed
    /\ armed' = FALSE /\ pending' = pending \cup {"ALRM"}
    /\ UNCHANGED <<ready_queue, waiting_queue, rq_current, at, left, fifo, mode>>

WriteLine(t) ==
    /\ mode # "exited" /\ t \in Readers /\ at[t] \notin {"none", "done"}
    /\ fifo[t] < MaxLines
    /\ fifo' = [fifo EXCEPT ![t] = @ + 1]
    /\ UNCHANGED <<ready_queue, waiting_queue, rq_current, at, left, pending,
                   armed, mode>>

------------------------------------------------------------------------------
Program ==
    \/ Spin
    \/ \E t \in Threads :
          Compute(t) \/ AsyncRead(t) \/ FinishRead(t) \/ Yield(t) \/ Exit(t)

Next == Program \/ Suspend \/ AlarmExpires \/ \E t \in Threads : WriteLine(t)

Spec == Init /\ [][Next]_vars

\* The process runs, and a running alarm expires.
FairSpec == Spec /\ WF_vars(Program) /\ WF_vars(AlarmExpires)

------------------------------------------------------------------------------
Live == {t \in Threads : at[t] \notin {"none", "done"}}
In(t, q) == \E i \in DOMAIN q : q[i] = t

\* The type invariant.
TypeOK ==
    /\ ready_queue \in Seq(Threads) /\ waiting_queue \in Seq(Threads)
    /\ rq_current \in 1..Len(Order)
    /\ at \in [Threads -> {"none", "body", "read", "yield", "exit", "done"}]
    /\ left \in [Threads -> Nat]
    /\ pending \subseteq {"TSTP", "ALRM"}
    /\ armed \in BOOLEAN
    /\ fifo \in [Threads -> 0..MaxLines]
    /\ mode \in {"run", "spin", "exited"}

\* However the queues are edited around rq_current, no thread is lost or doubled:
\* each live thread is once in one of the two, an ended one in none, and RUNNING
\* is a thread that was not left waiting.
NoThreadLost ==
    LET both == ready_queue \o waiting_queue
    IN  /\ {both[i] : i \in DOMAIN both} = Live
        /\ \A i, j \in DOMAIN both : both[i] = both[j] => i = j
        /\ mode = "run" <=> rq_current \in DOMAIN ready_queue
        /\ \A i \in DOMAIN waiting_queue : at[waiting_queue[i]] = "read"

\* The alarm is never lost: it is running or has arrived, though a handler that
\* leaves by longjmp takes the other signal's turn ("If SIGALRM is received,
\* reset the alarm here", scheduler.c:35).
AlarmAlive == mode # "exited" => (armed <=> "ALRM" \notin pending)

\* No ready thread starves, though some threads never end and others come back
\* from waiting all the time.
TakesTurns == \A t \in Threads : In(t, ready_queue) ~> Running(t) \/ mode = "exited"

\* A thread waiting for a line goes on once there is one.
ReaderGoesOn ==
    \A t \in Threads : In(t, waiting_queue) /\ fifo[t] > 0 ~> Running(t)
================================================================================
