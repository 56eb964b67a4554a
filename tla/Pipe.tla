---------------------------------- MODULE Pipe ----------------------------------
(***************************************************************************)
(* Processes of xv6 that share a pipe (Operating-System/mp4, kernel/pipe.c, *)
(* and file.c's references to its two ends): pipewrite and piperead hold    *)
(* pi->lock except while they sleep, and a kill can come at any moment of   *)
(* theirs.  A process holds each end at most once, and there is one pipe at *)
(* a time.  The user's buffers are valid, so no copyin or copyout fails.    *)
(***************************************************************************)
EXTENDS Proc

CONSTANTS
    Byte,
    PIPESIZE,
    CounterRange, \* the range of the uints nread and nwrite, 2^32 in the code
    MaxWrite      \* bound: the bytes of a write, and those of a read

ASSUME PipeAssumption ==
    /\ Byte # {}
    /\ PIPESIZE \in Nat \ {0} /\ MaxWrite \in Nat \ {0}
    /\ CounterRange \in Nat /\ CounterRange > PIPESIZE
    /\ CounterRange % PIPESIZE = 0

\* struct pipe, but for its lock.
Pipes == [data : [0..PIPESIZE - 1 -> Byte],
          nread : 0..CounterRange - 1, nwrite : 0..CounterRange - 1,
          readopen : BOOLEAN, writeopen : BOOLEAN]

\* Null is no pipe, no end and no channel; a channel is no process.
ASSUME NoneAssumption ==
    /\ None \notin Pipes
    /\ (Procs \cup {None}) \cap {"r", "w", "nread", "nwrite"} = {}

VARIABLES
    pi,           \* struct pipe, or None
    pilock,       \* the holder of pi->lock
    ref,          \* f->ref of the two ends
    ofile,        \* the ends a process holds
    closing,      \* the end whose last reference it has just dropped
    todo,         \* the bytes it has still to write: n - i
    cut           \* bytes were written by a call that a kill made fail (history)

pipeVars == <<pi, pilock, ref, ofile, closing, todo, cut>>
vars == <<procVars, pipeVars>>

Ends == {"r", "w"}

Init ==
    /\ InitProc
    /\ pi = None /\ pilock = None
    /\ ref = [e \in Ends |-> 0]
    /\ ofile = [p \in Procs |-> {}]
    /\ closing = [p \in Procs |-> None]
    /\ todo = [p \in Procs |-> 0]
    /\ cut = FALSE

Program(p) == Calls(p) /\ closing[p] = None

EntersAt(p, place) ==
    /\ GoesOnAt(p, place)
    /\ UNCHANGED <<state, parent, chan, killed, plock, wait_lock, cpu, np>>

\* Only the table of processes changes.
OnlyProc == UNCHANGED pipeVars

------------------------------------------------------------------------------
\* The ring.

\* Mutant: one byte more than the ring holds.
IsFullLate == pi.nwrite = (pi.nread + PIPESIZE + 1) % CounterRange

\* The counters are uints that wrap.
IsEmpty == pi.nread = pi.nwrite
IsFull == pi.nwrite = (pi.nread + PIPESIZE) % CounterRange
Used == (pi.nwrite - pi.nread) % CounterRange

\* Mutant: the counter does not wrap.
AdvanceNoWrap(counter, n) == counter + n
Advance(counter, n) == (counter + n) % CounterRange

------------------------------------------------------------------------------
\* pipealloc, fileclose and pipeclose.

PipeAlloc(p) ==
    /\ Program(p) /\ p # initproc /\ pi = None
    /\ \E data \in [0..PIPESIZE - 1 -> {CHOOSE b \in Byte : TRUE}] :
          pi' = [data |-> data, nread |-> 0, nwrite |-> 0,
                 readopen |-> TRUE, writeopen |-> TRUE]
    /\ ref' = [e \in Ends |-> 1]
    /\ ofile' = [ofile EXCEPT ![p] = Ends]
    /\ UNCHANGED <<procVars, pilock, closing, todo, cut>>

\* close, or exit with files still open.
FileClose(p, e) ==
    /\ Program(p) \/ (Runs(p) /\ at[p] = "exit" /\ closing[p] = None)
    /\ e \in ofile[p]
    /\ ofile' = [ofile EXCEPT ![p] = @ \ {e}]
    /\ ref' = [ref EXCEPT ![e] = @ - 1]
    /\ closing' = [closing EXCEPT ![p] = IF ref[e] = 1 THEN e ELSE None]
    /\ UNCHANGED <<procVars, pi, pilock, todo, cut>>

\* Mutant: the end is closed and nobody is told.
OtherSideNone(e) == {}

\* Those who wait for the other end to act.
OtherSide(e) == {IF e = "w" THEN "nread" ELSE "nwrite"}

Closed(e) ==
    IF e = "w" THEN [pi EXCEPT !.writeopen = FALSE] ELSE [pi EXCEPT !.readopen = FALSE]

PipeClose(p) ==
    /\ Runs(p) /\ closing[p] # None /\ pilock = None /\ CanWake(p)
    /\ pi' = LET left == Closed(closing[p])
             IN  IF left.readopen \/ left.writeopen THEN left ELSE None
    /\ state' = Woken(p, OtherSide(closing[p]))
    /\ closing' = [closing EXCEPT ![p] = None]
    /\ cut' = (cut /\ pi' # None)
    /\ UNCHANGED <<parent, chan, killed, plock, wait_lock, cpu, at, np,
                   pilock, ref, ofile, todo>>

------------------------------------------------------------------------------
\* pipewrite.

Write(p) ==
    /\ Program(p) /\ "w" \in ofile[p]
    /\ todo' \in {[todo EXCEPT ![p] = n] : n \in 1..MaxWrite}
    /\ EntersAt(p, "write")
    /\ UNCHANGED <<pi, pilock, ref, ofile, closing, cut>>

\* In its loop, with pi->lock, or taking it at the start and at the end of a sleep.
Writing(p) ==
    /\ Runs(p)
    /\ at[p] = "writing" \/ (at[p] = "write" /\ pilock = None)
FinishesWrite(p) == pilock' = None /\ todo' = [todo EXCEPT ![p] = 0]

\* -1, with no wakeup of the readers.
WriteFails(p) ==
    /\ Writing(p) /\ todo[p] > 0
    /\ ~pi.readopen \/ killed[p]
    /\ FinishesWrite(p) /\ EntersAt(p, "user")
    /\ cut' = (cut \/ at[p] = "writing")
    /\ UNCHANGED <<pi, ref, ofile, closing>>

WriteByte(p, b) ==
    /\ Writing(p) /\ todo[p] > 0 /\ pi.readopen /\ ~killed[p]
    /\ ~IsFull
    /\ pi' = [pi EXCEPT !.data[pi.nwrite % PIPESIZE] = b,
                        !.nwrite = Advance(@, 1)]
    /\ todo' = [todo EXCEPT ![p] = @ - 1]
    /\ pilock' = p /\ EntersAt(p, "writing")
    /\ UNCHANGED <<ref, ofile, closing, cut>>

WriteFull(p) ==
    /\ Writing(p) /\ todo[p] > 0 /\ pi.readopen /\ ~killed[p]
    /\ IsFull /\ CanWake(p)
    /\ state' = Woken(p, {"nread"})
    /\ pilock' = p /\ GoesOnAt(p, "write_sleep")
    /\ UNCHANGED <<parent, chan, killed, plock, wait_lock, cpu, np,
                   pi, ref, ofile, closing, todo, cut>>

WriteSleep(p) ==
    /\ at[p] = "write_sleep" /\ SleepLock(p, "nwrite")
    /\ pilock' = None
    /\ UNCHANGED <<wait_lock, pi, ref, ofile, closing, todo, cut>>

WriteDone(p) ==
    /\ Writing(p) /\ todo[p] = 0 /\ CanWake(p)
    /\ state' = Woken(p, {"nread"})
    /\ FinishesWrite(p) /\ GoesOnAt(p, "user")
    /\ UNCHANGED <<parent, chan, killed, plock, wait_lock, cpu, np,
                   pi, ref, ofile, closing, cut>>

------------------------------------------------------------------------------
\* piperead.

Read(p) ==
    /\ Program(p) /\ "r" \in ofile[p]
    /\ EntersAt(p, "read") /\ OnlyProc

Reading(p) == Runs(p) /\ at[p] = "read" /\ pilock = None

\* Nothing to read yet.
ReadEmpty(p) ==
    /\ Reading(p)
    /\ IsEmpty /\ pi.writeopen
    /\ IF killed[p]
       THEN EntersAt(p, "user") /\ UNCHANGED pilock
       ELSE EntersAt(p, "read_sleep") /\ pilock' = p
    /\ UNCHANGED <<pi, ref, ofile, closing, todo, cut>>

ReadSleep(p) ==
    /\ at[p] = "read_sleep" /\ SleepLock(p, "nread")
    /\ pilock' = None
    /\ UNCHANGED <<wait_lock, pi, ref, ofile, closing, todo, cut>>

\* Up to n bytes of those there are.
ReadCopy(p, n) ==
    /\ Reading(p)
    /\ ~(IsEmpty /\ pi.writeopen) /\ CanWake(p)
    /\ pi' = [pi EXCEPT !.nread = Advance(@, IF n < Used THEN n ELSE Used)]
    /\ state' = Woken(p, {"nwrite"})
    /\ cut' = (cut /\ n < Used)
    /\ GoesOnAt(p, "user")
    /\ UNCHANGED <<parent, chan, killed, plock, wait_lock, cpu, np,
                   pilock, ref, ofile, closing, todo>>

------------------------------------------------------------------------------
\* Mutant: the child's files are not counted.
DupUncounted(p, q) ==
    /\ ofile' = [ofile EXCEPT ![q] = ofile[p]]
    /\ UNCHANGED ref

\* fork's filedup of the open files.
Dup(p, q) ==
    /\ ofile' = [ofile EXCEPT ![q] = ofile[p]]
    /\ ref' = [e \in Ends |-> IF e \in ofile[p] THEN ref[e] + 1 ELSE ref[e]]

Fork(p, q) ==
    /\ closing[p] = None /\ ForkAlloc(p, q)
    /\ Dup(p, q)
    /\ UNCHANGED <<pi, pilock, closing, todo, cut>>

\* Where a process goes on after sleep.
Again(p) ==
    CASE chan[p] = "nread" -> "read" [] chan[p] = "nwrite" -> "write" [] OTHER -> "wait"

ForkStep(p) ==
    \/ OnlyProc /\ (ForkParent(p) \/ ForkStart(p))
    \/ \E q \in Procs : Fork(p, q)

ExitStep(p) ==
    /\ OnlyProc
    /\ \/ closing[p] = None /\ Exit(p)
       \/ ofile[p] = {} /\ closing[p] = None /\ ExitReparent(p)
       \/ ExitZombie(p)

WaitStep(p) ==
    /\ OnlyProc
    /\ \/ closing[p] = None /\ Wait(p)
       \/ WaitScan(p) \/ WaitSleep(p) \/ \E q \in Procs : Reap(p, q)

SchedStep(p) ==
    /\ OnlyProc
    /\ Yield(p) \/ \E c \in CPUs : Schedule(c, p) \/ Leave(c, p) \/ Sleep(p, c, Again(p))

KillStep(p) == OnlyProc /\ Program(p) /\ \E q \in Procs : Kill(p, q)

FileStep(p) == PipeAlloc(p) \/ PipeClose(p) \/ \E e \in Ends : FileClose(p, e)

WriteStep(p) ==
    \/ Write(p) \/ WriteFails(p) \/ WriteFull(p) \/ WriteSleep(p) \/ WriteDone(p)
    \/ \E b \in Byte : WriteByte(p, b)

ReadStep(p) ==
    \/ Read(p) \/ ReadEmpty(p) \/ ReadSleep(p)
    \/ \E n \in 1..MaxWrite : ReadCopy(p, n)

Step(p) ==
    \/ ForkStep(p) \/ ExitStep(p) \/ WaitStep(p) \/ SchedStep(p) \/ KillStep(p)
    \/ FileStep(p) \/ WriteStep(p) \/ ReadStep(p)

Next == \E p \in Procs : Step(p)

Spec == Init /\ [][Next]_vars
================================================================================
