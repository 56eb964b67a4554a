---------------------------------- MODULE Proc ----------------------------------
(***************************************************************************)
(* The processes of xv6 (Operating-System/mp4, kernel/proc.c): the table    *)
(* proc, its scheduler, fork, exit, wait, kill, sleep and wakeup.  A step   *)
(* is what a CPU does under one hold of a spinlock, or between two locks:   *)
(* p->lock is modelled from its acquire to its release where a process      *)
(* leaves its CPU with it, and wait_lock where exit and sleep nest it.      *)
(***************************************************************************)
EXTENDS Integers, FiniteSets

CONSTANTS
    Procs,        \* the slots of proc
    initproc,
    CPUs,
    None          \* the null pointer, a free lock, an idle CPU

ASSUME ProcAssumption ==
    initproc \in Procs /\ None \notin Procs /\ IsFiniteSet(Procs)

VARIABLES
    state, parent, chan, killed,   \* struct proc
    plock,        \* the processes whose p->lock is held
    wait_lock,    \* its holder
    cpu,          \* the process on each CPU
    at,           \* where a process goes on in the kernel; "user" outside it
    np            \* the child of a fork under way

procVars == <<state, parent, chan, killed, plock, wait_lock, cpu, at, np>>

InitProc ==
    /\ state = [p \in Procs |-> IF p = initproc THEN "RUNNABLE" ELSE "UNUSED"]
    /\ parent = [p \in Procs |-> None]
    /\ chan = [p \in Procs |-> None]
    /\ killed = [p \in Procs |-> FALSE]
    /\ plock = {} /\ wait_lock = None
    /\ cpu = [c \in CPUs |-> None]
    /\ at = [p \in Procs |-> "user"]
    /\ np = [p \in Procs |-> None]

Runs(p) ==
    state[p] = "RUNNING" /\ p \notin plock /\ \E c \in CPUs : cpu[c] = p

GoesOnAt(p, place) == at' = [at EXCEPT ![p] = place]

\* A system call, or a trap: usertrap first makes a killed process exit.
Calls(p) == Runs(p) /\ at[p] = "user" /\ ~killed[p]

------------------------------------------------------------------------------
\* sleep and wakeup.

\* wakeup on channels, called by p: it takes the lock of every other process.
CanWake(p) == plock \subseteq {p}
Woken(p, channels) ==
    [q \in Procs |->
        IF q # p /\ state[q] = "SLEEPING" /\ chan[q] \in channels
        THEN "RUNNABLE" ELSE state[q]]

\* sleep, until it has p->lock and has released lk.
SleepLock(p, channel) ==
    /\ Runs(p)
    /\ plock' = plock \cup {p}
    /\ chan' = [chan EXCEPT ![p] = channel]
    /\ GoesOnAt(p, "sleep")
    /\ UNCHANGED <<state, parent, killed, cpu, np>>

\* The rest of sleep, to the scheduler; later it goes on with acquire(lk), again.
Sleep(p, c, again) ==
    /\ cpu[c] = p /\ at[p] = "sleep"
    /\ state' = [state EXCEPT ![p] = "SLEEPING"]
    /\ plock' = plock \ {p}
    /\ cpu' = [cpu EXCEPT ![c] = None]
    /\ GoesOnAt(p, again)
    /\ UNCHANGED <<parent, chan, killed, wait_lock, np>>

------------------------------------------------------------------------------
\* The scheduler.

CanTake(p) == state[p] = "RUNNABLE" /\ p \notin plock

\* The process it switches to releases p->lock, and sleep clears p->chan.
Schedule(c, p) ==
    /\ cpu[c] = None /\ CanTake(p)
    /\ cpu' = [cpu EXCEPT ![c] = p]
    /\ state' = [state EXCEPT ![p] = "RUNNING"]
    /\ chan' = [chan EXCEPT ![p] = None]
    /\ UNCHANGED <<parent, killed, plock, wait_lock, at, np>>

\* yield, at a timer interrupt: a process that holds a spinlock takes none.
Yield(p) ==
    /\ Runs(p)
    /\ at[p] \in {"user", "fork_parent", "fork_start", "exit", "wait", "read", "write"}
    /\ state' = [state EXCEPT ![p] = "RUNNABLE"]
    /\ plock' = plock \cup {p}
    /\ UNCHANGED <<parent, chan, killed, wait_lock, cpu, at, np>>

\* Back in scheduler(), which releases the p->lock of yield and exit.
Leave(c, p) ==
    /\ cpu[c] = p /\ p \in plock /\ state[p] # "RUNNING"
    /\ cpu' = [cpu EXCEPT ![c] = None]
    /\ plock' = plock \ {p}
    /\ UNCHANGED <<state, parent, chan, killed, wait_lock, at, np>>

------------------------------------------------------------------------------
\* fork: allocproc; then the parent, under wait_lock; then RUNNABLE.

ForkAlloc(p, q) ==
    /\ Calls(p)
    /\ state[q] = "UNUSED" /\ q \notin plock
    /\ state' = [state EXCEPT ![q] = "USED"]
    /\ np' = [np EXCEPT ![p] = q]
    /\ GoesOnAt(p, "fork_parent")
    /\ UNCHANGED <<parent, chan, killed, plock, wait_lock, cpu>>

ForkParent(p) ==
    /\ Runs(p) /\ at[p] = "fork_parent" /\ wait_lock = None
    /\ parent' = [parent EXCEPT ![np[p]] = p]
    /\ GoesOnAt(p, "fork_start")
    /\ UNCHANGED <<state, chan, killed, plock, wait_lock, cpu, np>>

ForkStart(p) ==
    /\ Runs(p) /\ at[p] = "fork_start" /\ np[p] \notin plock
    /\ state' = [state EXCEPT ![np[p]] = "RUNNABLE"]
    /\ np' = [np EXCEPT ![p] = None]
    /\ GoesOnAt(p, "user")
    /\ UNCHANGED <<parent, chan, killed, plock, wait_lock, cpu>>

------------------------------------------------------------------------------
\* exit, which closes the files first.

Exit(p) ==
    /\ Runs(p) /\ at[p] = "user" /\ p # initproc
    /\ GoesOnAt(p, "exit")
    /\ UNCHANGED <<state, parent, chan, killed, plock, wait_lock, cpu, np>>

\* Mutant: a child that has exited already is not passed on.
ReparentedLive(p) ==
    [q \in Procs |->
        IF parent[q] = p /\ state[q] # "ZOMBIE" THEN initproc ELSE parent[q]]

Children(p) == {q \in Procs : parent[q] = p}
Reparented(p) == [q \in Procs |-> IF parent[q] = p THEN initproc ELSE parent[q]]

\* reparent and wakeup(p->parent), under wait_lock.
ExitReparent(p) ==
    /\ Runs(p) /\ at[p] = "exit" /\ wait_lock = None /\ CanWake(p)
    /\ wait_lock' = p
    /\ parent' = Reparented(p)
    /\ state' = Woken(p, {parent[p]} \cup IF Children(p) = {} THEN {} ELSE {initproc})
    /\ GoesOnAt(p, "zombie")
    /\ UNCHANGED <<chan, killed, plock, cpu, np>>

\* p->lock stays held until the scheduler has the CPU again.
ExitZombie(p) ==
    /\ Runs(p) /\ at[p] = "zombie"
    /\ state' = [state EXCEPT ![p] = "ZOMBIE"]
    /\ plock' = plock \cup {p}
    /\ wait_lock' = None
    /\ GoesOnAt(p, "user")
    /\ UNCHANGED <<parent, chan, killed, cpu, np>>

------------------------------------------------------------------------------
\* wait.

Wait(p) ==
    /\ Calls(p)
    /\ GoesOnAt(p, "wait")
    /\ UNCHANGED <<state, parent, chan, killed, plock, wait_lock, cpu, np>>

\* Mutant: np->lock is not taken.
CanReapEarly(q) == state[q] = "ZOMBIE"

CanReap(q) == state[q] = "ZOMBIE" /\ q \notin plock

\* freeproc of a child that has exited.
Reap(p, q) ==
    /\ Runs(p) /\ at[p] = "wait" /\ wait_lock = None
    /\ q \in Children(p) /\ CanReap(q)
    /\ state' = [state EXCEPT ![q] = "UNUSED"]
    /\ parent' = [parent EXCEPT ![q] = None]
    /\ killed' = [killed EXCEPT ![q] = FALSE]
    /\ GoesOnAt(p, "user")
    /\ UNCHANGED <<chan, plock, wait_lock, cpu, np>>

\* No child has exited: it fails, or goes on to sleep with wait_lock held.
WaitScan(p) ==
    /\ Runs(p) /\ at[p] = "wait" /\ wait_lock = None
    /\ \A q \in Children(p) : state[q] # "ZOMBIE" /\ q \notin plock
    /\ IF Children(p) = {} \/ killed[p]
       THEN GoesOnAt(p, "user") /\ UNCHANGED wait_lock
       ELSE GoesOnAt(p, "wait_sleep") /\ wait_lock' = p
    /\ UNCHANGED <<state, parent, chan, killed, plock, cpu, np>>

WaitSleep(p) ==
    /\ at[p] = "wait_sleep" /\ SleepLock(p, p)
    /\ wait_lock' = None

------------------------------------------------------------------------------
\* kill(pid), of init never; an UNUSED slot has pid 0, so kill(0) marks one, and
\* the process it is given to next is killed at once.
Kill(p, q) ==
    /\ Calls(p) /\ q \notin plock \cup {initproc}
    /\ killed' = [killed EXCEPT ![q] = TRUE]
    /\ state' = [state EXCEPT ![q] = IF @ = "SLEEPING" THEN "RUNNABLE" ELSE @]
    /\ UNCHANGED <<parent, chan, plock, wait_lock, cpu, at, np>>
================================================================================
