----------------------------- MODULE PipeProperties -----------------------------
(* What the processes of xv6 and a pipe between them promise. *)
EXTENDS Pipe, Sequences

Places ==
    {"user", "fork_parent", "fork_start", "exit", "zombie", "wait", "wait_sleep",
     "write", "writing", "write_sleep", "read", "read_sleep", "sleep"}

\* The type invariant.
TypeOK ==
    /\ state \in [Procs -> {"UNUSED", "USED", "SLEEPING", "RUNNABLE", "RUNNING", "ZOMBIE"}]
    /\ parent \in [Procs -> Procs \cup {None}]
    /\ chan \in [Procs -> Procs \cup {None, "nread", "nwrite"}]
    /\ killed \in [Procs -> BOOLEAN]
    /\ plock \subseteq Procs /\ wait_lock \in Procs \cup {None}
    /\ cpu \in [CPUs -> Procs \cup {None}]
    /\ at \in [Procs -> Places] /\ np \in [Procs -> Procs \cup {None}]
    /\ pi \in Pipes \cup {None}
    /\ pilock \in Procs \cup {None}
    /\ ref \in [Ends -> Nat] /\ ofile \in [Procs -> SUBSET Ends]
    /\ closing \in [Procs -> Ends \cup {None}]
    /\ todo \in [Procs -> 0..MaxWrite] /\ cut \in BOOLEAN

OnCPU(p) == {c \in CPUs : cpu[c] = p}
Locks(p) == p \in plock \/ wait_lock = p \/ pilock = p

\* A kernel stack is used by one CPU at a time and is not freed or given to another
\* CPU while a process is still leaving it; the holder of a spinlock is on a CPU, as
\* the panics of sched require.
RunsAlone ==
    \A p \in Procs :
        /\ Cardinality(OnCPU(p)) <= 1
        /\ state[p] \in {"UNUSED", "USED"} => OnCPU(p) = {}
        /\ state[p] = "RUNNING" \/ Locks(p) => OnCPU(p) # {}

\* No wakeup is lost: who sleeps in wait has a child and none that has exited, who
\* sleeps on a pipe finds it empty or full and its other end open.  The holder of
\* pi->lock may be about to wake the readers; and a writer killed within its call
\* leaves its bytes unannounced.
NoLostWakeup ==
    \A p \in Procs : state[p] = "SLEEPING" =>
        CASE chan[p] = "nread" ->
                pi.writeopen /\ (IsEmpty \/ cut \/ pilock # None)
          [] chan[p] = "nwrite" -> pi.readopen /\ IsFull
          [] OTHER ->
                /\ Children(p) # {}
                /\ \A q \in Children(p) : state[q] # "ZOMBIE"

\* Processes in a call to the pipe.
InPipe(p, e) ==
    IF e = "r" THEN at[p] \in {"read", "read_sleep"} \/ chan[p] = "nread"
    ELSE at[p] \in {"write", "writing", "write_sleep"} \/ chan[p] = "nwrite"

\* However processes fork, close and exit, an end of the pipe is open as long as
\* somebody refers to it or is just closing it, and the pipe is not freed under a
\* process that reads or writes.
OpenWhileUsed ==
    /\ \A e \in Ends : ref[e] = Cardinality({p \in Procs : e \in ofile[p]})
    /\ \A p \in Procs, e \in Ends :
          e \in ofile[p] \/ closing[p] = e =>
              pi # None /\ (IF e = "r" THEN pi.readopen ELSE pi.writeopen)
    /\ \A p \in Procs, e \in Ends : InPipe(p, e) => e \in ofile[p]

Forking == {np[p] : p \in Procs} \ {None}

\* Each process but init, once fork has given it a parent, has one that can still
\* wait for it, init if the one that forked it has exited.
HasParent ==
    \A q \in Procs \ {initproc} :
        IF state[q] = "UNUSED" THEN parent[q] = None
        ELSE \/ q \in Forking /\ state[q] = "USED"
             \/ parent[q] # None /\ state[parent[q]] \notin {"UNUSED", "USED", "ZOMBIE"}

\* The ring, from nread to nwrite, is a bounded queue.
Queue ==
    IF pi = None THEN <<>>
    ELSE [i \in 1..Used |-> pi.data[(pi.nread + i - 1) % PIPESIZE]]
OpenEnds ==
    IF pi = None THEN {}
    ELSE {e \in Ends : IF e = "r" THEN pi.readopen ELSE pi.writeopen}

Abstract == INSTANCE BoundedFifo
    WITH Size <- PIPESIZE, queue <- Queue, open <- OpenEnds

\* The bytes of a pipe come out once and in order, through wrapping counters,
\* several readers and writers, and kills.
Fifo == Abstract!Spec
================================================================================
