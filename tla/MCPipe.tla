--------------------------------- MODULE MCPipe ---------------------------------
(* Instances of Pipe for TLC. *)
EXTENDS PipeProperties, TLC

CONSTANTS init, a, b

\* The slots but init's, and the CPUs, are alike.
Symmetry == Permutations(Procs \ {initproc}) \cup Permutations(CPUs)

\* Bounds.  A process that is preempted, or has just been forked, waits for a CPU
\* one at a time and while no other holds a lock: apart from the CPU it leaves, it
\* is like one that runs and has not moved yet.
Waiting == {p \in Procs : state[p] = "RUNNABLE" /\ chan[p] = None}
FewWaiting ==
    /\ Cardinality(Waiting) <= 1
    /\ \A p \in Waiting :
          at[p] = "user" /\ pilock = None /\ wait_lock = None /\ plock \subseteq {p}

\* One killed process at a time.
OneKilled == Cardinality({p \in Procs : killed[p]}) <= 1

\* Programs number the bytes, so that each is told from its neighbours.
Numbered ==
    \/ pi = None \/ pi.data = [i \in 0..PIPESIZE - 1 |-> 0]
    \/ pi.data[(pi.nwrite - 1) % PIPESIZE] = (pi.nwrite - 1) % CounterRange
================================================================================
