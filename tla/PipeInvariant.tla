----------------------------- MODULE PipeInvariant -----------------------------
(***************************************************************************)
(* The inductive invariant behind the theorems of PipeProofs: what the      *)
(* place of a process in the kernel says of its state, of the locks it      *)
(* holds, of its family, of its open ends and of what it waits for.         *)
(***************************************************************************)
EXTENDS PipeProperties

Asleep(p) == at[p] = "sleep" \/ state[p] = "SLEEPING"

\* Who is on a CPU: a running process, or one that leaves with its p->lock held.
Placed ==
    /\ \A c, d \in CPUs : cpu[c] = cpu[d] /\ cpu[c] # None => c = d
    /\ \A c \in CPUs : cpu[c] # None => state[cpu[c]] = "RUNNING" \/ cpu[c] \in plock
    /\ \A p \in Procs : state[p] = "RUNNING" \/ p \in plock => \E c \in CPUs : cpu[c] = p
    /\ \A p \in plock : IF state[p] = "RUNNING" THEN at[p] = "sleep"
                        ELSE state[p] \in {"RUNNABLE", "ZOMBIE"}
    /\ \A p \in Procs : at[p] = "sleep" => p \in plock /\ state[p] = "RUNNING"
    /\ \A p \in Procs : state[p] \in {"UNUSED", "USED", "ZOMBIE"} => at[p] = "user"

\* Where a process holds wait_lock, or pi->lock.
InWaitLock == {"zombie", "wait_sleep"}
InPiLock == {"writing", "write_sleep", "read_sleep"}

Locked ==
    \A p \in Procs :
        /\ wait_lock = p <=> at[p] \in InWaitLock
        /\ pilock = p <=> at[p] \in InPiLock
        /\ at[p] \in InWaitLock \cup InPiLock => state[p] = "RUNNING"

\* A child that fork prepares is nobody else's.
Forked ==
    /\ \A p \in Procs : np[p] # None <=> at[p] \in {"fork_parent", "fork_start"}
    /\ \A p \in Procs : np[p] # None => state[np[p]] = "USED"
    /\ \A p, q \in Procs : np[p] = np[q] /\ np[p] # None => p = q
    /\ \A q \in Procs : state[q] = "USED" => \E p \in Procs : np[p] = q

\* A process has a channel from the start of sleep until it runs again.
Channels ==
    \A p \in Procs :
        /\ Asleep(p) => chan[p] # None
        /\ chan[p] # None => Asleep(p) \/ (state[p] = "RUNNABLE" /\ p \notin plock)
        /\ chan[p] \in {None, "nread", "nwrite", p}
        /\ chan[p] # None /\ at[p] # "sleep" => at[p] = Again(p)

\* Parents live, and init always does.
Family ==
    /\ \A q \in Procs : parent[q] # None =>
          state[parent[q]] \in {"SLEEPING", "RUNNABLE", "RUNNING"}
    /\ \A q \in Procs : parent[q] = None =>
          q = initproc \/ state[q] \in {"UNUSED", "USED"}
    /\ \A q \in Procs : state[q] = "UNUSED" => parent[q] = None
    /\ \A p \in Procs : at[p] = "fork_parent" => parent[np[p]] = None
    /\ \A p \in Procs : at[p] = "fork_start" => parent[np[p]] # None
    /\ \A p \in Procs : at[p] = "zombie" => Children(p) = {}
    /\ state[initproc] \notin {"UNUSED", "USED", "ZOMBIE"}
    /\ at[initproc] \notin {"exit", "zombie"}

\* Who sleeps in wait, or is about to, has children, and none on its way out of exit.
WaitsInVain ==
    \A p \in Procs :
        at[p] = "wait_sleep" \/ (Asleep(p) /\ chan[p] = p) =>
            /\ Children(p) # {}
            /\ \A q \in Children(p) : state[q] # "ZOMBIE" /\ at[q] # "zombie"

\* The references of the ends, and the one that closes an end.
Holders(e) == {p \in Procs : e \in ofile[p]}
IsOpen(e) == pi # None /\ (IF e = "r" THEN pi.readopen ELSE pi.writeopen)

Counted == \A e \in Ends : ref[e] = Cardinality(Holders(e))

Files ==
    /\ \A p \in Procs, e \in Ends : e \in ofile[p] \/ closing[p] = e => IsOpen(e)
    /\ \A p \in Procs, e \in Ends : closing[p] = e => Holders(e) = {}
    /\ \A p, q \in Procs : closing[p] = closing[q] /\ closing[p] # None => p = q
    /\ \A p \in Procs : closing[p] # None => at[p] \in {"user", "exit"}
    /\ \A p \in Procs : state[p] \in {"UNUSED", "ZOMBIE"} \/ at[p] = "zombie" =>
          ofile[p] = {} /\ closing[p] = None
    /\ \A p \in Procs : state[p] = "USED" => closing[p] = None
    /\ \A p \in Procs, e \in Ends : InPipe(p, e) => e \in ofile[p]

\* Who sleeps on the pipe, or is about to, would find it empty or full again.
ReadsInVain ==
    \A p \in Procs :
        /\ at[p] = "read_sleep" => pi.writeopen /\ IsEmpty
        /\ Asleep(p) /\ chan[p] = "nread" =>
              /\ pi.writeopen
              /\ IsEmpty \/ cut \/ pilock # None
              /\ \A w \in Procs : at[w] # "write_sleep"

WritesInVain ==
    \A p \in Procs :
        at[p] = "write_sleep" \/ (Asleep(p) /\ chan[p] = "nwrite") =>
            pi.readopen /\ IsFull

\* The ring holds what it says.
Fits == pi # None => Used <= PIPESIZE

Inv ==
    /\ TypeOK /\ Placed /\ Locked /\ Forked /\ Channels /\ Family
    /\ WaitsInVain /\ Counted /\ Files /\ ReadsInVain /\ WritesInVain /\ Fits
================================================================================
