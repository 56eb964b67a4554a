--------------------------- MODULE FsLogProperties ---------------------------
(* What the log of FsLog guarantees. *)
EXTENDS FsLog

InOp == {p \in Procs : pc[p] = "op"}
Committing == {p \in Procs : pc[p] \in Committer}

\* The type invariant of memory and disk.
TypeOK ==
    /\ pc \in [Procs -> Phases]
    /\ wrote \in [Procs -> SUBSET Blocks]
    /\ outstanding \in Nat
    /\ committing \in BOOLEAN
    /\ lh \in Seq(Blocks)
    /\ tail \in Nat
    /\ cache \in [Blocks -> Data \cup {Absent}]
    /\ pins \in [Blocks -> Nat]
    /\ mode \in {"boot", "redo", "up", "panic"}
    /\ home \in [Blocks -> Data]
    /\ logdisk \in [1..LogSize -> Data \cup {Absent}]
    /\ header \in Seq(Blocks)

\* end_op hands the commit to one process, and nothing runs beside it: while a
\* process is in commit() no call is in progress and no other one commits.
CommitAlone ==
    /\ committing <=> Committing # {}
    /\ \A p, q \in Committing : p = q
    /\ Committing # {} => InOp = {}
    /\ outstanding = Cardinality(InOp)

\* begin_op's reservation: what the calls in progress may still write fits in
\* the log array, whatever blocks they choose.
Reservation ==
    Len(lh) + outstanding * MaxOp <=
        LogSize + Cardinality(UNION {wrote[p] : p \in Procs})

\* A buffer that differs from the disk is pinned and logged, so eviction never
\* loses a write; each logged block is pinned once (log absorption).
DirtyIsPinned ==
    mode = "up" =>
        \A b \in Blocks :
            /\ Contents(b) # home[b] => b \in LhBlocks /\ pins[b] > 0
            /\ pins[b] \in 0..1

\* No sleeper of begin_op is left behind: someone will call wakeup(&log).
NoStrandedSleeper ==
    \A p \in Procs : pc[p] = "asleep" => committing \/ outstanding > 0

\* A sleeper of begin_op is woken in the end, a panic or a reboot apart.
SleeperWoken ==
    \A p \in Procs : pc[p] = "asleep" ~> pc[p] # "asleep" \/ mode = "panic"

\* The disk as recover_from_log would leave it, and as the calls see it.
Recovered ==
    [b \in Blocks |->
        IF \E i \in 1..Len(header) : header[i] = b
        THEN logdisk[CHOOSE i \in 1..Len(header) : header[i] = b]
        ELSE home[b]]
View == IF mode \in {"up", "panic"} THEN [b \in Blocks |-> Contents(b)]
                                    ELSE Recovered

\* When everything is committed a crash loses nothing.
QuietIsDurable ==
    mode = "up" /\ outstanding = 0 /\ ~committing => Recovered = View

Abstract == INSTANCE AtomicDisk
    WITH durable <- Recovered, view <- View, active <- outstanding

\* Every crash leaves the state between two system calls: FsLog implements
\* AtomicDisk.
Atomic == Abstract!Spec
==============================================================================
