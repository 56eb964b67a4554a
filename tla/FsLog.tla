-------------------------------- MODULE FsLog --------------------------------
(***************************************************************************)
(* The file-system log of xv6 (Operating-System/mp4, kernel/log.c): system  *)
(* calls group their block writes between begin_op and end_op, the last     *)
(* end_op commits all of them through the on-disk log, and a reboot redoes  *)
(* a committed log.  log.lock makes begin_op, log_write and the two ends of *)
(* end_op atomic; commit() runs without it, one disk write at a time.       *)
(***************************************************************************)
EXTENDS Integers, Sequences, FiniteSets

CONSTANTS
    Procs,        \* processes making file-system calls
    Blocks,       \* home blocks of the disk
    Data,         \* contents of a block
    MaxOp,        \* MAXOPBLOCKS: distinct blocks one call may write
    LogSize,      \* LOGSIZE
    NLog,         \* log.size: blocks of the on-disk log, its header included
    Absent        \* a block that is not in the buffer cache

ASSUME ProcsAssumption == IsFiniteSet(Procs)
ASSUME DataAssumption == Absent \notin Data
ASSUME SizeAssumption ==
    /\ MaxOp \in Nat \ {0} /\ LogSize \in Nat /\ NLog \in Nat
    /\ MaxOp <= LogSize

VARIABLES
    \* memory
    pc,           \* where each process is
    wrote,        \* the blocks its current call has written
    outstanding, committing,
    lh,           \* log.lh.block[0..n-1]
    tail,         \* loop counter of write_log and install_trans
    cache,        \* contents of the buffer of each block, or Absent
    pins,         \* its refcnt through bpin
    mode,         \* "boot", "redo" (install_trans(1)), "up" or "panic"
    \* disk
    home, logdisk, header

memory == <<pc, wrote, outstanding, committing, lh, tail, cache, pins>>
disk == <<home, logdisk, header>>
vars == <<memory, mode, disk>>

\* "begin": woken and about to test again in begin_op, "asleep": in its sleep(), "op": between
\* begin_op and end_op, "log", "install", "done": steps of the commit.
Committer == {"log", "install", "done"}
Phases == {"idle", "begin", "asleep", "op"} \cup Committer

LhBlocks == {lh[i] : i \in 1..Len(lh)}

\* bread(b)->data: the buffer if there is one, the disk otherwise.
Contents(b) == IF cache[b] # Absent THEN cache[b] ELSE home[b]

\* Mutant: bpin and bunpin do nothing.
PinnedNot(b, n) == pins

\* bpin (n = 1) and bunpin (n = -1).
Pinned(b, n) == [pins EXCEPT ![b] = @ + n]

\* Mutant: wakeup finds nobody.
WokenNone(f) == f

\* wakeup(&log): every process asleep on the log tests again.
Woken(f) == [q \in Procs |-> IF f[q] = "asleep" THEN "begin" ELSE f[q]]

\* Mutant: the loops stop one block early.
LoopDoneEarly == tail + 1 >= Len(lh)

\* The loops of write_log and install_trans have passed the last block.
LoopDone == tail = Len(lh)

EmptyCache == [b \in Blocks |-> Absent]

Init ==
    /\ pc = [p \in Procs |-> "idle"]
    /\ wrote = [p \in Procs |-> {}]
    /\ outstanding = 0 /\ committing = FALSE
    /\ lh = <<>> /\ tail = 0
    /\ cache = EmptyCache
    /\ pins = [b \in Blocks |-> 0]
    /\ mode = "boot"
    /\ home \in [Blocks -> Data]
    /\ logdisk = [i \in 1..LogSize |-> Absent]
    /\ header = <<>>

------------------------------------------------------------------------------
\* System calls.

\* Mutants: no test of committing; this call's own blocks are not reserved.
MustWaitSpace == Len(lh) + (outstanding + 1) * MaxOp > LogSize
MustWaitLate == committing \/ Len(lh) + outstanding * MaxOp > LogSize
MustWait == committing \/ Len(lh) + (outstanding + 1) * MaxOp > LogSize

BeginOp(p) ==
    /\ mode = "up" /\ pc[p] \in {"idle", "begin"}
    /\ IF MustWait
       THEN /\ pc' = [pc EXCEPT ![p] = "asleep"]
            /\ UNCHANGED outstanding
       ELSE /\ pc' = [pc EXCEPT ![p] = "op"]
            /\ outstanding' = outstanding + 1
    /\ UNCHANGED <<wrote, committing, lh, tail, cache, pins, mode, disk>>

\* bread, modify, log_write, brelse: the buffer stays locked throughout.
TooBig == Len(lh) >= LogSize \/ Len(lh) >= NLog - 1

LogWrite(p, b, v) ==
    /\ mode = "up" /\ pc[p] = "op"
    /\ b \in wrote[p] \/ Cardinality(wrote[p]) < MaxOp
    /\ ~TooBig /\ outstanding >= 1
    /\ wrote' = [wrote EXCEPT ![p] = @ \cup {b}]
    /\ cache' = [cache EXCEPT ![b] = v]
    /\ IF b \in LhBlocks
       THEN UNCHANGED <<lh, pins>>
       ELSE lh' = Append(lh, b) /\ pins' = Pinned(b, 1)
    /\ UNCHANGED <<pc, outstanding, committing, tail, mode, disk>>

\* A panic of log_write or end_op comes with log.lock held, and stops the log.
LogWritePanic(p, b) ==
    /\ mode = "up" /\ pc[p] = "op"
    /\ b \in wrote[p] \/ Cardinality(wrote[p]) < MaxOp
    /\ TooBig \/ outstanding < 1
    /\ mode' = "panic"
    /\ UNCHANGED <<memory, disk>>

EndOp(p) ==
    /\ mode = "up" /\ pc[p] = "op"
    /\ outstanding' = outstanding - 1
    /\ mode' = IF committing THEN "panic" ELSE mode
    /\ IF outstanding = 1
       THEN /\ committing' = TRUE
            /\ pc' = [pc EXCEPT ![p] = IF lh = <<>> THEN "done" ELSE "log"]
            /\ tail' = 0
       ELSE /\ pc' = [Woken(pc) EXCEPT ![p] = "idle"]
            /\ UNCHANGED <<committing, tail>>
    /\ wrote' = [wrote EXCEPT ![p] = {}]
    /\ UNCHANGED <<lh, cache, pins, disk>>

------------------------------------------------------------------------------
\* commit(), by the process whose end_op was the last.

WriteLogBlock(p) ==
    /\ mode = "up" /\ pc[p] = "log" /\ tail < Len(lh)
    /\ logdisk' = [logdisk EXCEPT ![tail + 1] = Contents(lh[tail + 1])]
    /\ cache' = [cache EXCEPT ![lh[tail + 1]] = Contents(lh[tail + 1])]
    /\ tail' = tail + 1
    /\ UNCHANGED <<pc, wrote, outstanding, committing, lh, pins, mode,
                   home, header>>

WriteHead(p) ==
    /\ mode = "up" /\ pc[p] = "log" /\ LoopDone
    /\ header' = lh
    /\ pc' = [pc EXCEPT ![p] = "install"]
    /\ tail' = 0
    /\ UNCHANGED <<wrote, outstanding, committing, lh, cache, pins, mode,
                   home, logdisk>>

\* One turn of install_trans: the log block goes to its home, through the cache.
InstallBlock ==
    /\ tail < Len(lh)
    /\ home' = [home EXCEPT ![lh[tail + 1]] = logdisk[tail + 1]]
    /\ cache' = [cache EXCEPT ![lh[tail + 1]] = logdisk[tail + 1]]
    /\ tail' = tail + 1

Install(p) ==
    /\ mode = "up" /\ pc[p] = "install"
    /\ InstallBlock
    /\ pins' = Pinned(lh[tail + 1], -1)
    /\ UNCHANGED <<pc, wrote, outstanding, committing, lh, mode, logdisk, header>>

ClearHead(p) ==
    /\ mode = "up" /\ pc[p] = "install" /\ LoopDone
    /\ lh' = <<>> /\ header' = <<>>
    /\ pc' = [pc EXCEPT ![p] = "done"]
    /\ UNCHANGED <<wrote, outstanding, committing, tail, cache, pins, mode,
                   home, logdisk>>

EndCommit(p) ==
    /\ mode = "up" /\ pc[p] = "done"
    /\ committing' = FALSE
    /\ pc' = [Woken(pc) EXCEPT ![p] = "idle"]
    /\ UNCHANGED <<wrote, outstanding, lh, tail, cache, pins, mode, disk>>

------------------------------------------------------------------------------
\* Mutant: the pins are not looked at.
EvictPinned(b) ==
    /\ mode = "up" /\ cache[b] # Absent
    /\ cache' = [cache EXCEPT ![b] = Absent]
    /\ UNCHANGED <<pc, wrote, outstanding, committing, lh, tail, pins, mode, disk>>

\* bget: a buffer nobody holds or has pinned is recycled for another block.
Evict(b) ==
    /\ mode = "up"
    /\ pins[b] = 0 /\ cache[b] # Absent
    /\ cache' = [cache EXCEPT ![b] = Absent]
    /\ UNCHANGED <<pc, wrote, outstanding, committing, lh, tail, pins, mode, disk>>

\* Power failure or panic and reboot, between any two steps: the disk stays.
Crash ==
    /\ pc' = [p \in Procs |-> "idle"]
    /\ wrote' = [p \in Procs |-> {}]
    /\ outstanding' = 0 /\ committing' = FALSE
    /\ lh' = <<>> /\ tail' = 0
    /\ cache' = EmptyCache
    /\ pins' = [b \in Blocks |-> 0]
    /\ mode' = "boot"
    /\ UNCHANGED disk

\* initlog and recover_from_log, before any system call runs.
ReadHead ==
    /\ mode = "boot"
    /\ lh' = header
    /\ tail' = 0
    /\ mode' = "redo"
    /\ UNCHANGED <<pc, wrote, outstanding, committing, cache, pins, disk>>

\* Mutant: unpins while recovering too.
RedoUnpins ==
    /\ mode = "redo"
    /\ InstallBlock
    /\ pins' = Pinned(lh[tail + 1], -1)
    /\ UNCHANGED <<pc, wrote, outstanding, committing, lh, mode,
                   logdisk, header>>

Redo ==
    /\ mode = "redo"
    /\ InstallBlock
    /\ UNCHANGED <<pc, wrote, outstanding, committing, lh, pins, mode,
                   logdisk, header>>

RecoverClear ==
    /\ mode = "redo" /\ LoopDone
    /\ lh' = <<>> /\ header' = <<>>
    /\ mode' = "up"
    /\ UNCHANGED <<pc, wrote, outstanding, committing, tail, cache, pins,
                   home, logdisk>>

------------------------------------------------------------------------------
\* What a process in a call does next; it may start one and write at will.
Step(p) ==
    \/ pc[p] = "begin" /\ BeginOp(p)
    \/ EndOp(p)
    \/ WriteLogBlock(p) \/ WriteHead(p) \/ Install(p) \/ ClearHead(p)
    \/ EndCommit(p)

Recover == ReadHead \/ Redo \/ RecoverClear

Next ==
    \/ \E p \in Procs : BeginOp(p) \/ Step(p)
    \/ \E p \in Procs, b \in Blocks :
          LogWritePanic(p, b) \/ \E v \in Data : LogWrite(p, b, v)
    \/ \E b \in Blocks : Evict(b)
    \/ Recover
    \/ Crash

Spec == Init /\ [][Next]_vars

\* The scheduler runs every process that can run, and a call comes to an end.
FairSpec == Spec /\ WF_vars(Recover) /\ \A p \in Procs : WF_vars(Step(p))
==============================================================================
