# TLA+ verification of Courses-and-Projects

The repository holds independent course projects. This development models the
ones whose logic is concurrent, distributed, speculative or must survive
failure, checks them with TLC on small instances, and proves the central
properties of seven of them with TLAPS for every value of the constants. Paths
below are relative to `src/`.

`PROJECT.json` lists components, runs, mutants, hazards, findings and theorems,
and maps every definition to the source lines it stands for.

## 1. Inventory

| Component | State | Operations | What is hard | What makes it correct | Where |
|---|---|---|---|---|---|
| SACK transport, `Computer-Network/hw3/hw3` | sender: `transmit_queue` with its marks, `base`, `cwnd`, `thresh`, `dup_ack`, state; receiver: `buffer`, `base`, `flush_count`, file; agent: none but its socket | transmit, timeout, dupACK, newACK, fin; mark, flush, answer; forward, drop, corrupt | loss, corruption, retransmission, a copy that arrives after a flush, window edges | the file is delivered in order, once, completely; the sender never believes in more than was received; the transfer ends | 3 |
| xv6 log, `Operating-System/mp4/.../kernel/log.c` | `outstanding`, `committing`, `lh`, buffers and pins; log blocks, header, home blocks on disk | begin_op, log_write, end_op, commit, recovery | several calls share a transaction; sleep and wakeup; a crash between any two disk writes | calls are atomic with respect to crashes; a commit never holds half a call; space reserved is enough; no sleeper is lost | 4 |
| xv6 buffer cache, `kernel/bio.c` | contents, reference counts, LRU list | bread, bwrite, brelse, bpin, bunpin | recycling a buffer whose block is not home yet | no write is lost | 4, in part |
| xv6 processes and pipes, `kernel/proc.c`, `pipe.c`, `file.c` | process table, CPUs, `p->lock`, `wait_lock`; ring, its counters and lock, reference counts of the two ends | fork, exit, wait, kill, sleep, wakeup, yield, scheduler; pipealloc, pipeclose, pipewrite, piperead, dup by fork | lost wakeups, a stack freed under a CPU, orphans, last close against a reader, wrapping counters, kills | a parent reaps each child; nobody sleeps on a condition that is true; bytes once and in order | 5 |
| xv6 inodes and paths, `kernel/fs.c`, `sysfile.c` | inodes, directories and links on disk; the inode table; each process's lookup, files and directory | iget, ilock, iput, ialloc, namex; open, create, mkdir, symlink, link, unlink, chdir, close | counts, names and the table change in separate steps of calls that interleave; inodes are freed and allocated again while looked up | no name of a free inode, no open file that becomes another one, no inode lost | 6 |
| Booking servers, `System-Programming/hw1/server.c` | per connection: stage; per process: `globalbookid`, `idused`, fcntl locks; the record file | accept, id, command, closefd | record locks belong to processes, bookkeeping is global to a server, clients interleave | a writer is alone; locks match clients; totals stay in range; the code keeps each of them only in part | 7 |
| Threads with signals, `System-Programming/hw3` | `ready_queue`, `waiting_queue`, `rq_current`, pending signals, alarm | thread_yield, async_read, thread_exit, scheduler, signal handler | SIGTSTP and SIGALRM at a yield; queue edits under `rq_current` | no thread lost or run twice; a waiting thread is resumed when its fifo has data | 8 |
| Pipelined CPU, `Computer architecture/lab3` | PC, four pipeline registers, register file, memory, predictor | one clock cycle | forwarding, stalls, predictions undone behind one another | same results as the sequential machine | 9 |
| Merge sort, `System-Programming/hw4` | shared arrays, request index, result table | request threads, sort threads | shared indices, joins | every request is sorted once | no |
| xv6 user threads, `Operating-System/mp1` | circular run queue, `jmp_buf`s, one pending signal | add, yield, exit, register, kill | a signal during a handler that yields | round robin; each signal handled once | no |
| thrdstop, `Operating-System/mp3/.../kernel` | per process: timer, handler, context slots | thrdstop, cancelthrdstop, thrdresume, tick | the timer against the calls | a context is saved and restored whole | no |
| EDF and RM schedulers, `mp3/.../user/threads_sched.c` | none (choice functions) | schedule_edf, schedule_rm | coinciding release, preemption and deadline | the thread chosen is the one of the policy | no |
| Demand paging, `Operating-System/mp2` | page table entries, swap blocks | page fault, madvise | memory exhausted, swapped pages copied at fork | contents survive a swap | no |
| The rest: notebooks, contest programs, sketches, digital circuits, older CPUs, stock xv6 devices and user programs | | | | sequential, numeric or device I/O | no |

Components interact only inside a project: the three transport programs by UDP
datagrams (the agent has one socket for both directions); in xv6, log and buffer
cache by calls and by sleep/wakeup on `&log`, pipes and the process table by
sleep/wakeup and by fork and exit, which share and close files, system calls on
files by the inode table and its locks; and the booking servers by the file
`bookingRecord` and its fcntl locks.

## 2. Plan and what is left of it

| Step | Modules | Composition / abstract specification | Theorems |
|---|---|---|---|
| done | `SackSender`, `SackReceiver`, `SackAgent`, `SackTransport`, `SackInvariant`, `SackProofs` | `SackTransport` composes; implements `ReliableFile` | types; all safety properties and the refinement under a timely timer |
| done | `FsLog`, `FsLogProperties`, `FsLogInvariant`, `FsLogProofs` | implements `AtomicDisk` | all safety properties and the refinement |
| done | `Proc`, `Pipe`, `PipeProperties`, `PipeInvariant`, `PipeProofs` | `Pipe` composes the pipe with the process table `Proc`; implements `BoundedFifo` | all safety properties and the refinement |
| done | `RiscvCore`, `SequentialCPU`, `PipelineCPU`, `PipelineProperties`, `PipelineInvariant`, `PipelineProofs` | implements `SequentialCPU` | all safety properties and the refinement |
| done | `InodeTable`, `FileCalls`, `FileProperties`, `FileInvariant`, `FileProofs` | `FileCalls` on top of `InodeTable` | all properties that the code keeps |
| done | `Booking`, `BookingProofs` | one module, servers share locks and file | all properties of the passing run |
| done | `Selection`, `SignalThreads`, `SelectionProofs`, `SignalProofs` | one module; selected entries of a sequence apart | all safety properties |
| left | buffer cache with its sleep locks and NBUF under the log; bmap and itrunc as functions; merge sort | against reference definitions | bmap injective |

What is not going to be modelled, and why, is in section 12.

## 3. SACK transport

### Modules
`SackSender` has one action per branch of the sender's loop and of its end,
`SackReceiver` one per branch of `receiveDataPacket`, `SackAgent` one per fate
of a message. They share the three socket queues; `SackTransport` declares all
variables, instantiates the three modules, conjoins each action with what the
other programs leave alone, and states the properties. `ReliableFile` is the
abstract transfer; the refinement mapping is `finished <- (spc = "done")`, the
file maps to itself.

| TLA+ | code |
|---|---|
| `acked[k]` | `transmit_queue[k-1]->head.ack`, the private mark and the wire field at once |
| `Unsacked`, `Fresh`, `TransmitNew`, `TransmitMissing` | the scan of unmarked segments, the last `num` of the window among them, what is sent of it, the segment at base |
| `Timeout`, `DupACK`, `NewACK` | the functions of the same names with the loop branch that calls them |
| `NullDeref`, the second branch of `SenderTimeout` and `SenderNewACK` | a use of `transmit_queue[base-1]` when base is past the last segment |
| `buffer`, `rbase`, `flush_count`, `file` | the receiver's globals; payloads are segment numbers |
| `RecvCorrupt` ... `RecvOutOfOrder` | the branches, in the code's order, with the answer each sends |
| `agentQ`, `receiverQ`, `senderQ` | the sockets' receive queues |

Abstractions. Payload, CRC and SHA-256 become the segment number and a
`bad` flag: a corrupted segment is one whose checksum fails. `cwnd` is a double
that is only compared after `(int)`; it is kept as an integer plus the number of
`1/cwnd` increments since it last grew. Binary rounding, by which a sum of n
increments of `1/n` can miss the integer (first seen for n between 9 and 17), is
left out; the windows checked stay below that. `dup_ack` is only compared with 3
and is capped at 4. The fin header's `ack` comes from `malloc` and is taken as
the zero of a fresh heap. UDP on one host neither drops nor reorders; loss and
corruption come from the agent.

### Runs
| Run | Instance | Shows |
|---|---|---|
| `sack_safety` | 11 segments, threshold 4, buffer 4, a timely timer; 26,703 states | types; the sender's marks and base are backed by the receiver; the buffer holds exactly the current window; no program crashes or aborts; the final segment means a complete file; implements `ReliableFile`; under fairness the finack arrives |
| `sack_stale_slot` | 4 segments, buffer 2, timer at any time while fewer than 4 messages are queued; expected violation | finding 1 |

A copy in a wrong slot makes the receiver acknowledge segments it does not hold,
so with a premature timer `FinMeansComplete`, `NoPhantomAck` and
`BufferIsWindow` fail together, and the sender can run past its last segment:
the `NullDeref` branches are taken in the setting of `sack_stale_slot`, never in
`sack_safety`. `NobodyCrashes` says this and that a marked segment is never put
on the wire, where the agent would take it for an answer and abort.

Eleven segments are two full buffers and a last one with an empty slot; slow start passes its threshold and
congestion avoidance grows the window at least once, a loss can hit every
position, and the last window is cut by the end of the file. `MaxInFlight` bounds the
messages the timer may add to; with a timely timer (`Spurious = FALSE`: the
1000 ms timer fires only when everything in flight was answered or lost) it is
not reached.

Fairness. Each program is a loop on its socket, so weak fairness of each
program as a whole. The agent draws its error rate anew for every segment, so a
segment offered again and again is forwarded in the end: strong fairness of
forwarding the segment at `base`, the one every timeout sends again. No fairness is assumed of the timer other than that of
the sender, whose loop polls the clock. The fin
has no timer; it is never dropped by the agent, and that is why it ends.

Deadlock is off: after the finack all three programs exit.

### Proofs
`SackProofs` proves `TypeCorrect` as it stands and, for any number of segments,
threshold and buffer and for a timely timer (`Timely`, that is `Spurious =
FALSE`), `NothingPhantom`, `SlotsAreRight`, `AllStayUp`, `EndIsComplete` and
`Refinement`. Without `Timely` they are false, as `sack_stale_slot` shows. The code
keeps to it as long as an answer takes less than its 1000 ms: programs on one
host, and an agent that never delays a message.

A copy is only harmless as long as the receiver's window has not moved on, so the
argument is that none arrives late: every segment on its way is still missing
at the receiver. That is a statement about the whole path, sender to agent to
receiver and back, which is why the invariant `TInv` (`SackInvariant`) speaks
of what is on its way, and in which order:

* `Buffered`, `Ending`: file and buffer are the segments they should be; the
  final segment follows when all is marked, and nothing follows it;
* `Known`: what has arrived is what is marked or about to be marked by an answer;
  the sender's base is behind the receiver's only for an answer on its way;
* `AnswerTrue`, `AnswersGrow`, `Raised`, `MarkedBefore`: what each answer may say,
  and one compared with the one before it; with an answer above the sender's base the
  one that raised the receiver's base is on its way too; what an answer acknowledges
  beside the segment it marks was marked before, or is by an answer before it;
* `InWindow`, `InSequence`: what is on its way has not arrived, is in the window,
  and is in order, but for the segment at the base when it was sent again;
* `LostBefore`, `SentBefore`: two answers for want of one segment mean that it was
  sent and that its first copy is lost. So the copy sent at the third duplicate
  answer is the only one.

That the window moves by `num` segments when answers arrive, and that `transmitNew`
sends exactly those that enter it, is counting: a segment's place among those not
marked (`Rank`) goes down by one when an earlier one is marked. `SelectionProofs`
has the facts about ranks, and those that turn queues into the set of what is in
them and of what is before what (`Entries`, `Before`). One lemma per kind of step keeps the invariant. The refinement needs it at the flush,
which appends a full buffer in order, and at the finack, which needs a complete file.
Assumptions: `TotalAssumption`, `ThreshAssumption`, `BufAssumption`, and `Timely`. With
the constants of `sack_safety` TLC finds every part of `TInv` true in all its states.

## 4. xv6 log

### Modules
`FsLog` is `log.c` with what it needs of `bio.c` and `proc.c`. `log.lock` makes
begin_op's test, log_write, and the two halves of end_op atomic, so each is one
action; commit runs without the lock, so each disk write of `write_log`,
`write_head` and `install_trans` is an action and a crash may fall between any
two. `FsLogProperties` states the properties, `AtomicDisk` the abstract disk,
`FsLogInvariant` the inductive invariant and `FsLogProofs` the theorems.

| TLA+ | code |
|---|---|
| `BeginOp` | one turn of begin_op's loop; `asleep` is inside `sleep(&log, &log.lock)`, `begin` is woken and about to test again |
| `LogWrite`, `LogWritePanic` | bread, modify, log_write, brelse under the buffer's sleep lock, and its panics |
| `EndOp` | end_op up to `release`; `wakeup` unless it is to commit |
| `WriteLogBlock`, `WriteHead`, `Install`, `ClearHead`, `EndCommit` | commit and the tail of end_op |
| `ReadHead`, `Redo`, `RecoverClear` | `recover_from_log` |
| `cache`, `pins`, `Evict` | buffer data, the references of bpin, recycling by bget |
| `Crash` | power loss or a panic and reboot: memory is reset, the disk stays |

A disk write of one block is atomic, the header included: it is one block, as
log.c assumes. A call writes at most `MaxOp` distinct blocks, which is what
begin_op reserves for it. A panic holds `log.lock` and stops the log (`mode =
"panic"`); a crash may follow. Sleep and wakeup are those section 5 models in detail.

`AtomicDisk` says what survives a crash: the calls' common view at a moment when
none was in progress. The mapping takes `durable` to the disk that recovery
would produce (`Recovered`) and `view` to what bread returns.

### Runs
| Run | Instance | Shows |
|---|---|---|
| `log_safety` | 2 processes, 3 blocks, 2 contents, MaxOp 2, LogSize 4; 142,874 states | types, the safety invariants and the refinement of `AtomicDisk` |
| `log_live` | 3 processes, 2 blocks, room for 2 calls; 6,227 states | a sleeper of begin_op is woken |

Two calls of two blocks out of three blocks overlap (absorption), fill the log,
and a third call waits; two contents tell a lost write from a kept one. In
`log_live` three callers compete for room for two, so that one sleeps for space
and one for a commit; its log is one block longer than LOGSIZE so that no panic interferes.

In `log_safety` the panic "too big a transaction" is reached by calls that stay
within their reservation: begin_op counts LOGSIZE blocks (log.c:133), but the
log mkfs makes has LOGSIZE blocks with its header, and log_write stops one
block earlier (log.c:220). It takes calls that use all of their reservation at
once; no promise of the repository's is quoted against it, so it is no finding.

Processes are interchangeable, so the safety run uses symmetry; `log_live` does not.

Fairness: weak fairness of each process's next step while it is in a call or
woken (the scheduler is round robin), and of recovery. That a call reaches its end_op is assumed of the
file system. Starting a call and crashing are never fair. A crash is possible in every
state, so deadlock says nothing here; `SleeperWoken` does.

## 5. xv6 processes and pipes

### Modules
`Proc` is the process table: fork, exit, wait, kill, sleep, wakeup, yield and
the scheduler. A step is what a CPU does under one hold of a spinlock or between
two. `p->lock` is a variable from acquire to release where a process leaves its
CPU with it (sleep, yield, exit), `wait_lock` where exit and sleep nest it. `Pipe`
adds a pipe and the reference counts of its ends, and composes them with `Proc`:
fork passes ends on, exit closes them, both directions of the pipe sleep and
wake. `BoundedFifo` is what a pipe promises. The mapping takes the ring from
`nread` to `nwrite` to the queue.

| TLA+ | code |
|---|---|
| `ForkAlloc`, `ForkParent`, `ForkStart` | allocproc and the copies of fork; `np->parent` under `wait_lock`; RUNNABLE |
| `Exit`, `ExitReparent`, `ExitZombie`, `Leave` | exit after its closes; reparent and wakeup; ZOMBIE with `p->lock` held; the scheduler that releases it |
| `Wait`, `Reap`, `WaitScan`, `WaitSleep` | wait: a zombie, none and no child or killed, sleep |
| `SleepLock`, `Sleep` | sleep up to the release of `lk`; SLEEPING and the switch |
| `Woken` | wakeup |
| `PipeAlloc`, `FileClose`, `PipeClose` | pipealloc; fileclose up to the release of `ftable.lock`; pipeclose |
| `Write`, `WriteByte`, `WriteFull`, `WriteSleep`, `WriteFails`, `WriteDone` | pipewrite, one byte a step under `pi->lock` |
| `Read`, `ReadEmpty`, `ReadSleep`, `ReadCopy` | piperead; the copy loop under `pi->lock` is one step |
| `Fork`, `Dup` | fork with filedup of the open files |

wakeup takes one `p->lock` after the other; it is one step that waits until no
other process holds one, which is sound because whoever holds a `p->lock` across
steps is on its way to the scheduler and needs nothing of the waker. `kill` marks
any process but init, and with pid 0 a slot that is UNUSED, as the code does; the
mark stays for the process the slot is given to. The bytes a writer killed within
its call had written are in the ring with no wakeup (pipe.c:84): the history
variable `cut` says so, and `NoLostWakeup` makes that one exception. init forks,
waits and kills but opens no pipe. Buffers are valid, so no copyin or copyout
fails; allocproc finds a slot or fork is not called; each process holds an end at
most once, and there is one pipe at a time.

### Run
| Run | Instance | Shows |
|---|---|---|
| `pipe` | 3 slots, 2 CPUs, a ring of 2 bytes, counters modulo 4, writes of up to 2 bytes; 500,742 states | types; a stack is used by one CPU and not freed under it; no wakeup is lost; an end is open while it is used; no orphan; implements `BoundedFifo` |

init and two processes are enough for a reader, a writer and a parent that waits
for both, an orphan, and a zombie that dies while it is reparented; two CPUs for
each race between the two sides of a lock. Writes fill a ring of two bytes; counters modulo 4 wrap
after two rings. Three constraints keep the instance small and are named in
`MCPipe`. `FewWaiting`: one preempted or new process waits for a CPU at a time,
and only while nobody holds a lock; it is like a process that runs and has not
moved. `OneKilled`: one killed process at a time. `Numbered`: bytes are the
writer's counter, enough to tell each from its neighbours. The theorems have none
of these bounds. Deadlock is off: all processes may sleep, as when a program
reads from a pipe it holds open itself. No liveness is claimed: xv6's spinlocks
and its scheduler give no fairness among those that wait for a lock.

### What is proved
For any finite set of processes, any CPUs, any size of the ring and any width of
the counters that is a multiple of it and greater (as 2^32 is of 512):
`TypeCorrect`, `StacksAreSafe`, `WakeupsArrive`, `EndsStayOpen`, `NoOrphans`
and `Refinement`, that the pipe implements the bounded queue (all in
`PipeProofs`).

`PipeInvariant` has the inductive invariant. Its parts say, of the place of a
process in the kernel: who is on a CPU (`Placed`), which locks it holds
(`Locked`), whose child is being prepared (`Forked`), what it sleeps on
(`Channels`), who its parent is (`Family`), and how references and ends agree
(`Counted`, `Files`). `NoLostWakeup` is not inductive: between the test and
SLEEPING a process has a lock and no state that shows it sleeps.
`WaitsInVain`, `ReadsInVain` and `WritesInVain` extend it to all of sleep, from
the moment the test failed; each is preserved because whoever would make the
condition true needs the lock that the sleeper holds until it has `p->lock`, and
`p->lock` to wake it. `PipeProofs` has one lemma per part, and under it one
step per group of actions. The refinement needs in addition that the ring never
holds more than it has room for (`Fits`) and that slots at a distance below
PIPESIZE differ through the wrap of the counters, which is where the assumption
on the width is used. Assumptions: `ProcAssumption`, `PipeAssumption`,
`NoneAssumption`.

## 6. xv6 inodes and paths

### Modules
`InodeTable` has the inodes on disk, the table of those in use, and iput with
the gap in which it frees an inode without `itable.lock`. `FileCalls` has the
processes that look up paths and make, open, link, unlink, enter and close files.
`FileProperties` states what must hold, `FileInvariant` the inductive invariant,
and `FileProofs` has the theorems.

| TLA+ | code |
|---|---|
| `Got`, `GetSlot`, `GetPanics`; `Loaded`, `Lockable` | iget; ilock |
| `Iput`; `IputLock`, `IputFree`, `IputDrop` | iput; the one that frees: acquiresleep and release of `itable.lock`, itrunc and iupdate, the last section |
| `Begin`, `Root`, `WalkLink`, `WalkDown`, `WalkParent`, `WalkNoDir`, `WalkNoParent` | namex: its start, a symbolic link, one name, one level early, the failures |
| `Follow`, `Open`, `OpenFails` | sys_open without O_CREATE; O_NOFOLLOW is a choice |
| `ChdirDiffers`, `ChdirEnds` | sys_chdir |
| `CreateFinds`, `CreateExisting`, `CreateAlloc`, `CreateLinks`, `CreateEnds` | create, for open, mkdir and symlink |
| `UnlinkFinds` ... `UnlinkBad`; `LinkOld` ... `LinkBad` | sys_unlink; sys_link |
| `put[p]`, `freeing[p]` | an iput the process has still to do; how far the one that frees is |
| `walk[p]`, `ip[p]` | ip of namex, then of the call or its dp; the call's other inode |
| `cwd[p]`, `ofile[p]`, `FreeFds` | the current directory; the open files, as the entries they refer to, and fdalloc's search among them (descriptors count from 1) |

A section between ilock and iunlock is one step where the code takes no other lock in
it; where it locks a second inode with the first held, the lock is in the table.
Left out: blocks and data, devices, ".", "..", and fork, exit and exec, which
pass references on. Directories' ".." shows in the link counts. Paths are
absolute or relative to the current directory (`Starts`), also link's second path and
the path a link holds. Which of the two a link's path is is not recorded: it may be
either each time the link is read, more than the code can do, so what is shown holds
for both. The root is inode 1 in entry 1 and stays there, since the process init is
in it. What an entry without references holds is not read and is reset. Calls
run inside transactions of the log, which `FsLog` models; no crash is modelled here.
The panics for an exhausted table or disk stop the kernel (`panicked`); the
other assertions are the invariant `Asserts`.

### Runs
| Run | Instance | Shows |
|---|---|---|
| `files` | 2 processes, 2 names, 4 inodes, 3 entries, 1 open file each, 3 calls in all, a directory there from the start; 486,271 states, deadlock checked | types and counts; the table agrees with the disk; link counts cover the names; no assertion fails; an open file and a current directory stay what they are |
| `files_chdir`, `files_leak` | as `files`, 3 inodes; `files_leak` with one path; expected violations | findings 3 and 4 |

Three calls of two processes put any call between any two steps of another, and
a third before, after or between them; two names in two directories give links
to links, to directories and to nothing, names in a removed directory, and
inodes freed and allocated again while they are looked up. Three entries and four
inodes are few enough that the calls run out of each. `MaxDepth` 1 plays the 20
links of a lookup, `MaxPath` 2 the 128 bytes of a path, NOFILE 1 the 16 files.
`Quiet` lets a system that has made its calls rest, so that a deadlock is one.

Two things that are in the model and contradict nothing the repository says: a
name can be created in a directory that was removed while it was somebody's
current directory, and a file unlinked while open stays allocated if the machine
stops before its last close.

### Proofs
`FileProofs` proves, for any finite set of processes and of names, any paths and
targets over them, and any number of inodes, table entries, open files, links to follow and
calls: `TypeCorrect`, `TableTells`, `LinksCover`, `AssertionsHold` and `OpenKept`. Two more
that `FileProperties` states, `RefsCounted` and `UnlinkedIsHeld`, are false of this code, as
`files_chdir` and `files_leak` show: there are entries with more references than
pointers, and inodes without a link that nobody refers to. So the
invariant `IInv` (`FileInvariant`) has inequalities where the code's comments
have equalities, and its parts are what makes each of them safe in its direction:

* `RefsCover`: an entry has at least as many references as pointers, init's
  included. No entry is recycled in use, and the root's never;
* `EntriesOK`: an inode has one entry, and a valid one copies the inode on disk;
* `LinksCounted`: an inode's links are at least its names, the ".." of its
  subdirectories, and what calls owe it: unlink between the erased name and
  the count, link between the count and the name or the count taken back;
* `DirsOK`: names are in directories only, and the root is one;
* `PointersOK`: a pointer the code uses is there and leads to an allocated inode;
* `LocksOK`: an entry's lock is held by the process at a place of the code that holds it;
* `TruncOK`: an inode about to be freed has no link and one reference;
* `CallOK`, `PlaceOK`: what the call has found out still holds: the parent
  is a directory, the victim still has its name, the new inode is nobody else's.

An inode with no link has no name and nobody owes it one (`NoLinks`), so none can reach
it but through a pointer, and iput frees it only when its own is the only one: that
is the argument for `OpenKept` and for `IputFree`. The proof takes two steps. `Frame`
says what a step of one process does at most to the table and the disk: it writes
only inodes it points to with their lock free or its own, or frees, and gets entries only of the
root, of named or of free inodes. `OthersKeep` shows that nothing
another process relies on is disturbed by a step within its frame, which settles all
interference at once. What is left is one lemma per action, about the process
itself, with two more for the steps that leave the disk alone (`PlainStep`) and for
those that write it (`WritesStep`). Counting pointers and links is counting how
often a function has a value (`Count`), which changes by one with one value (`CountStep`).

Assumptions: `ProcsAssumption`, `NamesAssumption`, `TableAssumption` (the disk has
two inodes at least, the root and the directory that is there from the start),
`PathsAssumption`, `CallsAssumption`. With the constants of `files` TLC finds every part
of `IInv` true in all its states.

## 7. Booking servers

`Booking` has one action per handler call of the `select` loop: a server is one
thread, so a handler runs to its end. `globalbookid` and `idused` belong to the
process, `locks[i]` holds the processes with an fcntl lock on record `i` (the
locks of a process never exclude itself, and any unlock drops them for all its
connections).

| TLA+ | code |
|---|---|
| `Accept`, `ReadId`, `WriteId`, `InvalidId` | accept; first message of `myreadserver` and `mywriteserver` |
| `Book`, `Leave`, `HangUp` | the command, exit or a refused command, end of file |
| `Closed` | `closefd` with every counter and lock it touches, part of each action that calls it |
| `InAll`, `Wrap`, `Total` | the sum of the three items; int arithmetic, wrapping as the unoptimised build does |
| `Restart` | the server killed and started again |
| `Misplaced`, `Strays` | history: closefd releases the record of `globalbookid` for a client that was not let in for it |

The read-modify-write of a record under its lock is one step. closefd is called
twice on some error paths; the second call finds the lock gone and its counters
as they are and is folded into the first. `FD_CLR` of a slot already reset to
-1 is ignored.

| Run | Instance | Shows |
|---|---|---|
| `booking` | 2 read and 2 write servers of two connections each, 2 records, the 3 items, amounts -1..1, hang-ups and malformed ids, servers killed; 58,394 states | a writer is beside another client only if closefd of one of their servers has strayed; the locks and counters of a server are those of its clients until its closefd has strayed; a record is within the limits or so full that its sum wraps |
| `booking_locked` | a write server of three connections and a reader; expected violation | finding 2 |

What the texts of the program promise, a writer alone (`WriteExclusive`,
server.c:265), a lock that lasts as long as the readers (server.c:168) and at most
15 items (server.c:111), the code keeps only in part. The properties of `booking` say
exactly how far, for whatever clients do:

* closefd releases the record of `globalbookid`, the id any client of the server gave
  last. `stray` is a history variable: the servers where it has done so, since they were
  started, for a client that was not let in for that record. That takes two
  readers of different ids on one read server, a writer that is refused, a hang-up
  or a malformed id while `globalbookid` is somebody else's (on a read server: is any id), or two
  writers of different ids on one write server. `LocksMatchClients` says that nothing
  else loses a lock or a count, and says it of every server outside `stray`, whatever the
  others do; `ExclusiveUnlessStray` says that a writer is alone as long as neither its
  server nor the other client's is in `stray`.
* `LimitedOrWrapped` says that no amount is negative and that a record holds at most
  `MaxTotal` items or at least `IntHalf` (2^31): there is no way past the limit but
  the wrap of the sum. The run has that wrap: with `IntHalf` 3 and `MaxTotal` 1, the
  first booking of one item of each kind makes a sum of 3, which is -3.

Bounds: `ThreeClients` follows three connections in use, at any servers, one server
in `stray` at a time, and of a server in `stray` one connection; three are what an
exclusion can be lost with (finding 2, and the two readers and a writer below).
`BookedAlone` follows records that are not empty at one server with the others just started,
since nothing but records depends on what they hold. `MaxDebt` bounds how far
closefd drives `idused` of a reader below zero. Ids, servers of a kind and connections
of a kind are interchangeable, and the run uses this symmetry. Nothing is claimed about
progress: the code has no timeout, so a client keeps its lock as long as it likes.

`BookingProofs` proves, for any servers, ids, amounts and limits, any finite number of
connections, and whatever clients do: `TypeCorrect`, `WritersAreAlone`
(`ExclusiveUnlessStray`), `LocksAreKept` (`LocksMatchClients`) and `LimitedRecords`
(`LimitedOrWrapped`). The invariant `BInv` says that a write lock excludes every other lock
(`LockExclusive`), that whoever is let in gave an id (`OpenGaveId`), and, for each server
outside `stray` (`Kept`), that `idused` counts the clients let in (`Counted`) and that
the server has the lock of a record exactly while it has one (`LockedIsOpen`). closefd frees
the lock when its count reaches zero, so each step that closes a connection needs the
count to be the number of clients before; and since a mark is -1 or 0, a write server
outside `stray` has let in one client at most, however many connections it has.

Where the code breaks its own texts, beside finding 2. Each shows in the constants of
`booking`, by checking the property named here:

* server.c:168, "unlock the region if within the same process, all of the read request
  are done", and server.c:265, "if fcntl return -1, that means giving write lock fails /
  that means the region already has read lock or write locks". Two readers of one
  server ask for ids 1 and 2; the first leaves, closefd (server.c:166-175) counts down id 2 and
  drops its lock under the second reader, and a writer of id 2 is let in beside it, while
  the lock of id 1 stays. `WriteExclusive`, or `LocksMatchClients` for all servers, is violated without
  a hang-up or a malformed id. A client of a read server that hangs up before it gives its id, or gives
  a malformed one, releases the last id in the same way.
* server.c:111, "you cannot book more than 15 items in total". The three items of a
  record are added into an int (server.c:336) that wraps: three amounts of 10^9 are a
  negative total, which passes the test against 15 (server.c:339), and the record
  holds them. `InAll(bookings[i]) <= MaxTotal` is violated by the first booking.

Disagreements that contradict no text of the repository: a command is applied to
`globalbookid`, the id given last by any client of the server (server.c:325); a
malformed id sent to a read server counts `idused` down for a client never counted up
(server.c:166; the if of line 164 guards only the printf).

## 8. Threads with signals

`SignalThreads` is the scheduler of hw3. Threads share one stack and switch by
setjmp and longjmp at a thread_yield with a signal pending, in async_read and at
thread_exit; `at` is where a thread goes on. `Rotate`, `WithoutCurrent` and
`IndexWithout` are the edits of `ready_queue` under `rq_current`, `NowReady`,
`StillWaiting` and `FifoRead` the scan of the waiting queue, `Handle` the signal handler, which leaves by
longjmp and so leaves the other signal pending. What a thread computes is the
number of its iterations; an argument of 0 never ends. A line is written to a
fifo as a whole, which a write of a few bytes is. The scheduler's spin with all
threads waiting is `mode = "spin"`.

Run `signal_threads`: the program's three threads in its order, arguments 0 to
2, two lines in a fifo, any non-empty subset of the threads; 9.8 k states. No
thread is lost or in two queues however they are edited, the alarm is running or
has arrived, ready threads take turns, and a reader goes on once its line is
there. Two threads cannot tell the swap with the last entry from a shift; three
can, and one of them waits. Fairness: the process runs (weak fairness of
`Program`), and an alarm that is set expires (weak fairness of `AlarmExpires`).
SIGTSTP and writers are never fair. Deadlock is off: the program exits.

`SignalProofs` proves for any set of threads, arguments and lines: `TypeCorrect`,
`NoThreadIsLost` and `AlarmStaysAlive`. The invariant `SInv` says that the two queues
hold the live threads, each once (`Queued`), that `rq_current` is in the
array wherever code uses it (`CurrentFits`), and that who waits is in
async_read (`WaitersRead`). What an edit of a queue does to its entries is a lemma of its
own: the swap with the last entry, and the scan that takes the ready threads out of
the waiting queue. That scan picks entries at a set of positions;
`Selection` defines this by rank instead of by recursion, and
`SelectionProofs` shows that it gives those entries, each once. (The
induction over the positions is one over a set, not over an operator.)

## 9. Pipelined CPU

`PipelineCPU` is lab3's five-stage pipeline: one action, `Clock`, is a rising edge, and each
Verilog module's combinational output an operator of the registers (`Control`,
`Forwarded`, `Stall`, `TakeBranch`, `Rollback`, `NextState`). `SequentialCPU`
executes one instruction after the other; `RiscvCore` is what both share. The
mapping of `PipelineProperties` takes the pipeline to the machine as it is before the
oldest instruction in IF, ID or EX: what waits in MEM and WB counts as written.
So EX is where an instruction happens, and every other clock is a stutter.

Abstractions. The ALU's function on words is a parameter, so results, addresses
and immediates are any; what it does for each operation, shifts by 32 or more
among them, is not the subject. Fields are decoded in advance; the
fields an instruction's type does not use hold arbitrary register numbers, as
raw bits do, and the hazard unit reads them as it does in Verilog. Memory is
addressed by words; the PC wraps at `ProgSize`. No zero words are executed, and
reset comes at the start only. `ProgramsAssumption` excludes instructions that
write x0, but for a nop: `Registers.v`:30 hands a result for x0 in WB to a read of
x0 in ID, where a program would see another value than 0.

Run `pipeline`: all programs of four out of 13 instructions over three registers
and words of two bits; 490 k states. With four words every instruction meets each
other at every distance the pipeline can see, also across a branch backwards; the 13 have each
operation class, loads feeding loads, stores, branches and ALU instructions, taken and
not taken. Fairness of the clock: the test bench keeps it running (`KeepsExecuting`).

Proved, for any registers, words, ALU, memory and programs (`PipelineProofs`):
`TypeCorrect`, `RedirectsKept`, `OneStall`, and `Refinement`, that the pipeline
implements the sequential machine. The invariant (`PipelineInvariant`) adds that
x0 is and stays 0 (`ZeroReg`), that ID read what the register file holds now
(`ReadInID`), that the instruction in EX never needs what a load in MEM is about
to read (`NoLoadUse`, which is what the stall is for), that EX holds a decoded
instruction of the program or a bubble (`Decoded`, `LoadMarked`), and that IF and ID
hold the instructions behind the one in EX on the predicted way (`Fetched`,
`Followed`). With these, the operands forwarded to EX are those of the sequential
machine, and each clock with an instruction in EX is its step. Assumptions:
`WordAssumption`, `InitAssumption`, `ProgramsAssumption`.

## 10. Proofs of the log

For any finite set of processes, any set of blocks, any contents and any
`MaxOp <= LogSize`, `FsLogProofs` proves `Spec => []IInv` and from it:

* `TypeCorrect`, in particular that no pin count goes below zero;
* `CommitRunsAlone`: one committer, and no call in progress beside it;
* `SleepersAreOwedAWakeup`: a sleeper implies a commit or a call in progress;
* `ReservationHolds`: admitted calls fit the log;
* `DirtyBuffersStay`: a block that differs from the disk is logged and pinned once;
* `QuietDisk`: with no call in progress and no commit, recovery would give what bread gives;
* `Refinement`: the log implements `AtomicDisk`.

The named properties are not inductive. The invariant adds: during recovery no
call runs and nothing is pinned (`Resting`); the log in memory is empty when
nothing is in progress (`EmptyLog`); both copies of the log fit and name each
block once (`LogFits`); a logged block is pinned, and differs from its home,
only while it waits for its own `Install` (`PinnedIsPending`, with `Installed`
and `Pending`); log blocks already written hold what the buffers hold, which is
what makes `Install` harmless (`LogHolds`); every block of the calls in progress is
logged (`WrittenIsLogged`), which turns the reservation's bound into room for
the next block. The proof has one lemma per conjunct and in it one step per
action that can disturb it. The last two theorems need in addition what the
header on disk is at each point of a commit and of a recovery (`HeaderIsLog`): empty
until `WriteHead`, then the list of the commit, so that a crash before `WriteHead` gives
the old disk and a crash after it the new one. The refinement has one
step per action: `WriteHead` is the abstract sync, a crash the abstract crash,
log_write a change of the view, and all else a stutter. Assumptions: `ProcsAssumption`, `DataAssumption`,
`SizeAssumption` of `FsLog`, and the constants' types.

What is only model-checked, in all of the project: liveness under fairness
(`Terminates`, `SleeperWoken`, `TakesTurns`, `ReaderGoesOn`, `KeepsExecuting`),
which is outside the prover's reach.

## 11. Findings

1. `receiver.cpp:132`: a segment sent twice by a premature timeout whose copy
   arrives after the flush is stored in the next window's slot (`sack_stale_slot`).
2. `server.c:288`: refusing a second client with "Locked." drops the lock and the
   mark of the first (`booking_locked`).
3. `sysfile.c:450`: chdir through a symbolic link compares (`==`) where it means to
   assign, with an entry it has just put: it fails, and the target's reference is
   never given back (`files_chdir`).
4. `fs.c:351`: iput frees an inode and has still to drop its reference, without
   the lock of the table. If another process meanwhile allocates the inode, finds
   that entry, links and unlinks the inode and puts it first, then neither frees
   it: the inode stays allocated with no link and no reference (`files_leak`).

Two more disagreements with the repository's own texts have no run of their own: closefd
goes by the last id any client of a server gave (`server.c:159`, against `server.c:168` and
`server.c:265`), and the total of a record wraps (`server.c:336`, against `server.c:111`).
They are described in section 7, and the properties of `booking` say what is left of
those promises.

## 12. Not modelled, and why

* mp1's threads are cooperative and single-threaded: their order is a function of
  the program, with nothing to interleave.
* mp3's thrdstop and its schedulers are called by `user/threads.c`, which is not
  in the repository: in which order, and with which lists, is not known.
* mp2's page-fault handler and madvise are sequential code over the page table of one process.
* bmap and itrunc of mp4 run under the inode's lock: a sequential algorithm over indices.
* hw4's merge sort has threads on disjoint segments and a join before each merge: its result
  does not depend on their order.
* lab1 and lab2 are contained in lab3. mp2's and mp3's kernels repeat the files of
  mp4 that are modelled here.
* The buffer cache's NBUF, LRU order and sleep locks; message texts and parsing;
  virtio and other devices; traps, boot and the memory allocator; user programs and tests;
  notebooks, contest programs, sketches and digital circuits, which are numeric, sequential or
  device I/O.
