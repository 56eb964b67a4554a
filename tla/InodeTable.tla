------------------------------ MODULE InodeTable ------------------------------
(***************************************************************************)
(* The inodes of xv6's file system on disk and the table of those in use    *)
(* (Operating-System/mp4, kernel/fs.c): iget, ilock, iunlock, iput and      *)
(* ialloc.  itable.lock makes iget and iput atomic, but for an iput that    *)
(* frees the inode; an entry's sleep lock is held across steps where the    *)
(* code waits for another lock while it holds it.  Blocks and data are left *)
(* out; every call is in a transaction of the log, which FsLog models.      *)
(***************************************************************************)
EXTENDS Integers, FiniteSets

CONSTANTS
    Procs,
    Names,
    NINODES,      \* the inodes on disk, from 1, the root
    NINODE,       \* the entries of the table
    Targets       \* what a symbolic link can hold

ASSUME ProcsAssumption == IsFiniteSet(Procs) /\ 0 \notin Procs
ASSUME NamesAssumption == IsFiniteSet(Names)
ASSUME TableAssumption == NINODES \in Nat /\ NINODES > 1 /\ NINODE \in Nat \ {0} /\ <<>> \in Targets

ROOTINO == 1
Inums == 1..NINODES
Slots == 1..NINODE
Types == {"T_DIR", "T_FILE", "T_SYMLINK", "none"}

VARIABLES
    dinode,       \* type and nlink of the inodes on disk
    entries,      \* what a directory's names refer to; 0: no entry
    target,       \* the path in a symbolic link
    itable,       \* itable.inode: lock is the holder or 0, type and nlink are copies
    put,          \* the entry whose iput a process has still to do, or 0
    freeing,      \* how far that iput is: "no", "trunc" or "ref"
    panicked      \* "no", or what the kernel said last

disk == <<dinode, entries, target>>
tableVars == <<dinode, entries, target, itable, put, freeing, panicked>>

NoNames == [n \in Names |-> 0]

\* What an entry without references holds is not read any more.
FreeEntry == [inum |-> 0, ref |-> 0, valid |-> FALSE, type |-> "none", nlink |-> 0, lock |-> 0]

------------------------------------------------------------------------------
\* The table after a step; t is a table.

First(S) == CHOOSE x \in S : \A y \in S : x <= y

Find(t, i) == {s \in Slots : t[s].ref > 0 /\ t[s].inum = i}
Empty(t) == {s \in Slots : t[s].ref = 0}

\* iget: the entry it returns, 0 if it panics, and the table it leaves.
GetSlot(t, i) ==
    IF Find(t, i) # {} THEN First(Find(t, i))
    ELSE IF Empty(t) # {} THEN First(Empty(t)) ELSE 0

Got(t, i) ==
    IF Find(t, i) # {} THEN [t EXCEPT ![First(Find(t, i))].ref = @ + 1]
    ELSE IF Empty(t) # {}
         THEN [t EXCEPT ![First(Empty(t))] = [FreeEntry EXCEPT !.inum = i, !.ref = 1]]
         ELSE t

GetPanics(t, i) == IF GetSlot(t, i) = 0 THEN "iget: no inodes" ELSE "no"

\* ilock's read of the inode.
Loaded(s) ==
    IF itable[s].valid THEN itable
    ELSE [itable EXCEPT ![s].valid = TRUE,
                        ![s].type = dinode[itable[s].inum].type,
                        ![s].nlink = dinode[itable[s].inum].nlink]

\* Mutant: the lock is let go at once.
NotLocked(t, s, p) == t

Locked(t, s, p) == [t EXCEPT ![s].lock = p]
Unlocked(t, s) == [t EXCEPT ![s].lock = 0]

\* ilock succeeds.
Lockable(s) ==
    /\ itable[s].lock = 0 /\ itable[s].ref > 0
    /\ itable[s].valid \/ dinode[itable[s].inum].type # "none"

\* nlink changes by d in the table and, by iupdate, on disk.
NlinkInTable(t, s, d) == [t EXCEPT ![s].nlink = @ + d]
NlinkOnDisk(di, t, s, d) == [di EXCEPT ![t[s].inum].nlink = t[s].nlink + d]

\* ialloc takes the first.
FreeInodes == {i \in Inums : dinode[i].type = "none"}

------------------------------------------------------------------------------
\* iput.

Dropped(t, s) == IF t[s].ref = 1 THEN [t EXCEPT ![s] = [FreeEntry EXCEPT !.lock = t[s].lock]]
                 ELSE [t EXCEPT ![s].ref = @ - 1]

\* Mutants: iput does not ask whether somebody else refers to the inode, or
\* whether a name does.
IsLastShared(s) == itable[s].valid /\ itable[s].nlink = 0
IsLastLinked(s) == itable[s].ref = 1 /\ itable[s].valid /\ itable[s].inum # ROOTINO

\* No links and no other references: truncate and free.
IsLast(s) == itable[s].ref = 1 /\ itable[s].valid /\ itable[s].nlink = 0

Iput(p) ==
    /\ panicked = "no" /\ put[p] # 0 /\ freeing[p] = "no"
    /\ ~IsLast(put[p])
    /\ itable' = Dropped(itable, put[p])
    /\ put' = [put EXCEPT ![p] = 0]
    /\ UNCHANGED <<disk, freeing, panicked>>

\* With itable.lock held, acquiresleep must not find the lock taken: sleep would
\* panic.
IputLock(p) ==
    /\ panicked = "no" /\ put[p] # 0 /\ freeing[p] = "no"
    /\ IsLast(put[p])
    /\ itable[put[p]].lock = 0
    /\ itable' = Locked(itable, put[p], p)
    /\ freeing' = [freeing EXCEPT ![p] = "trunc"]
    /\ UNCHANGED <<disk, put, panicked>>

\* Mutants: the entry stays valid; the reference is dropped here and later.
FreedValid(s) == [itable EXCEPT ![s].lock = 0]
FreedDropped(s) == [itable EXCEPT ![s].valid = FALSE, ![s].type = "none", ![s].nlink = 0,
                                  ![s].lock = 0, ![s].ref = 0]

Freed(s) == [itable EXCEPT ![s].valid = FALSE, ![s].type = "none", ![s].nlink = 0, ![s].lock = 0]

IputFree(p) ==
    /\ panicked = "no" /\ freeing[p] = "trunc"
    /\ LET i == itable[put[p]].inum
       IN  /\ dinode' = [dinode EXCEPT ![i] = [type |-> "none", nlink |-> 0]]
           /\ entries' = [entries EXCEPT ![i] = NoNames]
           /\ target' = [target EXCEPT ![i] = <<>>]
    /\ itable' = Freed(put[p])
    /\ freeing' = [freeing EXCEPT ![p] = "ref"]
    /\ UNCHANGED <<put, panicked>>

IputDrop(p) ==
    /\ panicked = "no" /\ freeing[p] = "ref"
    /\ itable' = Dropped(itable, put[p])
    /\ put' = [put EXCEPT ![p] = 0]
    /\ freeing' = [freeing EXCEPT ![p] = "no"]
    /\ UNCHANGED <<disk, panicked>>

PutStep(p) == Iput(p) \/ IputLock(p) \/ IputFree(p) \/ IputDrop(p)

\* The root with an empty directory of the name dir in it; refs references to the root.
InitTable(dir, refs) ==
    /\ dinode = [i \in Inums |-> CASE i = ROOTINO -> [type |-> "T_DIR", nlink |-> 2]
                                  [] i = 2 -> [type |-> "T_DIR", nlink |-> 1]
                                  [] OTHER -> [type |-> "none", nlink |-> 0]]
    /\ entries = [i \in Inums |-> [n \in Names |-> IF i = ROOTINO /\ n = dir THEN 2 ELSE 0]]
    /\ target = [i \in Inums |-> <<>>]
    /\ itable = [s \in Slots |->
          IF s = 1 THEN [inum |-> ROOTINO, ref |-> refs, valid |-> TRUE,
                         type |-> "T_DIR", nlink |-> 2, lock |-> 0]
          ELSE FreeEntry]
    /\ put = [p \in Procs |-> 0]
    /\ freeing = [p \in Procs |-> "no"]
    /\ panicked = "no"
================================================================================
