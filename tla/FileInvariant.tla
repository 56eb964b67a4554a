----------------------------- MODULE FileInvariant -----------------------------
(***************************************************************************)
(* The inductive invariant of xv6's inode table and its calls on files.     *)
(***************************************************************************)
EXTENDS FileProperties

\* A process points to an entry from a local, its current directory or an open file.
PointsTo(p, s) ==
    \/ cwd[p] = s \/ \E fd \in Fds : ofile[p][fd] = s
    \/ Walks(p) /\ walk[p] = s
    \/ Keeps(p) /\ ip[p] = s

\* A process has the lock of an entry.
Holds(p, s) ==
    \/ pc[p] \in {"made", "victim", "unlink_bad"} /\ walk[p] = s
    \/ pc[p] \in {"created", "erased"} /\ ip[p] = s
    \/ freeing[p] = "trunc" /\ put[p] = s

\* A process has still to take a link off an inode, or to give it its name.
Owing(p) == pc[p] = "erased" \/ (call[p].op = "link2" /\ pc[p] # "linked")
Owed == [p \in Procs |-> IF Owing(p) THEN Inum(ip[p]) ELSE 0]

\* The subdirectories of a directory, whose ".." are links to it.
SubDirs(d) == {n \in Names : entries[d][n] # 0 /\ dinode[entries[d][n]].type = "T_DIR"}

------------------------------------------------------------------------------
\* What a call is doing fits the place it is at.
CallOK(p) ==
    /\ call[p].op = "symlink" => call[p].arg \in Targets
    /\ pc[p] = "user" => call[p].op = "none" /\ ip[p] = 0
    /\ call[p].op \in Creates /\ pc[p] \in {"walk", "restart", "parent"} => ip[p] = 0
    /\ pc[p] \in {"parent", "made", "victim"} => Rest(p) # <<>> /\ WantsParent(p)
    /\ pc[p] \in {"exists", "made", "created"} => call[p].op \in Creates
    /\ pc[p] \in {"victim", "erased", "unlink_bad"} => call[p].op = "unlink"
    /\ pc[p] \in {"linked", "link_bad"} => call[p].op = "link2"

\* Pointers are there where the call uses them, and lead to allocated inodes.
PointersOK(p) ==
    /\ panicked = "no" => (Walks(p) => walk[p] # 0) /\ (Keeps(p) => ip[p] # 0)
    /\ Owing(p) => ip[p] # 0
    /\ freeing[p] # "no" => put[p] # 0
    /\ \A s \in Slots : PointsTo(p, s) => dinode[itable[s].inum].type # "none"

\* A lock is held by who is at a place where the code holds it, and for a valid entry.
LocksOK(p) ==
    \A s \in Slots :
        /\ itable[s].lock = p => Holds(p, s)
        /\ panicked = "no" /\ Holds(p, s) => itable[s].lock = p /\ itable[s].valid

\* An inode about to be freed has no links and no other pointers.
TruncOK(p) ==
    freeing[p] = "trunc" => itable[put[p]].ref = 1 /\ itable[put[p]].nlink = 0

\* What the call has found out about its directory and its inode still holds.
PlaceOK(p) ==
    panicked = "no" =>
        /\ pc[p] \in {"parent", "made", "victim"} => dinode[Inum(walk[p])].type = "T_DIR"
        /\ pc[p] = "victim" => entries[Inum(walk[p])][Name(p)] = Inum(ip[p])
        /\ pc[p] = "made" =>
              /\ entries[Inum(walk[p])][Name(p)] = 0
              /\ dinode[Inum(ip[p])] = [type |-> TypeOf(call[p].op), nlink |-> 0]
              /\ Inum(ip[p]) # ROOTINO
              /\ walk[p] # ip[p] /\ cwd[p] # ip[p] /\ \A fd \in Fds : ofile[p][fd] # ip[p]
              /\ \A q \in Procs \ {p} : ~PointsTo(q, ip[p])
        /\ call[p].op = "link2" => dinode[Inum(ip[p])].type # "T_DIR"

------------------------------------------------------------------------------
\* An inode has one entry, and a valid entry is a copy of the inode.
EntriesOK ==
    \A s \in Slots : itable[s].ref > 0 =>
        /\ itable[s].inum # 0
        /\ \A t \in Slots : itable[t].ref > 0 /\ itable[t].inum = itable[s].inum => s = t
        /\ itable[s].valid =>
              /\ itable[s].type = dinode[itable[s].inum].type /\ itable[s].type # "none"
              /\ itable[s].nlink = dinode[itable[s].inum].nlink

\* No pointer is without a reference.
RefsCover == \A s \in Slots : itable[s].ref >= Pointers(s)

\* Links are counted: names, the ".." of subdirectories, and what calls have still to do.
Links(i) == Cardinality(NamesOf(i)) + Cardinality(SubDirs(i)) + Count(Owed, i)

LinksCounted ==
    \A i \in Inums :
        /\ dinode[i].nlink >= Links(i)
        /\ dinode[i].type = "none" => dinode[i].nlink = 0

\* Only directories have names in them, and the root is one.
DirsOK ==
    /\ \A i \in Inums : entries[i] # NoNames => dinode[i].type = "T_DIR"
    /\ itable[1].inum = ROOTINO /\ dinode[ROOTINO].type = "T_DIR"

CallsOK == \A p \in Procs : CallOK(p) /\ PointersOK(p) /\ LocksOK(p) /\ TruncOK(p) /\ PlaceOK(p)

IInv == TypeOK /\ CallsOK /\ EntriesOK /\ RefsCover /\ LinksCounted /\ DirsOK
================================================================================
