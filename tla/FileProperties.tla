---------------------------- MODULE FileProperties ----------------------------
(* What xv6's inode table and its system calls on files keep. *)
EXTENDS FileCalls

Places == {"user", "walk", "restart", "parent", "exists", "made", "created", "victim",
           "erased", "unlink_bad", "linked", "link_bad"}
Ops == Creates \cup {"none", "open", "chdir", "unlink", "link", "link2"}

\* The type invariant; no reference count and no link count goes below 0.
TypeOK ==
    /\ dinode \in [Inums -> [type : Types, nlink : Nat]]
    /\ entries \in [Inums -> [Names -> 0..NINODES]]
    /\ target \in [Inums -> Targets]
    /\ itable \in [Slots -> [inum : 0..NINODES, ref : Nat, valid : BOOLEAN, type : Types,
                             nlink : Nat, lock : Procs \cup {0}]]
    /\ put \in [Procs -> 0..NINODE] /\ freeing \in [Procs -> {"no", "trunc", "ref"}]
    /\ panicked \in {"no", "iget: no inodes", "ialloc: no inodes"}
    /\ pc \in [Procs -> Places] /\ calls \in Nat
    /\ call \in [Procs -> [op : Ops, rest : Seq(Names), arg : Seq(Names),
                           depth : Nat, follows : Nat]]
    /\ walk \in [Procs -> 0..NINODE] /\ ip \in [Procs -> 0..NINODE]
    /\ cwd \in [Procs -> Slots] /\ ofile \in [Procs -> [Fds -> 0..NINODE]]

\* The locals that point to an entry at each place of a call.
Walks(p) == pc[p] \in {"walk", "parent", "made", "victim", "unlink_bad"}
Keeps(p) ==
    \/ pc[p] \in {"exists", "made", "created", "victim", "erased", "linked", "link_bad"}
    \/ call[p].op = "link2"

\* How often a function has a value.
Count(f, v) == Cardinality({x \in DOMAIN f : f[x] = v})

Pointers(s) ==
    Count([x \in Procs \X Fds |-> ofile[x[1]][x[2]]], s) + Count(cwd, s) + Count(put, s)
    + Count([p \in Procs |-> IF Walks(p) THEN walk[p] ELSE 0], s)
    + Count([p \in Procs |-> IF Keeps(p) THEN ip[p] ELSE 0], s)
    + (IF s = 1 THEN 1 ELSE 0)              \* init's current directory

\* "ip->ref tracks the number of in-memory pointers to the entry (open files and
\* current directories)" (fs.c:131): no reference is forgotten, so every entry is
\* free again in the end.
RefsCounted == panicked = "no" => \A s \in Slots : itable[s].ref = Pointers(s)

FreedBy(s) == \E p \in Procs : freeing[p] = "trunc" /\ put[p] = s

\* The table tells the truth: no entry is recycled under a pointer to it, an inode
\* has one entry at a time ("a place for synchronizing access to inodes", fs.c:117),
\* and the copy of a valid entry is what the disk holds, also for an inode that was
\* freed and allocated again while it was in the table.
TableAgrees ==
    /\ panicked = "no" => \A s \in Slots : itable[s].ref >= Pointers(s)
    /\ \A i \in Inums : Cardinality(Find(itable, i)) <= 1
    /\ \A s \in Slots :
          itable[s].ref > 0 /\ itable[s].valid /\ ~FreedBy(s) =>
              /\ itable[s].type = dinode[itable[s].inum].type
              /\ itable[s].nlink = dinode[itable[s].inum].nlink

NamesOf(i) == {x \in Inums \X Names : entries[x[1]][x[2]] = i}

\* No name ever refers to a free inode, though names, counts and the table change in
\* separate steps of concurrent calls: an inode's link count covers its names.
LinksLead ==
    \A i \in Inums : NamesOf(i) # {} =>
        dinode[i].type # "none" /\ dinode[i].nlink >= Cardinality(NamesOf(i))

\* "If that was the last reference and the inode has no links to it, free the inode
\* (and its content) on disk" (fs.c:328): an inode without links lives only as long
\* as the table refers to it.
UnlinkedIsHeld ==
    panicked = "no" => \A i \in Inums \ {ROOTINO} :
        dinode[i].type # "none" /\ dinode[i].nlink = 0 => Find(itable, i) # {}

\* The kernel's assertions hold whatever the calls interleave: ilock finds a
\* referenced inode with a type, the parent of a name is a directory
\* ("dirlookup not DIR"), the inode of a name has a link ("unlink: nlink < 1"), and
\* iput's acquiresleep, called with a spin lock held, "won't block (or deadlock)"
\* (fs.c:340).
Asserts ==
    \A p \in Procs :
        /\ NextLock(p) # 0 =>
              LET e == itable[NextLock(p)]
              IN  e.ref > 0 /\ (e.lock = 0 => e.valid \/ dinode[e.inum].type # "none")
        /\ At(p, "parent") => dinode[Inum(walk[p])].type = "T_DIR"
        /\ At(p, "victim") /\ Lockable(ip[p]) => Loaded(ip[p])[ip[p]].nlink >= 1
        /\ put[p] # 0 /\ freeing[p] = "no" /\ IsLast(put[p]) => itable[put[p]].lock = 0

\* What a process has open or is in stays the same inode, allocated, though others
\* unlink its names and reuse inodes: iput frees "if the reference and link counts
\* have fallen to zero" (fs.c:127).
FileKept ==
    [][\A p \in Procs, s \in Slots :
          (\E fd \in Fds : ofile[p][fd] = s /\ ofile'[p][fd] = s) \/ (cwd[p] = s /\ cwd'[p] = s) =>
              /\ itable'[s].inum = itable[s].inum
              /\ dinode'[itable[s].inum].type = dinode[itable[s].inum].type]_vars
================================================================================
