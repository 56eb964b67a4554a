------------------------------- MODULE FileCalls -------------------------------
(***************************************************************************)
(* Processes of xv6 that look up paths and make, open, link, unlink and     *)
(* close files (Operating-System/mp4, kernel/sysfile.c and fs.c's namex).   *)
(* Between ilock and iunlock a call is one step where it takes no other     *)
(* lock.  A path is the sequence of its names, without "." and "..".        *)
(***************************************************************************)
EXTENDS InodeTable, Sequences

CONSTANTS
    Paths,        \* the paths of the calls
    Dir,          \* the name of a directory that is there from the start
    NOFILE,       \* open files per process
    MaxDepth,     \* links followed in one lookup, 20 in the code
    MaxPath,      \* names of a path, for the code's 128 bytes
    MaxCalls      \* bound: system calls made

ASSUME PathsAssumption == Paths \cup Targets \subseteq Seq(Names) /\ Dir \in Names
ASSUME CallsAssumption == {NOFILE, MaxDepth, MaxPath, MaxCalls} \subseteq Nat

VARIABLES
    pc,           \* where a process is in its call, "user" between calls
    call,         \* the call's arguments and the locals of its lookup
    walk,         \* the entry the lookup has reached, then ip of namei, dp of nameiparent
    ip,           \* the other entry of the call
    cwd, ofile,   \* entries of the current directory and of the open files, 0: closed
    calls

vars == <<tableVars, pc, call, walk, ip, cwd, ofile, calls>>

Fds == 1..NOFILE

Idle == [op |-> "none", rest |-> <<>>, arg |-> <<>>, depth |-> 0, follows |-> 0]

Init ==
    /\ InitTable(Dir, Cardinality(Procs) + 1)   \* the process init stays in the root
    /\ pc = [p \in Procs |-> "user"] /\ call = [p \in Procs |-> Idle]
    /\ walk = [p \in Procs |-> 0] /\ ip = [p \in Procs |-> 0]
    /\ cwd = [p \in Procs |-> 1]
    /\ ofile = [p \in Procs |-> [fd \in Fds |-> 0]]
    /\ calls = 0

At(p, place) == panicked = "no" /\ put[p] = 0 /\ pc[p] = place

\* namei's lookup has ended.
NameiDone(p, op) == At(p, "walk") /\ call[p].op = op /\ call[p].rest = <<>>

Creates == {"create", "mkdir", "symlink"}
WantsParent(p) == call[p].op \in Creates \cup {"unlink", "link2"}
TypeOf(op) == CASE op = "mkdir" -> "T_DIR" [] op = "symlink" -> "T_SYMLINK" [] OTHER -> "T_FILE"

Rest(p) == call[p].rest
Name(p) == Head(Rest(p))
Inum(s) == itable[s].inum
Type(s) == Loaded(s)[s].type

Goes(p, place) == pc' = [pc EXCEPT ![p] = place]
Stays(p) == UNCHANGED <<pc, call, walk, ip>>

Puts(p, s) == put' = [put EXCEPT ![p] = s]

\* The call returns.
Ends(p) ==
    /\ Goes(p, "user") /\ call' = [call EXCEPT ![p] = Idle]
    /\ walk' = [walk EXCEPT ![p] = 0] /\ ip' = [ip EXCEPT ![p] = 0]

\* The lookup finds nothing: sys_link has a link count to take back.
LookupFails(p) ==
    IF call[p].op = "link2"
    THEN Goes(p, "link_bad") /\ UNCHANGED <<call, walk, ip>>
    ELSE Ends(p)

\* The rest of a step that concerns no file of a process.
NoFile == UNCHANGED <<cwd, ofile, calls>>
NoDisk == UNCHANGED <<disk, freeing, panicked>>

------------------------------------------------------------------------------
\* namex.

\* A lookup starts at the root (iget) for an absolute path, at the current directory
\* (idup) for a relative one.
Starts(p) ==
    /\ Goes(p, "walk")
    /\ \/ walk' = [walk EXCEPT ![p] = GetSlot(itable, ROOTINO)]
          /\ itable' = Got(itable, ROOTINO)
       \/ Inum(cwd[p]) # ROOTINO
          /\ walk' = [walk EXCEPT ![p] = cwd[p]]
          /\ itable' = [itable EXCEPT ![cwd[p]].ref = @ + 1]

\* A system call with a path, absolute or relative.
Begin(p, op, path, arg) ==
    /\ At(p, "user") /\ calls < MaxCalls
    /\ Starts(p)
    /\ call' = [call EXCEPT ![p] =
          [op |-> op, rest |-> path, arg |-> arg, depth |-> 0, follows |-> 0]]
    /\ calls' = calls + 1
    /\ UNCHANGED <<disk, freeing, panicked, put, ip, cwd, ofile>>

\* The lookup of the path a link holds, or of link's second path.  Whether a link's path
\* is absolute is not recorded: it may be either each time the link is read.
Restart(p) ==
    /\ At(p, "restart") /\ Starts(p)
    /\ UNCHANGED <<disk, freeing, panicked, put, call, ip>> /\ NoFile

Walking(p) == At(p, "walk") /\ Rest(p) # <<>> /\ Lockable(walk[p])

WalkLink(p) ==
    /\ Walking(p) /\ Type(walk[p]) = "T_SYMLINK"
    /\ itable' = Loaded(walk[p]) /\ Puts(p, walk[p])
    /\ LET rest == target[Inum(walk[p])] \o Rest(p)
       IN  IF call[p].depth + 1 > MaxDepth \/ Len(rest) > MaxPath THEN LookupFails(p)
           ELSE /\ Goes(p, "restart")
                /\ call' = [call EXCEPT ![p].rest = rest, ![p].depth = @ + 1]
                /\ UNCHANGED <<walk, ip>>
    /\ NoDisk /\ NoFile

WalkNoDir(p) ==
    /\ Walking(p) /\ Type(walk[p]) = "T_FILE"
    /\ itable' = Loaded(walk[p]) /\ Puts(p, walk[p])
    /\ LookupFails(p) /\ NoDisk /\ NoFile

\* Stop one level early.
WalkParent(p) ==
    /\ Walking(p) /\ Type(walk[p]) = "T_DIR"
    /\ WantsParent(p) /\ Len(Rest(p)) = 1
    /\ itable' = Loaded(walk[p])
    /\ Goes(p, "parent")
    /\ UNCHANGED <<put, call, walk, ip>> /\ NoDisk /\ NoFile

WalkDown(p) ==
    /\ Walking(p) /\ Type(walk[p]) = "T_DIR"
    /\ ~(WantsParent(p) /\ Len(Rest(p)) = 1)
    /\ Puts(p, walk[p])
    /\ LET i == entries[Inum(walk[p])][Name(p)]
           t == Loaded(walk[p])
       IN  IF i = 0
           THEN itable' = t /\ LookupFails(p) /\ UNCHANGED panicked
           ELSE /\ itable' = Got(t, i) /\ panicked' = GetPanics(t, i)
                /\ walk' = [walk EXCEPT ![p] = GetSlot(t, i)]
                /\ call' = [call EXCEPT ![p].rest = Tail(@)]
                /\ UNCHANGED <<pc, ip>>
    /\ UNCHANGED <<disk, freeing>> /\ NoFile

\* The path has no last element.
WalkNoParent(p) ==
    /\ At(p, "walk") /\ Rest(p) = <<>> /\ WantsParent(p)
    /\ Puts(p, walk[p]) /\ LookupFails(p)
    /\ UNCHANGED itable /\ NoDisk /\ NoFile

Namex(p) ==
    \/ Restart(p) \/ WalkLink(p) \/ WalkNoDir(p) \/ WalkParent(p) \/ WalkDown(p)
    \/ WalkNoParent(p)

------------------------------------------------------------------------------
\* sys_open without O_CREATE, and sys_chdir.

\* fdalloc takes the first.
FreeFds(p) == {fd \in Fds : ofile[p][fd] = 0}
Room(p) == FreeFds(p) # {}
Opened(p, s) == ofile' = [ofile EXCEPT ![p][First(FreeFds(p))] = s]

\* Both follow the link the lookup ends at.
Follow(p) ==
    /\ \/ NameiDone(p, "open")
       \/ NameiDone(p, "chdir") /\ (call[p].follows > 0 => walk[p] = ip[p])
    /\ Lockable(walk[p]) /\ Type(walk[p]) = "T_SYMLINK" /\ call[p].follows <= MaxDepth
    /\ itable' = Loaded(walk[p]) /\ Puts(p, walk[p])
    /\ Goes(p, "restart")
    /\ call' = [call EXCEPT ![p].rest = target[Inum(walk[p])], ![p].depth = 0,
                            ![p].follows = @ + 1]
    /\ ip' = [ip EXCEPT ![p] = IF call[p].op = "chdir" THEN walk[p] ELSE 0]
    /\ UNCHANGED walk /\ NoDisk /\ NoFile

\* With O_NOFOLLOW the link itself is opened.
Open(p) ==
    /\ NameiDone(p, "open") /\ Lockable(walk[p])
    /\ call[p].follows <= MaxDepth /\ Room(p)
    /\ Type(walk[p]) = "T_SYMLINK" => call[p].follows = 0
    /\ itable' = Loaded(walk[p]) /\ Opened(p, walk[p])
    /\ Ends(p)
    /\ UNCHANGED <<put, cwd, calls>> /\ NoDisk

\* Too many links, a directory opened to write, or no file left.
OpenFails(p) ==
    /\ NameiDone(p, "open") /\ Lockable(walk[p])
    /\ \/ call[p].follows > MaxDepth
       \/ Type(walk[p]) = "T_DIR"
       \/ ~Room(p) /\ (Type(walk[p]) = "T_SYMLINK" => call[p].follows = 0)
    /\ itable' = Loaded(walk[p]) /\ Puts(p, walk[p])
    /\ Ends(p) /\ NoDisk /\ NoFile

\* "if ((ip == namei(path)) == 0)": the target is compared with the entry just put,
\* and if it differs the call fails with the target's reference still counted.
ChdirDiffers(p) ==
    /\ NameiDone(p, "chdir") /\ call[p].follows > 0 /\ walk[p] # ip[p]
    /\ Ends(p)
    /\ UNCHANGED <<itable, put>> /\ NoDisk /\ NoFile

ChdirEnds(p) ==
    /\ NameiDone(p, "chdir") /\ (call[p].follows > 0 => walk[p] = ip[p])
    /\ Lockable(walk[p])
    /\ Type(walk[p]) = "T_SYMLINK" => call[p].follows > MaxDepth
    /\ itable' = Loaded(walk[p])
    /\ IF Type(walk[p]) = "T_DIR" /\ call[p].follows <= MaxDepth
       THEN Puts(p, cwd[p]) /\ cwd' = [cwd EXCEPT ![p] = walk[p]]
       ELSE Puts(p, walk[p]) /\ UNCHANGED cwd
    /\ Ends(p) /\ NoDisk /\ UNCHANGED <<ofile, calls>>

Close(p, fd) ==
    /\ At(p, "user") /\ ofile[p][fd] # 0
    /\ ofile' = [ofile EXCEPT ![p][fd] = 0] /\ Puts(p, ofile[p][fd])
    /\ UNCHANGED <<itable, pc, call, walk, ip, cwd, calls>> /\ NoDisk

------------------------------------------------------------------------------
\* create, for sys_open with O_CREATE, sys_mkdir and sys_symlink.

CreateFinds(p) ==
    /\ At(p, "parent") /\ call[p].op \in Creates /\ Lockable(walk[p])
    /\ LET i == entries[Inum(walk[p])][Name(p)]
           t == Loaded(walk[p])
       IN  /\ i # 0
           /\ itable' = Got(t, i) /\ panicked' = GetPanics(t, i)
           /\ ip' = [ip EXCEPT ![p] = GetSlot(t, i)]
    /\ Puts(p, walk[p]) /\ Goes(p, "exists")
    /\ UNCHANGED <<disk, freeing, call, walk>> /\ NoFile

CreateExisting(p) ==
    /\ At(p, "exists") /\ Lockable(ip[p])
    /\ itable' = Loaded(ip[p])
    /\ IF call[p].op = "create" /\ Type(ip[p]) = "T_FILE" /\ Room(p)
       THEN Opened(p, ip[p]) /\ UNCHANGED put
       ELSE Puts(p, ip[p]) /\ UNCHANGED ofile
    /\ Ends(p) /\ NoDisk /\ UNCHANGED <<cwd, calls>>

\* ialloc, with the directory locked.
CreateAlloc(p) ==
    /\ At(p, "parent") /\ call[p].op \in Creates /\ Lockable(walk[p])
    /\ entries[Inum(walk[p])][Name(p)] = 0
    /\ LET t == Locked(Loaded(walk[p]), walk[p], p)
           i == First(FreeInodes)
       IN  IF FreeInodes = {}
           THEN panicked' = "ialloc: no inodes" /\ UNCHANGED <<dinode, itable, ip>>
           ELSE /\ dinode' = [dinode EXCEPT ![i] = [type |-> TypeOf(call[p].op), nlink |-> 0]]
                /\ itable' = Got(t, i) /\ panicked' = GetPanics(t, i)
                /\ ip' = [ip EXCEPT ![p] = GetSlot(t, i)]
    /\ Goes(p, "made")
    /\ UNCHANGED <<entries, target, put, freeing, call, walk>> /\ NoFile

\* The inode gets its link, the directory its entry; the inode stays locked.
CreateLinks(p) ==
    /\ At(p, "made") /\ Lockable(ip[p])
    /\ LET d == walk[p]
           i == Inum(ip[p])
           up == IF call[p].op = "mkdir" THEN 1 ELSE 0   \* for ".."
           t == [Locked(Loaded(ip[p]), ip[p], p) EXCEPT ![ip[p]].nlink = 1]
       IN  /\ itable' = Unlocked(NlinkInTable(t, d, up), d)
           /\ dinode' = NlinkOnDisk([dinode EXCEPT ![i].nlink = 1], itable, d, up)
           /\ entries' = [entries EXCEPT ![Inum(d)][Name(p)] = i]
           /\ target' = IF call[p].op = "symlink"
                        THEN [target EXCEPT ![i] = call[p].arg] ELSE target
           /\ Puts(p, d)
    /\ Goes(p, "created")
    /\ UNCHANGED <<freeing, panicked, call, walk, ip>> /\ NoFile

CreateEnds(p) ==
    /\ At(p, "created")
    /\ itable' = Unlocked(itable, ip[p])
    /\ IF call[p].op = "create" /\ Room(p)
       THEN Opened(p, ip[p]) /\ UNCHANGED put
       ELSE Puts(p, ip[p]) /\ UNCHANGED ofile
    /\ Ends(p) /\ NoDisk /\ UNCHANGED <<cwd, calls>>

Create(p) ==
    \/ CreateFinds(p) \/ CreateExisting(p) \/ CreateAlloc(p) \/ CreateLinks(p)
    \/ CreateEnds(p)

------------------------------------------------------------------------------
\* sys_unlink.

UnlinkFinds(p) ==
    /\ At(p, "parent") /\ call[p].op = "unlink" /\ Lockable(walk[p])
    /\ LET i == entries[Inum(walk[p])][Name(p)]
           t == Loaded(walk[p])
       IN  IF i = 0
           THEN itable' = t /\ Puts(p, walk[p]) /\ Ends(p) /\ UNCHANGED panicked
           ELSE /\ itable' = Got(Locked(t, walk[p], p), i) /\ panicked' = GetPanics(t, i)
                /\ ip' = [ip EXCEPT ![p] = GetSlot(t, i)]
                /\ Goes(p, "victim") /\ UNCHANGED <<put, call, walk>>
    /\ UNCHANGED <<disk, freeing>> /\ NoFile

\* What the link count of the directory loses with the entry.
Loses(s) == IF Type(s) = "T_DIR" THEN -1 ELSE 0

\* The entry goes, with the directory locked; the inode stays locked.
UnlinkErases(p) ==
    /\ At(p, "victim") /\ Lockable(ip[p])
    /\ Loaded(ip[p])[ip[p]].nlink >= 1
    /\ Type(ip[p]) = "T_DIR" => entries[Inum(ip[p])] = NoNames
    /\ LET d == walk[p]
           down == Loses(ip[p])
           t == Locked(Loaded(ip[p]), ip[p], p)
       IN  /\ itable' = Unlocked(NlinkInTable(t, d, down), d)
           /\ dinode' = NlinkOnDisk(dinode, itable, d, down)
           /\ entries' = [entries EXCEPT ![Inum(d)][Name(p)] = 0]
           /\ Puts(p, d)
    /\ Goes(p, "erased")
    /\ UNCHANGED <<target, freeing, panicked, call, walk, ip>> /\ NoFile

UnlinkNlink(p) ==
    /\ At(p, "erased")
    /\ itable' = Unlocked(NlinkInTable(itable, ip[p], -1), ip[p])
    /\ dinode' = NlinkOnDisk(dinode, itable, ip[p], -1)
    /\ Puts(p, ip[p]) /\ Ends(p)
    /\ UNCHANGED <<entries, target, freeing, panicked>> /\ NoFile

\* A directory with names in it stays.
UnlinkRefuses(p) ==
    /\ At(p, "victim") /\ Lockable(ip[p])
    /\ Loaded(ip[p])[ip[p]].nlink >= 1
    /\ Type(ip[p]) = "T_DIR" /\ entries[Inum(ip[p])] # NoNames
    /\ itable' = Loaded(ip[p]) /\ Puts(p, ip[p])
    /\ Goes(p, "unlink_bad")
    /\ UNCHANGED <<call, walk, ip>> /\ NoDisk /\ NoFile

UnlinkBad(p) ==
    /\ At(p, "unlink_bad")
    /\ itable' = Unlocked(itable, walk[p]) /\ Puts(p, walk[p])
    /\ Ends(p) /\ NoDisk /\ NoFile

Unlink(p) ==
    \/ UnlinkFinds(p) \/ UnlinkErases(p) \/ UnlinkNlink(p) \/ UnlinkRefuses(p)
    \/ UnlinkBad(p)

------------------------------------------------------------------------------
\* sys_link.

LinkOld(p) ==
    /\ NameiDone(p, "link") /\ Lockable(walk[p])
    /\ IF Type(walk[p]) = "T_DIR"
       THEN /\ itable' = Loaded(walk[p]) /\ Puts(p, walk[p]) /\ Ends(p)
            /\ UNCHANGED dinode
       ELSE /\ itable' = NlinkInTable(Loaded(walk[p]), walk[p], 1)
            /\ dinode' = NlinkOnDisk(dinode, Loaded(walk[p]), walk[p], 1)
            /\ ip' = [ip EXCEPT ![p] = walk[p]]
            /\ call' = [call EXCEPT ![p].op = "link2", ![p].rest = call[p].arg,
                                    ![p].depth = 0]
            /\ Goes(p, "restart") /\ UNCHANGED <<put, walk>>
    /\ UNCHANGED <<entries, target, freeing, panicked>> /\ NoFile

\* dirlink; a name that is there is looked up and put, which changes nothing.
LinkNew(p) ==
    /\ At(p, "parent") /\ call[p].op = "link2" /\ Lockable(walk[p])
    /\ itable' = Loaded(walk[p]) /\ Puts(p, walk[p])
    /\ LET i == entries[Inum(walk[p])][Name(p)]
       IN  IF i # 0
           THEN /\ Goes(p, "link_bad") /\ panicked' = GetPanics(Loaded(walk[p]), i)
                /\ UNCHANGED entries
           ELSE /\ Goes(p, "linked")
                /\ entries' = [entries EXCEPT ![Inum(walk[p])][Name(p)] = Inum(ip[p])]
                /\ UNCHANGED panicked
    /\ UNCHANGED <<dinode, target, freeing, call, walk, ip>> /\ NoFile

Linked(p) ==
    /\ At(p, "linked")
    /\ Puts(p, ip[p]) /\ Ends(p)
    /\ UNCHANGED itable /\ NoDisk /\ NoFile

LinkBad(p) ==
    /\ At(p, "link_bad") /\ Lockable(ip[p])
    /\ itable' = NlinkInTable(Loaded(ip[p]), ip[p], -1)
    /\ dinode' = NlinkOnDisk(dinode, Loaded(ip[p]), ip[p], -1)
    /\ Puts(p, ip[p]) /\ Ends(p)
    /\ UNCHANGED <<entries, target, freeing, panicked>> /\ NoFile

Link(p) == LinkOld(p) \/ LinkNew(p) \/ Linked(p) \/ LinkBad(p)

------------------------------------------------------------------------------
\* The entry that a process locks next, or 0.
NextLock(p) ==
    IF panicked # "no" \/ put[p] # 0 THEN 0
    ELSE IF pc[p] = "parent" THEN walk[p]
    ELSE IF pc[p] \in {"exists", "made", "victim", "link_bad"} THEN ip[p]
    ELSE IF pc[p] = "walk" /\ (Rest(p) # <<>> \/ ~WantsParent(p))
            /\ ~(call[p].op = "chdir" /\ Rest(p) = <<>> /\ call[p].follows > 0 /\ walk[p] # ip[p])
    THEN walk[p] ELSE 0

CallStep(p) ==
    \/ \E op \in {"open", "create", "mkdir", "unlink", "chdir"}, path \in Paths :
          Begin(p, op, path, <<>>)
    \/ \E path \in Paths, arg \in Targets : Begin(p, "symlink", path, arg)
    \/ \E path, arg \in Paths : Begin(p, "link", path, arg)
    \/ Namex(p) \/ Follow(p) \/ Open(p) \/ OpenFails(p)
    \/ ChdirDiffers(p) \/ ChdirEnds(p) \/ \E fd \in Fds : Close(p, fd)
    \/ Create(p) \/ Unlink(p) \/ Link(p)

\* A panic loops for ever.
Halted == panicked # "no" /\ UNCHANGED vars

\* No process has a call to make.
Quiet ==
    /\ panicked = "no" /\ \A p \in Procs : put[p] = 0 /\ pc[p] = "user"
    /\ UNCHANGED vars

Next ==
    \/ \E p \in Procs :
          CallStep(p) \/ (PutStep(p) /\ UNCHANGED <<pc, call, walk, ip, cwd, ofile, calls>>)
    \/ Halted \/ Quiet

Spec == Init /\ [][Next]_vars
================================================================================
