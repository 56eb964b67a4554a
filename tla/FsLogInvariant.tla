---------------------------- MODULE FsLogInvariant ----------------------------
(***************************************************************************)
(* The inductive invariant behind the theorems of FsLogProofs.  The         *)
(* properties of FsLogProperties are not inductive as they stand: they need *)
(* which logged blocks still wait for their home, what their log blocks     *)
(* hold, and that nothing runs before recovery is over.                     *)
(***************************************************************************)
EXTENDS FsLogProperties

\* Before recovery is over no call runs and no buffer is pinned.
Resting ==
    mode \in {"boot", "redo"} =>
        /\ \A p \in Procs : pc[p] = "idle" /\ wrote[p] = {}
        /\ \A b \in Blocks : pins[b] = 0

\* The log in memory is empty unless calls wrote to it or a commit is under way.
EmptyLog ==
    /\ mode = "boot" => lh = <<>>
    /\ mode \in {"up", "panic"} /\ outstanding = 0 /\ ~committing => lh = <<>>
    /\ \A p \in Procs : pc[p] = "done" => lh = <<>>

\* Both copies of the log fit, and name each block once.
LogFits ==
    /\ Len(lh) <= LogSize /\ Len(header) <= LogSize
    /\ \A i, j \in 1..Len(lh) : lh[i] = lh[j] => i = j
    /\ \A i, j \in 1..Len(header) : header[i] = header[j] => i = j

\* The logged blocks whose home is not written yet.
Installed == IF \E p \in Procs : pc[p] = "install" THEN tail ELSE 0
Pending == {lh[i] : i \in {j \in 1..Len(lh) : j > Installed}}

\* Exactly the pending blocks are pinned, once, and only they differ from disk.
PinnedIsPending ==
    /\ mode \in {"up", "panic"} =>
          \A b \in Blocks : pins[b] = IF b \in Pending THEN 1 ELSE 0
    /\ \A b \in Blocks : Contents(b) # home[b] => pins[b] > 0

\* A log block, once written, holds what its block holds in memory, until the
\* header makes it part of the log.
LogHolds ==
    /\ \A i \in 1..Len(header) : logdisk[i] \in Data
    /\ mode = "redo" => \A i \in 1..Len(lh) : logdisk[i] \in Data
    /\ \A p \in Procs :
          /\ pc[p] = "log" => \A i \in 1..Len(lh) :
                i <= tail => logdisk[i] = Contents(lh[i])
          /\ pc[p] = "install" => \A i \in 1..Len(lh) :
                logdisk[i] = Contents(lh[i])

\* Only calls in progress have written, within their share and into the log.
WrittenIsLogged ==
    \A p \in Procs :
        /\ pc[p] # "op" => wrote[p] = {}
        /\ IsFiniteSet(wrote[p]) /\ Cardinality(wrote[p]) <= MaxOp
        /\ mode \in {"up", "panic"} => wrote[p] \subseteq LhBlocks

IInv ==
    /\ TypeOK
    /\ CommitAlone
    /\ NoStrandedSleeper
    /\ Resting
    /\ EmptyLog
    /\ LogFits
    /\ PinnedIsPending
    /\ LogHolds
    /\ WrittenIsLogged
    /\ Reservation

\* The header on disk names the log while it is installed and nothing otherwise;
\* recovery installs what the header names.
HeaderIsLog ==
    /\ mode \in {"up", "panic"} =>
          header = IF \E p \in Procs : pc[p] = "install" THEN lh ELSE <<>>
    /\ mode = "redo" =>
          /\ header = lh
          /\ \A i \in 1..Len(lh) : i <= tail => home[lh[i]] = logdisk[i]
===============================================================================
