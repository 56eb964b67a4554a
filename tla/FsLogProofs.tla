----------------------------- MODULE FsLogProofs -----------------------------
(***************************************************************************)
(* Proofs about the log of FsLog for any number of processes, any blocks,   *)
(* contents and sizes: the invariant IInv of FsLogInvariant is inductive,   *)
(* one lemma per conjunct, and the safety properties follow from it.        *)
(***************************************************************************)
EXTENDS FsLogInvariant, FiniteSetTheorems, TLAPS

\* What a block holds, in its buffer or at home, is data.
LEMMA ContentsType ==
    ASSUME TypeOK
    PROVE  \A b \in Blocks : Contents(b) \in Data
  BY DEF TypeOK, Contents

\* The entries of the log in memory are blocks.
LEMMA LhType ==
    ASSUME TypeOK
    PROVE  \A i \in 1..Len(lh) : lh[i] \in Blocks
  BY DEF TypeOK

\* A commit in its loops leaves no call in progress, and only one process is in it.
LEMMA OneInCommit ==
    ASSUME CommitAlone, NEW p \in Procs, pc[p] \in Committer
    PROVE  /\ committing
           /\ \A q \in Procs : q # p => pc[q] \notin Committer
           /\ \A q \in Procs : pc[q] # "op"
  BY DEF CommitAlone, Committing, InOp

\* outstanding counts the calls in progress, so it is 1 for the last of them.
LEMMA OpsCounted ==
    ASSUME CommitAlone, NEW p \in Procs, pc[p] = "op"
    PROVE  /\ IsFiniteSet(InOp)
           /\ outstanding \in Nat \ {0}
           /\ outstanding = 1 => InOp = {p}
<1>1. InOp \subseteq Procs /\ p \in InOp
  BY DEF InOp
<1>2. IsFiniteSet(InOp)
  BY <1>1, ProcsAssumption, FS_Subset
<1>3. Cardinality(InOp) \in Nat /\ Cardinality(InOp) # 0
  BY <1>1, <1>2, FS_CardinalityType, FS_EmptySet
<1>4. Cardinality(InOp) = 1 => InOp = {p}
  BY <1>1, <1>2, FS_Singleton
<1> QED
  BY <1>2, <1>3, <1>4 DEF CommitAlone

\* Every step keeps the variables in their types.
LEMMA TypeStep ==
    ASSUME IInv, [Next]_vars
    PROVE  TypeOK'
<1> USE DEF TypeOK, memory, disk, Phases, Committer
<1>0. /\ TypeOK
      /\ \A b \in Blocks : Contents(b) \in Data
      /\ \A i \in 1..Len(lh) : lh[i] \in Blocks
  BY ContentsType, LhType DEF IInv
<1>1. ASSUME NEW p \in Procs, BeginOp(p) PROVE TypeOK'
  BY <1>0, <1>1 DEF BeginOp
<1>2. ASSUME NEW p \in Procs, NEW b \in Blocks, NEW v \in Data, LogWrite(p, b, v)
      PROVE  TypeOK'
  <2>1. /\ wrote' \in [Procs -> SUBSET Blocks]
        /\ cache' \in [Blocks -> Data \cup {Absent}]
    BY <1>0, <1>2 DEF LogWrite
  <2>2. lh' \in Seq(Blocks) /\ pins' \in [Blocks -> Nat]
    <3>1. CASE b \in LhBlocks
      BY <1>0, <1>2, <3>1 DEF LogWrite
    <3>2. CASE b \notin LhBlocks
      <4>1. lh' = Append(lh, b) /\ pins' = [pins EXCEPT ![b] = @ + 1]
        BY <1>2, <3>2 DEF LogWrite, Pinned
      <4> QED
        BY <1>0, <4>1
    <3> QED
      BY <3>1, <3>2
  <2> QED
    BY <1>0, <1>2, <2>1, <2>2 DEF LogWrite
<1>3. ASSUME NEW p \in Procs, NEW b \in Blocks, LogWritePanic(p, b) PROVE TypeOK'
  BY <1>0, <1>3 DEF LogWritePanic
<1>4. ASSUME NEW p \in Procs, EndOp(p) PROVE TypeOK'
  <2>1. /\ wrote' \in [Procs -> SUBSET Blocks]
        /\ outstanding' \in Nat
    BY <1>0, <1>4, OpsCounted DEF EndOp, IInv
  <2>2. /\ pc' \in [Procs -> Phases]
        /\ committing' \in BOOLEAN
        /\ tail' \in Nat
    <3>1. CASE outstanding = 1
      <4>1. committing' = TRUE /\ tail' = 0
        BY <1>4, <3>1 DEF EndOp
      <4>2. pc' \in [Procs -> Phases]
        BY <1>0, <1>4, <3>1 DEF EndOp
      <4> QED
        BY <4>1, <4>2
    <3>2. CASE outstanding # 1
      BY <1>0, <1>4, <3>2 DEF EndOp, Woken
    <3> QED
      BY <3>1, <3>2
  <2> QED
    BY <1>0, <1>4, <2>1, <2>2 DEF EndOp
<1>5. ASSUME NEW p \in Procs, WriteLogBlock(p) PROVE TypeOK'
  <2>1. tail + 1 \in 1..Len(lh) /\ Contents(lh[tail + 1]) \in Data
    BY <1>0, <1>5 DEF WriteLogBlock
  <2>2. /\ cache' \in [Blocks -> Data \cup {Absent}]
        /\ logdisk' \in [1..LogSize -> Data \cup {Absent}]
    BY <1>0, <1>5, <2>1 DEF WriteLogBlock
  <2> QED
    BY <1>0, <1>5, <2>2 DEF WriteLogBlock
<1>6. ASSUME NEW p \in Procs, WriteHead(p) PROVE TypeOK'
  BY <1>0, <1>6 DEF WriteHead
<1>7. ASSUME NEW p \in Procs, Install(p) PROVE TypeOK'
  <2>1. /\ tail + 1 \in 1..Len(lh)
        /\ logdisk[tail + 1] \in Data
    BY <1>0, <1>7 DEF Install, InstallBlock, IInv, LogHolds
  <2>2. pins[lh[tail + 1]] = 1
    <3>1. Installed = tail
      BY <1>7 DEF Install, Installed
    <3>2. lh[tail + 1] \in Pending
      BY <1>0, <2>1, <3>1 DEF Pending
    <3> QED
      BY <1>0, <1>7, <2>1, <3>2 DEF Install, IInv, PinnedIsPending
  <2>3. pins' \in [Blocks -> Nat]
    BY <1>0, <1>7, <2>1, <2>2 DEF Install, Pinned
  <2>4. /\ cache' \in [Blocks -> Data \cup {Absent}]
        /\ home' \in [Blocks -> Data]
        /\ tail' \in Nat
    BY <1>0, <1>7, <2>1 DEF Install, InstallBlock
  <2> QED
    BY <1>0, <1>7, <2>3, <2>4 DEF Install
<1>8. ASSUME NEW p \in Procs, ClearHead(p) PROVE TypeOK'
  BY <1>0, <1>8 DEF ClearHead
<1>9. ASSUME NEW p \in Procs, EndCommit(p) PROVE TypeOK'
  BY <1>0, <1>9 DEF EndCommit, Woken
<1>10. ASSUME NEW b \in Blocks, Evict(b) PROVE TypeOK'
  BY <1>0, <1>10 DEF Evict
<1>11. CASE Crash
  <2>1. /\ pc' \in [Procs -> Phases] /\ wrote' \in [Procs -> SUBSET Blocks]
        /\ cache' \in [Blocks -> Data \cup {Absent}] /\ pins' \in [Blocks -> Nat]
    BY <1>11 DEF Crash, EmptyCache
  <2>2. outstanding' \in Nat /\ committing' \in BOOLEAN
    BY <1>11 DEF Crash
  <2>3. lh' \in Seq(Blocks)
    BY <1>11 DEF Crash
  <2> QED
    BY <1>0, <1>11, <2>1, <2>2, <2>3 DEF Crash
<1>12. CASE ReadHead
  BY <1>0, <1>12 DEF ReadHead
<1>13. CASE Redo
  BY <1>0, <1>13 DEF Redo, InstallBlock, IInv, LogHolds
<1>14. CASE RecoverClear
  BY <1>0, <1>14 DEF RecoverClear
<1>15. CASE UNCHANGED vars
  BY <1>0, <1>15 DEF vars
<1> QED
  BY <1>1, <1>2, <1>3, <1>4, <1>5, <1>6, <1>7, <1>8, <1>9, <1>10, <1>11,
     <1>12, <1>13, <1>14, <1>15 DEF Next, Step, Recover

------------------------------------------------------------------------------
\* Every step keeps the commit to one process, alone, and outstanding a count.
LEMMA CommitAloneStep ==
    ASSUME IInv, [Next]_vars
    PROVE  CommitAlone'
<1> USE DEF CommitAlone, InOp, Committing, Committer
<1>0. TypeOK /\ CommitAlone
  BY DEF IInv
<1>1. ASSUME NEW p \in Procs, BeginOp(p) PROVE CommitAlone'
  <2>1. CASE MustWait
    <3>1. InOp' = InOp /\ Committing' = Committing
      BY <1>0, <1>1, <2>1 DEF BeginOp, TypeOK
    <3> QED
      BY <1>0, <1>1, <2>1, <3>1 DEF BeginOp
  <2>2. CASE ~MustWait
    <3>1. ~committing /\ Committing = {}
      BY <1>0, <2>2 DEF MustWait
    <3>2. InOp' = InOp \cup {p} /\ p \notin InOp /\ Committing' = {}
      BY <1>0, <1>1, <2>2, <3>1 DEF BeginOp, TypeOK
    <3>3. IsFiniteSet(InOp)
      BY ProcsAssumption, FS_Subset
    <3>4. Cardinality(InOp') = Cardinality(InOp) + 1
      BY <3>2, <3>3, FS_AddElement
    <3> QED
      BY <1>0, <1>1, <2>2, <3>1, <3>2, <3>4 DEF BeginOp
  <2> QED
    BY <2>1, <2>2
<1>2. ASSUME NEW p \in Procs, EndOp(p) PROVE CommitAlone'
  <2>1. /\ IsFiniteSet(InOp) /\ p \in InOp /\ Committing = {}
        /\ ~committing
    BY <1>0, <1>2, OpsCounted DEF EndOp
  <2>2. CASE outstanding = 1
    <3>1. InOp = {p}
      BY <1>0, <1>2, <2>2, OpsCounted DEF EndOp
    <3>2. InOp' = {} /\ Committing' = {p} /\ committing'
      BY <1>0, <1>2, <2>1, <2>2, <3>1 DEF EndOp, TypeOK
    <3>3. outstanding' = 0 /\ Cardinality(InOp') = 0
      BY <1>2, <2>2, <3>2, FS_EmptySet DEF EndOp
    <3>4. (committing <=> Committing # {})' /\ (\A x, y \in Committing : x = y)'
      BY <3>2
    <3> QED
      BY <3>2, <3>3, <3>4
  <2>3. CASE outstanding # 1
    <3>1. InOp' = InOp \ {p} /\ Committing' = {}
      BY <1>0, <1>2, <2>1, <2>3 DEF EndOp, TypeOK, Woken
    <3>2. Cardinality(InOp') = Cardinality(InOp) - 1
      BY <2>1, <3>1, FS_RemoveElement
    <3> QED
      BY <1>0, <1>2, <2>1, <2>3, <3>1, <3>2 DEF EndOp
  <2> QED
    BY <2>2, <2>3
<1>3. ASSUME NEW p \in Procs, WriteHead(p) \/ ClearHead(p) PROVE CommitAlone'
  <2>1. InOp' = InOp /\ Committing' = Committing
    BY <1>0, <1>3 DEF WriteHead, ClearHead, TypeOK
  <2> QED
    BY <1>0, <1>3, <2>1 DEF WriteHead, ClearHead
<1>4. ASSUME NEW p \in Procs, EndCommit(p) PROVE CommitAlone'
  <2>1. Committing = {p} /\ InOp = {}
    BY <1>0, <1>4 DEF EndCommit
  <2>2. Committing' = {} /\ InOp' = {}
    BY <1>0, <1>4, <2>1 DEF EndCommit, TypeOK, Woken
  <2> QED
    BY <1>0, <1>4, <2>1, <2>2 DEF EndCommit
<1>5. CASE Crash
  <2>1. Committing' = {} /\ InOp' = {}
    BY <1>5 DEF Crash
  <2> QED
    BY <1>5, <2>1, FS_EmptySet DEF Crash
<1>6. ASSUME UNCHANGED <<pc, outstanding, committing>> PROVE CommitAlone'
  <2>1. InOp' = InOp /\ Committing' = Committing
    BY <1>6
  <2> QED
    BY <1>0, <1>6, <2>1
<1> QED
  BY <1>1, <1>2, <1>3, <1>4, <1>5, <1>6
  DEF Next, Step, Recover, LogWrite, LogWritePanic, WriteLogBlock, Install, Evict,
      ReadHead, Redo, RecoverClear, InstallBlock, vars, memory, disk

\* Every step leaves someone to wake the sleepers: begin_op sleeps only while
\* a commit or another call is under way, since an empty log has room for one.
LEMMA NoStrandedSleeperStep ==
    ASSUME IInv, [Next]_vars
    PROVE  NoStrandedSleeper'
<1> USE DEF NoStrandedSleeper
<1>0. TypeOK /\ CommitAlone /\ NoStrandedSleeper
  BY DEF IInv
<1>1. ASSUME NEW p \in Procs, BeginOp(p) PROVE NoStrandedSleeper'
  <2>1. CASE MustWait
    <3>1. committing \/ outstanding > 0
      <4>1. SUFFICES ASSUME ~committing, outstanding = 0 PROVE FALSE
        BY <1>0 DEF TypeOK
      <4>2. lh = <<>>
        BY <1>1, <4>1 DEF BeginOp, IInv, EmptyLog
      <4>3. Len(lh) + (outstanding + 1) * MaxOp = MaxOp
        BY <4>1, <4>2, SizeAssumption
      <4> QED
        BY <2>1, <4>1, <4>3, SizeAssumption DEF MustWait
    <3> QED
      BY <1>1, <2>1, <3>1 DEF BeginOp
  <2>2. CASE ~MustWait
    BY <1>0, <1>1, <2>2 DEF BeginOp, TypeOK
  <2> QED
    BY <2>1, <2>2
<1>2. ASSUME NEW p \in Procs, EndOp(p) PROVE NoStrandedSleeper'
  <2>1. CASE outstanding = 1
    BY <1>2, <2>1 DEF EndOp
  <2>2. CASE outstanding # 1
    BY <1>0, <1>2, <2>2 DEF EndOp, Woken, TypeOK
  <2> QED
    BY <2>1, <2>2
<1>3. ASSUME NEW p \in Procs, WriteHead(p) \/ ClearHead(p) PROVE NoStrandedSleeper'
  BY <1>0, <1>3 DEF WriteHead, ClearHead, TypeOK
<1>4. ASSUME NEW p \in Procs, EndCommit(p) PROVE NoStrandedSleeper'
  BY <1>0, <1>4 DEF EndCommit, Woken, TypeOK
<1>5. CASE Crash
  BY <1>5 DEF Crash
<1>6. ASSUME UNCHANGED <<pc, outstanding, committing>> PROVE NoStrandedSleeper'
  BY <1>0, <1>6
<1> QED
  BY <1>1, <1>2, <1>3, <1>4, <1>5, <1>6
  DEF Next, Step, Recover, LogWrite, LogWritePanic, WriteLogBlock, Install, Evict,
      ReadHead, Redo, RecoverClear, InstallBlock, vars, memory, disk

------------------------------------------------------------------------------
\* No step lets a call run or a buffer be pinned before recovery is over.
LEMMA RestingStep ==
    ASSUME IInv, [Next]_vars
    PROVE  Resting'
<1> USE DEF Resting
<1>0. TypeOK /\ Resting
  BY DEF IInv
<1>1. ASSUME NEW p \in Procs, EndOp(p) PROVE Resting'
  BY <1>1 DEF EndOp
<1>2. CASE Crash
  BY <1>2 DEF Crash
<1>3. CASE UNCHANGED vars
  BY <1>0, <1>3 DEF vars, memory
<1>4. CASE ReadHead \/ Redo \/ RecoverClear
  BY <1>0, <1>4 DEF ReadHead, Redo, RecoverClear
<1>5. ASSUME mode \in {"up", "panic"}, mode' \in {"up", "panic"} PROVE Resting'
  BY <1>5
<1> QED
  BY <1>1, <1>2, <1>3, <1>4, <1>5
  DEF Next, Step, Recover, BeginOp, LogWrite, LogWritePanic, WriteLogBlock,
      WriteHead, Install, ClearHead, EndCommit, Evict

\* Every step keeps the log of an idle system empty.
LEMMA EmptyLogStep ==
    ASSUME IInv, [Next]_vars
    PROVE  EmptyLog'
<1> USE DEF EmptyLog
<1>0. TypeOK /\ CommitAlone /\ EmptyLog
  BY DEF IInv
<1>1. ASSUME NEW p \in Procs, BeginOp(p) PROVE EmptyLog'
  BY <1>0, <1>1 DEF BeginOp, TypeOK
<1>2. ASSUME NEW p \in Procs, NEW b \in Blocks, NEW v \in Data, LogWrite(p, b, v)
      PROVE  EmptyLog'
  <2>1. \A q \in Procs : pc[q] # "done"
    BY <1>0, <1>2 DEF LogWrite, CommitAlone, InOp, Committing, Committer
  <2> QED
    BY <1>0, <1>2, <2>1 DEF LogWrite
<1>3. ASSUME NEW p \in Procs, NEW b \in Blocks, LogWritePanic(p, b) PROVE EmptyLog'
  BY <1>0, <1>3 DEF LogWritePanic, memory
<1>4. ASSUME NEW p \in Procs, EndOp(p) PROVE EmptyLog'
  <2>1. outstanding' > 0 \/ committing'
    BY <1>0, <1>4, OpsCounted DEF EndOp
  <2>2. \A q \in Procs : pc'[q] = "done" => lh = <<>>
    <3>1. CASE outstanding = 1
      BY <1>0, <1>4, <3>1 DEF EndOp, TypeOK
    <3>2. CASE outstanding # 1
      BY <1>0, <1>4, <3>2 DEF EndOp, TypeOK, Woken
    <3> QED
      BY <3>1, <3>2
  <2> QED
    BY <1>4, <2>1, <2>2 DEF EndOp
<1>5. ASSUME NEW p \in Procs, WriteHead(p) PROVE EmptyLog'
  BY <1>0, <1>5 DEF WriteHead, TypeOK
<1>6. ASSUME NEW p \in Procs, ClearHead(p) PROVE EmptyLog'
  BY <1>0, <1>6 DEF ClearHead, TypeOK
<1>7. ASSUME NEW p \in Procs, EndCommit(p) PROVE EmptyLog'
  BY <1>0, <1>7 DEF EndCommit, TypeOK, Woken
<1>8. CASE Crash
  BY <1>8 DEF Crash
<1>9. CASE ReadHead
  BY <1>0, <1>9 DEF ReadHead, IInv, Resting
<1>10. CASE RecoverClear
  BY <1>0, <1>10 DEF RecoverClear
<1>11. ASSUME UNCHANGED <<pc, outstanding, committing, lh, mode>> PROVE EmptyLog'
  BY <1>0, <1>11
<1> QED
  BY <1>1, <1>2, <1>3, <1>4, <1>5, <1>6, <1>7, <1>8, <1>9, <1>10, <1>11
  DEF Next, Step, Recover, WriteLogBlock, Install, Evict, Redo, InstallBlock,
      vars, memory, disk

\* Every step keeps both copies of the log within LogSize and without repeats.
LEMMA LogFitsStep ==
    ASSUME IInv, [Next]_vars
    PROVE  LogFits'
<1> USE DEF LogFits
<1>0. TypeOK /\ LogFits
  BY DEF IInv
<1>1. ASSUME NEW p \in Procs, NEW b \in Blocks, NEW v \in Data, LogWrite(p, b, v)
      PROVE  LogFits'
  <2>1. Len(lh) < LogSize /\ header' = header
    BY <1>0, <1>1, SizeAssumption DEF LogWrite, TooBig, TypeOK, disk
  <2>2. CASE b \in LhBlocks
    BY <1>0, <1>1, <2>1, <2>2 DEF LogWrite
  <2>3. CASE b \notin LhBlocks
    <3>1. lh' = Append(lh, b) /\ \A i \in 1..Len(lh) : lh[i] # b
      BY <1>1, <2>3 DEF LogWrite, LhBlocks
    <3>2. /\ Len(lh') = Len(lh) + 1 /\ lh'[Len(lh) + 1] = b
          /\ \A i \in 1..Len(lh) : lh'[i] = lh[i]
      BY <1>0, <3>1 DEF TypeOK
    <3>3. ASSUME NEW i \in 1..Len(lh'), NEW j \in 1..Len(lh'), lh'[i] = lh'[j]
          PROVE  i = j
      <4>1. Len(lh) \in Nat
        BY <1>0 DEF TypeOK
      <4>2. CASE i \in 1..Len(lh) /\ j \in 1..Len(lh)
        BY <1>0, <3>2, <3>3, <4>2
      <4>3. CASE i = Len(lh) + 1 \/ j = Len(lh) + 1
        BY <3>1, <3>2, <3>3, <4>1, <4>3
      <4> QED
        BY <3>2, <4>1, <4>2, <4>3
    <3>4. Len(lh') <= LogSize
      BY <1>0, <2>1, <3>2, SizeAssumption DEF TypeOK
    <3> QED
      BY <1>0, <2>1, <3>3, <3>4
  <2> QED
    BY <2>2, <2>3
<1>2. ASSUME NEW p \in Procs, WriteHead(p) PROVE LogFits'
  BY <1>0, <1>2 DEF WriteHead
<1>3. ASSUME lh' = <<>>, header' \in {header, <<>>} PROVE LogFits'
  BY <1>0, <1>3, SizeAssumption
<1>4. CASE ReadHead
  BY <1>0, <1>4 DEF ReadHead, disk
<1>5. ASSUME UNCHANGED <<lh, header>> PROVE LogFits'
  BY <1>0, <1>5
<1> QED
  BY <1>1, <1>2, <1>3, <1>4, <1>5
  DEF Next, Step, Recover, BeginOp, LogWritePanic, EndOp, WriteLogBlock, Install,
      ClearHead, EndCommit, Evict, Crash, Redo, RecoverClear, InstallBlock, vars,
      memory, disk

------------------------------------------------------------------------------
\* Steps of the processes that write no block, log entry or header leave what is
\* pending, pinned and dirty as it was.
LEMMA PendingSame ==
    ASSUME PinnedIsPending, UNCHANGED <<cache, pins, home>>,
           Pending' = Pending \/ mode' \notin {"up", "panic"},
           mode' \in {"up", "panic"} => mode \in {"up", "panic"}
    PROVE  PinnedIsPending'
  BY DEF PinnedIsPending, Contents

\* One turn of install_trans makes the block's buffer and home equal, and leaves
\* every other block alone.
LEMMA InstallBlockEffect ==
    ASSUME TypeOK, InstallBlock, NEW b \in Blocks, b = lh[tail + 1],
           logdisk[tail + 1] \in Data
    PROVE  /\ Contents(b)' = logdisk[tail + 1] /\ home'[b] = logdisk[tail + 1]
           /\ \A c \in Blocks :
                 c # b => Contents(c)' = Contents(c) /\ home'[c] = home[c]
<1>1. /\ home' = [home EXCEPT ![b] = logdisk[tail + 1]]
      /\ cache' = [cache EXCEPT ![b] = logdisk[tail + 1]]
  BY DEF InstallBlock
<1> QED
  BY <1>1, DataAssumption DEF TypeOK, Contents

\* Every step keeps the pinned, the dirty and the pending blocks in agreement.
LEMMA PinnedIsPendingStep ==
    ASSUME IInv, [Next]_vars
    PROVE  PinnedIsPending'
<1>0. /\ TypeOK /\ CommitAlone /\ PinnedIsPending /\ LogFits
      /\ \A i \in 1..Len(lh) : lh[i] \in Blocks
      /\ \A b \in Blocks : Contents(b) \in Data
  BY LhType, ContentsType DEF IInv
<1>1. ASSUME NEW p \in Procs, BeginOp(p) PROVE PinnedIsPending'
  <2>1. \A q \in Procs : pc'[q] = "install" <=> pc[q] = "install"
    BY <1>0, <1>1 DEF BeginOp, TypeOK
  <2>2. Pending' = Pending
    BY <1>1, <2>1 DEF BeginOp, Pending, Installed
  <2> QED
    BY <1>0, <1>1, <2>2, PendingSame DEF BeginOp, disk
<1>2. ASSUME NEW p \in Procs, NEW b \in Blocks, NEW v \in Data, LogWrite(p, b, v)
      PROVE  PinnedIsPending'
  <2>1. \A q \in Procs : pc[q] # "install"
    BY <1>0, <1>2 DEF LogWrite, CommitAlone, InOp, Committing, Committer
  <2>2. Installed = 0 /\ Installed' = 0 /\ Pending = LhBlocks
    BY <1>0, <1>2, <2>1 DEF LogWrite, Installed, Pending, LhBlocks, TypeOK
  <2>3. mode = "up" /\ mode' = "up" /\ home' = home
    BY <1>2 DEF LogWrite, disk
  <2>4. \A c \in Blocks : c # b => Contents(c)' = Contents(c)
    BY <1>0, <1>2, <2>3 DEF LogWrite, Contents, TypeOK
  <2>5. CASE b \in LhBlocks
    <3>1. UNCHANGED <<lh, pins>>
      BY <1>2, <2>5 DEF LogWrite
    <3>2. Pending' = Pending
      BY <2>2, <3>1 DEF Pending
    <3> QED
      BY <1>0, <2>2, <2>3, <2>4, <2>5, <3>1, <3>2 DEF PinnedIsPending
  <2>6. CASE b \notin LhBlocks
    <3>1. lh' = Append(lh, b) /\ pins' = [pins EXCEPT ![b] = @ + 1]
      BY <1>2, <2>6 DEF LogWrite, Pinned
    <3>2. Pending' = Pending \cup {b}
      <4>1. /\ Len(lh') = Len(lh) + 1 /\ lh'[Len(lh) + 1] = b
            /\ \A i \in 1..Len(lh) : lh'[i] = lh[i]
            /\ Len(lh) \in Nat
        BY <1>0, <3>1 DEF TypeOK
      <4>2. Pending' = {lh'[i] : i \in 1..(Len(lh) + 1)}
        BY <2>2, <4>1 DEF Pending
      <4>3. 1..(Len(lh) + 1) = (1..Len(lh)) \cup {Len(lh) + 1}
        BY <4>1
      <4> QED
        BY <2>2, <4>1, <4>2, <4>3 DEF LhBlocks
    <3>3. pins[b] = 0
      BY <1>0, <2>2, <2>3, <2>6 DEF PinnedIsPending
    <3> QED
      BY <1>0, <2>2, <2>3, <2>4, <2>6, <3>1, <3>2, <3>3 DEF PinnedIsPending, TypeOK
  <2> QED
    BY <2>5, <2>6
<1>3. ASSUME NEW p \in Procs, NEW b \in Blocks, LogWritePanic(p, b)
      PROVE  PinnedIsPending'
  <2>1. Pending' = Pending
    BY <1>3 DEF LogWritePanic, memory, Pending, Installed
  <2> QED
    BY <1>0, <1>3, <2>1, PendingSame DEF LogWritePanic, memory, disk
<1>4. ASSUME NEW p \in Procs, EndOp(p) PROVE PinnedIsPending'
  <2>1. \A q \in Procs : pc[q] # "install"
    BY <1>0, <1>4 DEF EndOp, CommitAlone, InOp, Committing, Committer
  <2>2. \A q \in Procs : pc'[q] # "install"
    <3>1. CASE outstanding = 1
      BY <1>0, <1>4, <2>1, <3>1 DEF EndOp, TypeOK
    <3>2. CASE outstanding # 1
      BY <1>0, <1>4, <2>1, <3>2 DEF EndOp, TypeOK, Woken
    <3> QED
      BY <3>1, <3>2
  <2>3. Pending' = Pending
    BY <1>4, <2>1, <2>2 DEF EndOp, Pending, Installed
  <2> QED
    BY <1>0, <1>4, <2>3, PendingSame DEF EndOp, disk
<1>5. ASSUME NEW p \in Procs, WriteLogBlock(p) PROVE PinnedIsPending'
  <2>1. \A q \in Procs : pc[q] # "install"
    BY <1>0, <1>5, OneInCommit DEF WriteLogBlock, Committer
  <2>2. Pending' = Pending
    BY <1>5, <2>1 DEF WriteLogBlock, Pending, Installed
  <2>3. tail + 1 \in 1..Len(lh) /\ lh[tail + 1] \in Blocks
    BY <1>0, <1>5 DEF WriteLogBlock, TypeOK
  <2>4. \A b \in Blocks : Contents(b)' = Contents(b)
    BY <1>0, <1>5, <2>3, DataAssumption DEF WriteLogBlock, Contents, TypeOK
  <2> QED
    BY <1>0, <1>5, <2>2, <2>4 DEF WriteLogBlock, PinnedIsPending
<1>6. ASSUME NEW p \in Procs, WriteHead(p) PROVE PinnedIsPending'
  <2>1. \A q \in Procs : pc[q] # "install"
    BY <1>0, <1>6, OneInCommit DEF WriteHead, Committer
  <2>2. Installed = 0 /\ Installed' = 0
    BY <1>6, <2>1 DEF WriteHead, Installed
  <2> QED
    BY <1>0, <1>6, <2>2, PendingSame DEF WriteHead, Pending
<1>7. ASSUME NEW p \in Procs, Install(p) PROVE PinnedIsPending'
  <2>0. PICK b \in Blocks : b = lh[tail + 1]
    BY <1>0, <1>7 DEF Install, InstallBlock, TypeOK
  <2>1. /\ tail + 1 \in 1..Len(lh) /\ tail \in Nat
        /\ logdisk[tail + 1] \in Data
    BY <1>0, <1>7 DEF Install, InstallBlock, TypeOK, IInv, LogHolds
  <2>2. Installed = tail /\ Installed' = tail + 1 /\ lh' = lh
    BY <1>7 DEF Install, InstallBlock, Installed
  <2>3. Pending' = Pending \ {b}
    BY <1>0, <2>0, <2>1, <2>2 DEF Pending, LogFits
  <2>4. b \in Pending
    BY <2>0, <2>1, <2>2 DEF Pending
  <2>5. mode = "up" /\ mode' = "up" /\ pins' = [pins EXCEPT ![b] = @ - 1]
    BY <1>7, <2>0 DEF Install, Pinned
  <2>6. /\ Contents(b)' = home'[b]
        /\ \A c \in Blocks : c # b => Contents(c)' = Contents(c) /\ home'[c] = home[c]
    BY <1>0, <1>7, <2>0, <2>1, InstallBlockEffect DEF Install
  <2>7. \A c \in Blocks : pins'[c] = IF c \in Pending' THEN 1 ELSE 0
    BY <1>0, <2>1, <2>3, <2>4, <2>5 DEF PinnedIsPending, TypeOK
  <2>8. \A c \in Blocks : Contents(c)' # home'[c] => pins'[c] > 0
    BY <1>0, <2>1, <2>5, <2>6 DEF PinnedIsPending, TypeOK
  <2> QED
    BY <2>7, <2>8 DEF PinnedIsPending
<1>8. ASSUME NEW p \in Procs, ClearHead(p) PROVE PinnedIsPending'
  <2>1. Installed = Len(lh)
    BY <1>8 DEF ClearHead, LoopDone, Installed
  <2>2. Pending = {} /\ Pending' = {}
    BY <1>0, <1>8, <2>1 DEF ClearHead, Pending, TypeOK
  <2> QED
    BY <1>0, <1>8, <2>2, PendingSame DEF ClearHead
<1>9. ASSUME NEW p \in Procs, EndCommit(p) PROVE PinnedIsPending'
  <2>1. \A q \in Procs : pc[q] # "install"
    BY <1>0, <1>9, OneInCommit DEF EndCommit, Committer
  <2>2. \A q \in Procs : pc'[q] # "install"
    BY <1>0, <1>9, <2>1 DEF EndCommit, TypeOK, Woken
  <2>3. Pending' = Pending
    BY <1>9, <2>1, <2>2 DEF EndCommit, Pending, Installed
  <2> QED
    BY <1>0, <1>9, <2>3, PendingSame DEF EndCommit, disk
<1>10. ASSUME NEW b \in Blocks, Evict(b) PROVE PinnedIsPending'
  <2>1. Contents(b) = home[b]
    BY <1>0, <1>10 DEF Evict, PinnedIsPending
  <2>2. \A c \in Blocks : Contents(c)' = Contents(c)
    BY <1>0, <1>10, <2>1 DEF Evict, Contents, TypeOK, disk
  <2>3. Pending' = Pending
    BY <1>10 DEF Evict, Pending, Installed
  <2> QED
    BY <1>0, <1>10, <2>2, <2>3 DEF Evict, PinnedIsPending, disk
<1>11. CASE Crash
  BY <1>0, <1>11 DEF Crash, PinnedIsPending, Contents, EmptyCache, disk
<1>12. CASE ReadHead
  BY <1>0, <1>12, PendingSame DEF ReadHead, disk
<1>13. CASE Redo
  <2>0. PICK b \in Blocks : b = lh[tail + 1]
    BY <1>0, <1>13 DEF Redo, InstallBlock, TypeOK
  <2>1. logdisk[tail + 1] \in Data
    BY <1>0, <1>13 DEF Redo, InstallBlock, TypeOK, IInv, LogHolds
  <2>2. /\ Contents(b)' = home'[b]
        /\ \A c \in Blocks : c # b => Contents(c)' = Contents(c) /\ home'[c] = home[c]
    BY <1>0, <1>13, <2>0, <2>1, InstallBlockEffect DEF Redo
  <2>3. mode' = "redo" /\ pins' = pins
    BY <1>13 DEF Redo
  <2> QED
    BY <1>0, <2>2, <2>3 DEF PinnedIsPending
<1>14. CASE RecoverClear
  <2>1. Pending' = {} /\ \A b \in Blocks : pins[b] = 0
    BY <1>14 DEF RecoverClear, Pending, IInv, Resting
  <2> QED
    BY <1>0, <1>14, <2>1 DEF RecoverClear, PinnedIsPending, Contents
<1>15. CASE UNCHANGED vars
  <2>1. Pending' = Pending
    BY <1>15 DEF vars, memory, Pending, Installed
  <2> QED
    BY <1>0, <1>15, <2>1, PendingSame DEF vars, memory, disk
<1> QED
  BY <1>1, <1>2, <1>3, <1>4, <1>5, <1>6, <1>7, <1>8, <1>9, <1>10, <1>11,
     <1>12, <1>13, <1>14, <1>15 DEF Next, Step, Recover

------------------------------------------------------------------------------
\* Recycling a buffer that is not pinned changes no contents.
LEMMA EvictKeepsContents ==
    ASSUME IInv, NEW b \in Blocks, Evict(b)
    PROVE  \A c \in Blocks : Contents(c)' = Contents(c)
<1>1. Contents(b) = home[b]
  BY DEF Evict, IInv, PinnedIsPending
<1> QED
  BY <1>1 DEF Evict, Contents, IInv, TypeOK, disk

\* Every step keeps the written log blocks equal to what their blocks hold.
LEMMA LogHoldsStep ==
    ASSUME IInv, [Next]_vars
    PROVE  LogHolds'
<1> USE DEF LogHolds
<1>0. /\ TypeOK /\ CommitAlone /\ LogFits /\ LogHolds
      /\ \A i \in 1..Len(lh) : lh[i] \in Blocks
      /\ \A b \in Blocks : Contents(b) \in Data
  BY LhType, ContentsType DEF IInv
<1>1. ASSUME NEW p \in Procs, BeginOp(p) PROVE LogHolds'
  BY <1>0, <1>1 DEF BeginOp, TypeOK, Contents, disk
<1>2. ASSUME NEW p \in Procs, NEW b \in Blocks, NEW v \in Data, LogWrite(p, b, v)
      PROVE  LogHolds'
  <2>1. \A q \in Procs : pc[q] \notin {"log", "install"}
    BY <1>0, <1>2 DEF LogWrite, CommitAlone, InOp, Committing, Committer
  <2> QED
    BY <1>0, <1>2, <2>1 DEF LogWrite, disk
<1>3. ASSUME NEW p \in Procs, NEW b \in Blocks, LogWritePanic(p, b) PROVE LogHolds'
  BY <1>0, <1>3 DEF LogWritePanic, memory, disk, Contents
<1>4. ASSUME NEW p \in Procs, EndOp(p) PROVE LogHolds'
  <2>1. \A q \in Procs : pc[q] \notin {"log", "install"}
    BY <1>0, <1>4 DEF EndOp, CommitAlone, InOp, Committing, Committer
  <2>2. CASE outstanding = 1
    BY <1>0, <1>4, <2>1, <2>2 DEF EndOp, TypeOK, disk
  <2>3. CASE outstanding # 1
    BY <1>0, <1>4, <2>1, <2>3 DEF EndOp, TypeOK, disk, Woken
  <2> QED
    BY <2>2, <2>3
<1>5. ASSUME NEW p \in Procs, WriteLogBlock(p) PROVE LogHolds'
  <2>1. \A q \in Procs : pc[q] # "install"
    BY <1>0, <1>5, OneInCommit DEF WriteLogBlock, Committer
  <2>2. tail + 1 \in 1..Len(lh) /\ tail + 1 \in 1..LogSize
    BY <1>0, <1>5, SizeAssumption DEF WriteLogBlock, TypeOK, LogFits
  <2>3. \A b \in Blocks : Contents(b)' = Contents(b)
    BY <1>0, <1>5, <2>2, DataAssumption DEF WriteLogBlock, Contents, TypeOK
  <2>4. /\ logdisk'[tail + 1] = Contents(lh[tail + 1])
        /\ \A i \in 1..LogSize : i # tail + 1 => logdisk'[i] = logdisk[i]
    BY <1>0, <1>5, <2>2 DEF WriteLogBlock, TypeOK
  <2>5. \A i \in 1..Len(header') : logdisk'[i] \in Data
    BY <1>0, <1>5, <2>2, <2>4, SizeAssumption DEF WriteLogBlock, TypeOK, LogFits
  <2>6. \A i \in 1..Len(lh) : i <= tail + 1 => logdisk'[i] = Contents(lh[i])
    BY <1>0, <1>5, <2>2, <2>4, SizeAssumption DEF WriteLogBlock, TypeOK, LogFits
  <2> QED
    BY <1>0, <1>5, <2>1, <2>3, <2>5, <2>6 DEF WriteLogBlock
<1>6. ASSUME NEW p \in Procs, WriteHead(p) PROVE LogHolds'
  <2>1. \A q \in Procs : q # p => pc[q] \notin {"log", "install"}
    BY <1>0, <1>6, OneInCommit DEF WriteHead, Committer
  <2>2. \A i \in 1..Len(lh) : logdisk[i] = Contents(lh[i])
    BY <1>0, <1>6 DEF WriteHead, LoopDone, TypeOK
  <2>3. \A b \in Blocks : Contents(b)' = Contents(b)
    BY <1>6 DEF WriteHead, Contents
  <2> QED
    BY <1>0, <1>6, <2>1, <2>2, <2>3 DEF WriteHead, TypeOK
<1>7. ASSUME NEW p \in Procs, Install(p) PROVE LogHolds'
  <2>0. PICK b \in Blocks : b = lh[tail + 1]
    BY <1>0, <1>7 DEF Install, InstallBlock, TypeOK
  <2>1. logdisk[tail + 1] = Contents(b) /\ logdisk[tail + 1] \in Data
    BY <1>0, <1>7, <2>0 DEF Install, InstallBlock, TypeOK
  <2>2. \A c \in Blocks : Contents(c)' = Contents(c)
    BY <1>0, <1>7, <2>0, <2>1, InstallBlockEffect DEF Install
  <2>3. \A q \in Procs : pc[q] # "log"
    BY <1>0, <1>7, OneInCommit DEF Install, Committer
  <2> QED
    BY <1>0, <1>7, <2>2, <2>3 DEF Install
<1>8. ASSUME NEW p \in Procs, ClearHead(p) PROVE LogHolds'
  BY <1>0, <1>8 DEF ClearHead
<1>9. ASSUME NEW p \in Procs, EndCommit(p) PROVE LogHolds'
  BY <1>0, <1>9 DEF EndCommit, TypeOK, Woken, Contents, disk
<1>10. ASSUME NEW b \in Blocks, Evict(b) PROVE LogHolds'
  BY <1>0, <1>10, EvictKeepsContents DEF Evict, disk
<1>11. CASE Crash
  BY <1>0, <1>11 DEF Crash, disk
<1>12. CASE ReadHead
  BY <1>0, <1>12 DEF ReadHead, disk, IInv, Resting
<1>13. CASE Redo
  BY <1>0, <1>13 DEF Redo, InstallBlock, IInv, Resting
<1>14. CASE RecoverClear
  BY <1>0, <1>14 DEF RecoverClear, IInv, Resting
<1>15. CASE UNCHANGED vars
  BY <1>0, <1>15 DEF vars, memory, disk, Contents
<1> QED
  BY <1>1, <1>2, <1>3, <1>4, <1>5, <1>6, <1>7, <1>8, <1>9, <1>10, <1>11,
     <1>12, <1>13, <1>14, <1>15 DEF Next, Step, Recover

------------------------------------------------------------------------------
\* Every step keeps what a call wrote within its share and inside the log.
LEMMA WrittenIsLoggedStep ==
    ASSUME IInv, [Next]_vars
    PROVE  WrittenIsLogged'
<1> USE DEF WrittenIsLogged
<1>0. TypeOK /\ CommitAlone /\ WrittenIsLogged
  BY DEF IInv
<1>1. ASSUME NEW p \in Procs, BeginOp(p) PROVE WrittenIsLogged'
  <2>1. /\ wrote' = wrote /\ LhBlocks' = LhBlocks /\ mode' = mode
        /\ wrote[p] = {}
    BY <1>0, <1>1 DEF BeginOp, LhBlocks
  <2>2. \A q \in Procs : q # p => pc'[q] = pc[q]
    BY <1>0, <1>1 DEF BeginOp, TypeOK
  <2> QED
    BY <1>0, <2>1, <2>2
<1>2. ASSUME NEW p \in Procs, NEW b \in Blocks, NEW v \in Data, LogWrite(p, b, v)
      PROVE  WrittenIsLogged'
  <2>1. /\ wrote'[p] = wrote[p] \cup {b}
        /\ \A q \in Procs : q # p => wrote'[q] = wrote[q]
        /\ pc' = pc /\ mode = "up" /\ pc[p] = "op"
    BY <1>0, <1>2 DEF LogWrite, TypeOK
  <2>2. IsFiniteSet(wrote'[p]) /\ Cardinality(wrote'[p]) <= MaxOp
    <3>1. IsFiniteSet(wrote[p]) /\ Cardinality(wrote[p]) \in Nat
      BY <1>0, FS_CardinalityType
    <3>2. b \in wrote[p] \/ Cardinality(wrote[p]) < MaxOp
      BY <1>2 DEF LogWrite
    <3>3. IsFiniteSet(wrote[p] \cup {b})
      BY <3>1, FS_AddElement
    <3>4. Cardinality(wrote[p] \cup {b}) =
             IF b \in wrote[p] THEN Cardinality(wrote[p]) ELSE Cardinality(wrote[p]) + 1
      BY <3>1, FS_AddElement
    <3> QED
      BY <1>0, <2>1, <3>1, <3>2, <3>3, <3>4, SizeAssumption
  <2>3. LhBlocks \cup {b} \subseteq LhBlocks'
    <3>1. CASE b \in LhBlocks
      BY <1>2, <3>1 DEF LogWrite, LhBlocks
    <3>2. CASE b \notin LhBlocks
      <4>1. lh' = Append(lh, b)
        BY <1>2, <3>2 DEF LogWrite
      <4>2. /\ Len(lh') = Len(lh) + 1 /\ lh'[Len(lh) + 1] = b
            /\ \A i \in 1..Len(lh) : lh'[i] = lh[i]
            /\ Len(lh) \in Nat
        BY <1>0, <4>1 DEF TypeOK
      <4> QED
        BY <4>2 DEF LhBlocks
    <3> QED
      BY <3>1, <3>2
  <2> QED
    BY <1>0, <2>1, <2>2, <2>3
<1>3. ASSUME NEW p \in Procs, NEW b \in Blocks, LogWritePanic(p, b)
      PROVE  WrittenIsLogged'
  BY <1>0, <1>3 DEF LogWritePanic, memory, LhBlocks
<1>4. ASSUME NEW p \in Procs, EndOp(p) PROVE WrittenIsLogged'
  <2>1. /\ wrote'[p] = {}
        /\ \A q \in Procs : q # p => wrote'[q] = wrote[q]
        /\ LhBlocks' = LhBlocks
    BY <1>0, <1>4 DEF EndOp, TypeOK, LhBlocks
  <2>2. \A q \in Procs : q # p /\ pc'[q] # "op" => pc[q] # "op"
    <3>1. CASE outstanding = 1
      BY <1>0, <1>4, <3>1 DEF EndOp, TypeOK
    <3>2. CASE outstanding # 1
      BY <1>0, <1>4, <3>2 DEF EndOp, TypeOK, Woken
    <3> QED
      BY <3>1, <3>2
  <2>3. mode = "up"
    BY <1>4 DEF EndOp
  <2> QED
    BY <1>0, <2>1, <2>2, <2>3, FS_EmptySet, SizeAssumption
<1>5. ASSUME NEW p \in Procs, WriteHead(p) \/ EndCommit(p) PROVE WrittenIsLogged'
  <2>1. wrote' = wrote /\ LhBlocks' = LhBlocks /\ mode' = mode
    BY <1>5 DEF WriteHead, EndCommit, LhBlocks
  <2>2. \A q \in Procs : pc'[q] # "op" => pc[q] # "op"
    BY <1>0, <1>5 DEF WriteHead, EndCommit, Woken, TypeOK
  <2> QED
    BY <1>0, <2>1, <2>2
<1>6. ASSUME NEW p \in Procs, ClearHead(p) PROVE WrittenIsLogged'
  <2>1. \A q \in Procs : wrote[q] = {}
    BY <1>0, <1>6, OneInCommit DEF ClearHead, Committer
  <2> QED
    BY <1>0, <1>6, <2>1 DEF ClearHead
<1>7. CASE Crash
  BY <1>0, <1>7, FS_EmptySet, SizeAssumption DEF Crash
<1>8. CASE ReadHead \/ RecoverClear
  BY <1>0, <1>8, FS_EmptySet DEF ReadHead, RecoverClear, IInv, Resting
<1>9. ASSUME UNCHANGED <<pc, wrote, lh, mode>> PROVE WrittenIsLogged'
  BY <1>0, <1>9 DEF LhBlocks
<1> QED
  BY <1>1, <1>2, <1>3, <1>4, <1>5, <1>6, <1>7, <1>8, <1>9
  DEF Next, Step, Recover, WriteLogBlock, Install, Evict, Redo, InstallBlock,
      vars, memory, disk

------------------------------------------------------------------------------
\* What the calls in progress have written, together.
Written == UNION {wrote[p] : p \in Procs}

\* Finitely many calls that each wrote finitely many blocks wrote finitely many.
LEMMA WrittenFinite ==
    ASSUME NEW f \in [Procs -> SUBSET Blocks], \A p \in Procs : IsFiniteSet(f[p])
    PROVE  /\ IsFiniteSet(UNION {f[p] : p \in Procs})
           /\ Cardinality(UNION {f[p] : p \in Procs}) \in Nat
<1>1. f \in Surjection(Procs, {f[p] : p \in Procs})
  BY DEF Surjection
<1>2. IsFiniteSet({f[p] : p \in Procs})
  BY <1>1, ProcsAssumption, FS_Surjection
<1>3. IsFiniteSet(UNION {f[p] : p \in Procs})
  BY <1>2, FS_UNION
<1> QED
  BY <1>3, FS_CardinalityType

\* Every step keeps the room begin_op reserved for the calls in progress.
LEMMA ReservationStep ==
    ASSUME IInv, [Next]_vars
    PROVE  Reservation'
<1> USE DEF Reservation
<1>0. TypeOK /\ CommitAlone /\ WrittenIsLogged /\ LogFits /\ Reservation
  BY DEF IInv
<1>1. IsFiniteSet(Written) /\ Cardinality(Written) \in Nat
  BY <1>0, WrittenFinite DEF WrittenIsLogged, TypeOK, Written
<1>2. IsFiniteSet(Written') /\ Cardinality(Written') \in Nat
  <2>1. wrote' \in [Procs -> SUBSET Blocks] /\ \A p \in Procs : IsFiniteSet(wrote'[p])
    BY TypeStep, WrittenIsLoggedStep DEF WrittenIsLogged, TypeOK
  <2> QED
    BY <2>1, WrittenFinite DEF Written
<1>3. /\ Len(lh) + outstanding * MaxOp <= LogSize + Cardinality(Written)
      /\ Len(lh) \in Nat /\ outstanding \in Nat /\ outstanding * MaxOp \in Nat
      /\ MaxOp \in Nat /\ LogSize \in Nat
  BY <1>0, SizeAssumption DEF Written, TypeOK
<1>4. SUFFICES Len(lh') + outstanding' * MaxOp <= LogSize + Cardinality(Written')
  BY DEF Written
<1>5. ASSUME NEW p \in Procs, BeginOp(p)
      PROVE  Len(lh') + outstanding' * MaxOp <= LogSize + Cardinality(Written')
  <2>1. Written' = Written /\ lh' = lh
    BY <1>5 DEF BeginOp, Written
  <2> QED
    BY <1>1, <1>3, <1>5, <2>1 DEF BeginOp, MustWait
<1>6. ASSUME NEW p \in Procs, NEW b \in Blocks, NEW v \in Data, LogWrite(p, b, v)
      PROVE  Len(lh') + outstanding' * MaxOp <= LogSize + Cardinality(Written')
  <2>1. outstanding' = outstanding /\ Written' = Written \cup {b}
    BY <1>0, <1>6 DEF LogWrite, Written, TypeOK
  <2>2. CASE b \in LhBlocks
    <3>1. lh' = lh
      BY <1>6, <2>2 DEF LogWrite
    <3>2. Cardinality(Written) <= Cardinality(Written')
      BY <1>2, <2>1, FS_Subset
    <3> QED
      BY <1>1, <1>2, <1>3, <2>1, <3>1, <3>2
  <2>3. CASE b \notin LhBlocks
    <3>1. Len(lh') = Len(lh) + 1
      BY <1>0, <1>6, <2>3 DEF LogWrite, TypeOK
    <3>2. b \notin Written
      BY <1>0, <1>6, <2>3 DEF LogWrite, WrittenIsLogged, Written
    <3>3. Cardinality(Written') = Cardinality(Written) + 1
      BY <1>1, <2>1, <3>2, FS_AddElement
    <3> QED
      BY <1>1, <1>3, <2>1, <3>1, <3>3
  <2> QED
    BY <2>2, <2>3
<1>7. ASSUME NEW p \in Procs, EndOp(p)
      PROVE  Len(lh') + outstanding' * MaxOp <= LogSize + Cardinality(Written')
  <2>1. lh' = lh /\ outstanding' = outstanding - 1 /\ outstanding \in Nat \ {0}
    BY <1>0, <1>7, OpsCounted DEF EndOp
  <2>2. outstanding' * MaxOp = outstanding * MaxOp - MaxOp
    BY <1>3, <2>1
  <2>3. Written \subseteq Written' \cup wrote[p]
    BY <1>0, <1>7 DEF EndOp, Written, TypeOK
  <2>4. /\ IsFiniteSet(wrote[p]) /\ Cardinality(wrote[p]) \in Nat
        /\ Cardinality(wrote[p]) <= MaxOp
    BY <1>0, FS_CardinalityType DEF WrittenIsLogged
  <2>5. Cardinality(Written) <= Cardinality(Written') + Cardinality(wrote[p])
    <3>1. /\ IsFiniteSet(Written' \cup wrote[p])
          /\ Cardinality(Written' \cup wrote[p]) =
                Cardinality(Written') + Cardinality(wrote[p])
                  - Cardinality(Written' \cap wrote[p])
      BY <1>2, <2>4, FS_Union
    <3>2. Cardinality(Written' \cap wrote[p]) \in Nat
      BY <2>4, FS_Subset, FS_CardinalityType
    <3>3. Cardinality(Written) <= Cardinality(Written' \cup wrote[p])
      BY <2>3, <3>1, FS_Subset
    <3> QED
      BY <1>1, <1>2, <2>4, <3>1, <3>2, <3>3
  <2> QED
    BY <1>1, <1>2, <1>3, <2>1, <2>2, <2>4, <2>5
<1>8. ASSUME NEW p \in Procs, ClearHead(p)
      PROVE  Len(lh') + outstanding' * MaxOp <= LogSize + Cardinality(Written')
  <2>1. InOp = {}
    BY <1>0, <1>8, OneInCommit DEF ClearHead, Committer, InOp
  <2>2. lh' = <<>> /\ outstanding' = 0
    BY <1>0, <1>8, <2>1, FS_EmptySet DEF ClearHead, CommitAlone
  <2> QED
    BY <1>2, <1>3, <2>2
<1>9. CASE Crash
  BY <1>2, <1>3, <1>9 DEF Crash
<1>10. CASE ReadHead \/ RecoverClear
  <2>1. InOp = {}
    BY <1>10 DEF ReadHead, RecoverClear, IInv, Resting, InOp
  <2>2. outstanding' = 0 /\ lh' \in {<<>>, header}
    BY <1>0, <1>10, <2>1, FS_EmptySet DEF ReadHead, RecoverClear, CommitAlone
  <2>3. Len(header) \in Nat /\ Len(header) <= LogSize
    BY <1>0 DEF LogFits, TypeOK
  <2> QED
    BY <1>2, <1>3, <2>2, <2>3
<1>11. ASSUME UNCHANGED <<lh, outstanding, wrote>>
       PROVE  Len(lh') + outstanding' * MaxOp <= LogSize + Cardinality(Written')
  BY <1>3, <1>11 DEF Written
<1> QED
  BY <1>5, <1>6, <1>7, <1>8, <1>9, <1>10, <1>11
  DEF Next, Step, Recover, LogWritePanic, WriteLogBlock, WriteHead, Install,
      EndCommit, Evict, Redo, InstallBlock, vars, memory, disk

------------------------------------------------------------------------------
\* The invariant holds when the machine is first switched on.
LEMMA InitInv == Init => IInv
<1> SUFFICES ASSUME Init PROVE IInv
  OBVIOUS
<1>1. TypeOK
  <2>1. lh \in Seq(Blocks) /\ header \in Seq(Blocks)
    BY DEF Init
  <2>2. /\ cache \in [Blocks -> Data \cup {Absent}] /\ pins \in [Blocks -> Nat]
        /\ logdisk \in [1..LogSize -> Data \cup {Absent}]
        /\ pc \in [Procs -> Phases] /\ wrote \in [Procs -> SUBSET Blocks]
    BY DEF Init, EmptyCache, Phases
  <2> QED
    BY <2>1, <2>2 DEF Init, TypeOK
<1>2. InOp = {} /\ Committing = {}
  BY DEF Init, InOp, Committing, Committer
<1>3. CommitAlone
  BY <1>2, FS_EmptySet DEF Init, CommitAlone
<1>4. NoStrandedSleeper /\ Resting /\ EmptyLog
  BY DEF Init, NoStrandedSleeper, Resting, EmptyLog
<1>5. LogFits /\ LogHolds
  BY SizeAssumption DEF Init, LogFits, LogHolds
<1>6. PinnedIsPending
  BY DEF Init, PinnedIsPending, Contents, EmptyCache
<1>7. WrittenIsLogged
  BY FS_EmptySet, SizeAssumption DEF Init, WrittenIsLogged
<1>8. Reservation
  <2>1. Len(lh) = 0 /\ outstanding * MaxOp = 0
    BY SizeAssumption DEF Init
  <2>2. Cardinality(UNION {wrote[p] : p \in Procs}) = 0
    <3>1. UNION {wrote[p] : p \in Procs} = {}
      BY DEF Init
    <3> QED
      BY <3>1, FS_EmptySet
  <2> QED
    BY <2>1, <2>2, SizeAssumption DEF Reservation
<1> QED
  BY <1>1, <1>3, <1>4, <1>5, <1>6, <1>7, <1>8 DEF IInv

\* The invariant behind every theorem below holds in every reachable state.
THEOREM Invariant == Spec => []IInv
<1>1. IInv /\ [Next]_vars => IInv'
  BY TypeStep, CommitAloneStep, NoStrandedSleeperStep, RestingStep, EmptyLogStep,
     LogFitsStep, PinnedIsPendingStep, LogHoldsStep, WrittenIsLoggedStep,
     ReservationStep DEF IInv
<1> QED
  BY InitInv, <1>1, PTL DEF Spec

\* Memory and disk keep their types; in particular no buffer is unpinned below
\* zero, neither by a commit nor by recovery (log.c:78).
THEOREM TypeCorrect == Spec => []TypeOK
  BY Invariant, PTL DEF IInv

\* commit() runs in one process at a time and never beside a system call, so it
\* never writes an unfinished call's updates (log.c:12).
THEOREM CommitRunsAlone == Spec => []CommitAlone
  BY Invariant, PTL DEF IInv

\* Whoever sleeps in begin_op has a commit or a call in progress to wake it.
THEOREM SleepersAreOwedAWakeup == Spec => []NoStrandedSleeper
  BY Invariant, PTL DEF IInv

\* begin_op's reservation covers what the calls it admitted may still write.
THEOREM ReservationHolds == Spec => []Reservation
  BY Invariant, PTL DEF IInv

\* A block whose buffer differs from the disk is in the log and pinned once, so
\* recycling buffers loses no write (bio.c:77, log.c:231).
THEOREM DirtyBuffersStay == Spec => []DirtyIsPinned
<1>1. IInv => DirtyIsPinned
  <2> SUFFICES ASSUME IInv, mode = "up", NEW b \in Blocks
               PROVE  /\ Contents(b) # home[b] => b \in LhBlocks /\ pins[b] > 0
                      /\ pins[b] \in 0..1
    BY DEF DirtyIsPinned
  <2>1. Pending \subseteq LhBlocks
    BY DEF Pending, LhBlocks
  <2> QED
    BY <2>1 DEF IInv, PinnedIsPending
<1> QED
  BY Invariant, <1>1, PTL

------------------------------------------------------------------------------
\* The log makes system calls atomic: it implements AtomicDisk.  Recovery depends
\* on the header, the log blocks it names and the other home blocks; each step
\* leaves what it would produce as it is, but for the write of the header, which
\* turns it into the calls' view.

DInv == IInv /\ HeaderIsLog

\* The header is written, installed and cleared as the log in memory is.
LEMMA HeaderIsLogStep ==
    ASSUME DInv, [Next]_vars
    PROVE  HeaderIsLog'
<1> USE DEF DInv, HeaderIsLog, memory, disk
<1>1. ASSUME NEW p \in Procs, BeginOp(p) PROVE HeaderIsLog'
  BY <1>1 DEF BeginOp, IInv, TypeOK
<1>2. ASSUME NEW p \in Procs, NEW b \in Blocks, NEW v \in Data, LogWrite(p, b, v)
      PROVE  HeaderIsLog'
  <2>1. \A q \in Procs : pc[q] # "install"
    BY <1>2, OneInCommit DEF LogWrite, IInv, Committer
  <2> QED
    BY <1>2, <2>1 DEF LogWrite
<1>3. ASSUME NEW p \in Procs, NEW b \in Blocks, LogWritePanic(p, b) PROVE HeaderIsLog'
  BY <1>3 DEF LogWritePanic
<1>4. ASSUME NEW p \in Procs, EndOp(p) PROVE HeaderIsLog'
  <2>1. \A q \in Procs : pc[q] # "install" /\ pc'[q] # "install"
    BY <1>4, OneInCommit DEF EndOp, IInv, Committer, TypeOK, Woken
  <2> QED
    BY <1>4, <2>1 DEF EndOp
<1>5. ASSUME NEW p \in Procs, WriteLogBlock(p) PROVE HeaderIsLog'
  BY <1>5 DEF WriteLogBlock
<1>6. ASSUME NEW p \in Procs, WriteHead(p) PROVE HeaderIsLog'
  BY <1>6 DEF WriteHead, IInv, TypeOK
<1>7. ASSUME NEW p \in Procs, Install(p) PROVE HeaderIsLog'
  BY <1>7 DEF Install, InstallBlock
<1>8. ASSUME NEW p \in Procs, ClearHead(p) PROVE HeaderIsLog'
  BY <1>8 DEF ClearHead, IInv, TypeOK
<1>9. ASSUME NEW p \in Procs, EndCommit(p) PROVE HeaderIsLog'
  <2>1. \A q \in Procs : pc[q] # "install" /\ pc'[q] # "install"
    BY <1>9, OneInCommit DEF EndCommit, IInv, Committer, TypeOK, Woken
  <2> QED
    BY <1>9, <2>1 DEF EndCommit
<1>10. ASSUME NEW b \in Blocks, Evict(b) PROVE HeaderIsLog'
  BY <1>10 DEF Evict
<1>11. ASSUME Crash PROVE HeaderIsLog'
  BY <1>11 DEF Crash
<1>12. ASSUME ReadHead PROVE HeaderIsLog'
  BY <1>12 DEF ReadHead, IInv, TypeOK
<1>13. ASSUME Redo PROVE HeaderIsLog'
  <2>1. header' = lh' /\ lh' = lh /\ logdisk' = logdisk /\ mode' = mode
    BY <1>13 DEF Redo
  <2>2. ASSUME NEW i \in 1..Len(lh), i <= tail + 1 PROVE home'[lh[i]] = logdisk[i]
    <3>1. lh[i] \in Blocks /\ lh[tail + 1] \in Blocks /\ tail + 1 \in 1..Len(lh)
      BY <1>13, LhType DEF Redo, InstallBlock, IInv, TypeOK
    <3>2. lh[i] = lh[tail + 1] => i = tail + 1
      BY <3>1 DEF IInv, LogFits
    <3> QED
      BY <1>13, <2>2, <3>1, <3>2 DEF Redo, InstallBlock, IInv, TypeOK
  <2> QED
    BY <1>13, <2>1, <2>2 DEF Redo, InstallBlock, IInv, TypeOK
<1>14. ASSUME RecoverClear PROVE HeaderIsLog'
  BY <1>14 DEF RecoverClear, IInv, Resting
<1>15. ASSUME UNCHANGED vars PROVE HeaderIsLog'
  BY <1>15 DEF vars
<1> QED
  BY <1>1, <1>2, <1>3, <1>4, <1>5, <1>6, <1>7, <1>8, <1>9, <1>10, <1>11, <1>12,
     <1>13, <1>14, <1>15
  DEF Next, Step, Recover

\* The invariant of the refinement.
THEOREM HeaderInvariant == Spec => []DInv
<1>1. Init => HeaderIsLog
  BY DEF Init, HeaderIsLog
<1>2. DInv /\ [Next]_vars => HeaderIsLog'
  BY HeaderIsLogStep
<1> QED
  BY Invariant, <1>1, <1>2, PTL DEF Spec, DInv

------------------------------------------------------------------------------
\* What recovery produces.

\* The blocks of a header, and the log block of each.
Names(h) == {h[i] : i \in 1..Len(h)}

\* A block of the header has one log block, which holds data.
LEMMA RecoveredAt ==
    ASSUME DInv
    PROVE  /\ \A i \in 1..Len(header) : Recovered[header[i]] = logdisk[i]
           /\ \A b \in Blocks \ Names(header) : Recovered[b] = home[b]
           /\ Recovered \in [Blocks -> Data]
<1>1. \A i \in 1..Len(header) : header[i] \in Blocks /\ logdisk[i] \in Data
  BY DEF DInv, IInv, TypeOK, LogHolds
<1>2. ASSUME NEW i \in 1..Len(header) PROVE Recovered[header[i]] = logdisk[i]
  <2>1. (CHOOSE j \in 1..Len(header) : header[j] = header[i]) = i
    BY DEF DInv, IInv, LogFits
  <2> QED
    BY <1>1, <2>1 DEF Recovered
<1>3. \A b \in Blocks \ Names(header) : Recovered[b] = home[b]
  BY DEF Recovered, Names
<1>4. Recovered \in [Blocks -> Data]
  <2>1. ASSUME NEW b \in Blocks PROVE Recovered[b] \in Data
    <3>1. CASE b \in Names(header)
      BY <1>1, <1>2, <3>1 DEF Names
    <3>2. CASE b \notin Names(header)
      BY <1>3, <3>2 DEF DInv, IInv, TypeOK
    <3> QED
      BY <3>1, <3>2
  <2> QED
    BY <2>1 DEF Recovered
<1> QED
  BY <1>2, <1>3, <1>4

\* What each block recovers to settles the whole disk.
LEMMA RecoveredIs ==
    ASSUME DInv, NEW f, f = [b \in Blocks |-> f[b]],
           \A i \in 1..Len(header) : f[header[i]] = logdisk[i],
           \A b \in Blocks \ Names(header) : f[b] = home[b]
    PROVE  Recovered = f
<1>1. ASSUME NEW b \in Blocks PROVE Recovered[b] = f[b]
  BY RecoveredAt DEF Names
<1> QED
  BY <1>1 DEF Recovered

\* While a commit installs the log, and when the log is empty, a crash would lose
\* nothing of what the calls see.
LEMMA RecoveredIsView ==
    ASSUME DInv, mode \in {"up", "panic"},
           lh = <<>> \/ \E p \in Procs : pc[p] = "install"
    PROVE  Recovered = View
<1>1. header = lh /\ View = [b \in Blocks |-> Contents(b)]
  BY DEF DInv, HeaderIsLog, View
<1>2. \A i \in 1..Len(header) : View[header[i]] = logdisk[i]
  BY <1>1, LhType DEF DInv, IInv, LogHolds
<1>3. ASSUME NEW b \in Blocks \ Names(header) PROVE View[b] = home[b]
  <2>1. b \notin Pending
    BY <1>1 DEF Pending, Names
  <2> QED
    BY <1>1, <2>1 DEF DInv, IInv, PinnedIsPending
<1> QED
  BY <1>1, <1>2, <1>3, RecoveredIs

\* The same of the next state.
LEMMA RecoveredIsViewNext ==
    (/\ DInv /\ mode \in {"up", "panic"}
     /\ lh = <<>> \/ \E p \in Procs : pc[p] = "install"
     => Recovered = View)'
<1>1. (/\ DInv /\ mode \in {"up", "panic"}
       /\ lh = <<>> \/ \E p \in Procs : pc[p] = "install"
       => Recovered = View)
  BY RecoveredIsView
<1> QED
  BY <1>1, PTL

\* When every call has ended and nothing is being committed, a crash loses nothing:
\* what the calls wrote is what recovery would bring back (log.c:146, end_op).
THEOREM QuietDisk == Spec => []QuietIsDurable
<1>1. DInv => QuietIsDurable
  BY RecoveredIsView DEF DInv, IInv, EmptyLog, QuietIsDurable
<1> QED
  BY HeaderInvariant, <1>1, PTL

------------------------------------------------------------------------------
\* The refinement: one lemma per kind of step.

\* What recovery and the calls see depends on these variables only.
LEMMA SameDisk == UNCHANGED disk => Recovered' = Recovered
  BY DEF disk, Recovered

LEMMA SameView ==
    ASSUME UNCHANGED <<cache, disk>>,
           mode' = mode \/ {mode, mode'} \subseteq {"up", "panic"}
           \/ {mode, mode'} \subseteq {"boot", "redo"}
    PROVE  View' = View
<1>1. \A b \in Blocks : Contents(b)' = Contents(b)
  BY DEF Contents, disk
<1> QED
  BY <1>1, SameDisk DEF View

\* begin_op lets a call in, or puts it to sleep.
LEMMA BeginIsBegin ==
    ASSUME DInv, NEW p \in Procs, BeginOp(p)
    PROVE  Abstract!Begin \/ UNCHANGED <<Recovered, View, outstanding>>
  BY SameDisk, SameView DEF BeginOp, Abstract!Begin

\* A write of a call is one of the abstract disk, seen at once and durable later.
LEMMA LogWriteIsWrite ==
    ASSUME DInv, NEW p \in Procs, NEW b \in Blocks, NEW v \in Data, LogWrite(p, b, v)
    PROVE  Abstract!Write
<1>1. View = [c \in Blocks |-> Contents(c)] /\ View' = [c \in Blocks |-> Contents(c)']
  BY DEF LogWrite, View
<1>2. ASSUME NEW c \in Blocks PROVE Contents(c)' = IF c = b THEN v ELSE Contents(c)
  BY DataAssumption DEF LogWrite, Contents, DInv, IInv, TypeOK, disk
<1>3. View' = [View EXCEPT ![b] = v]
  BY <1>1, <1>2
<1>4. outstanding \in Nat /\ outstanding > 0
  BY DEF LogWrite, DInv, IInv, TypeOK
<1> QED
  BY <1>3, <1>4, SameDisk DEF LogWrite, Abstract!Write

\* end_op ends the call, whether it commits or not.
LEMMA EndIsEnd ==
    ASSUME DInv, NEW p \in Procs, EndOp(p)
    PROVE  Abstract!End
<1>1. outstanding > 0
  BY OpsCounted DEF EndOp, DInv, IInv
<1>2. UNCHANGED <<cache, disk>> /\ mode = "up" /\ mode' \in {"up", "panic"}
  BY DEF EndOp
<1>3. Recovered' = Recovered /\ View' = View
  BY <1>2, SameDisk, SameView
<1> QED
  BY <1>1, <1>3 DEF EndOp, Abstract!End

\* A block of the log that the header does not name yet is not read by recovery.
LEMMA LogBlockIsStutter ==
    ASSUME DInv, NEW p \in Procs, WriteLogBlock(p)
    PROVE  UNCHANGED <<Recovered, View, outstanding>>
<1>1. header = <<>> /\ header' = header /\ home' = home
  BY OneInCommit DEF WriteLogBlock, DInv, IInv, HeaderIsLog, Committer
<1>2. Recovered' = Recovered
  BY <1>1 DEF Recovered
<1>3. ASSUME NEW b \in Blocks PROVE Contents(b)' = Contents(b)
  <2>1. lh[tail + 1] \in Blocks /\ Contents(lh[tail + 1]) # Absent
    BY LhType, ContentsType, DataAssumption DEF WriteLogBlock, DInv, IInv, TypeOK
  <2> QED
    BY <2>1 DEF WriteLogBlock, Contents, DInv, IInv, TypeOK
<1> QED
  BY <1>2, <1>3 DEF WriteLogBlock, View

\* The write of the header commits: what the calls see becomes durable.
LEMMA HeadIsSync ==
    ASSUME DInv, DInv', NEW p \in Procs, WriteHead(p)
    PROVE  Abstract!Sync
<1>1. outstanding = 0
  BY OneInCommit, FS_EmptySet DEF WriteHead, DInv, IInv, CommitAlone, InOp, Committer
<1>2. View' = View
  <2>1. \A b \in Blocks : Contents(b)' = Contents(b)
    BY DEF WriteHead, Contents
  <2> QED
    BY <2>1 DEF WriteHead, View
<1>3. Recovered' = View'
  <2>1. mode' = "up" /\ pc'[p] = "install"
    BY DEF WriteHead, DInv, IInv, TypeOK
  <2> QED
    BY <2>1, RecoveredIsViewNext
<1> QED
  BY <1>1, <1>2, <1>3 DEF WriteHead, Abstract!Sync

\* Install writes to a home what recovery would write there, and to its buffer what
\* it holds already.
LEMMA InstallIsStutter ==
    ASSUME DInv, DInv', NEW p \in Procs, Install(p)
    PROVE  UNCHANGED <<Recovered, View, outstanding>>
<1>1. mode = "up" /\ mode' = "up" /\ pc[p] = "install" /\ pc'[p] = "install"
  BY DEF Install
<1>2. Recovered = View
  BY <1>1, RecoveredIsView
<1>3. Recovered' = View'
  BY <1>1, RecoveredIsViewNext
<1>4. ASSUME NEW b \in Blocks PROVE Contents(b)' = Contents(b)
  <2>1. /\ tail + 1 \in 1..Len(lh) /\ lh[tail + 1] \in Blocks
        /\ logdisk[tail + 1] = Contents(lh[tail + 1]) /\ logdisk[tail + 1] \in Data
    BY LhType, ContentsType
    DEF Install, InstallBlock, DInv, IInv, TypeOK, LogHolds
  <2>2. TypeOK /\ InstallBlock
    BY DEF Install, DInv, IInv
  <2> QED
    BY <2>1, <2>2, InstallBlockEffect
<1>5. View' = View
  BY <1>1, <1>4 DEF View
<1> QED
  BY <1>2, <1>3, <1>5 DEF Install

\* When the log is installed its header is no longer needed.
LEMMA ClearHeadIsStutter ==
    ASSUME DInv, DInv', NEW p \in Procs, ClearHead(p)
    PROVE  UNCHANGED <<Recovered, View, outstanding>>
<1>1. /\ mode = "up" /\ mode' = "up" /\ pc[p] = "install" /\ lh' = <<>>
      /\ UNCHANGED <<cache, home, outstanding>>
  BY DEF ClearHead
<1>2. Recovered = View
  BY <1>1, RecoveredIsView
<1>3. Recovered' = View'
  BY <1>1, RecoveredIsViewNext
<1>4. View' = View
  BY <1>1 DEF View, Contents
<1> QED
  BY <1>1, <1>2, <1>3, <1>4

\* A block that is not pinned is on disk as it is in its buffer.
LEMMA EvictIsStutter ==
    ASSUME DInv, NEW b \in Blocks, Evict(b)
    PROVE  UNCHANGED <<Recovered, View, outstanding>>
<1>1. \A c \in Blocks : Contents(c)' = Contents(c)
  BY EvictKeepsContents DEF DInv
<1>2. View' = View
  BY <1>1 DEF Evict, View
<1> QED
  BY <1>2, SameDisk DEF Evict

\* After a crash the calls see what was durable.
LEMMA CrashIsCrash == Crash => Abstract!Crash
<1> SUFFICES ASSUME Crash PROVE Abstract!Crash
  OBVIOUS
<1>1. Recovered' = Recovered /\ View' = Recovered'
  BY SameDisk DEF Crash, View
<1> QED
  BY <1>1 DEF Crash, Abstract!Crash

\* A turn of the redo loop writes home what recovery is to write there, however
\* often it is interrupted.
LEMMA RedoIsStutter ==
    ASSUME DInv, DInv', Redo
    PROVE  UNCHANGED <<Recovered, View, outstanding>>
<1>1. mode = "redo" /\ mode' = "redo" /\ UNCHANGED <<header, logdisk, outstanding>>
  BY DEF Redo
<1>2. /\ header = lh /\ tail + 1 \in 1..Len(lh) /\ lh[tail + 1] \in Blocks
  BY <1>1, LhType DEF Redo, InstallBlock, DInv, IInv, TypeOK, HeaderIsLog
<1>3. ASSUME NEW b \in Blocks \ Names(header) PROVE home'[b] = home[b]
  BY <1>2 DEF Redo, InstallBlock, Names, DInv, IInv, TypeOK
<1>4. Recovered' = Recovered
  BY <1>1, <1>3 DEF Recovered, Names
<1> QED
  BY <1>1, <1>4 DEF View

\* When the loop is over the homes are what recovery was to produce.
LEMMA RecoverClearIsStutter ==
    ASSUME DInv, DInv', RecoverClear
    PROVE  UNCHANGED <<Recovered, View, outstanding>>
<1>1. /\ mode = "redo" /\ mode' = "up" /\ lh' = <<>> /\ header = lh
      /\ UNCHANGED <<cache, home, logdisk, outstanding>>
  BY DEF RecoverClear, DInv, HeaderIsLog
<1>2. View = Recovered
  BY <1>1 DEF View
<1>3. Recovered' = View'
  BY <1>1, RecoveredIsViewNext
<1>4. \A b \in Blocks : Contents(b) = home[b]
  BY <1>1 DEF DInv, IInv, Resting, PinnedIsPending
<1>5. \A b \in Blocks : Contents(b)' = home[b]
  BY <1>1, <1>4 DEF Contents
<1>6. View' = home
  BY <1>1, <1>5 DEF View, DInv, IInv, TypeOK
<1>7. Recovered = home
  <2>1. \A i \in 1..Len(header) : home[header[i]] = logdisk[i]
    BY <1>1 DEF RecoverClear, LoopDone, DInv, HeaderIsLog, IInv, TypeOK
  <2>2. home = [b \in Blocks |-> home[b]]
    BY DEF DInv, IInv, TypeOK
  <2> QED
    BY <2>1, <2>2, RecoveredIs
<1> QED
  BY <1>1, <1>2, <1>3, <1>6, <1>7

\* The log starts with the calls seeing what is on disk.
LEMMA InitIsInit == Init => Abstract!Init
<1> SUFFICES ASSUME Init PROVE Abstract!Init
  OBVIOUS
<1>1. Recovered = home
  <2>1. \A b \in Blocks : ~\E i \in 1..Len(header) : header[i] = b
    BY DEF Init
  <2>2. home = [b \in Blocks |-> home[b]]
    BY DEF Init
  <2> QED
    BY <2>1, <2>2 DEF Recovered
<1>2. View = Recovered
  BY DEF Init, View
<1> QED
  BY <1>1, <1>2 DEF Init, Abstract!Init

\* Every step of the log is one of the abstract disk, or leaves it as it is.
LEMMA StepRefines ==
    ASSUME DInv, DInv', [Next]_vars
    PROVE  [Abstract!Next]_<<Recovered, View, outstanding>>
<1> USE DEF Abstract!Next
<1>1. ASSUME NEW p \in Procs, BeginOp(p)
      PROVE  [Abstract!Next]_<<Recovered, View, outstanding>>
  BY <1>1, BeginIsBegin
<1>2. ASSUME NEW p \in Procs, NEW b \in Blocks, NEW v \in Data, LogWrite(p, b, v)
      PROVE  [Abstract!Next]_<<Recovered, View, outstanding>>
  BY <1>2, LogWriteIsWrite
<1>3. ASSUME NEW p \in Procs, NEW b \in Blocks, LogWritePanic(p, b)
      PROVE  [Abstract!Next]_<<Recovered, View, outstanding>>
  BY <1>3, SameDisk, SameView DEF LogWritePanic, memory
<1>4. ASSUME NEW p \in Procs, EndOp(p)
      PROVE  [Abstract!Next]_<<Recovered, View, outstanding>>
  BY <1>4, EndIsEnd
<1>5. ASSUME NEW p \in Procs, WriteLogBlock(p)
      PROVE  [Abstract!Next]_<<Recovered, View, outstanding>>
  BY <1>5, LogBlockIsStutter
<1>6. ASSUME NEW p \in Procs, WriteHead(p)
      PROVE  [Abstract!Next]_<<Recovered, View, outstanding>>
  BY <1>6, HeadIsSync
<1>7. ASSUME NEW p \in Procs, Install(p)
      PROVE  [Abstract!Next]_<<Recovered, View, outstanding>>
  BY <1>7, InstallIsStutter
<1>8. ASSUME NEW p \in Procs, ClearHead(p)
      PROVE  [Abstract!Next]_<<Recovered, View, outstanding>>
  BY <1>8, ClearHeadIsStutter
<1>9. ASSUME NEW p \in Procs, EndCommit(p)
      PROVE  [Abstract!Next]_<<Recovered, View, outstanding>>
  BY <1>9, SameDisk, SameView DEF EndCommit
<1>10. ASSUME NEW b \in Blocks, Evict(b)
       PROVE  [Abstract!Next]_<<Recovered, View, outstanding>>
  BY <1>10, EvictIsStutter
<1>11. ASSUME Crash PROVE [Abstract!Next]_<<Recovered, View, outstanding>>
  BY <1>11, CrashIsCrash
<1>12. ASSUME ReadHead PROVE [Abstract!Next]_<<Recovered, View, outstanding>>
  BY <1>12, SameDisk, SameView DEF ReadHead
<1>13. ASSUME Redo PROVE [Abstract!Next]_<<Recovered, View, outstanding>>
  BY <1>13, RedoIsStutter
<1>14. ASSUME RecoverClear PROVE [Abstract!Next]_<<Recovered, View, outstanding>>
  BY <1>14, RecoverClearIsStutter
<1>15. ASSUME UNCHANGED vars PROVE [Abstract!Next]_<<Recovered, View, outstanding>>
  BY <1>15, SameDisk, SameView DEF vars, memory, disk
<1> QED
  BY <1>1, <1>2, <1>3, <1>4, <1>5, <1>6, <1>7, <1>8, <1>9, <1>10, <1>11, <1>12,
     <1>13, <1>14, <1>15
  DEF Next, Step, Recover

\* The log implements the disk of AtomicDisk: after a crash at any moment, of a
\* commit or of a recovery, each system call is there entirely or not at all
\* (log.c:12-15).
THEOREM Refinement == Spec => Atomic
<1>1. Init => Abstract!Init
  BY InitIsInit
<1>2. DInv /\ DInv' /\ [Next]_vars => [Abstract!Next]_<<Recovered, View, outstanding>>
  BY StepRefines
<1> QED
  BY HeaderInvariant, <1>1, <1>2, PTL DEF Spec, Atomic, Abstract!Spec
==============================================================================
