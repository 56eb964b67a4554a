------------------------------- MODULE PipeProofs -------------------------------
(***************************************************************************)
(* Theorems about the processes and the pipe of Pipe, for any number of     *)
(* processes and CPUs, any size of the ring and any range of its counters.  *)
(***************************************************************************)
EXTENDS PipeInvariant, FiniteSetTheorems, TLAPS

------------------------------------------------------------------------------
\* Arithmetic of the counters, which wrap.
LEMMA Modulo ==
    ASSUME NEW x \in Int, NEW C \in Nat, C > 0
    PROVE /\ x % C \in 0..C - 1
          /\ 0 <= x /\ x < C => x % C = x
          /\ 0 <= x + C /\ x < 0 => x % C = x + C
          /\ C <= x /\ x < C + C => x % C = x - C
<1>1. x % C \in 0..C - 1  OBVIOUS
<1>2. 0 <= x /\ x < C => x % C = x  OBVIOUS
<1>3. 0 <= x + C /\ x < 0 => x % C = x + C  OBVIOUS
<1>4. C <= x /\ x < C + C => x % C = x - C  OBVIOUS
<1> QED BY <1>1, <1>2, <1>3, <1>4

\* A counter wraps at most once in a step.
LEMMA WrapOnce ==
    ASSUME NEW x \in 0..CounterRange - 1, NEW k \in 0..CounterRange
    PROVE (x + k) % CounterRange =
              IF x + k < CounterRange THEN x + k ELSE x + k - CounterRange
<1>1. PICK y \in Int : y = x + k  BY PipeAssumption
<1>2. CASE y < CounterRange  BY <1>1, <1>2, Modulo, PipeAssumption
<1>3. CASE y >= CounterRange  BY <1>1, <1>3, Modulo, PipeAssumption
<1> QED BY <1>1, <1>2, <1>3, PipeAssumption

\* An advanced counter stays in its range.
LEMMA AdvanceType ==
    ASSUME NEW x \in 0..CounterRange - 1, NEW n \in Nat
    PROVE Advance(x, n) \in 0..CounterRange - 1
BY Modulo, PipeAssumption DEF Advance

\* The bytes in the ring, by the two counters.
LEMMA UsedValue ==
    ASSUME pi \in Pipes
    PROVE /\ Used = IF pi.nread <= pi.nwrite THEN pi.nwrite - pi.nread
                    ELSE pi.nwrite - pi.nread + CounterRange
          /\ Used \in 0..CounterRange - 1
          /\ pi.nread \in 0..CounterRange - 1 /\ pi.nwrite \in 0..CounterRange - 1
<1>1. pi.nread \in 0..CounterRange - 1 /\ pi.nwrite \in 0..CounterRange - 1
  BY DEF Pipes
<1>2. CASE pi.nread <= pi.nwrite  BY <1>1, <1>2, Modulo, PipeAssumption DEF Used
<1>3. CASE pi.nread > pi.nwrite  BY <1>1, <1>3, Modulo, PipeAssumption DEF Used
<1> QED BY <1>1, <1>2, <1>3, PipeAssumption

\* The same of the next state.
LEMMA UsedValueNext ==
    ASSUME pi' \in Pipes
    PROVE Used' = IF pi'.nread <= pi'.nwrite THEN pi'.nwrite - pi'.nread
                  ELSE pi'.nwrite - pi'.nread + CounterRange
<1>1. pi'.nread \in 0..CounterRange - 1 /\ pi'.nwrite \in 0..CounterRange - 1
  BY DEF Pipes
<1>2. CASE pi'.nread <= pi'.nwrite  BY <1>1, <1>2, Modulo, PipeAssumption DEF Used
<1>3. CASE pi'.nread > pi'.nwrite  BY <1>1, <1>3, Modulo, PipeAssumption DEF Used
<1> QED BY <1>1, <1>2, <1>3, PipeAssumption

\* No bytes wait if and only if the counters agree, reading all bytes empties the ring,
\* and the test for a full one counts right.
LEMMA UsedFacts ==
    ASSUME pi \in Pipes
    PROVE /\ Used \in 0..CounterRange - 1
          /\ Used = 0 <=> IsEmpty
          /\ Advance(pi.nread, Used) = pi.nwrite
          /\ Used <= PIPESIZE => (IsFull <=> Used = PIPESIZE)
<1> USE UsedValue, PipeAssumption
<1>0. /\ pi.nread \in 0..CounterRange - 1
      /\ Used \in 0..CounterRange /\ PIPESIZE \in 0..CounterRange
  OBVIOUS
<1>1. Used = 0 <=> IsEmpty  BY DEF IsEmpty
<1>2. Advance(pi.nread, Used) = pi.nwrite
  <2>1. (pi.nread + Used) % CounterRange =
            IF pi.nread + Used < CounterRange THEN pi.nread + Used
            ELSE pi.nread + Used - CounterRange
    BY <1>0, WrapOnce
  <2> QED BY <2>1 DEF Advance
<1>3. (pi.nread + PIPESIZE) % CounterRange =
          IF pi.nread + PIPESIZE < CounterRange THEN pi.nread + PIPESIZE
          ELSE pi.nread + PIPESIZE - CounterRange
  BY <1>0, WrapOnce
<1>4. Used <= PIPESIZE => (IsFull <=> Used = PIPESIZE)  BY <1>3 DEF IsFull
<1> QED BY <1>1, <1>2, <1>4

\* What a system call does to the pipe leaves a pipe.
LEMMA Updates ==
    ASSUME pi \in Pipes
    PROVE /\ \A b \in Byte : [pi EXCEPT !.data[pi.nwrite % PIPESIZE] = b,
                                        !.nwrite = Advance(@, 1)] \in Pipes
          /\ \A n \in Nat : [pi EXCEPT !.nread = Advance(@, n)] \in Pipes
          /\ \A e \in Ends : Closed(e) \in Pipes
<1>1. pi.nread \in 0..CounterRange - 1 /\ pi.nwrite \in 0..CounterRange - 1  BY DEF Pipes
<1>2. \A n \in Nat : [pi EXCEPT !.nread = Advance(@, n)] \in Pipes
  BY <1>1, AdvanceType DEF Pipes
<1>3. ASSUME NEW b \in Byte
      PROVE [pi EXCEPT !.data[pi.nwrite % PIPESIZE] = b, !.nwrite = Advance(@, 1)] \in Pipes
  <2>1. Advance(pi.nwrite, 1) \in 0..CounterRange - 1  BY <1>1, AdvanceType
  <2>2. [pi.data EXCEPT ![pi.nwrite % PIPESIZE] = b] \in [0..PIPESIZE - 1 -> Byte]
    BY DEF Pipes
  <2> QED BY <2>1, <2>2 DEF Pipes
<1>4. \A e \in Ends : Closed(e) \in Pipes  BY DEF Closed, Pipes
<1> QED BY <1>2, <1>3, <1>4

\* Who reads, writes, waits for the pipe or closes an end has a pipe.
LEMMA PipeThere ==
    ASSUME Inv, NEW p \in Procs,
           \/ closing[p] # None \/ chan[p] \in {"nread", "nwrite"}
           \/ at[p] \in {"read", "read_sleep", "write", "writing", "write_sleep"}
    PROVE pi \in Pipes
<1>1. closing[p] # None => pi # None
  BY DEF Inv, TypeOK, Files, IsOpen
<1>2. at[p] \in {"read", "read_sleep"} \/ chan[p] = "nread" => pi # None
  BY DEF Inv, Files, InPipe, IsOpen, Ends
<1>3. at[p] \in {"write", "writing", "write_sleep"} \/ chan[p] = "nwrite" => pi # None
  BY DEF Inv, Files, InPipe, IsOpen, Ends
<1> QED BY <1>1, <1>2, <1>3 DEF Inv, TypeOK

\* The holders of an end can be counted.
LEMMA HoldersFinite == ASSUME NEW e PROVE IsFiniteSet(Holders(e))
BY ProcAssumption, FS_Subset DEF Holders

\* The references of an end count its holders.
LEMMA HeldOnce ==
    ASSUME Inv, NEW e \in Ends
    PROVE /\ \A p \in Procs : e \in ofile[p] => ref[e] \in Nat /\ ref[e] >= 1
          /\ \A p \in Procs : e \in ofile[p] /\ ref[e] = 1 => Holders(e) = {p}
          /\ ref[e] = 0 <=> Holders(e) = {}
<1>1. IsFiniteSet(Holders(e)) /\ ref[e] = Cardinality(Holders(e)) /\ ref[e] \in Nat
  BY HoldersFinite DEF Inv, Counted, TypeOK
<1>2. ref[e] = 0 <=> Holders(e) = {}  BY <1>1, FS_EmptySet
<1>3. ASSUME NEW p \in Procs, e \in ofile[p] PROVE ref[e] >= 1
  <2>1. p \in Holders(e)  BY <1>3 DEF Holders
  <2> QED BY <1>1, <1>2, <2>1
<1>4. ASSUME NEW p \in Procs, e \in ofile[p], ref[e] = 1 PROVE Holders(e) = {p}
  <2>1. PICK x : Holders(e) = {x}  BY <1>1, <1>4, FS_Singleton
  <2> QED BY <1>4, <2>1 DEF Holders
<1> QED BY <1>1, <1>2, <1>3, <1>4

\* What pipealloc makes is a pipe with both ends open.
LEMMA NewPipe ==
    ASSUME NEW p, PipeAlloc(p) PROVE pi' \in Pipes /\ pi'.readopen /\ pi'.writeopen
<1>1. PICK data \in [0..PIPESIZE - 1 -> {CHOOSE b \in Byte : TRUE}] :
         pi' = [data |-> data, nread |-> 0, nwrite |-> 0,
                readopen |-> TRUE, writeopen |-> TRUE]
  BY DEF PipeAlloc
<1>2. (CHOOSE b \in Byte : TRUE) \in Byte  BY PipeAssumption
<1>3. data \in [0..PIPESIZE - 1 -> Byte]  BY <1>2
<1> QED BY <1>1, <1>3, PipeAssumption DEF Pipes

\* A step leaves a pipe, or none.
LEMMA PiNext ==
    ASSUME Inv, NEW p \in Procs, Step(p) PROVE pi' \in Pipes \cup {None}
<1>1. pi \in Pipes \cup {None}  BY DEF Inv, TypeOK
<1>2. CASE ForkStep(p) \/ ExitStep(p) \/ WaitStep(p) \/ SchedStep(p) \/ KillStep(p)
  BY <1>1, <1>2 DEF ForkStep, ExitStep, WaitStep, SchedStep, KillStep, Fork, OnlyProc, pipeVars
<1>3. CASE PipeAlloc(p)  BY <1>3, NewPipe
<1>4. CASE PipeClose(p)
  <2>1. closing[p] \in Ends /\ pi \in Pipes
    BY <1>4, PipeThere DEF PipeClose, Inv, TypeOK
  <2> QED BY <1>4, <2>1, Updates DEF PipeClose
<1>5. CASE \E e \in Ends : FileClose(p, e)  BY <1>1, <1>5 DEF FileClose
<1>6. ASSUME NEW b \in Byte, WriteByte(p, b) PROVE pi' \in Pipes
  <2>1. pi \in Pipes  BY <1>6, PipeThere DEF WriteByte, Writing
  <2> QED BY <1>6, <2>1, Updates DEF WriteByte
<1>7. CASE WriteStep(p)
  BY <1>1, <1>6, <1>7 DEF WriteStep, Write, EntersAt, WriteFails, WriteFull, WriteSleep, WriteDone
<1>8. ASSUME NEW n \in 1..MaxWrite, ReadCopy(p, n) PROVE pi' \in Pipes
  <2>1. pi \in Pipes  BY <1>8, PipeThere DEF ReadCopy, Reading
  <2>2. n \in Nat /\ Used \in Nat  BY <2>1, UsedFacts, PipeAssumption
  <2> QED BY <1>8, <2>1, <2>2, Updates DEF ReadCopy
<1>9. CASE ReadStep(p)
  BY <1>1, <1>8, <1>9 DEF ReadStep, Read, OnlyProc, pipeVars, ReadEmpty, ReadSleep
<1> QED BY <1>2, <1>3, <1>4, <1>5, <1>7, <1>9 DEF Step, FileStep

\* Which ends are open after the steps that change the pipe.
LEMMA OpenNext ==
    ASSUME Inv, NEW p \in Procs
    PROVE /\ UNCHANGED pi => \A e \in Ends : IsOpen(e)' = IsOpen(e)
          /\ \A b \in Byte : WriteByte(p, b) => \A e \in Ends : IsOpen(e)' = IsOpen(e)
          /\ \A n \in 1..MaxWrite : ReadCopy(p, n) => \A e \in Ends : IsOpen(e)' = IsOpen(e)
          /\ PipeClose(p) => \A e \in Ends : e # closing[p] /\ IsOpen(e) => IsOpen(e)'
          /\ PipeAlloc(p) => \A e \in Ends : IsOpen(e)'
<1>1. UNCHANGED pi => \A e \in Ends : IsOpen(e)' = IsOpen(e)  BY DEF IsOpen
<1>2. ASSUME NEW b \in Byte, WriteByte(p, b) PROVE \A e \in Ends : IsOpen(e)' = IsOpen(e)
  <2>1. pi \in Pipes  BY <1>2, PipeThere DEF WriteByte, Writing
  <2>2. pi' \in Pipes  BY <1>2, <2>1, Updates DEF WriteByte
  <2>3. pi'.readopen = pi.readopen /\ pi'.writeopen = pi.writeopen
    BY <1>2, <2>1 DEF WriteByte, Pipes
  <2> QED BY <2>1, <2>2, <2>3, NoneAssumption DEF IsOpen
<1>3. ASSUME NEW n \in 1..MaxWrite, ReadCopy(p, n)
      PROVE \A e \in Ends : IsOpen(e)' = IsOpen(e)
  <2>1. pi \in Pipes  BY <1>3, PipeThere DEF ReadCopy, Reading
  <2>2. n \in Nat /\ Used \in Nat  BY <2>1, UsedFacts, PipeAssumption
  <2>3. pi' \in Pipes  BY <1>3, <2>1, <2>2, Updates DEF ReadCopy
  <2>4. pi'.readopen = pi.readopen /\ pi'.writeopen = pi.writeopen
    BY <1>3, <2>1 DEF ReadCopy, Pipes
  <2> QED BY <2>1, <2>3, <2>4, NoneAssumption DEF IsOpen
<1>4. ASSUME PipeClose(p), NEW e \in Ends, e # closing[p], IsOpen(e) PROVE IsOpen(e)'
  <2>1. closing[p] \in Ends /\ pi \in Pipes
    BY <1>4, PipeThere DEF PipeClose, Inv, TypeOK
  <2>2. Closed(closing[p]) \in Pipes /\ Closed(closing[p]) # None
    BY <2>1, Updates, NoneAssumption
  <2>3. IF e = "r" THEN Closed(closing[p]).readopen ELSE Closed(closing[p]).writeopen
    BY <1>4, <2>1 DEF IsOpen, Closed, Ends, Pipes
  <2> QED BY <1>4, <2>2, <2>3 DEF PipeClose, IsOpen
<1>5. ASSUME PipeAlloc(p) PROVE \A e \in Ends : IsOpen(e)'
  BY <1>5, NewPipe, NoneAssumption DEF IsOpen
<1> QED BY <1>1, <1>2, <1>3, <1>4, <1>5

\* What writing a byte and reading some do to the ring.
LEMMA ByteIn ==
    ASSUME Inv, NEW p \in Procs, NEW b \in Byte, WriteByte(p, b)
    PROVE /\ pi \in Pipes /\ pi' \in Pipes
          /\ Used < PIPESIZE /\ Used' = Used + 1
          /\ pi'.nread = pi.nread
          /\ pi'.data = [pi.data EXCEPT ![pi.nwrite % PIPESIZE] = b]
          /\ pi'.readopen = pi.readopen /\ pi'.writeopen = pi.writeopen
<1>1. pi \in Pipes  BY PipeThere DEF WriteByte, Writing
<1>2. pi' \in Pipes  BY <1>1, Updates DEF WriteByte
<1>3. Used < PIPESIZE
  <2>1. pi # None  BY <1>1, NoneAssumption
  <2>2. Used <= PIPESIZE /\ ~IsFull  BY <2>1 DEF Inv, Fits, WriteByte
  <2> QED BY <1>1, <2>2, UsedFacts, PipeAssumption
<1>4. /\ pi'.nread = pi.nread /\ pi'.nwrite = Advance(pi.nwrite, 1)
      /\ pi'.data = [pi.data EXCEPT ![pi.nwrite % PIPESIZE] = b]
      /\ pi'.readopen = pi.readopen /\ pi'.writeopen = pi.writeopen
  BY <1>1 DEF WriteByte, Pipes
<1>5. Used' = Used + 1
  <2>1. Advance(pi.nwrite, 1) = IF pi.nwrite + 1 < CounterRange THEN pi.nwrite + 1 ELSE 0
    <3>1. pi.nwrite \in 0..CounterRange - 1 /\ 1 \in 0..CounterRange
      BY <1>1, UsedValue, PipeAssumption
    <3>2. Advance(pi.nwrite, 1) = IF pi.nwrite + 1 < CounterRange THEN pi.nwrite + 1
                                  ELSE pi.nwrite + 1 - CounterRange
      BY <3>1, WrapOnce DEF Advance
    <3> QED BY <3>1, <3>2, PipeAssumption
  <2>2. Used' = IF pi'.nread <= pi'.nwrite THEN pi'.nwrite - pi'.nread
                ELSE pi'.nwrite - pi'.nread + CounterRange
    BY <1>2, UsedValueNext
  <2> QED BY <1>1, <1>3, <1>4, <2>1, <2>2, UsedValue, PipeAssumption
<1> QED BY <1>1, <1>2, <1>3, <1>4, <1>5

\* piperead takes as many bytes as it advances nread.
LEMMA BytesOut ==
    ASSUME Inv, NEW p \in Procs, NEW n \in 1..MaxWrite, ReadCopy(p, n)
    PROVE /\ pi \in Pipes /\ pi' \in Pipes
          /\ \E k \in 0..Used :
                /\ Used' = Used - k
                /\ pi'.nread = Advance(pi.nread, k)
                /\ k <= n
          /\ pi'.data = pi.data
          /\ pi'.readopen = pi.readopen /\ pi'.writeopen = pi.writeopen
<1>1. pi \in Pipes  BY PipeThere DEF ReadCopy, Reading
<1>2. n \in Nat /\ Used \in Nat  BY <1>1, UsedFacts, PipeAssumption
<1>3. pi' \in Pipes  BY <1>1, <1>2, Updates DEF ReadCopy
<1>4. PICK k \in 0..Used : k = IF n < Used THEN n ELSE Used  BY <1>2
<1>5. /\ pi'.nread = Advance(pi.nread, k) /\ pi'.nwrite = pi.nwrite
      /\ pi'.data = pi.data
      /\ pi'.readopen = pi.readopen /\ pi'.writeopen = pi.writeopen
  BY <1>1, <1>4 DEF ReadCopy, Pipes
<1>6. Used' = Used - k
  <2>1. Advance(pi.nread, k) = IF pi.nread + k < CounterRange THEN pi.nread + k
                               ELSE pi.nread + k - CounterRange
    <3>1. k \in 0..CounterRange  BY <1>1, UsedValue, PipeAssumption
    <3> QED BY <1>1, <3>1, UsedValue, WrapOnce DEF Advance
  <2>2. Used' = IF pi'.nread <= pi'.nwrite THEN pi'.nwrite - pi'.nread
                ELSE pi'.nwrite - pi'.nread + CounterRange
    BY <1>3, UsedValueNext
  <2> QED BY <1>1, <1>5, <2>1, <2>2, UsedValue, PipeAssumption
<1> QED BY <1>1, <1>2, <1>3, <1>4, <1>5, <1>6

\* No step fills the ring beyond its size.
LEMMA FitsStep == ASSUME Inv, NEW p \in Procs, Step(p) PROVE Fits'
<1>1. UNCHANGED pi => Fits'  BY DEF Inv, Fits, Used
<1>2. CASE ForkStep(p) \/ ExitStep(p) \/ WaitStep(p) \/ SchedStep(p) \/ KillStep(p)
  BY <1>1, <1>2 DEF ForkStep, ExitStep, WaitStep, SchedStep, KillStep, Fork, OnlyProc, pipeVars
<1>3. CASE PipeAlloc(p)
  <2>1. pi'.nread = 0 /\ pi'.nwrite = 0  BY <1>3 DEF PipeAlloc
  <2>2. Used' = 0  BY <2>1, PipeAssumption, Modulo DEF Used
  <2> QED BY <2>2, PipeAssumption DEF Fits
<1>4. CASE PipeClose(p)
  <2>1. pi \in Pipes  BY <1>4, PipeThere DEF PipeClose
  <2>2. pi' # None => pi'.nread = pi.nread /\ pi'.nwrite = pi.nwrite
    BY <1>4, <2>1 DEF PipeClose, Closed, Pipes
  <2>3. pi # None  BY <2>1, NoneAssumption
  <2> QED BY <2>2, <2>3 DEF Inv, Fits, Used
<1>5. CASE \E e \in Ends : FileClose(p, e)  BY <1>1, <1>5 DEF FileClose
<1>6. CASE WriteStep(p)
  <2>1. ASSUME NEW b \in Byte, WriteByte(p, b) PROVE Fits'
    <3>1. pi \in Pipes /\ Used < PIPESIZE /\ Used' = Used + 1  BY <2>1, ByteIn
    <3>2. Used \in Int  BY <3>1, UsedFacts, PipeAssumption
    <3> QED BY <3>1, <3>2, PipeAssumption DEF Fits
  <2> QED BY <1>1, <1>6, <2>1
       DEF WriteStep, Write, EntersAt, WriteFails, WriteFull, WriteSleep, WriteDone
<1>7. CASE ReadStep(p)
  <2>1. ASSUME NEW n \in 1..MaxWrite, ReadCopy(p, n) PROVE Fits'
    <3>1. pi \in Pipes /\ pi # None  BY <2>1, BytesOut, NoneAssumption
    <3>2. Used \in Nat /\ Used <= PIPESIZE
      BY <3>1, UsedFacts, PipeAssumption DEF Inv, Fits
    <3>3. PICK k \in 0..Used : Used' = Used - k  BY <2>1, BytesOut
    <3> QED BY <3>2, <3>3, PipeAssumption DEF Fits
  <2> QED BY <1>1, <1>7, <2>1 DEF ReadStep, Read, OnlyProc, pipeVars, ReadEmpty, ReadSleep
<1> QED BY <1>2, <1>3, <1>4, <1>5, <1>6, <1>7 DEF Step, FileStep

------------------------------------------------------------------------------
\* The conjuncts of the invariant, step by step.

\* Every step keeps the types.
LEMMA TypeOKStep == ASSUME Inv, NEW p \in Procs, Step(p) PROVE TypeOK'
<1> USE ProcAssumption, PipeAssumption
<1> USE DEF Inv, TypeOK, Places, Ends, Runs, GoesOnAt, Calls, OnlyProc, pipeVars,
   procVars, EntersAt
<1>0. pi' \in Pipes \cup {None}  BY PiNext
<1>1. CASE ForkStep(p)
  BY <1>1 DEF ForkStep, ForkParent, ForkStart, Fork, ForkAlloc, Dup
<1>2. CASE ExitStep(p)
  BY <1>2 DEF ExitStep, Exit, ExitReparent, Reparented, Children, Woken, CanWake,
     ExitZombie
<1>3. CASE WaitStep(p)
  <2>1. CASE OnlyProc /\ closing[p] = None /\ Wait(p)
    BY <2>1 DEF Wait
  <2>2. CASE OnlyProc /\ (WaitScan(p) \/ WaitSleep(p))
    BY <2>2 DEF WaitScan, WaitSleep, SleepLock, Children
  <2>3. ASSUME NEW q \in Procs, OnlyProc /\ Reap(p, q) PROVE TypeOK'
    BY <2>3 DEF Reap, CanReap, Children
  <2> QED BY <1>3, <2>1, <2>2, <2>3 DEF WaitStep
<1>4. CASE SchedStep(p)
  BY <1>4 DEF SchedStep, Yield, Schedule, CanTake, Leave, Sleep, Again
<1>5. CASE KillStep(p)
  BY <1>5 DEF KillStep, Kill, Program
<1>6. CASE FileStep(p)
  <2>1. CASE PipeAlloc(p)
    BY <2>1, <1>0 DEF PipeAlloc, Program
  <2>2. CASE PipeClose(p)
    BY <2>2, <1>0 DEF PipeClose, Closed, Woken, OtherSide, CanWake
  <2>3. ASSUME NEW e \in Ends, FileClose(p, e) PROVE TypeOK'
    BY <2>3, HeldOnce DEF FileClose, Program
  <2> QED BY <1>6, <2>1, <2>2, <2>3 DEF FileStep
<1>7. CASE WriteStep(p)
  <2>1. CASE Write(p)
    BY <2>1 DEF Write, Program
  <2>2. CASE WriteFails(p)
    BY <2>2 DEF WriteFails, Writing, FinishesWrite
  <2>3. CASE WriteFull(p) \/ WriteSleep(p) \/ WriteDone(p)
    BY <2>3 DEF WriteFull, WriteSleep, SleepLock, WriteDone, Writing, FinishesWrite,
       Woken, CanWake
  <2>4. ASSUME NEW b \in Byte, WriteByte(p, b) PROVE TypeOK'
    BY <2>4, <1>0 DEF WriteByte, Writing
  <2> QED BY <1>7, <2>1, <2>2, <2>3, <2>4 DEF WriteStep
<1>8. CASE ReadStep(p)
  <2>1. CASE Read(p) \/ ReadEmpty(p) \/ ReadSleep(p)
    BY <2>1 DEF Read, Program, ReadEmpty, Reading, ReadSleep, SleepLock
  <2>2. ASSUME NEW n \in 1..MaxWrite, ReadCopy(p, n) PROVE TypeOK'
    BY <2>2, <1>0 DEF ReadCopy, Reading, Woken, CanWake
  <2> QED BY <1>8, <2>1, <2>2 DEF ReadStep
<1> QED BY <1>1, <1>2, <1>3, <1>4, <1>5, <1>6, <1>7, <1>8 DEF Step

\* A process is taken by one CPU only: p->lock is held until the CPU has left its stack.
LEMMA PlacedStep == ASSUME Inv, NEW p \in Procs, Step(p) PROVE Placed'
<1> USE ProcAssumption
<1> USE DEF Inv, TypeOK, Placed, Channels, Locked, Forked, Runs, GoesOnAt, Calls,
   OnlyProc, pipeVars, procVars, EntersAt
<1>1. CASE ForkStep(p)
  BY <1>1 DEF ForkStep, ForkParent, ForkStart, Fork, ForkAlloc, Dup
<1>2. CASE ExitStep(p)
  <2>1. CASE OnlyProc /\ closing[p] = None /\ Exit(p)
    BY <2>1 DEF Exit
  <2>2. CASE OnlyProc /\ ofile[p] = {} /\ closing[p] = None /\ ExitReparent(p)
    BY <2>2 DEF ExitReparent, Reparented, Children, Woken, CanWake
  <2>3. CASE OnlyProc /\ ExitZombie(p)
    BY <2>3 DEF ExitZombie
  <2> QED BY <1>2, <2>1, <2>2, <2>3 DEF ExitStep
<1>3. CASE WaitStep(p)
  BY <1>3 DEF WaitStep, Wait, WaitScan, WaitSleep, SleepLock, Children, Reap, CanReap
<1>4. CASE SchedStep(p)
  <2>1. CASE OnlyProc /\ Yield(p)
    BY <2>1 DEF Yield
  <2>2. ASSUME NEW c \in CPUs, OnlyProc /\ Schedule(c, p) PROVE Placed'
    BY <2>2 DEF Schedule, CanTake
  <2>3. ASSUME NEW c \in CPUs, OnlyProc /\ Leave(c, p) PROVE Placed'
    BY <2>3 DEF Leave
  <2>4. ASSUME NEW c \in CPUs, OnlyProc /\ Sleep(p, c, Again(p)) PROVE Placed'
    BY <2>4 DEF Sleep, Again
  <2> QED BY <1>4, <2>1, <2>2, <2>3, <2>4 DEF SchedStep
<1>5. CASE KillStep(p)
  BY <1>5 DEF KillStep, Kill, Program
<1>6. CASE FileStep(p)
  BY <1>6 DEF FileStep, PipeAlloc, Program, PipeClose, Closed, Woken, OtherSide,
     CanWake, FileClose
<1>7. CASE WriteStep(p)
  <2>1. CASE Write(p)
    BY <2>1 DEF Write, Program
  <2>2. CASE WriteFails(p)
    BY <2>2 DEF WriteFails, Writing, FinishesWrite
  <2>3. CASE WriteFull(p) \/ WriteSleep(p) \/ WriteDone(p)
    BY <2>3 DEF WriteFull, WriteSleep, SleepLock, WriteDone, Writing, FinishesWrite,
       Woken, CanWake
  <2>4. ASSUME NEW b \in Byte, WriteByte(p, b) PROVE Placed'
    BY <2>4 DEF WriteByte, Writing
  <2> QED BY <1>7, <2>1, <2>2, <2>3, <2>4 DEF WriteStep
<1>8. CASE ReadStep(p)
  BY <1>8 DEF ReadStep, Read, Program, ReadEmpty, Reading, ReadSleep, SleepLock,
     ReadCopy, Woken, CanWake
<1> QED BY <1>1, <1>2, <1>3, <1>4, <1>5, <1>6, <1>7, <1>8 DEF Step

\* A spinlock is held at some places of its holder's path through the kernel only, and
\* there no timer makes it yield.
LEMMA LockedStep == ASSUME Inv, NEW p \in Procs, Step(p) PROVE Locked'
<1> USE ProcAssumption
<1> USE DEF Inv, TypeOK, Placed, Locked, InWaitLock, InPiLock, Again, Channels, Forked,
   Runs, GoesOnAt, Calls, OnlyProc, pipeVars, procVars, EntersAt
<1>1. CASE ForkStep(p)
  BY <1>1 DEF ForkStep, ForkParent, ForkStart, Fork, ForkAlloc, Dup
<1>2. CASE ExitStep(p)
  BY <1>2 DEF ExitStep, Exit, ExitReparent, Reparented, Children, Woken, CanWake,
     ExitZombie
<1>3. CASE WaitStep(p)
  BY <1>3 DEF WaitStep, Wait, WaitScan, WaitSleep, SleepLock, Children, Reap, CanReap
<1>4. CASE SchedStep(p)
  BY <1>4 DEF SchedStep, Yield, Schedule, CanTake, Leave, Sleep, Again
<1>5. CASE KillStep(p)
  BY <1>5 DEF KillStep, Kill, Program
<1>6. CASE FileStep(p)
  BY <1>6 DEF FileStep, PipeAlloc, Program, PipeClose, Closed, Woken, OtherSide,
     CanWake, FileClose
<1>7. CASE WriteStep(p)
  <2>1. CASE Write(p) \/ WriteFails(p)
    BY <2>1 DEF Write, Program, WriteFails, Writing, FinishesWrite
  <2>2. CASE WriteFull(p) \/ WriteSleep(p) \/ WriteDone(p)
    BY <2>2 DEF WriteFull, WriteSleep, SleepLock, WriteDone, Writing, FinishesWrite,
       Woken, CanWake
  <2>3. ASSUME NEW b \in Byte, WriteByte(p, b) PROVE Locked'
    BY <2>3 DEF WriteByte, Writing
  <2> QED BY <1>7, <2>1, <2>2, <2>3 DEF WriteStep
<1>8. CASE ReadStep(p)
  BY <1>8 DEF ReadStep, Read, Program, ReadEmpty, Reading, ReadSleep, SleepLock,
     ReadCopy, Woken, CanWake
<1> QED BY <1>1, <1>2, <1>3, <1>4, <1>5, <1>6, <1>7, <1>8 DEF Step

\* The slot allocproc took stays the child of that fork until it is RUNNABLE.
LEMMA ForkedStep == ASSUME Inv, NEW p \in Procs, Step(p) PROVE Forked'
<1> USE ProcAssumption
<1> USE DEF Inv, TypeOK, Placed, Forked, Locked, InWaitLock, InPiLock, Runs, GoesOnAt,
   Calls, OnlyProc, pipeVars, procVars, EntersAt
<1>1. CASE ForkStep(p)
  <2>1. CASE OnlyProc /\ ForkParent(p)
    BY <2>1 DEF ForkParent
  <2>2. CASE OnlyProc /\ ForkStart(p)
    BY <2>2 DEF ForkStart
  <2>3. ASSUME NEW q \in Procs, Fork(p, q) PROVE Forked'
    BY <2>3 DEF Fork, ForkAlloc, Dup
  <2> QED BY <1>1, <2>1, <2>2, <2>3 DEF ForkStep
<1>2. CASE ExitStep(p)
  <2>1. CASE OnlyProc /\ closing[p] = None /\ Exit(p)
    BY <2>1 DEF Exit
  <2>2. CASE OnlyProc /\ ofile[p] = {} /\ closing[p] = None /\ ExitReparent(p)
    BY <2>2 DEF ExitReparent, Reparented, Children, Woken, CanWake
  <2>3. CASE OnlyProc /\ ExitZombie(p)
    BY <2>3 DEF ExitZombie
  <2> QED BY <1>2, <2>1, <2>2, <2>3 DEF ExitStep
<1>3. CASE WaitStep(p)
  BY <1>3 DEF WaitStep, Wait, WaitScan, WaitSleep, SleepLock, Children, Reap, CanReap
<1>4. CASE SchedStep(p)
  BY <1>4 DEF SchedStep, Yield, Schedule, CanTake, Leave, Sleep, Again
<1>5. CASE KillStep(p)
  BY <1>5 DEF KillStep, Kill, Program
<1>6. CASE FileStep(p)
  <2>1. CASE PipeAlloc(p)
    BY <2>1 DEF PipeAlloc, Program
  <2>2. CASE PipeClose(p)
    BY <2>2 DEF PipeClose, Closed, Woken, OtherSide, CanWake
  <2>3. ASSUME NEW e \in Ends, FileClose(p, e) PROVE Forked'
    BY <2>3 DEF FileClose, Program
  <2> QED BY <1>6, <2>1, <2>2, <2>3 DEF FileStep
<1>7. CASE WriteStep(p)
  <2>1. CASE Write(p)
    BY <2>1 DEF Write, Program
  <2>2. CASE WriteFails(p)
    BY <2>2 DEF WriteFails, Writing, FinishesWrite
  <2>3. CASE WriteFull(p) \/ WriteSleep(p) \/ WriteDone(p)
    BY <2>3 DEF WriteFull, WriteSleep, SleepLock, WriteDone, Writing, FinishesWrite,
       Woken, CanWake
  <2>4. ASSUME NEW b \in Byte, WriteByte(p, b) PROVE Forked'
    BY <2>4 DEF WriteByte, Writing
  <2> QED BY <1>7, <2>1, <2>2, <2>3, <2>4 DEF WriteStep
<1>8. CASE ReadStep(p)
  BY <1>8 DEF ReadStep, Read, Program, ReadEmpty, Reading, ReadSleep, SleepLock,
     ReadCopy, Woken, CanWake
<1> QED BY <1>1, <1>2, <1>3, <1>4, <1>5, <1>6, <1>7, <1>8 DEF Step

\* Nobody but the sleeper itself sets or clears its channel.
LEMMA ChannelsStep == ASSUME Inv, NEW p \in Procs, Step(p) PROVE Channels'
<1> USE ProcAssumption, NoneAssumption
<1> USE DEF Inv, TypeOK, Channels, Asleep, Again, Placed, Forked, Runs, GoesOnAt, Calls,
   OnlyProc, pipeVars, procVars, EntersAt
<1>1. CASE ForkStep(p)
  BY <1>1 DEF ForkStep, ForkParent, ForkStart, Fork, ForkAlloc, Dup
<1>2. CASE ExitStep(p)
  BY <1>2 DEF ExitStep, Exit, ExitReparent, Reparented, Children, Woken, CanWake,
     ExitZombie
<1>3. CASE WaitStep(p)
  BY <1>3 DEF WaitStep, Wait, WaitScan, WaitSleep, SleepLock, Children, Reap, CanReap
<1>4. CASE SchedStep(p)
  BY <1>4 DEF SchedStep, Yield, Schedule, CanTake, Leave, Sleep, Again
<1>5. CASE KillStep(p)
  BY <1>5 DEF KillStep, Kill, Program
<1>6. CASE FileStep(p)
  BY <1>6 DEF FileStep, PipeAlloc, Program, PipeClose, Closed, Woken, OtherSide,
     CanWake, FileClose
<1>7. CASE WriteStep(p)
  <2>1. CASE Write(p) \/ WriteFails(p)
    BY <2>1 DEF Write, Program, WriteFails, Writing, FinishesWrite
  <2>2. CASE WriteFull(p) \/ WriteSleep(p) \/ WriteDone(p)
    BY <2>2 DEF WriteFull, WriteSleep, SleepLock, WriteDone, Writing, FinishesWrite,
       Woken, CanWake
  <2>3. ASSUME NEW b \in Byte, WriteByte(p, b) PROVE Channels'
    BY <2>3 DEF WriteByte, Writing
  <2> QED BY <1>7, <2>1, <2>2, <2>3 DEF WriteStep
<1>8. CASE ReadStep(p)
  BY <1>8 DEF ReadStep, Read, Program, ReadEmpty, Reading, ReadSleep, SleepLock,
     ReadCopy, Woken, CanWake
<1> QED BY <1>1, <1>2, <1>3, <1>4, <1>5, <1>6, <1>7, <1>8 DEF Step

\* exit gives its children away before it is a zombie, with wait_lock held in between.
LEMMA FamilyStep == ASSUME Inv, NEW p \in Procs, Step(p) PROVE Family'
<1> USE ProcAssumption
<1> USE DEF Inv, TypeOK, Family, Placed, Locked, InWaitLock, Forked, Children, Runs,
   GoesOnAt, Calls, OnlyProc, pipeVars, procVars, EntersAt
<1>1. CASE ForkStep(p)
  <2>1. CASE OnlyProc /\ ForkParent(p)
    BY <2>1 DEF ForkParent
  <2>2. CASE OnlyProc /\ ForkStart(p)
    BY <2>2 DEF ForkStart
  <2>3. ASSUME NEW q \in Procs, Fork(p, q) PROVE Family'
    BY <2>3 DEF Fork, ForkAlloc, Dup
  <2> QED BY <1>1, <2>1, <2>2, <2>3 DEF ForkStep
<1>2. CASE ExitStep(p)
  <2>1. CASE OnlyProc /\ closing[p] = None /\ Exit(p)
    BY <2>1 DEF Exit
  <2>2. CASE OnlyProc /\ ofile[p] = {} /\ closing[p] = None /\ ExitReparent(p)
    BY <2>2 DEF ExitReparent, Reparented, Children, Woken, CanWake
  <2>3. CASE OnlyProc /\ ExitZombie(p)
    BY <2>3 DEF ExitZombie
  <2> QED BY <1>2, <2>1, <2>2, <2>3 DEF ExitStep
<1>3. CASE WaitStep(p)
  <2>1. CASE OnlyProc /\ closing[p] = None /\ Wait(p)
    BY <2>1 DEF Wait
  <2>2. CASE OnlyProc /\ (WaitScan(p) \/ WaitSleep(p))
    BY <2>2 DEF WaitScan, WaitSleep, SleepLock, Children
  <2>3. ASSUME NEW q \in Procs, OnlyProc /\ Reap(p, q) PROVE Family'
    BY <2>3 DEF Reap, CanReap, Children
  <2> QED BY <1>3, <2>1, <2>2, <2>3 DEF WaitStep
<1>4. CASE SchedStep(p)
  BY <1>4 DEF SchedStep, Yield, Schedule, CanTake, Leave, Sleep, Again
<1>5. CASE KillStep(p)
  BY <1>5 DEF KillStep, Kill, Program
<1>6. CASE FileStep(p)
  BY <1>6 DEF FileStep, PipeAlloc, Program, PipeClose, Closed, Woken, OtherSide,
     CanWake, FileClose
<1>7. CASE WriteStep(p)
  <2>1. CASE Write(p)
    BY <2>1 DEF Write, Program
  <2>2. CASE WriteFails(p)
    BY <2>2 DEF WriteFails, Writing, FinishesWrite
  <2>3. CASE WriteFull(p) \/ WriteSleep(p) \/ WriteDone(p)
    <3>1. CASE WriteFull(p)  BY <3>1 DEF WriteFull, Writing, Woken, CanWake
    <3>2. CASE WriteSleep(p)  BY <3>2 DEF WriteSleep, SleepLock
    <3>3. CASE WriteDone(p)  BY <3>3 DEF WriteDone, FinishesWrite, Writing, Woken, CanWake
    <3> QED BY <2>3, <3>1, <3>2, <3>3
  <2>4. ASSUME NEW b \in Byte, WriteByte(p, b) PROVE Family'
    BY <2>4 DEF WriteByte, Writing
  <2> QED BY <1>7, <2>1, <2>2, <2>3, <2>4 DEF WriteStep
<1>8. CASE ReadStep(p)
  <2>1. CASE Read(p) \/ ReadEmpty(p) \/ ReadSleep(p)
    BY <2>1 DEF Read, Program, ReadEmpty, Reading, ReadSleep, SleepLock
  <2>2. ASSUME NEW n \in 1..MaxWrite, ReadCopy(p, n) PROVE Family'
    BY <2>2 DEF ReadCopy, Reading, Woken, CanWake
  <2> QED BY <1>8, <2>1, <2>2 DEF ReadStep
<1> QED BY <1>1, <1>2, <1>3, <1>4, <1>5, <1>6, <1>7, <1>8 DEF Step

\* A child that exits finds its parent asleep and wakes it, or finds p->lock held.
LEMMA WaitsInVainStep == ASSUME Inv, NEW p \in Procs, Step(p) PROVE WaitsInVain'
<1> USE ProcAssumption, NoneAssumption
<1> USE DEF Inv, TypeOK, WaitsInVain, Asleep, Channels, Placed, Locked, InWaitLock,
   Children, Forked, Family, Runs, GoesOnAt, Calls, OnlyProc, pipeVars, procVars,
   EntersAt
<1>1. CASE ForkStep(p)
  <2>1. CASE OnlyProc /\ ForkParent(p)
    BY <2>1 DEF ForkParent
  <2>2. CASE OnlyProc /\ ForkStart(p)
    BY <2>2 DEF ForkStart
  <2>3. ASSUME NEW q \in Procs, Fork(p, q) PROVE WaitsInVain'
    BY <2>3 DEF Fork, ForkAlloc, Dup
  <2> QED BY <1>1, <2>1, <2>2, <2>3 DEF ForkStep
<1>2. CASE ExitStep(p)
  BY <1>2 DEF ExitStep, Exit, ExitReparent, Reparented, Children, Woken, CanWake,
     ExitZombie
<1>3. CASE WaitStep(p)
  BY <1>3 DEF WaitStep, Wait, WaitScan, WaitSleep, SleepLock, Children, Reap, CanReap
<1>4. CASE SchedStep(p)
  BY <1>4 DEF SchedStep, Yield, Schedule, CanTake, Leave, Sleep, Again
<1>5. CASE KillStep(p)
  BY <1>5 DEF KillStep, Kill, Program
<1>6. CASE FileStep(p)
  BY <1>6 DEF FileStep, PipeAlloc, Program, PipeClose, Closed, Woken, OtherSide,
     CanWake, FileClose
<1>7. CASE WriteStep(p)
  <2>1. CASE Write(p)
    BY <2>1 DEF Write, Program
  <2>2. CASE WriteFails(p)
    BY <2>2 DEF WriteFails, Writing, FinishesWrite
  <2>3. CASE WriteFull(p) \/ WriteSleep(p) \/ WriteDone(p)
    BY <2>3 DEF WriteFull, WriteSleep, SleepLock, WriteDone, Writing, FinishesWrite,
       Woken, CanWake
  <2>4. ASSUME NEW b \in Byte, WriteByte(p, b) PROVE WaitsInVain'
    BY <2>4 DEF WriteByte, Writing
  <2> QED BY <1>7, <2>1, <2>2, <2>3, <2>4 DEF WriteStep
<1>8. CASE ReadStep(p)
  BY <1>8 DEF ReadStep, Read, Program, ReadEmpty, Reading, ReadSleep, SleepLock,
     ReadCopy, Woken, CanWake
<1> QED BY <1>1, <1>2, <1>3, <1>4, <1>5, <1>6, <1>7, <1>8 DEF Step

\* The references of an end are those who hold it.
LEMMA CountedStep == ASSUME Inv, NEW p \in Procs, Step(p) PROVE Counted'
<1> USE DEF Inv, TypeOK, Counted, Runs, GoesOnAt, Calls, OnlyProc, pipeVars, procVars,
   EntersAt
<1>0. UNCHANGED <<ref, ofile>> => Counted'  BY DEF Holders
<1>1. CASE ForkStep(p)
  <2>1. CASE OnlyProc /\ ForkParent(p)
    BY <2>1, <1>0 DEF ForkParent
  <2>2. CASE OnlyProc /\ ForkStart(p)
    BY <2>2, <1>0 DEF ForkStart
  <2>3. ASSUME NEW q \in Procs, Fork(p, q) PROVE Counted'
    <3> SUFFICES ASSUME NEW e \in Ends PROVE ref'[e] = Cardinality(Holders(e)')
      OBVIOUS
    <3>1. ofile[q] = {}  BY <2>3 DEF Fork, ForkAlloc, Files
    <3>2. ofile' = [ofile EXCEPT ![q] = ofile[p]]
          /\ ref' = [x \in Ends |-> IF x \in ofile[p] THEN ref[x] + 1 ELSE ref[x]]
      BY <2>3 DEF Fork, Dup
    <3>3. CASE e \in ofile[p]
      <4>1. Holders(e)' = Holders(e) \cup {q} /\ q \notin Holders(e)
        BY <3>1, <3>2, <3>3 DEF Holders
      <4>2. IsFiniteSet(Holders(e))  BY HoldersFinite
      <4>3. Cardinality(Holders(e) \cup {q}) = Cardinality(Holders(e)) + 1
        BY <4>1, <4>2, FS_AddElement
      <4> QED BY <3>2, <3>3, <4>1, <4>3
    <3>4. CASE e \notin ofile[p]
      <4>1. Holders(e)' = Holders(e)  BY <3>1, <3>2, <3>4 DEF Holders
      <4> QED BY <3>2, <3>4, <4>1
    <3> QED BY <3>3, <3>4
  <2> QED BY <1>1, <2>1, <2>2, <2>3 DEF ForkStep
<1>2. CASE ExitStep(p)
  BY <1>2, <1>0 DEF ExitStep, Exit, ExitReparent, Reparented, Children, Woken, CanWake,
     ExitZombie
<1>3. CASE WaitStep(p)
  BY <1>3, <1>0 DEF WaitStep, Wait, WaitScan, WaitSleep, SleepLock, Children, Reap,
     CanReap
<1>4. CASE SchedStep(p)
  BY <1>4, <1>0 DEF SchedStep, Yield, Schedule, CanTake, Leave, Sleep, Again
<1>5. CASE KillStep(p)
  BY <1>5, <1>0 DEF KillStep, Kill, Program
<1>6. CASE FileStep(p)
  <2>1. CASE PipeAlloc(p)
    <3> SUFFICES ASSUME NEW e \in Ends PROVE ref'[e] = Cardinality(Holders(e)')
      OBVIOUS
    <3>1. \A q \in Procs : e \notin ofile[q]  BY <2>1 DEF PipeAlloc, Files, IsOpen
    <3>2. Holders(e)' = {p}  BY <2>1, <3>1 DEF PipeAlloc, Holders
    <3> QED BY <2>1, <3>2, FS_Singleton DEF PipeAlloc
  <2>2. CASE PipeClose(p)
    BY <2>2, <1>0 DEF PipeClose, Closed, Woken, OtherSide, CanWake
  <2>3. ASSUME NEW e \in Ends, FileClose(p, e) PROVE Counted'
    <3> SUFFICES ASSUME NEW x \in Ends PROVE ref'[x] = Cardinality(Holders(x)')
      OBVIOUS
    <3>1. e \in ofile[p] /\ ofile' = [ofile EXCEPT ![p] = @ \ {e}]
          /\ ref' = [ref EXCEPT ![e] = @ - 1]
      BY <2>3 DEF FileClose
    <3>2. CASE x = e
      <4>1. Holders(e)' = Holders(e) \ {p} /\ p \in Holders(e)  BY <3>1 DEF Holders
      <4> QED BY <3>1, <3>2, <4>1, HoldersFinite, FS_RemoveElement
    <3>3. CASE x # e
      <4>1. Holders(x)' = Holders(x)  BY <3>1, <3>3 DEF Holders
      <4> QED BY <3>1, <3>3, <4>1
    <3> QED BY <3>2, <3>3
  <2> QED BY <1>6, <2>1, <2>2, <2>3 DEF FileStep
<1>7. CASE WriteStep(p)
  <2>1. CASE Write(p)
    BY <2>1, <1>0 DEF Write, Program
  <2>2. CASE WriteFails(p)
    BY <2>2, <1>0 DEF WriteFails, Writing, FinishesWrite
  <2>3. CASE WriteFull(p) \/ WriteSleep(p) \/ WriteDone(p)
    BY <2>3, <1>0 DEF WriteFull, WriteSleep, SleepLock, WriteDone, Writing,
       FinishesWrite, Woken, CanWake
  <2>4. ASSUME NEW b \in Byte, WriteByte(p, b) PROVE Counted'
    BY <2>4, <1>0 DEF WriteByte, Writing
  <2> QED BY <1>7, <2>1, <2>2, <2>3, <2>4 DEF WriteStep
<1>8. CASE ReadStep(p)
  BY <1>8, <1>0 DEF ReadStep, Read, Program, ReadEmpty, Reading, ReadSleep, SleepLock,
     ReadCopy, Woken, CanWake
<1> QED BY <1>1, <1>2, <1>3, <1>4, <1>5, <1>6, <1>7, <1>8 DEF Step

\* Whoever drops the last reference of an end is the only one who can close it.
LEMMA FilesStep == ASSUME Inv, NEW p \in Procs, Step(p) PROVE Files'
<1> USE ProcAssumption, NoneAssumption
<1> USE DEF Inv, TypeOK, Files, Holders, InPipe, InPiLock, Asleep, Channels, Placed,
   Locked, Forked, Ends, Again, Runs, GoesOnAt, Calls, OnlyProc, pipeVars, procVars,
   EntersAt
<1>0. UNCHANGED pi => \A e \in Ends : IsOpen(e)' = IsOpen(e)  BY OpenNext
<1>1. CASE ForkStep(p)
  <2>1. CASE OnlyProc /\ ForkParent(p)
    BY <2>1, <1>0 DEF ForkParent
  <2>2. CASE OnlyProc /\ ForkStart(p)
    BY <2>2, <1>0 DEF ForkStart
  <2>3. ASSUME NEW q \in Procs, Fork(p, q) PROVE Files'
    BY <2>3, <1>0 DEF Fork, ForkAlloc, Dup
  <2> QED BY <1>1, <2>1, <2>2, <2>3 DEF ForkStep
<1>2. CASE ExitStep(p)
  BY <1>2, <1>0 DEF ExitStep, Exit, ExitReparent, Reparented, Children, Woken, CanWake,
     ExitZombie
<1>3. CASE WaitStep(p)
  BY <1>3, <1>0 DEF WaitStep, Wait, WaitScan, WaitSleep, SleepLock, Children, Reap,
     CanReap
<1>4. CASE SchedStep(p)
  BY <1>4, <1>0 DEF SchedStep, Yield, Schedule, CanTake, Leave, Sleep, Again
<1>5. CASE KillStep(p)
  BY <1>5, <1>0 DEF KillStep, Kill, Program
<1>6. CASE FileStep(p)
  <2>1. CASE PipeAlloc(p)
    <3>1. \A e \in Ends : IsOpen(e)'  BY <2>1, OpenNext
    <3>2. \A q \in Procs : ofile[q] = {} /\ closing[q] = None
      <4>1. \A q \in Procs, e \in Ends : e \notin ofile[q] /\ closing[q] # e
        BY <2>1 DEF PipeAlloc, IsOpen
      <4> QED BY <4>1
    <3>3. /\ at[p] = "user" /\ state[p] = "RUNNING" /\ p \notin plock
          /\ ofile' = [ofile EXCEPT ![p] = Ends]
          /\ UNCHANGED <<procVars, closing>>
      BY <2>1 DEF PipeAlloc, Program
    <3> QED BY <3>1, <3>2, <3>3
  <2>2. CASE PipeClose(p)
    <3>1. \A e \in Ends : e # closing[p] /\ IsOpen(e) => IsOpen(e)'  BY <2>2, OpenNext
    <3>2. closing[p] \in Ends /\ closing' = [closing EXCEPT ![p] = None]
          /\ UNCHANGED <<chan, at, ofile>>
      BY <2>2 DEF PipeClose
    <3>3. \A q \in Procs : state'[q] # state[q] => state[q] = "SLEEPING" /\ state'[q] = "RUNNABLE"
      BY <2>2 DEF PipeClose, Woken
    <3> QED BY <3>1, <3>2, <3>3
  <2>3. ASSUME NEW e \in Ends, FileClose(p, e) PROVE Files'
    BY <2>3, <1>0, HeldOnce DEF FileClose, Program
  <2> QED BY <1>6, <2>1, <2>2, <2>3 DEF FileStep
<1>7. CASE WriteStep(p)
  <2>1. CASE Write(p)
    BY <2>1, <1>0 DEF Write, Program
  <2>2. CASE WriteFails(p)
    BY <2>2, <1>0 DEF WriteFails, Writing, FinishesWrite
  <2>3. CASE WriteFull(p) \/ WriteSleep(p) \/ WriteDone(p)
    BY <2>3, <1>0 DEF WriteFull, WriteSleep, SleepLock, WriteDone, Writing,
       FinishesWrite, Woken, CanWake
  <2>4. ASSUME NEW b \in Byte, WriteByte(p, b) PROVE Files'
    <3>1. \A e \in Ends : IsOpen(e)' = IsOpen(e)  BY <2>4, OpenNext
    <3>2. at[p] \in {"write", "writing"} /\ at' = [at EXCEPT ![p] = "writing"]
          /\ UNCHANGED <<state, chan, ofile, closing>>
      BY <2>4 DEF WriteByte, Writing
    <3> QED BY <3>1, <3>2
  <2> QED BY <1>7, <2>1, <2>2, <2>3, <2>4 DEF WriteStep
<1>8. CASE ReadStep(p)
  <2>1. CASE Read(p) \/ ReadEmpty(p) \/ ReadSleep(p)
    BY <2>1, <1>0 DEF Read, Program, ReadEmpty, Reading, ReadSleep, SleepLock
  <2>2. ASSUME NEW n \in 1..MaxWrite, ReadCopy(p, n) PROVE Files'
    <3>1. \A e \in Ends : IsOpen(e)' = IsOpen(e)  BY <2>2, OpenNext
    <3>2. at[p] = "read" /\ at' = [at EXCEPT ![p] = "user"] /\ chan[p] = None
          /\ UNCHANGED <<chan, ofile, closing>>
      BY <2>2 DEF ReadCopy, Reading
    <3>3. \A q \in Procs : state'[q] # state[q] => state[q] = "SLEEPING" /\ state'[q] = "RUNNABLE"
      BY <2>2 DEF ReadCopy, Woken
    <3> QED BY <3>1, <3>2, <3>3
  <2> QED BY <1>8, <2>1, <2>2 DEF ReadStep
<1> QED BY <1>1, <1>2, <1>3, <1>4, <1>5, <1>6, <1>7, <1>8 DEF Step

\* A writer holds pi->lock from its first byte to the wakeup of the readers.
LEMMA ReadsInVainStep == ASSUME Inv, NEW p \in Procs, Step(p) PROVE ReadsInVain'
<1> USE ProcAssumption, NoneAssumption
<1> USE DEF Inv, TypeOK, ReadsInVain, WritesInVain, Files, IsOpen, InPipe, IsEmpty,
   Asleep, Channels, Placed, Locked, InPiLock, Forked, Ends, Runs, GoesOnAt, Calls,
   OnlyProc, pipeVars, procVars, EntersAt
<1>1. CASE ForkStep(p)
  BY <1>1 DEF ForkStep, ForkParent, ForkStart, Fork, ForkAlloc, Dup
<1>2. CASE ExitStep(p)
  BY <1>2 DEF ExitStep, Exit, ExitReparent, Reparented, Children, Woken, CanWake,
     ExitZombie
<1>3. CASE WaitStep(p)
  BY <1>3 DEF WaitStep, Wait, WaitScan, WaitSleep, SleepLock, Children, Reap, CanReap
<1>4. CASE SchedStep(p)
  BY <1>4 DEF SchedStep, Yield, Schedule, CanTake, Leave, Sleep, Again
<1>5. CASE KillStep(p)
  BY <1>5 DEF KillStep, Kill, Program
<1>6. CASE FileStep(p)
  <2>1. CASE PipeAlloc(p)
    BY <2>1 DEF PipeAlloc, Program
  <2>2. CASE PipeClose(p)
    <3>1. closing[p] \in Ends /\ Holders(closing[p]) = {} /\ pilock = None
          /\ plock \subseteq {p} /\ state[p] = "RUNNING" /\ at[p] # "sleep"
          /\ state' = Woken(p, OtherSide(closing[p]))
          /\ UNCHANGED <<chan, at, pilock>>
      BY <2>2 DEF PipeClose, CanWake
    <3>2. ASSUME NEW q \in Procs, Asleep(q)', chan'[q] = "nread" PROVE FALSE
      <4>1. CASE closing[p] = "w"  BY <3>1, <3>2, <4>1 DEF Woken, OtherSide
      <4>2. CASE closing[p] = "r"
        <5>1. q \in Holders("r")  BY <3>1, <3>2 DEF Holders
        <5> QED BY <3>1, <4>2, <5>1
      <4> QED BY <3>1, <4>1, <4>2 DEF Ends
    <3>3. \A q \in Procs : at'[q] # "read_sleep"  BY <3>1
    <3> QED BY <3>2, <3>3
  <2>3. ASSUME NEW e \in Ends, FileClose(p, e) PROVE ReadsInVain'
    BY <2>3 DEF FileClose, Program
  <2> QED BY <1>6, <2>1, <2>2, <2>3 DEF FileStep
<1>7. CASE WriteStep(p)
  <2>1. CASE Write(p)
    BY <2>1 DEF Write, Program
  <2>2. CASE WriteFails(p)
    BY <2>2 DEF WriteFails, Writing, FinishesWrite
  <2>3. CASE WriteFull(p) \/ WriteSleep(p) \/ WriteDone(p)
    BY <2>3 DEF WriteFull, WriteSleep, SleepLock, WriteDone, Writing, FinishesWrite,
       Woken, CanWake
  <2>4. ASSUME NEW b \in Byte, WriteByte(p, b) PROVE ReadsInVain'
    BY <2>4 DEF WriteByte, Writing
  <2> QED BY <1>7, <2>1, <2>2, <2>3, <2>4 DEF WriteStep
<1>8. CASE ReadStep(p)
  <2>1. CASE Read(p) \/ ReadEmpty(p) \/ ReadSleep(p)
    BY <2>1 DEF Read, Program, ReadEmpty, Reading, ReadSleep, SleepLock
  <2>2. ASSUME NEW n \in 1..MaxWrite, ReadCopy(p, n) PROVE ReadsInVain'
    BY <2>2, UsedFacts, PipeThere DEF ReadCopy, Reading, Woken, CanWake
  <2> QED BY <1>8, <2>1, <2>2 DEF ReadStep
<1> QED BY <1>1, <1>2, <1>3, <1>4, <1>5, <1>6, <1>7, <1>8 DEF Step

\* Bytes leave the ring, and the read end is closed, with a wakeup of the writers.
LEMMA WritesInVainStep == ASSUME Inv, NEW p \in Procs, Step(p) PROVE WritesInVain'
<1> USE ProcAssumption, NoneAssumption
<1> USE DEF Inv, TypeOK, WritesInVain, ReadsInVain, Files, IsOpen, InPipe, IsFull,
   IsEmpty, Asleep, Channels, Placed, Locked, InPiLock, Forked, Ends, Runs, GoesOnAt,
   Calls, OnlyProc, pipeVars, procVars, EntersAt
<1>1. CASE ForkStep(p)
  BY <1>1 DEF ForkStep, ForkParent, ForkStart, Fork, ForkAlloc, Dup
<1>2. CASE ExitStep(p)
  BY <1>2 DEF ExitStep, Exit, ExitReparent, Reparented, Children, Woken, CanWake,
     ExitZombie
<1>3. CASE WaitStep(p)
  BY <1>3 DEF WaitStep, Wait, WaitScan, WaitSleep, SleepLock, Children, Reap, CanReap
<1>4. CASE SchedStep(p)
  BY <1>4 DEF SchedStep, Yield, Schedule, CanTake, Leave, Sleep, Again
<1>5. CASE KillStep(p)
  BY <1>5 DEF KillStep, Kill, Program
<1>6. CASE FileStep(p)
  <2>1. CASE PipeAlloc(p)
    BY <2>1 DEF PipeAlloc, Program
  <2>2. CASE PipeClose(p)
    BY <2>2 DEF PipeClose, Closed, Woken, OtherSide, CanWake
  <2>3. ASSUME NEW e \in Ends, FileClose(p, e) PROVE WritesInVain'
    BY <2>3 DEF FileClose, Program
  <2> QED BY <1>6, <2>1, <2>2, <2>3 DEF FileStep
<1>7. CASE WriteStep(p)
  <2>1. CASE Write(p) \/ WriteFails(p)
    BY <2>1 DEF Write, Program, WriteFails, Writing, FinishesWrite
  <2>2. CASE WriteFull(p) \/ WriteSleep(p) \/ WriteDone(p)
    BY <2>2 DEF WriteFull, WriteSleep, SleepLock, WriteDone, Writing, FinishesWrite,
       Woken, CanWake
  <2>3. ASSUME NEW b \in Byte, WriteByte(p, b) PROVE WritesInVain'
    BY <2>3 DEF WriteByte, Writing
  <2> QED BY <1>7, <2>1, <2>2, <2>3 DEF WriteStep
<1>8. CASE ReadStep(p)
  BY <1>8 DEF ReadStep, Read, Program, ReadEmpty, Reading, ReadSleep, SleepLock,
     ReadCopy, Woken, CanWake
<1> QED BY <1>1, <1>2, <1>3, <1>4, <1>5, <1>6, <1>7, <1>8 DEF Step

------------------------------------------------------------------------------
\* The invariant.

\* The invariant holds at the start.
LEMMA InvInit == ASSUME Init PROVE Inv
<1> USE ProcAssumption, PipeAssumption, NoneAssumption DEF Init, InitProc
<1>1. TypeOK
  <2>1. /\ state \in [Procs -> {"UNUSED", "USED", "SLEEPING", "RUNNABLE", "RUNNING", "ZOMBIE"}]
        /\ cpu \in [CPUs -> Procs \cup {None}] /\ at \in [Procs -> Places]
        /\ ref \in [Ends -> Nat] /\ ofile \in [Procs -> SUBSET Ends]
        /\ todo \in [Procs -> 0..MaxWrite]
    BY DEF Places
  <2> QED BY <2>1 DEF TypeOK
<1>2. Placed /\ Locked /\ Forked /\ Channels /\ Family
  BY DEF Placed, Locked, InWaitLock, InPiLock, Forked, Channels, Asleep, Family
<1>3. Files /\ WaitsInVain /\ ReadsInVain /\ WritesInVain /\ Fits
  BY DEF Fits, Files, Ends, InPipe, WaitsInVain, ReadsInVain, WritesInVain, Asleep
<1>4. Counted
  <2>1. \A e \in Ends : Holders(e) = {}  BY DEF Holders
  <2> QED BY <2>1, FS_EmptySet DEF Counted
<1> QED BY <1>1, <1>2, <1>3, <1>4 DEF Inv

\* Every step, and a stutter, keeps the invariant.
LEMMA InvStep == ASSUME Inv, [Next]_vars PROVE Inv'
<1>1. ASSUME NEW p \in Procs, Step(p) PROVE Inv'
  BY <1>1, TypeOKStep, PlacedStep, LockedStep, ForkedStep, ChannelsStep, FamilyStep,
     WaitsInVainStep, CountedStep, FilesStep, ReadsInVainStep, WritesInVainStep,
     FitsStep DEF Inv
<1>2. CASE UNCHANGED vars
  <2> USE <1>2 DEF vars, procVars, pipeVars, Inv
  <2>1. TypeOK' /\ Placed' /\ Locked' /\ Forked'  BY DEF TypeOK, Placed, Locked, Forked
  <2>2. Channels' /\ Family' /\ WaitsInVain'
    BY DEF Channels, Asleep, Again, Family, WaitsInVain, Children
  <2>3. Counted' /\ Files'  BY DEF Counted, Holders, Files, IsOpen, InPipe
  <2>4. ReadsInVain' /\ WritesInVain' /\ Fits'
    BY DEF Fits, Used, ReadsInVain, WritesInVain, Asleep, IsEmpty, IsFull
  <2> QED BY <2>1, <2>2, <2>3, <2>4
<1> QED BY <1>1, <1>2 DEF Next

\* The inductive invariant of the processes and the pipe.
THEOREM Invariance == Spec => []Inv
BY InvInit, InvStep, PTL DEF Spec

\* The variables keep their types: the counters their range, the ring its bytes.
THEOREM TypeCorrect == Spec => []TypeOK
<1>1. Inv => TypeOK  BY DEF Inv
<1> QED BY <1>1, Invariance, PTL

\* One CPU at a time uses a kernel stack, and nobody frees it or sleeps with a lock.
THEOREM StacksAreSafe == Spec => []RunsAlone
<1>1. ASSUME Inv, NEW p \in Procs PROVE Cardinality(OnCPU(p)) <= 1
  <2>1. CASE OnCPU(p) = {}  BY <2>1, FS_EmptySet
  <2>2. CASE OnCPU(p) # {}
    <3>1. PICK c \in CPUs : cpu[c] = p  BY <2>2 DEF OnCPU
    <3>2. \A d \in CPUs : cpu[d] = p => d = c
      BY <1>1, <3>1, ProcAssumption DEF Inv, Placed
    <3>3. OnCPU(p) \in SUBSET {c}  BY <3>2 DEF OnCPU
    <3>4. IsFiniteSet({c}) /\ Cardinality({c}) = 1  BY FS_Singleton
    <3> QED BY <3>3, <3>4, FS_Subset
  <2> QED BY <2>1, <2>2
<1>2. ASSUME Inv, NEW p \in Procs PROVE state[p] \in {"UNUSED", "USED"} => OnCPU(p) = {}
  BY <1>2, ProcAssumption DEF Inv, Placed, OnCPU
<1>3. ASSUME Inv, NEW p \in Procs PROVE state[p] = "RUNNING" \/ Locks(p) => OnCPU(p) # {}
  BY <1>3 DEF Inv, Placed, Locked, Locks, OnCPU
<1>4. Inv => RunsAlone  BY <1>1, <1>2, <1>3 DEF RunsAlone
<1> QED BY <1>4, Invariance, PTL

\* Nobody sleeps through what it waits for.
THEOREM WakeupsArrive == Spec => []NoLostWakeup
<1>1. ASSUME Inv, NEW p \in Procs, state[p] = "SLEEPING"
      PROVE CASE chan[p] = "nread" ->
                    pi.writeopen /\ (IsEmpty \/ cut \/ pilock # None)
              [] chan[p] = "nwrite" -> pi.readopen /\ IsFull
              [] OTHER ->
                    /\ Children(p) # {}
                    /\ \A q \in Children(p) : state[q] # "ZOMBIE"
  <2>1. Asleep(p) /\ chan[p] \in {"nread", "nwrite", p}  BY <1>1 DEF Inv, Channels, Asleep
  <2>2. CASE chan[p] = "nread"  BY <1>1, <2>1, <2>2 DEF Inv, ReadsInVain
  <2>3. CASE chan[p] = "nwrite"  BY <1>1, <2>1, <2>3 DEF Inv, WritesInVain
  <2>4. CASE chan[p] = p
    <3>1. p # "nread" /\ p # "nwrite"  BY NoneAssumption
    <3>2. Children(p) # {} /\ \A q \in Children(p) : state[q] # "ZOMBIE"
      BY <1>1, <2>1, <2>4 DEF Inv, WaitsInVain
    <3> QED BY <2>4, <3>1, <3>2
  <2> QED BY <2>1, <2>2, <2>3, <2>4
<1>2. Inv => NoLostWakeup  BY <1>1 DEF NoLostWakeup
<1> QED BY <1>2, Invariance, PTL

\* No end is closed, and the pipe is not freed, while somebody uses it.
THEOREM EndsStayOpen == Spec => []OpenWhileUsed
<1>1. Inv => OpenWhileUsed
  BY DEF Inv, Counted, Holders, Files, IsOpen, OpenWhileUsed
<1> QED BY <1>1, Invariance, PTL

\* Every process has a parent that can still wait for it.
THEOREM NoOrphans == Spec => []HasParent
<1>1. ASSUME Inv, NEW q \in Procs \ {initproc}
      PROVE IF state[q] = "UNUSED" THEN parent[q] = None
            ELSE \/ q \in Forking /\ state[q] = "USED"
                 \/ parent[q] # None /\ state[parent[q]] \notin {"UNUSED", "USED", "ZOMBIE"}
  <2>1. CASE state[q] = "UNUSED"  BY <1>1, <2>1 DEF Inv, Family
  <2>2. CASE state[q] = "USED"
    BY <1>1, <2>2, ProcAssumption DEF Inv, Forked, Forking
  <2>3. CASE state[q] \notin {"UNUSED", "USED"}  BY <1>1, <2>3 DEF Inv, Family
  <2> QED BY <2>1, <2>2, <2>3
<1>2. Inv => HasParent  BY <1>1 DEF HasParent
<1> QED BY <1>2, Invariance, PTL

------------------------------------------------------------------------------
\* The pipe implements a bounded queue, whatever its size and its counters' range.

------------------------------------------------------------------------------
\* Arithmetic of the slots.

\* Division with remainder.
LEMMA DivMod ==
    ASSUME NEW x \in Int, NEW P \in Nat, P > 0 PROVE x = P * (x \div P) + (x % P)
OBVIOUS

\* A number is a multiple of P and a remainder below P.
LEMMA Quotient ==
    ASSUME NEW P \in Nat, P > 0, NEW x \in Int
    PROVE \E q \in Int : x = P * q + (x % P) /\ x % P \in 0..P - 1
<1>1. x \div P \in Int /\ x % P \in 0..P - 1  OBVIOUS
<1> QED BY <1>1, DivMod

\* The remainder is the only one.
LEMMA Remainder ==
    ASSUME NEW P \in Nat, P > 0, NEW x \in Int, NEW q \in Int, NEW m \in Int,
           0 <= m, m < P, x = P * q + m
    PROVE x % P = m
OBVIOUS

\* Multiplication distributes over a difference.
LEMMA Distributes ==
    ASSUME NEW P \in Nat, NEW a \in Int, NEW b \in Int PROVE P * (a - b) = P * a - P * b
OBVIOUS

\* A turn of the counters, whose range the ring's size divides, ends at the same slot.
LEMMA SameSlot ==
    ASSUME NEW P \in Nat, P > 0, NEW C \in Nat, C % P = 0, NEW x \in Int
    PROVE (x - C) % P = x % P
<1>1. PICK a \in Int : C = P * a + (C % P)  BY Quotient
<1>2. PICK q \in Int : x = P * q + (x % P)  BY Quotient
<1>3. P * (q - a) = P * q - P * a  BY Distributes
<1>4. x - C = P * (q - a) + (x % P)  BY <1>1, <1>2, <1>3
<1>5. x - C \in Int /\ q - a \in Int /\ x % P \in Int /\ 0 <= x % P /\ x % P < P  OBVIOUS
<1> QED BY <1>4, <1>5, Remainder

\* Positions less than a ring apart have different slots.
LEMMA OtherSlot ==
    ASSUME NEW P \in Nat, P > 0, NEW a \in Int, NEW b \in Int, a < b, b - a < P
    PROVE a % P # b % P
<1> SUFFICES ASSUME a % P = b % P PROVE FALSE  OBVIOUS
<1>1. PICK q \in Int : a = P * q + (a % P)  BY Quotient
<1>2. PICK p \in Int : b = P * p + (b % P)  BY Quotient
<1>3. a % P \in Int  OBVIOUS
<1>4. P * (p - q) = P * p - P * q  BY Distributes
<1>5. b - a = P * (p - q)  BY <1>1, <1>2, <1>3, <1>4
<1>6. CASE p - q >= 1
  <2>1. P * (p - q - 1) \in Nat  BY <1>6
  <2>2. P * ((p - q) - 1) = P * (p - q) - P * 1  BY Distributes
  <2> QED BY <2>1, <2>2, <1>5
<1>7. CASE p - q <= 0
  <2>1. P * (q - p) \in Nat  BY <1>7
  <2>2. P * (q - p) = P * q - P * p  BY Distributes
  <2> QED BY <2>1, <2>2, <1>4, <1>5
<1> QED BY <1>6, <1>7

------------------------------------------------------------------------------
\* The bytes of the ring.

Slot(x) == x % PIPESIZE

\* The byte at a place of the queue, with the counter not wrapped.
LEMMA AdvancedSlot ==
    ASSUME NEW x \in 0..CounterRange - 1, NEW k \in 0..CounterRange, NEW j \in Int
    PROVE Slot(Advance(x, k) + j) = Slot(x + k + j)
<1>1. Advance(x, k) = IF x + k < CounterRange THEN x + k ELSE x + k - CounterRange
  BY WrapOnce DEF Advance
<1>2. CASE x + k < CounterRange  BY <1>1, <1>2, PipeAssumption
<1>3. CASE x + k >= CounterRange
  <2>1. PICK y \in Int : y = x + k + j  BY PipeAssumption
  <2>2. CounterRange \in Nat /\ x \in Int /\ k \in Int  BY PipeAssumption
  <2>3. Advance(x, k) + j = (x + k - CounterRange) + j  BY <1>1, <1>3, <2>2
  <2>4. (x + k - CounterRange) + j = y - CounterRange  BY <2>1, <2>2
  <2>5. (y - CounterRange) % PIPESIZE = y % PIPESIZE
    <3>1. /\ PIPESIZE \in Nat /\ PIPESIZE > 0
          /\ CounterRange \in Nat /\ CounterRange % PIPESIZE = 0
      BY PipeAssumption
    <3> QED BY <2>1, <3>1, SameSlot
  <2> QED BY <2>1, <2>3, <2>4, <2>5 DEF Slot
<1> QED BY <1>2, <1>3, PipeAssumption

\* The slot the writer uses next is the one behind the bytes that wait.
LEMMA WriteSlot ==
    ASSUME pi \in Pipes PROVE Slot(pi.nwrite) = Slot(pi.nread + Used)
<1>1. Advance(pi.nread, Used) = pi.nwrite /\ Used \in 0..CounterRange - 1  BY UsedFacts
<1>2. pi.nread \in 0..CounterRange - 1 /\ pi.nwrite \in 0..CounterRange - 1  BY UsedValue
<1>3. Used \in 0..CounterRange  BY <1>1, PipeAssumption
<1>4. Slot(Advance(pi.nread, Used) + 0) = Slot(pi.nread + Used + 0)
  BY <1>2, <1>3, AdvancedSlot
<1> QED BY <1>1, <1>2, <1>4, PipeAssumption

\* The queue of the refinement, slot by slot; its length is the number of bytes that wait.
LEMMA QueueIs ==
    ASSUME pi \in Pipes
    PROVE /\ Queue = [i \in 1..Used |-> pi.data[Slot(pi.nread + i - 1)]]
          /\ Len(Queue) = Used /\ Queue \in Seq(Byte) /\ DOMAIN Queue = 1..Used
<1>1. pi # None /\ Used \in Nat  BY NoneAssumption, UsedFacts, PipeAssumption
<1>2. Queue = [i \in 1..Used |-> pi.data[Slot(pi.nread + i - 1)]]
  BY <1>1 DEF Queue, Slot
<1>3. \A i \in 1..Used : pi.data[Slot(pi.nread + i - 1)] \in Byte
  <2> TAKE i \in 1..Used
  <2>1. pi.nread + i - 1 \in Int  BY <1>1, UsedValue, PipeAssumption
  <2>2. Slot(pi.nread + i - 1) \in 0..PIPESIZE - 1  BY <2>1, Modulo, PipeAssumption DEF Slot
  <2> QED BY <2>2 DEF Pipes
<1> QED BY <1>1, <1>2, <1>3

\* The same of the next state.
LEMMA QueueNext ==
    ASSUME pi' \in Pipes
    PROVE Queue' = [i \in 1..Used' |-> pi'.data[Slot(pi'.nread + i - 1)]]
<1>1. pi' # None  BY NoneAssumption
<1> QED BY <1>1 DEF Queue, Slot

\* Only the ring and its flags are seen.
LEMMA SameQueue == UNCHANGED pi => UNCHANGED <<Queue, OpenEnds>>
BY DEF Queue, Used, OpenEnds

------------------------------------------------------------------------------
\* The steps that the queue sees.

\* A byte goes to the slot after the last one, which no byte that waits occupies.
LEMMA PutStep ==
    ASSUME Inv, NEW p \in Procs, NEW b \in Byte, WriteByte(p, b) PROVE Abstract!Put(b)
<1>1. /\ pi \in Pipes /\ pi' \in Pipes /\ pi # None /\ pi' # None
      /\ Used < PIPESIZE /\ Used' = Used + 1 /\ pi'.nread = pi.nread
      /\ pi'.data = [pi.data EXCEPT ![pi.nwrite % PIPESIZE] = b]
      /\ pi'.readopen = pi.readopen /\ pi'.writeopen = pi.writeopen
  BY ByteIn, NoneAssumption
<1>2. Used \in Nat /\ PIPESIZE \in Nat /\ PIPESIZE > 0 /\ pi.nread \in Int /\ pi.nwrite \in Int
  BY <1>1, UsedFacts, UsedValue, PipeAssumption
<1>3. OpenEnds = {"r", "w"} /\ UNCHANGED OpenEnds
  <2>1. pi.readopen  BY DEF WriteByte
  <2>2. "w" \in Ends /\ InPipe(p, "w")  BY DEF Ends, InPipe, WriteByte, Writing
  <2>3. pi.writeopen  BY <2>2 DEF Inv, Files, IsOpen
  <2> QED BY <1>1, <2>1, <2>3 DEF OpenEnds, Ends
<1>4. Queue' = Append(Queue, b)
  <2>1. Queue' = [i \in 1..Used + 1 |-> pi'.data[Slot(pi.nread + i - 1)]]
    BY <1>1, QueueNext
  <2>2. /\ Queue = [i \in 1..Used |-> pi.data[Slot(pi.nread + i - 1)]]
        /\ Len(Queue) = Used /\ Queue \in Seq(Byte)
    BY <1>1, QueueIs
  <2>3. Append(Queue, b) = [i \in 1..Used + 1 |-> IF i = Used + 1 THEN b ELSE Queue[i]]
    BY <1>2, <2>2
  <2>4. Slot(pi.nwrite) = Slot(pi.nread + Used)  BY <1>1, WriteSlot
  <2>5. Slot(pi.nwrite) \in 0..PIPESIZE - 1  BY <1>2, Modulo DEF Slot
  <2>6. pi'.data[Slot(pi.nread + (Used + 1) - 1)] = b
    <3>1. pi.nread + (Used + 1) - 1 = pi.nread + Used  BY <1>2
    <3>2. pi'.data[Slot(pi.nwrite)] = b  BY <1>1, <2>5 DEF Pipes, Slot
    <3> QED BY <2>4, <3>1, <3>2
  <2>7. ASSUME NEW i \in 1..Used
        PROVE pi'.data[Slot(pi.nread + i - 1)] = Queue[i]
    <3>1. /\ pi.nread + i - 1 \in Int /\ pi.nread + Used \in Int
          /\ pi.nread + i - 1 < pi.nread + Used
          /\ (pi.nread + Used) - (pi.nread + i - 1) < PIPESIZE
      BY <1>1, <1>2
    <3>2. Slot(pi.nread + i - 1) # Slot(pi.nread + Used)  BY <1>2, <3>1, OtherSlot DEF Slot
    <3>3. Slot(pi.nread + i - 1) \in 0..PIPESIZE - 1  BY <1>2, <3>1, Modulo DEF Slot
    <3> QED BY <1>1, <2>2, <2>4, <3>2, <3>3 DEF Pipes, Slot
  <2> QED BY <1>2, <2>1, <2>3, <2>6, <2>7
<1> QED BY <1>1, <1>3, <1>4, QueueIs DEF Abstract!Put

\* Bytes leave at the front, and those that stay are found from the new nread on.
LEMMA GetStep ==
    ASSUME Inv, NEW p \in Procs, NEW n \in 1..MaxWrite, ReadCopy(p, n)
    PROVE (\E k \in 1..PIPESIZE : Abstract!Get(k)) \/ UNCHANGED <<Queue, OpenEnds>>
<1>1. /\ pi \in Pipes /\ pi' \in Pipes /\ pi # None /\ pi' # None
      /\ pi'.data = pi.data
      /\ pi'.readopen = pi.readopen /\ pi'.writeopen = pi.writeopen
  BY BytesOut, NoneAssumption
<1>2. /\ Used \in Nat /\ PIPESIZE \in Nat /\ Used <= PIPESIZE
      /\ pi.nread \in 0..CounterRange - 1 /\ Used \in 0..CounterRange
  BY <1>1, UsedFacts, UsedValue, PipeAssumption DEF Inv, Fits
<1>3. PICK k \in 0..Used : Used' = Used - k /\ pi'.nread = Advance(pi.nread, k)
  BY BytesOut
<1>4. "r" \in OpenEnds /\ UNCHANGED OpenEnds
  <2>1. "r" \in Ends /\ InPipe(p, "r")  BY DEF Ends, InPipe, ReadCopy, Reading
  <2>2. pi.readopen  BY <2>1 DEF Inv, Files, IsOpen
  <2> QED BY <1>1, <2>2 DEF OpenEnds, Ends
<1>5. Queue' = [i \in 1..Used - k |-> pi.data[Slot(pi.nread + k + i - 1)]]
  <2>1. Queue' = [i \in 1..Used - k |-> pi.data[Slot(Advance(pi.nread, k) + i - 1)]]
    BY <1>1, <1>3, QueueNext
  <2>2. ASSUME NEW i \in 1..Used - k
        PROVE Slot(Advance(pi.nread, k) + i - 1) = Slot(pi.nread + k + i - 1)
    <3>1. i - 1 \in Int /\ k \in Nat /\ k <= CounterRange
      BY <1>2, PipeAssumption
    <3>2. Slot(Advance(pi.nread, k) + (i - 1)) = Slot(pi.nread + k + (i - 1))
      <4>1. k \in 0..CounterRange  BY <3>1, PipeAssumption
      <4> QED BY <1>2, <3>1, <4>1, AdvancedSlot
    <3>3. Advance(pi.nread, k) \in Int
      <4>1. Advance(pi.nread, k) \in 0..CounterRange - 1  BY <1>2, <3>1, AdvanceType
      <4> QED BY <4>1, PipeAssumption
    <3>4. /\ Advance(pi.nread, k) + (i - 1) = Advance(pi.nread, k) + i - 1
          /\ pi.nread + k + (i - 1) = pi.nread + k + i - 1
      BY <1>2, <3>1, <3>3
    <3> QED BY <3>2, <3>4
  <2> QED BY <2>1, <2>2
<1>6. /\ Queue = [i \in 1..Used |-> pi.data[Slot(pi.nread + i - 1)]]
      /\ Len(Queue) = Used /\ Queue \in Seq(Byte)
  BY <1>1, QueueIs
<1>7. Queue' = SubSeq(Queue, k + 1, Len(Queue))
  <2>1. SubSeq(Queue, k + 1, Used) = [i \in 1..Used - k |-> Queue[i + k]]
    BY <1>2, <1>6
  <2>2. ASSUME NEW i \in 1..Used - k
        PROVE Queue[i + k] = pi.data[Slot(pi.nread + k + i - 1)]
    <3>1. i + k \in 1..Used  BY <1>2
    <3>2. pi.nread + (i + k) - 1 = pi.nread + k + i - 1  BY <1>2
    <3> QED BY <1>6, <3>1, <3>2
  <2> QED BY <1>5, <1>6, <2>1, <2>2
<1>8. CASE k = 0
  <2>1. UNCHANGED Queue  BY <1>2, <1>6, <1>7, <1>8
  <2> QED BY <1>4, <2>1
<1>9. CASE k # 0
  <2>1. k \in 1..Len(Queue) /\ k \in 1..PIPESIZE  BY <1>2, <1>6, <1>9
  <2> QED BY <1>4, <1>7, <2>1 DEF Abstract!Get
<1> QED BY <1>8, <1>9

\* pipeclose closes an end of the abstract queue.
LEMMA CloseStep ==
    ASSUME Inv, NEW p \in Procs, PipeClose(p)
    PROVE \E e \in {"r", "w"} : Abstract!Close(e)
<1>1. pi \in Pipes /\ pi # None /\ closing[p] \in Ends
  BY PipeThere, NoneAssumption DEF PipeClose, Inv, TypeOK
<1>2. PICK e \in Ends : closing[p] = e  BY <1>1
<1>3. IsOpen(e)  BY <1>2 DEF Inv, Files
<1>4. Closed(e) \in Pipes /\ Closed(e) # None  BY <1>1, Updates, NoneAssumption
<1>5. /\ Closed(e).data = pi.data
      /\ Closed(e).nread = pi.nread /\ Closed(e).nwrite = pi.nwrite
      /\ Closed(e).readopen = (IF e = "r" THEN FALSE ELSE pi.readopen)
      /\ Closed(e).writeopen = (IF e = "w" THEN FALSE ELSE pi.writeopen)
  BY <1>1, <1>2 DEF Closed, Ends, Pipes
<1>6. pi' = IF Closed(e).readopen \/ Closed(e).writeopen THEN Closed(e) ELSE None
  BY <1>2 DEF PipeClose
<1>7. e \in OpenEnds /\ OpenEnds' = OpenEnds \ {e}
  BY <1>1, <1>3, <1>4, <1>5, <1>6 DEF OpenEnds, IsOpen, Ends
<1>8. OpenEnds' = {} <=> pi' = None
  BY <1>4, <1>5, <1>6 DEF OpenEnds, Ends
<1>9. IF pi' = None THEN Queue' = <<>> ELSE UNCHANGED Queue
  BY <1>1, <1>4, <1>5, <1>6 DEF Queue, Used
<1>10. Abstract!Close(e)  BY <1>7, <1>8, <1>9 DEF Abstract!Close
<1> QED BY <1>10 DEF Ends

\* pipealloc creates an empty queue with both ends open.
LEMMA CreateStep == ASSUME NEW p \in Procs, PipeAlloc(p) PROVE Abstract!Create
<1>1. pi = None /\ pi' \in Pipes /\ pi'.readopen /\ pi'.writeopen
  BY NewPipe DEF PipeAlloc
<1>2. pi' # None  BY <1>1, NoneAssumption
<1>3. OpenEnds = {} /\ Queue = <<>> /\ OpenEnds' = {"r", "w"}
  BY <1>1, <1>2 DEF OpenEnds, Queue, Ends
<1>4. Queue' = <<>>
  <2>1. pi'.nread = 0 /\ pi'.nwrite = 0  BY DEF PipeAlloc
  <2>2. Used' = 0  BY <2>1, PipeAssumption, Modulo DEF Used
  <2> QED BY <1>1, <2>2, QueueNext
<1> QED BY <1>3, <1>4 DEF Abstract!Create

------------------------------------------------------------------------------
\* The pipe is a bounded queue: every byte comes out once, in order, whatever the
\* processes that share it do.
THEOREM Refinement == Spec => Fifo
<1>1. Init => Abstract!Init
  BY DEF Init, Abstract!Init, Queue, OpenEnds
<1>2. Inv /\ [Next]_vars => [Abstract!Next]_<<Queue, OpenEnds>>
  <2> SUFFICES ASSUME Inv, [Next]_vars
               PROVE Abstract!Next \/ UNCHANGED <<Queue, OpenEnds>>
    OBVIOUS
  <2>1. CASE UNCHANGED vars  BY <2>1, SameQueue DEF vars, pipeVars
  <2>2. ASSUME NEW p \in Procs, Step(p)
        PROVE Abstract!Next \/ UNCHANGED <<Queue, OpenEnds>>
    <3>1. CASE ForkStep(p) \/ ExitStep(p) \/ WaitStep(p) \/ SchedStep(p) \/ KillStep(p)
      <4>1. UNCHANGED pi
        BY <3>1 DEF ForkStep, ExitStep, WaitStep, SchedStep, KillStep, Fork, OnlyProc, pipeVars
      <4> QED BY <4>1, SameQueue
    <3>2. CASE PipeAlloc(p)  BY <3>2, CreateStep DEF Abstract!Next
    <3>3. CASE PipeClose(p)  BY <3>3, CloseStep DEF Abstract!Next
    <3>4. CASE \E e \in Ends : FileClose(p, e)  BY <3>4, SameQueue DEF FileClose
    <3>5. CASE WriteStep(p)
      <4>1. CASE \E b \in Byte : WriteByte(p, b)  BY <4>1, PutStep DEF Abstract!Next
      <4>2. CASE ~ \E b \in Byte : WriteByte(p, b)
        <5>1. UNCHANGED pi
          BY <3>5, <4>2 DEF WriteStep, Write, WriteFails, WriteFull, WriteSleep, WriteDone
        <5> QED BY <5>1, SameQueue
      <4> QED BY <4>1, <4>2
    <3>6. CASE ReadStep(p)
      <4>1. CASE \E n \in 1..MaxWrite : ReadCopy(p, n)
        BY <4>1, GetStep DEF Abstract!Next
      <4>2. CASE ~ \E n \in 1..MaxWrite : ReadCopy(p, n)
        <5>1. UNCHANGED pi
          BY <3>6, <4>2 DEF ReadStep, Read, OnlyProc, pipeVars, ReadEmpty, ReadSleep
        <5> QED BY <5>1, SameQueue
      <4> QED BY <4>1, <4>2
    <3> QED BY <2>2, <3>1, <3>2, <3>3, <3>4, <3>5, <3>6 DEF Step, FileStep
  <2> QED BY <2>1, <2>2 DEF Next
<1> QED BY <1>1, <1>2, Invariance, PTL DEF Spec, Fifo, Abstract!Spec
=================================================================================
