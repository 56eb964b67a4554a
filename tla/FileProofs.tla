------------------------------- MODULE FileProofs -------------------------------
(***************************************************************************)
(* Theorems about xv6's inode table and its calls on files, for any number  *)
(* of processes, inodes, entries, names, paths and open files.              *)
(***************************************************************************)
EXTENDS FileInvariant, SelectionProofs

\* Numbers of entries and of inodes.
LEMMA Numbers ==
    /\ 0 \notin Slots /\ 0..NINODE = Slots \cup {0} /\ 1 \in Slots /\ Slots \subseteq Nat
    /\ 0 \notin Inums /\ 0..NINODES = Inums \cup {0} /\ ROOTINO \in Inums /\ 2 \in Inums
    /\ Inums \subseteq Nat /\ 0 \notin Procs
BY TableAssumption, ProcsAssumption DEF Slots, Inums, ROOTINO

LEMMA FiniteInums == IsFiniteSet(Inums)
<1>1. NINODES \in Int /\ 1 \in Int
  BY TableAssumption
<1>2. IsFiniteSet(1..NINODES)
  BY <1>1, FS_Interval
<1> QED
  BY <1>2 DEF Inums

LEMMA FiniteFds == IsFiniteSet(Fds) /\ Fds \subseteq Nat
<1>1. NOFILE \in Int /\ 1 \in Int
  BY CallsAssumption
<1>2. IsFiniteSet(1..NOFILE)
  BY <1>1, FS_Interval
<1> QED
  BY <1>1, <1>2 DEF Fds

\* The variables that are functions on the processes.
LEMMA TypesAre ==
    ASSUME TypeOK
    PROVE  /\ cwd \in [Procs -> Slots] /\ put \in [Procs -> 0..NINODE]
           /\ walk \in [Procs -> 0..NINODE] /\ ip \in [Procs -> 0..NINODE]
           /\ ofile \in [Procs -> [Fds -> 0..NINODE]] /\ pc \in [Procs -> Places]
           /\ freeing \in [Procs -> {"no", "trunc", "ref"}]
BY DEF TypeOK

------------------------------------------------------------------------------
\* Counting.

Bit(b) == IF b THEN 1 ELSE 0

\* A function counts finitely often.
LEMMA CountType ==
    ASSUME NEW D, IsFiniteSet(D), NEW f, DOMAIN f = D, NEW v
    PROVE  /\ Count(f, v) \in Nat
           /\ \A x \in D : f[x] = v => Count(f, v) >= 1
           /\ \A x, y \in D : f[x] = v /\ f[y] = v /\ x # y => Count(f, v) >= 2
<1> DEFINE H == {x \in D : f[x] = v}
<1>1. Count(f, v) = Cardinality(H)
  BY DEF Count
<1>2. IsFiniteSet(H) /\ Cardinality(H) \in Nat
  <2>1. IsFiniteSet(H)
    BY FS_Subset
  <2> QED
    BY <2>1, FS_CardinalityType
<1>3. ASSUME NEW x \in D, f[x] = v PROVE Cardinality(H) >= 1 /\ Cardinality(H \ {x}) = Cardinality(H) - 1
  <2>1. IsFiniteSet(H \ {x}) /\ Cardinality(H \ {x}) = Cardinality(H) - 1
    BY <1>2, <1>3, FS_RemoveElement
  <2>2. Cardinality(H \ {x}) \in Nat
    BY <2>1, FS_CardinalityType
  <2> QED
    BY <1>2, <2>1, <2>2
<1>4. ASSUME NEW x \in D, NEW y \in D, f[x] = v, f[y] = v, x # y PROVE Cardinality(H) >= 2
  <2>1. IsFiniteSet(H \ {x}) /\ Cardinality(H \ {x}) = Cardinality(H) - 1
    BY <1>2, <1>3, <1>4, FS_RemoveElement
  <2>2. y \in H \ {x}
    BY <1>4
  <2>3. Cardinality((H \ {x}) \ {y}) = Cardinality(H \ {x}) - 1 /\ IsFiniteSet((H \ {x}) \ {y})
    BY <2>1, <2>2, FS_RemoveElement
  <2>4. Cardinality((H \ {x}) \ {y}) \in Nat
    BY <2>3, FS_CardinalityType
  <2> QED
    BY <1>2, <2>1, <2>3, <2>4
<1> HIDE DEF H
<1> QED
  BY <1>1, <1>2, <1>3, <1>4

\* One value of a function changes.
LEMMA CountStep ==
    ASSUME NEW D, IsFiniteSet(D), NEW f, DOMAIN f = D, NEW g, DOMAIN g = D,
           NEW x \in D, \A y \in D \ {x} : g[y] = f[y], NEW v
    PROVE  Count(g, v) = Count(f, v) + Bit(g[x] = v) - Bit(f[x] = v)
<1> DEFINE F == {y \in D : f[y] = v}
           G == {y \in D : g[y] = v}
<1>1. Count(f, v) = Cardinality(F) /\ Count(g, v) = Cardinality(G)
  BY DEF Count
<1>2. IsFiniteSet(F) /\ IsFiniteSet(G) /\ Cardinality(F) \in Nat
  <2>1. IsFiniteSet(F) /\ IsFiniteSet(G)
    BY FS_Subset
  <2> QED
    BY <2>1, FS_CardinalityType
<1>3. CASE f[x] = v /\ g[x] = v
  <2>1. F = G
    BY <1>3
  <2> QED
    BY <1>1, <1>2, <1>3, <2>1 DEF Bit
<1>4. CASE f[x] # v /\ g[x] # v
  <2>1. F = G
    BY <1>4
  <2> QED
    BY <1>1, <1>2, <1>4, <2>1 DEF Bit
<1>5. CASE f[x] # v /\ g[x] = v
  <2>1. G = F \cup {x} /\ x \notin F
    BY <1>5
  <2>2. Cardinality(G) = Cardinality(F) + 1
    BY <1>2, <2>1, FS_AddElement
  <2> QED
    BY <1>1, <1>2, <1>5, <2>2 DEF Bit
<1>6. CASE f[x] = v /\ g[x] # v
  <2>1. G = F \ {x} /\ x \in F
    BY <1>6
  <2>2. Cardinality(G) = Cardinality(F) - 1
    BY <1>2, <2>1, FS_RemoveElement
  <2> QED
    BY <1>1, <1>2, <1>6, <2>2 DEF Bit
<1> QED
  BY <1>3, <1>4, <1>5, <1>6


\* A step of a process leaves the others alone.
Others(p) ==
    \A q \in Procs \ {p} :
        /\ pc'[q] = pc[q] /\ call'[q] = call[q] /\ walk'[q] = walk[q] /\ ip'[q] = ip[q]
        /\ cwd'[q] = cwd[q] /\ ofile'[q] = ofile[q] /\ put'[q] = put[q]
        /\ freeing'[q] = freeing[q]

\* The pointers to an entry that a process has beside its open files, and all open files.
Own(p, s) ==
    Bit(cwd[p] = s) + Bit(put[p] = s) + Bit(Walks(p) /\ walk[p] = s)
    + Bit(Keeps(p) /\ ip[p] = s)
FileOf == [x \in Procs \X Fds |-> ofile[x[1]][x[2]]]
WalkOf == [p \in Procs |-> IF Walks(p) THEN walk[p] ELSE 0]
KeptOf == [p \in Procs |-> IF Keeps(p) THEN ip[p] ELSE 0]
Filed(s) == Count(FileOf, s)

LEMMA PointersAre ==
    ASSUME TypeOK, NEW s \in Slots
    PROVE  /\ Pointers(s) = Filed(s) + Count(cwd, s) + Count(put, s) + Count(WalkOf, s)
                             + Count(KeptOf, s) + Bit(s = 1)
           /\ Filed(s) \in Nat /\ Count(cwd, s) \in Nat /\ Count(put, s) \in Nat
           /\ Count(WalkOf, s) \in Nat /\ Count(KeptOf, s) \in Nat
           /\ s # 0
<1>1. /\ DOMAIN FileOf = Procs \X Fds /\ DOMAIN WalkOf = Procs /\ DOMAIN KeptOf = Procs
      /\ DOMAIN cwd = Procs /\ DOMAIN put = Procs /\ s # 0
  BY TypesAre, Numbers DEF FileOf, WalkOf, KeptOf
<1>2. IsFiniteSet(Procs) /\ IsFiniteSet(Procs \X Fds)
  <2>1. IsFiniteSet(Fds)
    BY FiniteFds
  <2> QED
    BY <2>1, ProcsAssumption, FS_Product
<1>3. /\ Filed(s) \in Nat /\ Count(cwd, s) \in Nat /\ Count(put, s) \in Nat
      /\ Count(WalkOf, s) \in Nat /\ Count(KeptOf, s) \in Nat
  <2>1. Filed(s) \in Nat
    BY <1>1, <1>2, CountType DEF Filed
  <2>2. Count(cwd, s) \in Nat /\ Count(put, s) \in Nat
    BY <1>1, <1>2, CountType
  <2>3. Count(WalkOf, s) \in Nat /\ Count(KeptOf, s) \in Nat
    BY <1>1, <1>2, CountType
  <2> QED
    BY <2>1, <2>2, <2>3
<1>4. Pointers(s) = Filed(s) + Count(cwd, s) + Count(put, s) + Count(WalkOf, s)
                     + Count(KeptOf, s) + Bit(s = 1)
  BY DEF Pointers, Filed, FileOf, WalkOf, KeptOf, Bit
<1> QED
  BY <1>1, <1>3, <1>4

LEMMA PointersArePrimed ==
    TypeOK' => \A s \in Slots :
           /\ Pointers(s)' = Filed(s)' + Count(cwd, s)' + Count(put, s)' + Count(WalkOf, s)'
                             + Count(KeptOf, s)' + Bit(s = 1)
           /\ Filed(s)' \in Nat /\ Count(cwd, s)' \in Nat /\ Count(put, s)' \in Nat
           /\ Count(WalkOf, s)' \in Nat /\ Count(KeptOf, s)' \in Nat
<1>1. TypeOK => \A s \in Slots :
           /\ Pointers(s) = Filed(s) + Count(cwd, s) + Count(put, s) + Count(WalkOf, s)
                             + Count(KeptOf, s) + Bit(s = 1)
           /\ Filed(s) \in Nat /\ Count(cwd, s) \in Nat /\ Count(put, s) \in Nat
           /\ Count(WalkOf, s) \in Nat /\ Count(KeptOf, s) \in Nat
  BY PointersAre
<1>2. (TypeOK => \A s \in Slots :
           /\ Pointers(s) = Filed(s) + Count(cwd, s) + Count(put, s) + Count(WalkOf, s)
                             + Count(KeptOf, s) + Bit(s = 1)
           /\ Filed(s) \in Nat /\ Count(cwd, s) \in Nat /\ Count(put, s) \in Nat
           /\ Count(WalkOf, s) \in Nat /\ Count(KeptOf, s) \in Nat)'
  BY <1>1, PTL
<1> QED
  BY <1>2

\* What a step does to the number of pointers is what it does to those of its process.
LEMMA PointersStep ==
    ASSUME TypeOK, TypeOK', NEW p \in Procs, Others(p), NEW s \in Slots
    PROVE  /\ Pointers(s)' = Pointers(s) + Own(p, s)' - Own(p, s) + Filed(s)' - Filed(s)
           /\ Pointers(s) \in Nat /\ Filed(s) \in Nat /\ Filed(s)' \in Nat
<1>1. /\ DOMAIN WalkOf = Procs /\ DOMAIN WalkOf' = Procs
      /\ DOMAIN KeptOf = Procs /\ DOMAIN KeptOf' = Procs
      /\ IsFiniteSet(Procs) /\ s # 0
  BY ProcsAssumption, Numbers DEF WalkOf, KeptOf
<1>13. /\ DOMAIN cwd = Procs /\ DOMAIN cwd' = Procs
       /\ DOMAIN put = Procs /\ DOMAIN put' = Procs
  BY DEF TypeOK
<1>2. \A q \in Procs \ {p} : WalkOf'[q] = WalkOf[q] /\ KeptOf'[q] = KeptOf[q]
  BY DEF WalkOf, KeptOf, Walks, Keeps, Others
<1>3. /\ (WalkOf[p] = s <=> (Walks(p) /\ walk[p] = s))
      /\ (KeptOf[p] = s <=> (Keeps(p) /\ ip[p] = s))
      /\ (WalkOf'[p] = s <=> (Walks(p)' /\ walk'[p] = s))
      /\ (KeptOf'[p] = s <=> (Keeps(p)' /\ ip'[p] = s))
  BY <1>1 DEF WalkOf, KeptOf
<1>4. Count(cwd', s) = Count(cwd, s) + Bit(cwd'[p] = s) - Bit(cwd[p] = s)
  BY <1>1, <1>13, CountStep DEF Others
<1>5. Count(put', s) = Count(put, s) + Bit(put'[p] = s) - Bit(put[p] = s)
  BY <1>1, <1>13, CountStep DEF Others
<1>6. Count(WalkOf', s) = Count(WalkOf, s) + Bit(WalkOf'[p] = s) - Bit(WalkOf[p] = s)
  BY <1>1, <1>2, CountStep
<1>7. Count(KeptOf', s) = Count(KeptOf, s) + Bit(KeptOf'[p] = s) - Bit(KeptOf[p] = s)
  BY <1>1, <1>2, CountStep
<1>8. /\ Count(cwd, s)' = Count(cwd', s) /\ Count(put, s)' = Count(put', s)
      /\ Count(WalkOf, s)' = Count(WalkOf', s) /\ Count(KeptOf, s)' = Count(KeptOf', s)
  BY DEF Count
<1>9. /\ Own(p, s) = Bit(cwd[p] = s) + Bit(put[p] = s) + Bit(WalkOf[p] = s) + Bit(KeptOf[p] = s)
      /\ Own(p, s)' = Bit(cwd'[p] = s) + Bit(put'[p] = s) + Bit(WalkOf'[p] = s) + Bit(KeptOf'[p] = s)
  BY <1>3 DEF Own, Bit
<1>10. \A b : Bit(b) \in {0, 1}
  BY DEF Bit
<1>11. /\ Pointers(s) = Filed(s) + Count(cwd, s) + Count(put, s) + Count(WalkOf, s)
                             + Count(KeptOf, s) + Bit(s = 1)
       /\ Filed(s) \in Nat /\ Count(cwd, s) \in Nat /\ Count(put, s) \in Nat
       /\ Count(WalkOf, s) \in Nat /\ Count(KeptOf, s) \in Nat
  BY PointersAre
<1>12. /\ Pointers(s)' = Filed(s)' + Count(cwd, s)' + Count(put, s)' + Count(WalkOf, s)'
                             + Count(KeptOf, s)' + Bit(s = 1)
       /\ Filed(s)' \in Nat
  BY PointersArePrimed
<1> HIDE DEF Bit
<1> QED
  BY <1>4, <1>5, <1>6, <1>7, <1>8, <1>9, <1>10, <1>11, <1>12

\* One open file changes.
LEMMA FiledStep ==
    ASSUME TypeOK, NEW p \in Procs, NEW fd \in Fds, NEW s \in Slots,
           \A q \in Procs \ {p} : ofile'[q] = ofile[q],
           \A d \in Fds \ {fd} : ofile'[p][d] = ofile[p][d]
    PROVE  Filed(s)' = Filed(s) + Bit(ofile'[p][fd] = s) - Bit(ofile[p][fd] = s)
<1> DEFINE D == Procs \X Fds
           x == <<p, fd>>
<1>1. IsFiniteSet(D)
  <2>1. IsFiniteSet(Fds)
    BY FiniteFds
  <2> QED
    BY <2>1, ProcsAssumption, FS_Product
<1>2. DOMAIN FileOf = D /\ DOMAIN FileOf' = D /\ x \in D
  BY DEF FileOf
<1>3. \A y \in D \ {x} : FileOf'[y] = FileOf[y]
  BY DEF FileOf
<1>4. FileOf'[x] = ofile'[p][fd] /\ FileOf[x] = ofile[p][fd]
  BY DEF FileOf
<1> HIDE DEF D, x
<1>5. Count(FileOf', s) = Count(FileOf, s) + Bit(FileOf'[x] = s) - Bit(FileOf[x] = s)
  BY <1>1, <1>2, <1>3, CountStep
<1>6. Filed(s) = Count(FileOf, s) /\ Filed(s)' = Count(FileOf', s)
  BY DEF Filed, Count
<1> QED
  BY <1>4, <1>5, <1>6

LEMMA FiledSame ==
    ASSUME ofile' = ofile, NEW s
    PROVE  Filed(s)' = Filed(s)
BY DEF Filed, FileOf, Count

\* Who is referred to.
LEMMA Referred ==
    ASSUME TypeOK, RefsCover, NEW s \in Slots
    PROVE  /\ itable[s].ref \in Nat
           /\ \A p \in Procs : PointsTo(p, s) \/ put[p] = s => itable[s].ref >= 1
           /\ \A p, q \in Procs : put[p] = s /\ (PointsTo(q, s) \/ (put[q] = s /\ p # q))
                => itable[s].ref >= 2
           /\ s = 1 => itable[s].ref >= 1 /\ \A p \in Procs : put[p] = s => itable[s].ref >= 2
<1>1. /\ DOMAIN FileOf = Procs \X Fds /\ DOMAIN WalkOf = Procs /\ DOMAIN KeptOf = Procs
      /\ DOMAIN cwd = Procs /\ DOMAIN put = Procs
  BY TypesAre DEF FileOf, WalkOf, KeptOf
<1>2. IsFiniteSet(Procs) /\ IsFiniteSet(Procs \X Fds)
  <2>1. IsFiniteSet(Fds)
    BY FiniteFds
  <2> QED
    BY <2>1, ProcsAssumption, FS_Product
<1>3. \A p \in Procs : cwd[p] = s => Count(cwd, s) >= 1
  BY <1>1, <1>2, CountType
<1>4. \A p \in Procs : put[p] = s => Count(put, s) >= 1
  BY <1>1, <1>2, CountType
<1>5. \A p \in Procs : Walks(p) /\ walk[p] = s => Count(WalkOf, s) >= 1
  <2>1. \A p \in Procs : WalkOf[p] = s => Count(WalkOf, s) >= 1
    BY <1>1, <1>2, CountType
  <2> QED
    BY <2>1 DEF WalkOf
<1>6. \A p \in Procs : Keeps(p) /\ ip[p] = s => Count(KeptOf, s) >= 1
  <2>1. \A p \in Procs : KeptOf[p] = s => Count(KeptOf, s) >= 1
    BY <1>1, <1>2, CountType
  <2> QED
    BY <2>1 DEF KeptOf
<1>7. \A p \in Procs, fd \in Fds : ofile[p][fd] = s => Filed(s) >= 1
  <2>1. \A x \in Procs \X Fds : FileOf[x] = s => Count(FileOf, s) >= 1
    BY <1>1, <1>2, CountType
  <2>2. ASSUME NEW p \in Procs, NEW fd \in Fds, ofile[p][fd] = s PROVE Filed(s) >= 1
    <3>1. <<p, fd>> \in Procs \X Fds /\ FileOf[<<p, fd>>] = s
      BY <2>2 DEF FileOf
    <3> QED
      BY <2>1, <3>1 DEF Filed
  <2> QED
    BY <2>2
<1>8. \A p, q \in Procs : put[p] = s /\ put[q] = s /\ p # q => Count(put, s) >= 2
  BY <1>1, <1>2, CountType
<1>9. /\ Pointers(s) = Filed(s) + Count(cwd, s) + Count(put, s) + Count(WalkOf, s)
                             + Count(KeptOf, s) + Bit(s = 1)
      /\ Filed(s) \in Nat /\ Count(cwd, s) \in Nat /\ Count(put, s) \in Nat
      /\ Count(WalkOf, s) \in Nat /\ Count(KeptOf, s) \in Nat
      /\ Bit(s = 1) \in {0, 1} /\ (s = 1 => Bit(s = 1) = 1)
  BY PointersAre DEF Bit
<1>10. itable[s].ref >= Pointers(s) /\ itable[s].ref \in Nat
  BY DEF RefsCover, TypeOK
<1> HIDE DEF Bit
<1>11. \A p \in Procs : PointsTo(p, s) =>
         Filed(s) + Count(cwd, s) + Count(WalkOf, s) + Count(KeptOf, s) >= 1
  BY <1>3, <1>5, <1>6, <1>7, <1>9 DEF PointsTo
<1> QED
  BY <1>4, <1>8, <1>9, <1>10, <1>11

------------------------------------------------------------------------------
\* The table.

Entry == [inum : 0..NINODES, ref : Nat, valid : BOOLEAN, type : Types, nlink : Nat,
          lock : Procs \cup {0}]
Tables == [Slots -> Entry]

\* The first of a set.
LEMMA FirstIs ==
    ASSUME NEW S, S \subseteq Nat, IsFiniteSet(S), S # {}
    PROVE  First(S) \in S
BY LeastExists DEF First

LEMMA FiniteSlots ==
    ASSUME NEW S \in SUBSET Slots
    PROVE  S \subseteq Nat /\ IsFiniteSet(S)
<1>1. IsFiniteSet(Slots) /\ Slots \subseteq Nat
  <2>1. NINODE \in Int /\ 1 \in Int
    BY TableAssumption
  <2>2. IsFiniteSet(1..NINODE)
    BY <2>1, FS_Interval
  <2> QED
    BY <2>1, <2>2 DEF Slots
<1> QED
  BY <1>1, FS_Subset

\* What iget does to a table: u is t after an entry, g, was got for an inode.
GotFacts(t, i, g, u) ==
    /\ g \in 0..NINODE /\ u \in Tables
    /\ \A s \in Slots : u[s].ref = t[s].ref + Bit(s = g)
    /\ \A s \in Slots \ {g} : u[s] = t[s]
    /\ g # 0 => u[g].inum = i
    /\ g # 0 /\ t[g].ref > 0 =>
          /\ t[g].inum = i /\ u[g].valid = t[g].valid /\ u[g].type = t[g].type
          /\ u[g].nlink = t[g].nlink /\ u[g].lock = t[g].lock
    /\ g # 0 /\ t[g].ref = 0 =>
          /\ ~u[g].valid /\ u[g].lock = 0
          /\ \A s \in Slots : t[s].ref > 0 => t[s].inum # i

LEMMA GotIs ==
    ASSUME NEW t \in Tables, NEW i \in Inums, NEW g, g = GetSlot(t, i)
    PROVE  GotFacts(t, i, g, Got(t, i))
<1>1. /\ Find(t, i) \subseteq Slots /\ Empty(t) \subseteq Slots
      /\ (Find(t, i) # {} => First(Find(t, i)) \in Find(t, i))
      /\ (Empty(t) # {} => First(Empty(t)) \in Empty(t))
  <2>1. Find(t, i) \in SUBSET Slots /\ Empty(t) \in SUBSET Slots
    BY DEF Find, Empty
  <2> QED
    BY <2>1, FiniteSlots, FirstIs
<1>3. CASE Find(t, i) # {}
  <2>1. g = First(Find(t, i)) /\ g \in Slots /\ t[g].ref > 0 /\ t[g].inum = i
    BY <1>1, <1>3 DEF GetSlot, Find
  <2>2. Got(t, i) = [t EXCEPT ![g].ref = @ + 1]
    BY <1>3, <2>1 DEF Got
  <2>3. t[g] \in Entry /\ g # 0 /\ g \in 0..NINODE
    BY <2>1, Numbers DEF Tables
  <2>4. /\ Got(t, i) \in Tables /\ Got(t, i)[g] = [t[g] EXCEPT !.ref = @ + 1]
        /\ \A s \in Slots \ {g} : Got(t, i)[s] = t[s]
    BY <2>1, <2>2, <2>3 DEF Tables, Entry
  <2>5. /\ Got(t, i)[g].ref = t[g].ref + 1 /\ Got(t, i)[g].valid = t[g].valid
        /\ Got(t, i)[g].inum = t[g].inum /\ Got(t, i)[g].type = t[g].type
        /\ Got(t, i)[g].nlink = t[g].nlink /\ Got(t, i)[g].lock = t[g].lock
    BY <2>3, <2>4 DEF Entry
  <2>6. \A s \in Slots : t[s].ref \in Nat
    BY DEF Tables, Entry
  <2>7. ASSUME NEW s \in Slots PROVE Got(t, i)[s].ref = t[s].ref + Bit(s = g)
    <3>1. CASE s = g
      BY <2>5, <2>6, <3>1 DEF Bit
    <3>2. CASE s # g
      BY <2>4, <2>6, <3>2 DEF Bit
    <3> QED
      BY <3>1, <3>2
  <2> DEFINE u == Got(t, i)
  <2> HIDE DEF Bit, u
  <2>10. g \in 0..NINODE /\ u \in Tables
    BY <2>3, <2>4 DEF u
  <2>11. \A s \in Slots : u[s].ref = t[s].ref + Bit(s = g)
    BY <2>7 DEF u
  <2>12. \A s \in Slots \ {g} : u[s] = t[s]
    BY <2>4 DEF u
  <2>13. /\ u[g].inum = i /\ t[g].inum = i /\ u[g].valid = t[g].valid
        /\ u[g].type = t[g].type /\ u[g].nlink = t[g].nlink /\ u[g].lock = t[g].lock
    BY <2>1, <2>5 DEF u
  <2>14. ~(t[g].ref = 0)
    BY <2>1, <2>6
  <2> QED
    BY <2>10, <2>11, <2>12, <2>13, <2>14 DEF u, GotFacts
<1>4. CASE Find(t, i) = {} /\ Empty(t) # {}
  <2>1. g = First(Empty(t)) /\ g \in Slots /\ t[g].ref = 0
    BY <1>1, <1>4 DEF GetSlot, Empty
  <2> DEFINE e == [FreeEntry EXCEPT !.inum = i, !.ref = 1]
  <2>2. Got(t, i) = [t EXCEPT ![g] = e]
    BY <1>4, <2>1 DEF Got
  <2>3. /\ g # 0 /\ g \in 0..NINODE /\ e \in Entry /\ e.ref = 1 /\ e.inum = i
        /\ ~e.valid /\ e.lock = 0
    BY <2>1, Numbers DEF Entry, FreeEntry, Types
  <2> HIDE DEF e
  <2>4. /\ Got(t, i) \in Tables /\ Got(t, i)[g] = e
        /\ \A s \in Slots \ {g} : Got(t, i)[s] = t[s]
    BY <2>1, <2>2, <2>3 DEF Tables
  <2>6. \A s \in Slots : t[s].ref \in Nat
    BY DEF Tables, Entry
  <2>7. ASSUME NEW s \in Slots PROVE Got(t, i)[s].ref = t[s].ref + Bit(s = g)
    <3>1. CASE s = g
      BY <2>1, <2>3, <2>4, <3>1 DEF Bit
    <3>2. CASE s # g
      BY <2>4, <2>6, <3>2 DEF Bit
    <3> QED
      BY <3>1, <3>2
  <2>8. \A s \in Slots : t[s].ref > 0 => t[s].inum # i
    BY <1>4 DEF Find
  <2>9. Got(t, i)[g].inum = i /\ ~Got(t, i)[g].valid /\ Got(t, i)[g].lock = 0
    BY <2>3, <2>4
  <2> DEFINE u == Got(t, i)
  <2> HIDE DEF Bit, u
  <2>10. g \in 0..NINODE /\ u \in Tables
    BY <2>3, <2>4 DEF u
  <2>11. \A s \in Slots : u[s].ref = t[s].ref + Bit(s = g)
    BY <2>7 DEF u
  <2>12. \A s \in Slots \ {g} : u[s] = t[s]
    BY <2>4 DEF u
  <2>13. u[g].inum = i /\ ~u[g].valid /\ u[g].lock = 0
    BY <2>9 DEF u
  <2>14. ~(t[g].ref > 0)
    BY <2>1
  <2> QED
    BY <2>8, <2>10, <2>11, <2>12, <2>13, <2>14 DEF u, GotFacts
<1>5. CASE Find(t, i) = {} /\ Empty(t) = {}
  <2>1. g = 0 /\ Got(t, i) = t
    BY <1>5 DEF GetSlot, Got
  <2>6. \A s \in Slots : t[s].ref \in Nat /\ s # 0
    BY Numbers DEF Tables, Entry
  <2>7. ASSUME NEW s \in Slots PROVE Got(t, i)[s].ref = t[s].ref + Bit(s = g)
    BY <2>1, <2>6 DEF Bit
  <2>8. g \in 0..NINODE /\ Got(t, i) \in Tables /\ \A s \in Slots \ {g} : Got(t, i)[s] = t[s]
    BY <2>1, Numbers
  <2> HIDE DEF Bit
  <2> QED
    BY <2>1, <2>7, <2>8 DEF GotFacts
<1> QED
  BY <1>3, <1>4, <1>5

\* What ilock does to the table.
LEMMA LoadedIs ==
    ASSUME TypeOK, EntriesOK, NEW w \in Slots, Lockable(w)
    PROVE  /\ Loaded(w) \in Tables /\ \A s \in Slots \ {w} : Loaded(w)[s] = itable[s]
           /\ Loaded(w)[w].ref = itable[w].ref /\ Loaded(w)[w].inum = itable[w].inum
           /\ Loaded(w)[w].lock = 0 /\ itable[w].lock = 0 /\ Loaded(w)[w].valid
           /\ itable[w].ref > 0 /\ itable[w].inum \in Inums
           /\ Loaded(w)[w].type = dinode[itable[w].inum].type /\ Loaded(w)[w].type # "none"
           /\ Loaded(w)[w].nlink = dinode[itable[w].inum].nlink
           /\ itable[w].valid => Loaded(w) = itable
<1>1. /\ itable \in Tables /\ itable[w] \in Entry /\ dinode \in [Inums -> [type : Types, nlink : Nat]]
  BY DEF TypeOK, Tables, Entry
<1>2. itable[w].ref > 0 /\ itable[w].inum \in Inums /\ itable[w].lock = 0
  BY <1>1, Numbers DEF Lockable, EntriesOK, Entry
<1>3. CASE itable[w].valid
  <2>1. Loaded(w) = itable
    BY <1>3 DEF Loaded
  <2> QED
    BY <1>1, <1>2, <1>3, <2>1 DEF EntriesOK
<1>4. CASE ~itable[w].valid
  <2> DEFINE d == dinode[itable[w].inum]
             e == [itable[w] EXCEPT !.valid = TRUE, !.type = d.type, !.nlink = d.nlink]
  <2>1. d.type # "none" /\ d.type \in Types /\ d.nlink \in Nat
    BY <1>1, <1>2, <1>4 DEF Lockable
  <2>2. Loaded(w) = [itable EXCEPT ![w] = e]
    BY <1>1, <1>4 DEF Loaded, Tables
  <2>3. /\ e \in Entry /\ e.ref = itable[w].ref /\ e.inum = itable[w].inum
        /\ e.lock = itable[w].lock /\ e.valid /\ e.type = d.type /\ e.nlink = d.nlink
    BY <1>1, <2>1 DEF Entry
  <2> HIDE DEF e, d
  <2>4. /\ Loaded(w) \in Tables /\ Loaded(w)[w] = e
        /\ \A s \in Slots \ {w} : Loaded(w)[s] = itable[s]
    BY <1>1, <2>2, <2>3 DEF Tables
  <2> QED
    BY <1>2, <1>4, <2>1, <2>3, <2>4 DEF d
<1> QED
  BY <1>3, <1>4

LEMMA ReferredPrimed ==
    TypeOK' /\ RefsCover' => \A s \in Slots :
        /\ itable'[s].ref \in Nat
        /\ \A p \in Procs : PointsTo(p, s)' \/ put'[p] = s => itable'[s].ref >= 1
        /\ s = 1 => itable'[s].ref >= 1
<1>1. TypeOK /\ RefsCover => \A s \in Slots :
        /\ itable[s].ref \in Nat
        /\ \A p \in Procs : PointsTo(p, s) \/ put[p] = s => itable[s].ref >= 1
        /\ s = 1 => itable[s].ref >= 1
  BY Referred
<1>2. (TypeOK /\ RefsCover => \A s \in Slots :
        /\ itable[s].ref \in Nat
        /\ \A p \in Procs : PointsTo(p, s) \/ put[p] = s => itable[s].ref >= 1
        /\ s = 1 => itable[s].ref >= 1)'
  BY <1>1, PTL
<1> QED
  BY <1>2

------------------------------------------------------------------------------
\* What every step of a process does at most.

\* What a slot gets is the root, or has a name, or is a free inode.
Reached(s) ==
    LET i == itable'[s].inum
    IN  i = ROOTINO \/ NamesOf(i) # {} \/ dinode[i].type = "none"

\* An inode that a process points to and nobody else has locked, or that it frees.
Mine(p, i) ==
    \E s \in Slots :
        /\ itable[s].ref > 0 /\ itable[s].inum = i
        /\ \/ PointsTo(p, s) /\ itable[s].lock \in {0, p}
           \/ freeing[p] = "trunc" /\ put[p] = s

Frame(p) ==
    /\ Others(p) /\ panicked = "no"
    /\ \A s \in Slots :
          /\ itable[s].ref > 0 /\ itable'[s].ref > 0 => itable'[s].inum = itable[s].inum
          /\ itable'[s].ref <= itable[s].ref \/ PointsTo(p, s) \/ Reached(s)
          /\ PointsTo(p, s)' => PointsTo(p, s) \/ Reached(s)
          /\ \A q \in Procs \ {p} :
                /\ itable'[s].lock = q <=> itable[s].lock = q
                /\ itable[s].lock = q =>
                      itable'[s].valid = itable[s].valid /\ itable'[s].nlink = itable[s].nlink
    /\ \A i \in Inums :
          /\ entries'[i] = entries[i] \/ Mine(p, i)
          /\ dinode'[i] = dinode[i] \/ dinode[i].type = "none" \/ Mine(p, i)
          /\ \/ dinode'[i].type = dinode[i].type \/ dinode[i].type = "none"
             \/ freeing[p] = "trunc" /\ i = Inum(put[p])

\* The entry of an inode.
LEMMA SameEntry ==
    ASSUME EntriesOK, NEW s \in Slots, NEW t \in Slots, itable[s].ref > 0, itable[t].ref > 0,
           itable[s].inum = itable[t].inum
    PROVE  s = t
BY DEF EntriesOK

LEMMA InumIs ==
    ASSUME TypeOK, EntriesOK, NEW s \in Slots, itable[s].ref > 0
    PROVE  itable[s].inum \in Inums
<1>1. itable \in Tables
  BY DEF TypeOK, Tables, Entry
<1>2. itable[s].inum \in 0..NINODES
  BY <1>1 DEF Tables, Entry
<1>3. itable[s].inum # 0
  BY DEF EntriesOK
<1> QED
  BY <1>2, <1>3, Numbers

\* An inode without links has no name, no subdirectory, and nobody owes it a link.
LEMMA NoLinks ==
    ASSUME TypeOK, LinksCounted, NEW i \in Inums, dinode[i].nlink = 0
    PROVE  /\ NamesOf(i) = {} /\ SubDirs(i) = {} /\ \A p \in Procs : Owed[p] # i
<1>1. IsFiniteSet(NamesOf(i)) /\ IsFiniteSet(SubDirs(i))
  <2>1. IsFiniteSet(Inums \X Names)
    <3>1. IsFiniteSet(Inums)
      BY FiniteInums
    <3> QED
      BY <3>1, NamesAssumption, FS_Product
  <2>2. NamesOf(i) \in SUBSET (Inums \X Names) /\ SubDirs(i) \in SUBSET Names
    BY DEF NamesOf, SubDirs
  <2> QED
    BY <2>1, <2>2, NamesAssumption, FS_Subset
<1>2. Cardinality(NamesOf(i)) \in Nat /\ Cardinality(SubDirs(i)) \in Nat
  BY <1>1, FS_CardinalityType
<1>3. /\ Count(Owed, i) \in Nat
      /\ \A p \in Procs : Owed[p] = i => Count(Owed, i) >= 1
  BY ProcsAssumption, CountType DEF Owed
<1>4. 0 >= Cardinality(NamesOf(i)) + Cardinality(SubDirs(i)) + Count(Owed, i)
  BY DEF LinksCounted, Links
<1>5. Cardinality(NamesOf(i)) = 0 /\ Cardinality(SubDirs(i)) = 0 /\ Count(Owed, i) = 0
  BY <1>2, <1>3, <1>4
<1>6. NamesOf(i) = {} /\ SubDirs(i) = {}
  BY <1>1, <1>5, FS_EmptySet
<1> QED
  BY <1>3, <1>5, <1>6

\* What another process points to stays the same inode.
LEMMA StillThere ==
    ASSUME IInv, TypeOK', RefsCover', NEW p \in Procs, Frame(p), NEW q \in Procs \ {p},
           NEW s \in Slots, PointsTo(q, s)
    PROVE  /\ itable[s].ref > 0 /\ itable'[s].ref > 0 /\ itable'[s].inum = itable[s].inum
           /\ itable[s].inum \in Inums /\ dinode[itable[s].inum].type # "none"
           /\ dinode'[itable[s].inum].type = dinode[itable[s].inum].type
           /\ ~(freeing[p] = "trunc" /\ put[p] = s)
           /\ PointsTo(q, s)'
<1>1. PointsTo(q, s)'
  BY DEF PointsTo, Walks, Keeps, Frame, Others
<1>2. itable[s].ref > 0 /\ itable'[s].ref > 0
  BY <1>1, Referred, ReferredPrimed DEF IInv
<1>3. itable'[s].inum = itable[s].inum
  BY <1>2 DEF Frame
<1>4. itable[s].inum \in Inums
  BY <1>2, InumIs DEF IInv
<1>5. dinode[itable[s].inum].type # "none"
  BY DEF IInv, CallsOK, PointersOK
<1>6. ~(freeing[p] = "trunc" /\ put[p] = s)
  <2>1. freeing[p] = "trunc" /\ put[p] = s => itable[s].ref = 1
    BY DEF IInv, CallsOK, TruncOK
  <2>2. put[p] = s => itable[s].ref >= 2
    BY Referred DEF IInv
  <2> QED
    BY <2>1, <2>2
<1>7. ~(freeing[p] = "trunc" /\ itable[s].inum = Inum(put[p]))
  <2> SUFFICES ASSUME freeing[p] = "trunc", itable[s].inum = Inum(put[p]) PROVE FALSE
    OBVIOUS
  <2>1. put[p] # 0 /\ itable[put[p]].ref = 1
    BY DEF IInv, CallsOK, TruncOK, PointersOK
  <2>2. put[p] \in Slots
    BY <2>1, Numbers, TypesAre DEF IInv
  <2>3. put[p] = s
    BY <1>2, <2>1, <2>2, SameEntry DEF IInv, Inum
  <2> QED
    BY <1>6, <2>3
<1>8. dinode'[itable[s].inum].type = dinode[itable[s].inum].type
  BY <1>4, <1>5, <1>7 DEF Frame
<1> QED
  BY <1>1, <1>2, <1>3, <1>4, <1>5, <1>6, <1>8

\* What a process's call relies on survives the steps of the others.
LEMMA OthersKeep ==
    ASSUME IInv, TypeOK', RefsCover', NEW p \in Procs, Frame(p), NEW q \in Procs \ {p}
    PROVE  (CallOK(q) /\ PointersOK(q) /\ LocksOK(q) /\ TruncOK(q) /\ PlaceOK(q))'
<1>1. /\ pc'[q] = pc[q] /\ call'[q] = call[q] /\ walk'[q] = walk[q] /\ ip'[q] = ip[q]
      /\ cwd'[q] = cwd[q] /\ ofile'[q] = ofile[q] /\ put'[q] = put[q]
      /\ freeing'[q] = freeing[q] /\ panicked = "no"
  BY DEF Frame, Others
<1>2. /\ \A s : PointsTo(q, s)' <=> PointsTo(q, s)
      /\ \A s : Holds(q, s)' <=> Holds(q, s)
      /\ (Walks(q)' <=> Walks(q)) /\ (Keeps(q)' <=> Keeps(q)) /\ (Owing(q)' <=> Owing(q))
      /\ (WantsParent(q)' <=> WantsParent(q)) /\ Rest(q)' = Rest(q) /\ Name(q)' = Name(q)
  BY <1>1 DEF PointsTo, Holds, Walks, Keeps, Owing, WantsParent, Rest, Name
<1>3. CallOK(q) /\ PointersOK(q) /\ LocksOK(q) /\ TruncOK(q) /\ PlaceOK(q)
  BY DEF IInv, CallsOK
<1>4. CallOK(q)'
  BY <1>1, <1>2, <1>3 DEF CallOK
<1>5. PointersOK(q)'
  <2>1. ASSUME NEW s \in Slots, PointsTo(q, s)' PROVE dinode'[itable'[s].inum].type # "none"
    <3>1. PointsTo(q, s)
      BY <1>2, <2>1
    <3> QED
      BY <3>1, StillThere
  <2> QED
    BY <1>1, <1>2, <1>3, <2>1 DEF PointersOK
<1>6. LocksOK(q)'
  <2>1. ASSUME NEW s \in Slots, itable'[s].lock = q PROVE Holds(q, s)'
    BY <1>2, <1>3, <2>1 DEF Frame, LocksOK
  <2>2. ASSUME NEW s \in Slots, Holds(q, s)' PROVE itable'[s].lock = q /\ itable'[s].valid
    <3>1. itable[s].lock = q /\ itable[s].valid
      BY <1>1, <1>2, <1>3, <2>2 DEF LocksOK
    <3> QED
      BY <3>1 DEF Frame
  <2> QED
    BY <2>1, <2>2 DEF LocksOK
<1>7. TruncOK(q)'
  <2> SUFFICES ASSUME freeing[q] = "trunc" PROVE itable'[put[q]].ref = 1 /\ itable'[put[q]].nlink = 0
    BY <1>1 DEF TruncOK
  <2> DEFINE s == put[q]
  <2>1. s # 0 /\ itable[s].ref = 1 /\ itable[s].nlink = 0
    BY <1>3 DEF TruncOK, PointersOK
  <2>2. s \in Slots
    BY <2>1, Numbers, TypesAre DEF IInv
  <2>3. itable[s].lock = q /\ itable[s].valid
    BY <1>1, <1>3, <2>2 DEF LocksOK, Holds
  <2>4. itable'[s].nlink = 0
    BY <2>1, <2>2, <2>3 DEF Frame
  <2>5. itable'[s].ref >= 1 /\ itable'[s].ref \in Nat
    BY <1>1, <2>2, ReferredPrimed
  <2>6. ~PointsTo(p, s)
    BY <2>1, <2>2, Referred DEF IInv
  <2>7. itable'[s].inum = itable[s].inum /\ itable[s].inum \in Inums
    <3>1. itable[s].inum \in Inums
      BY <2>1, <2>2, InumIs DEF IInv
    <3> QED
      BY <2>1, <2>2, <2>5, <3>1 DEF Frame
  <2>8. ~Reached(s)
    <3>1. itable[s].inum # ROOTINO
      <4>1. itable[1].inum = ROOTINO /\ itable[1].ref > 0 /\ 1 \in Slots
        BY Numbers, Referred DEF IInv, DirsOK
      <4>2. itable[s].inum = ROOTINO => s = 1
        BY <2>1, <2>2, <4>1, SameEntry DEF IInv
      <4>3. s = 1 => itable[s].ref >= 2
        BY <2>2, Referred DEF IInv
      <4> QED
        BY <2>1, <4>2, <4>3
    <3>2. /\ dinode[itable[s].inum].nlink = 0 /\ dinode[itable[s].inum].type # "none"
      BY <2>1, <2>2, <2>3 DEF IInv, EntriesOK
    <3>3. NamesOf(itable[s].inum) = {}
      BY <2>7, <3>2, NoLinks DEF IInv
    <3> QED
      BY <2>7, <3>1, <3>2, <3>3 DEF Reached
  <2>9. itable'[s].ref <= itable[s].ref
    BY <2>2, <2>6, <2>8 DEF Frame
  <2> QED
    BY <2>1, <2>4, <2>5, <2>9
<1>8. PlaceOK(q)'
  <2> SUFFICES ASSUME panicked' = "no" PROVE PlaceOK(q)'
    BY DEF PlaceOK
  <2>1. ASSUME pc[q] \in {"parent", "made", "victim"}
        PROVE  /\ walk[q] \in Slots /\ PointsTo(q, walk[q])
               /\ Inum(walk[q])' = Inum(walk[q])
               /\ dinode'[Inum(walk[q])].type = "T_DIR"
    <3>1. Walks(q) /\ walk[q] # 0
      BY <1>1, <1>3, <2>1 DEF Walks, PointersOK
    <3>2. walk[q] \in Slots /\ PointsTo(q, walk[q])
      BY <3>1, Numbers, TypesAre DEF IInv, PointsTo
    <3>3. dinode[Inum(walk[q])].type = "T_DIR"
      BY <1>1, <1>3, <2>1 DEF PlaceOK
    <3> QED
      BY <1>1, <3>2, <3>3, StillThere DEF Inum
  <2>2. ASSUME Keeps(q)
        PROVE  /\ ip[q] \in Slots /\ PointsTo(q, ip[q])
               /\ Inum(ip[q])' = Inum(ip[q]) /\ Inum(ip[q]) \in Inums
               /\ dinode'[Inum(ip[q])].type = dinode[Inum(ip[q])].type
    <3>1. ip[q] # 0
      BY <1>1, <1>3, <2>2 DEF PointersOK
    <3>2. ip[q] \in Slots /\ PointsTo(q, ip[q])
      BY <2>2, <3>1, Numbers, TypesAre DEF IInv, PointsTo
    <3> QED
      BY <1>1, <3>2, StillThere DEF Inum
  <2>3. ASSUME pc[q] \in {"made", "victim"}
        PROVE  entries'[Inum(walk[q])] = entries[Inum(walk[q])]
    <3> DEFINE s == walk[q]
    <3>1. /\ s \in Slots /\ PointsTo(q, s) /\ itable[s].ref > 0
          /\ Inum(s) \in Inums /\ ~(freeing[p] = "trunc" /\ put[p] = s)
      BY <2>1, <2>3, StillThere DEF Inum
    <3>2. itable[s].lock = q
      BY <1>1, <1>3, <2>3, <3>1 DEF LocksOK, Holds
    <3>3. q \notin {0, p}
      BY Numbers
    <3>4. ~Mine(p, Inum(s))
      BY <3>1, <3>2, <3>3, SameEntry DEF Mine, IInv, Inum
    <3> QED
      BY <3>1, <3>4 DEF Frame
  <2>4. ASSUME pc[q] = "made"
        PROVE  /\ dinode'[Inum(ip[q])] = dinode[Inum(ip[q])]
               /\ ~PointsTo(p, ip[q])'
    <3> DEFINE s == ip[q]
    <3>1. /\ s \in Slots /\ PointsTo(q, s) /\ itable[s].ref > 0 /\ itable'[s].inum = itable[s].inum
          /\ Inum(s) \in Inums /\ ~(freeing[p] = "trunc" /\ put[p] = s)
          /\ dinode[Inum(s)].type # "none"
      BY <2>2, <2>4, StillThere DEF Inum, Keeps
    <3>2. /\ ~PointsTo(p, s) /\ dinode[Inum(s)].nlink = 0 /\ Inum(s) # ROOTINO
      BY <1>1, <1>3, <2>4 DEF PlaceOK
    <3>3. ~Mine(p, Inum(s))
      BY <3>1, <3>2, SameEntry DEF Mine, IInv, Inum
    <3>4. ~Reached(s)
      BY <3>1, <3>2, NoLinks DEF Reached, IInv, Inum
    <3>5. dinode'[Inum(s)] = dinode[Inum(s)]
      BY <3>1, <3>3 DEF Frame
    <3>6. \A x \in Slots : PointsTo(p, x)' => PointsTo(p, x) \/ Reached(x)
      BY DEF Frame
    <3>7. ip'[q] = s
      BY <1>1
    <3> QED
      BY <3>1, <3>2, <3>4, <3>5, <3>6, <3>7
  <2>5. ASSUME pc[q] = "made", NEW r \in Procs \ {q} PROVE ~PointsTo(r, ip[q])'
    <3>1. CASE r = p
      BY <2>4, <2>5, <3>1
    <3>2. CASE r # p
      <4>1. \A s : PointsTo(r, s)' <=> PointsTo(r, s)
        BY <3>2 DEF PointsTo, Walks, Keeps, Frame, Others
      <4> QED
        BY <1>1, <1>3, <2>5, <4>1 DEF PlaceOK
    <3> QED
      BY <3>1, <3>2
  <2>6. (pc[q] \in {"parent", "made", "victim"} => dinode[Inum(walk[q])].type = "T_DIR")'
    BY <1>1, <2>1 DEF Inum
  <2>7. (pc[q] = "victim" => entries[Inum(walk[q])][Name(q)] = Inum(ip[q]))'
    <3>1. pc[q] = "victim" => Keeps(q)
      BY DEF Keeps
    <3> QED
      BY <1>1, <1>2, <1>3, <2>1, <2>2, <2>3, <3>1 DEF Inum, PlaceOK
  <2>8. (pc[q] = "made" =>
              /\ entries[Inum(walk[q])][Name(q)] = 0
              /\ dinode[Inum(ip[q])] = [type |-> TypeOf(call[q].op), nlink |-> 0]
              /\ Inum(ip[q]) # ROOTINO
              /\ walk[q] # ip[q] /\ cwd[q] # ip[q] /\ \A fd \in Fds : ofile[q][fd] # ip[q]
              /\ \A r \in Procs \ {q} : ~PointsTo(r, ip[q]))'
    <3> SUFFICES ASSUME pc[q] = "made"
                 PROVE  /\ entries'[Inum(walk[q])'][Name(q)] = 0
                        /\ dinode'[Inum(ip[q])'] = [type |-> TypeOf(call[q].op), nlink |-> 0]
                        /\ Inum(ip[q])' # ROOTINO
                        /\ walk[q] # ip[q] /\ cwd[q] # ip[q] /\ \A fd \in Fds : ofile[q][fd] # ip[q]
                        /\ \A r \in Procs \ {q} : ~PointsTo(r, ip[q])'
      BY <1>1, <1>2 DEF PointsTo, Walks, Keeps
    <3>1. Keeps(q)
      BY DEF Keeps
    <3>2. /\ entries[Inum(walk[q])][Name(q)] = 0
          /\ dinode[Inum(ip[q])] = [type |-> TypeOf(call[q].op), nlink |-> 0]
          /\ Inum(ip[q]) # ROOTINO
          /\ walk[q] # ip[q] /\ cwd[q] # ip[q] /\ \A fd \in Fds : ofile[q][fd] # ip[q]
      BY <1>1, <1>3 DEF PlaceOK
    <3> QED
      BY <2>1, <2>2, <2>3, <2>4, <2>5, <3>1, <3>2
  <2>9. (call[q].op = "link2" => dinode[Inum(ip[q])].type # "T_DIR")'
    <3>1. call[q].op = "link2" => Keeps(q)
      BY DEF Keeps
    <3> QED
      BY <1>1, <1>3, <2>2, <3>1 DEF Inum, PlaceOK
  <2> QED
    BY <2>6, <2>7, <2>8, <2>9 DEF PlaceOK
<1> QED
  BY <1>4, <1>5, <1>6, <1>7, <1>8

------------------------------------------------------------------------------
\* Steps that leave the disk alone.

\* What a process owes stays while it stays at it.
LEMMA OwedSame ==
    ASSUME IInv, TypeOK', RefsCover', NEW p \in Procs, Frame(p),
           Owing(p)' <=> Owing(p), Owing(p) => ip'[p] = ip[p]
    PROVE  Owed' = Owed
<1>1. ASSUME NEW q \in Procs, Owing(q) PROVE Owing(q)' /\ Inum(ip[q])' = Inum(ip[q])
  <2>1. ip[q] \in Slots /\ Keeps(q)
    <3>1. ip[q] # 0 /\ Keeps(q)
      BY <1>1 DEF IInv, CallsOK, PointersOK, Owing, Keeps
    <3> QED
      BY <3>1, Numbers, TypesAre DEF IInv
  <2>2. CASE q = p
    <3>1. PointsTo(p, ip[p]) /\ PointsTo(p, ip[p])' /\ ip'[p] = ip[p] /\ Owing(p)'
      BY <1>1, <2>1, <2>2 DEF PointsTo, Owing, Keeps
    <3>2. itable[ip[p]].ref > 0 /\ itable'[ip[p]].ref > 0
      BY <2>1, <2>2, <3>1, Referred, ReferredPrimed DEF IInv
    <3> QED
      BY <2>1, <2>2, <3>1, <3>2 DEF Frame, Inum
  <2>3. CASE q # p
    <3>1. ip'[q] = ip[q] /\ PointsTo(q, ip[q]) /\ Owing(q)'
      BY <1>1, <2>1, <2>3 DEF Frame, Others, PointsTo, Owing
    <3> QED
      BY <2>1, <2>3, <3>1, StillThere DEF Inum
  <2> QED
    BY <2>2, <2>3
<1>2. ASSUME NEW q \in Procs, ~Owing(q) PROVE ~Owing(q)'
  BY <1>2 DEF Frame, Others, Owing
<1>3. \A q \in Procs : Owed'[q] = Owed[q]
  BY <1>1, <1>2 DEF Owed
<1> QED
  BY <1>3 DEF Owed

\* Nothing happens to links and directories.
LEMMA DiskSame ==
    ASSUME IInv, TypeOK', RefsCover', NEW p \in Procs, Frame(p), UNCHANGED disk, Owed' = Owed
    PROVE  LinksCounted' /\ DirsOK'
<1>1. dinode' = dinode /\ entries' = entries
  BY DEF disk
<1>2. LinksCounted'
  BY <1>1 DEF IInv, LinksCounted, Links, NamesOf, SubDirs, Count
<1>3. itable[1].ref > 0 /\ itable'[1].ref > 0 /\ 1 \in Slots
  BY Numbers, Referred, ReferredPrimed DEF IInv
<1>4. itable'[1].inum = ROOTINO
  BY <1>3 DEF IInv, DirsOK, Frame
<1> QED
  BY <1>1, <1>2, <1>4 DEF IInv, DirsOK

\* A table with the same entries as before, valid ones copies of what the disk di holds,
\* and those the others have locked left alone.
Tabled(p, t, di) ==
    /\ t \in Tables
    /\ \A s \in Slots :
          /\ t[s].ref = itable[s].ref /\ t[s].inum = itable[s].inum
          /\ t[s].ref > 0 /\ t[s].valid =>
                /\ t[s].type = di[t[s].inum].type /\ t[s].type # "none"
                /\ t[s].nlink = di[t[s].inum].nlink
          /\ \A q \in Procs \ {p} :
                /\ t[s].lock = q <=> itable[s].lock = q
                /\ itable[s].lock = q => t[s].valid = itable[s].valid /\ t[s].nlink = itable[s].nlink

LEMMA TabledSame ==
    ASSUME IInv, NEW p \in Procs
    PROVE  Tabled(p, itable, dinode)
<1>1. itable \in Tables
  BY DEF IInv, TypeOK, Tables, Entry
<1> QED
  BY <1>1 DEF IInv, EntriesOK, Tabled

LEMMA TabledLoaded ==
    ASSUME IInv, NEW p \in Procs, NEW w \in Slots, Lockable(w)
    PROVE  Tabled(p, Loaded(w), dinode) /\ \A s \in Slots : Loaded(w)[s].lock = itable[s].lock
<1> DEFINE t == Loaded(w)
<1>1. /\ t \in Tables /\ \A s \in Slots \ {w} : t[s] = itable[s]
      /\ t[w].ref = itable[w].ref /\ t[w].inum = itable[w].inum
      /\ t[w].lock = 0 /\ itable[w].lock = 0
      /\ t[w].type = dinode[itable[w].inum].type /\ t[w].type # "none"
      /\ t[w].nlink = dinode[itable[w].inum].nlink
  BY LoadedIs DEF IInv
<1> HIDE DEF t
<1>2. 0 \notin Procs
  BY Numbers
<1>3. Tabled(p, itable, dinode)
  BY TabledSame
<1>4. Tabled(p, t, dinode)
  <2> SUFFICES ASSUME NEW s \in Slots
               PROVE  /\ t[s].ref = itable[s].ref /\ t[s].inum = itable[s].inum
                      /\ t[s].ref > 0 /\ t[s].valid =>
                            /\ t[s].type = dinode[t[s].inum].type /\ t[s].type # "none"
                            /\ t[s].nlink = dinode[t[s].inum].nlink
                      /\ \A q \in Procs \ {p} :
                            /\ t[s].lock = q <=> itable[s].lock = q
                            /\ itable[s].lock = q =>
                                  t[s].valid = itable[s].valid /\ t[s].nlink = itable[s].nlink
    BY <1>1 DEF Tabled
  <2>1. CASE s = w
    BY <1>1, <1>2, <2>1
  <2>2. CASE s # w
    <3>1. t[s] = itable[s]
      BY <1>1, <2>2
    <3> QED
      BY <1>3, <3>1 DEF Tabled
  <2> QED
    BY <2>1, <2>2
<1>5. \A s \in Slots : t[s].lock = itable[s].lock
  BY <1>1
<1> QED
  BY <1>4, <1>5 DEF t

\* The process takes a lock nobody has, or lets go its own.
LockSet(t, w, l, u) ==
    u \in Tables /\ u[w] = [t[w] EXCEPT !.lock = l] /\ \A s \in Slots \ {w} : u[s] = t[s]

LEMMA LockSetIs ==
    ASSUME NEW t \in Tables, NEW w \in Slots, NEW l \in Procs \cup {0}
    PROVE  LockSet(t, w, l, [t EXCEPT ![w].lock = l])
<1>1. t[w] \in Entry
  BY DEF Tables
<1> QED
  BY <1>1 DEF Tables, Entry, LockSet

\* iget does not look at locks.
LEMMA LockedSlot ==
    ASSUME NEW t \in Tables, NEW w \in Slots, NEW l, NEW u, LockSet(t, w, l, u), NEW i
    PROVE  GetSlot(t, i) = GetSlot(u, i) /\ GetPanics(t, i) = GetPanics(u, i)
<1>1. t[w] \in Entry
  BY DEF Tables
<1>2. u[w].ref = t[w].ref /\ u[w].inum = t[w].inum
  BY <1>1 DEF LockSet, Entry
<1>3. \A s \in Slots : u[s].ref = t[s].ref /\ u[s].inum = t[s].inum
  BY <1>2 DEF LockSet
<1>4. Find(t, i) = Find(u, i) /\ Empty(t) = Empty(u)
  BY <1>3 DEF Find, Empty
<1>5. GetSlot(t, i) = GetSlot(u, i)
  BY <1>4 DEF GetSlot
<1> QED
  BY <1>5 DEF GetPanics

LEMMA TabledLock ==
    ASSUME NEW p \in Procs, NEW t, NEW di, Tabled(p, t, di), NEW w \in Slots,
           t[w].lock = 0 \/ t[w].lock = p, NEW l, l = 0 \/ l = p, NEW u, LockSet(t, w, l, u)
    PROVE  Tabled(p, u, di)
<1>1. t \in Tables /\ t[w] \in Entry
  BY DEF Tabled, Tables
<1>2. u \in Tables /\ u[w] = [t[w] EXCEPT !.lock = l] /\ \A s \in Slots \ {w} : u[s] = t[s]
  BY DEF LockSet
<1>3. /\ u[w].ref = t[w].ref /\ u[w].inum = t[w].inum /\ u[w].valid = t[w].valid
      /\ u[w].type = t[w].type /\ u[w].nlink = t[w].nlink /\ u[w].lock = l
  BY <1>1, <1>2 DEF Entry
<1>4. 0 \notin Procs
  BY Numbers
<1>5. ASSUME NEW s \in Slots
      PROVE  /\ u[s].ref = itable[s].ref /\ u[s].inum = itable[s].inum
             /\ u[s].ref > 0 /\ u[s].valid =>
                   /\ u[s].type = di[u[s].inum].type /\ u[s].type # "none"
                   /\ u[s].nlink = di[u[s].inum].nlink
             /\ \A q \in Procs \ {p} :
                   /\ u[s].lock = q <=> itable[s].lock = q
                   /\ itable[s].lock = q =>
                         u[s].valid = itable[s].valid /\ u[s].nlink = itable[s].nlink
  <2>1. CASE s = w
    BY <1>3, <1>4, <2>1 DEF Tabled
  <2>2. CASE s # w
    <3>1. u[s] = t[s]
      BY <1>2, <2>2
    <3> QED
      BY <3>1 DEF Tabled
  <2> QED
    BY <2>1, <2>2
<1> QED
  BY <1>2, <1>5 DEF Tabled

\* Who has a lock has a pointer.
LEMMA LockedIsUsed ==
    ASSUME IInv, NEW s \in Slots, itable[s].lock # 0
    PROVE  itable[s].lock \in Procs /\ Holds(itable[s].lock, s) /\ itable[s].ref > 0
<1> DEFINE q == itable[s].lock
<1>1. q \in Procs
  <2>1. itable \in Tables
    BY DEF IInv, TypeOK, Tables, Entry
  <2> QED
    BY <2>1 DEF Tables, Entry
<1> HIDE DEF q
<1>2. Holds(q, s)
  BY <1>1 DEF IInv, CallsOK, LocksOK, q
<1>3. PointsTo(q, s) \/ put[q] = s
  BY <1>2 DEF Holds, PointsTo, Walks, Keeps
<1>4. itable[s].ref > 0
  BY <1>1, <1>3, Referred DEF IInv
<1> QED
  BY <1>1, <1>2, <1>4 DEF q

\* The table after a step of a process, in which an entry gets a reference, or none.
TableStep(p, g) ==
    /\ g \in 0..NINODE /\ itable' \in Tables
    /\ \A s \in Slots :
          /\ itable'[s].ref = itable[s].ref + Bit(s = g)
          /\ itable[s].ref > 0 => itable'[s].inum = itable[s].inum
          /\ \A q \in Procs \ {p} :
                /\ itable'[s].lock = q <=> itable[s].lock = q
                /\ itable[s].lock = q =>
                      itable'[s].valid = itable[s].valid /\ itable'[s].nlink = itable[s].nlink
    /\ EntriesOK'

LEMMA TabledStep ==
    ASSUME IInv, NEW p \in Procs, NEW t, Tabled(p, t, dinode'), itable' = t
    PROVE  TableStep(p, 0)
<1>1. \A s \in Slots : s # 0 /\ t[s].ref \in Nat
  BY Numbers DEF Tabled, Tables, Entry
<1>2. \A s \in Slots : t[s].ref = itable[s].ref + Bit(s = 0)
  BY <1>1 DEF Tabled, Bit
<1>3. EntriesOK'
  <2>1. \A s \in Slots : itable[s].ref > 0 =>
          /\ itable[s].inum # 0
          /\ \A r \in Slots : itable[r].ref > 0 /\ itable[r].inum = itable[s].inum => s = r
    BY DEF IInv, EntriesOK
  <2>2. \A s \in Slots : itable'[s].ref = itable[s].ref /\ itable'[s].inum = itable[s].inum
    BY DEF Tabled
  <2>3. \A s \in Slots : itable'[s].ref > 0 /\ itable'[s].valid =>
          /\ itable'[s].type = dinode'[itable'[s].inum].type /\ itable'[s].type # "none"
          /\ itable'[s].nlink = dinode'[itable'[s].inum].nlink
    BY DEF Tabled
  <2> QED
    BY <2>1, <2>2, <2>3 DEF EntriesOK
<1> QED
  BY <1>2, <1>3, Numbers DEF TableStep, Tabled

PanicType == {"no", "iget: no inodes", "ialloc: no inodes"}

\* The table after an iget of the inode i in t.
GetTable(p, t, i, g) ==
    /\ TableStep(p, g) /\ (g # 0 => itable'[g].inum = i) /\ g \in 0..NINODE
    /\ \A s \in Slots : itable'[s].lock = t[s].lock \/ itable'[s].lock = 0
    /\ \A s \in Slots : t[s].ref > 0 => itable'[s].lock = t[s].lock /\ itable'[s].valid = t[s].valid
    /\ GetPanics(t, i) \in PanicType /\ (GetPanics(t, i) = "no" => g # 0)

LEMMA GotStep ==
    ASSUME IInv, NEW p \in Procs, NEW t, Tabled(p, t, dinode'), NEW i \in Inums,
           itable' = Got(t, i)
    PROVE  GetTable(p, t, i, GetSlot(t, i))
<1> DEFINE g == GetSlot(t, i)
           u == Got(t, i)
<1>1. t \in Tables
  BY DEF Tabled
<1>11. GotFacts(t, i, g, u)
  <2>1. GotFacts(t, i, GetSlot(t, i), Got(t, i))
    BY <1>1, GotIs
  <2> QED
    BY <2>1
<1>3. itable' = u
  OBVIOUS
<1>17. g = GetSlot(t, i)
  OBVIOUS
<1> HIDE DEF u, g, Bit
<1>2. /\ g \in 0..NINODE /\ u \in Tables
      /\ \A s \in Slots : u[s].ref = t[s].ref + Bit(s = g)
      /\ \A s \in Slots \ {g} : u[s] = t[s]
      /\ g # 0 => u[g].inum = i
  BY <1>11 DEF GotFacts
<1>12. g # 0 /\ t[g].ref > 0 =>
          /\ t[g].inum = i /\ u[g].valid = t[g].valid /\ u[g].type = t[g].type
          /\ u[g].nlink = t[g].nlink /\ u[g].lock = t[g].lock
  BY <1>11 DEF GotFacts
<1>13. g # 0 /\ t[g].ref = 0 =>
          /\ ~u[g].valid /\ u[g].lock = 0
          /\ \A s \in Slots : t[s].ref > 0 => t[s].inum # i
  BY <1>11 DEF GotFacts
<1>4. \A s \in Slots : t[s].ref \in Nat /\ s # 0 /\ s \in 0..NINODE
  BY <1>1, Numbers DEF Tables, Entry
<1>5. 0 \notin Procs /\ 0 \notin Inums
  BY Numbers
<1>6. ASSUME NEW s \in Slots
      PROVE  /\ itable'[s].ref = itable[s].ref + Bit(s = g)
             /\ itable[s].ref > 0 => itable'[s].inum = itable[s].inum
             /\ \A q \in Procs \ {p} :
                   /\ itable'[s].lock = q <=> itable[s].lock = q
                   /\ itable[s].lock = q =>
                         itable'[s].valid = itable[s].valid /\ itable'[s].nlink = itable[s].nlink
             /\ itable'[s].lock = t[s].lock \/ itable'[s].lock = 0
  <2>1. CASE s # g
    BY <1>2, <1>3, <2>1 DEF Tabled
  <2>2. CASE s = g /\ t[g].ref > 0
    BY <1>2, <1>12, <1>3, <1>4, <2>2 DEF Tabled
  <2>3. CASE s = g /\ t[g].ref = 0
    <3>1. itable[s].ref = 0
      BY <2>3 DEF Tabled
    <3>2. itable[s].lock = 0
      BY <3>1, LockedIsUsed
    <3> QED
      BY <1>2, <1>13, <1>3, <1>4, <1>5, <2>3, <3>1, <3>2 DEF Tabled
  <2> QED
    BY <1>4, <2>1, <2>2, <2>3
<1>7. \A s \in Slots : t[s].ref > 0 =>
          /\ t[s].inum # 0
          /\ \A r \in Slots : t[r].ref > 0 /\ t[r].inum = t[s].inum => s = r
  BY DEF IInv, EntriesOK, Tabled
<1>8. ASSUME NEW s \in Slots, u[s].ref > 0
      PROVE  /\ u[s].inum # 0
             /\ \A r \in Slots : u[r].ref > 0 /\ u[r].inum = u[s].inum => s = r
             /\ u[s].valid =>
                  /\ u[s].type = dinode'[u[s].inum].type /\ u[s].type # "none"
                  /\ u[s].nlink = dinode'[u[s].inum].nlink
  <2>1. \A r \in Slots : u[r].ref > 0 /\ r # g => t[r].ref > 0 /\ u[r] = t[r]
    BY <1>2
  <2>2. g # 0 => \A r \in Slots \ {g} : t[r].ref > 0 => t[r].inum # i
    <3> SUFFICES ASSUME g # 0, NEW r \in Slots \ {g}, t[r].ref > 0, t[r].inum = i PROVE FALSE
      OBVIOUS
    <3>1. g \in Slots /\ t[g].ref > 0 /\ t[g].inum = i
      BY <1>2, <1>4, <1>12, <1>13, Numbers
    <3> QED
      BY <1>7, <3>1
  <2>3. CASE s # g
    <3>1. t[s].ref > 0 /\ u[s] = t[s]
      BY <1>8, <2>1, <2>3
    <3>2. u[s].valid =>
                  /\ u[s].type = dinode'[u[s].inum].type /\ u[s].type # "none"
                  /\ u[s].nlink = dinode'[u[s].inum].nlink
      BY <3>1 DEF Tabled
    <3>3. ASSUME NEW r \in Slots, u[r].ref > 0, u[r].inum = u[s].inum PROVE s = r
      <4>1. CASE r = g
        BY <1>2, <1>4, <2>2, <2>3, <3>1, <3>3, <4>1
      <4>2. CASE r # g
        BY <1>7, <2>1, <3>1, <3>3, <4>2
      <4> QED
        BY <4>1, <4>2
    <3> QED
      BY <1>7, <3>1, <3>2, <3>3
  <2>4. CASE s = g
    <3>1. g # 0 /\ u[s].inum = i
      BY <1>2, <1>4, <2>4
    <3>2. u[s].valid =>
                  /\ u[s].type = dinode'[u[s].inum].type /\ u[s].type # "none"
                  /\ u[s].nlink = dinode'[u[s].inum].nlink
      <4> SUFFICES ASSUME u[s].valid
                   PROVE  /\ u[s].type = dinode'[u[s].inum].type /\ u[s].type # "none"
                          /\ u[s].nlink = dinode'[u[s].inum].nlink
        OBVIOUS
      <4>1. t[g].ref > 0
        BY <1>13, <1>4, <2>4, <3>1
      <4> QED
        BY <1>12, <2>4, <3>1, <4>1 DEF Tabled
    <3>3. ASSUME NEW r \in Slots, u[r].ref > 0, u[r].inum = u[s].inum PROVE s = r
      BY <2>1, <2>2, <2>4, <3>1, <3>3
    <3> QED
      BY <1>5, <3>1, <3>2, <3>3
  <2> QED
    BY <2>3, <2>4
<1>9. EntriesOK'
  BY <1>3, <1>8 DEF EntriesOK
<1>10. TableStep(p, g)
  BY <1>2, <1>3, <1>6, <1>9 DEF TableStep
<1>14. GetPanics(t, i) \in PanicType /\ (GetPanics(t, i) = "no" => g # 0)
  BY <1>17 DEF GetPanics, PanicType
<1>15. g # 0 => itable'[g].inum = i
  BY <1>2, <1>3
<1>16. \A s \in Slots : itable'[s].lock = t[s].lock \/ itable'[s].lock = 0
  BY <1>6
<1>19. ASSUME NEW s \in Slots, t[s].ref > 0
       PROVE  itable'[s].lock = t[s].lock /\ itable'[s].valid = t[s].valid
  <2>1. CASE s # g
    BY <1>2, <1>3, <2>1
  <2>2. CASE s = g
    BY <1>12, <1>3, <1>4, <1>19, <2>2
  <2> QED
    BY <2>1, <2>2
<1>18. GetTable(p, t, i, g)
  BY <1>2, <1>10, <1>14, <1>15, <1>16, <1>19 DEF GetTable
<1> QED
  BY <1>17, <1>18

------------------------------------------------------------------------------
\* The variables of a process.

CallType == [op : Ops, rest : Seq(Names), arg : Seq(Names), depth : Nat, follows : Nat]

DiskType ==
    /\ dinode \in [Inums -> [type : Types, nlink : Nat]]
    /\ entries \in [Inums -> [Names -> 0..NINODES]] /\ target \in [Inums -> Targets]

\* A step changes those of one process.
LocalCall(p) ==
    /\ pc' = [pc EXCEPT ![p] = pc'[p]] /\ pc'[p] \in Places
    /\ call' = [call EXCEPT ![p] = call'[p]] /\ call'[p] \in CallType
    /\ walk' = [walk EXCEPT ![p] = walk'[p]] /\ walk'[p] \in 0..NINODE
    /\ ip' = [ip EXCEPT ![p] = ip'[p]] /\ ip'[p] \in 0..NINODE
LocalPut(p) ==
    /\ put' = [put EXCEPT ![p] = put'[p]] /\ put'[p] \in 0..NINODE
    /\ freeing' = [freeing EXCEPT ![p] = freeing'[p]] /\ freeing'[p] \in {"no", "trunc", "ref"}
LocalFile(p) ==
    /\ cwd' = [cwd EXCEPT ![p] = cwd'[p]] /\ cwd'[p] \in Slots
    /\ ofile' = [ofile EXCEPT ![p] = ofile'[p]] /\ ofile'[p] \in [Fds -> 0..NINODE]
    /\ calls' \in Nat
Local(p) == LocalCall(p) /\ LocalPut(p) /\ LocalFile(p)

LEMMA LocalStep ==
    ASSUME TypeOK, NEW p \in Procs, Local(p), itable' \in Tables, panicked' \in PanicType, DiskType'
    PROVE  TypeOK' /\ Others(p)
<1>1. /\ put' \in [Procs -> 0..NINODE] /\ freeing' \in [Procs -> {"no", "trunc", "ref"}]
      /\ \A q \in Procs \ {p} : put'[q] = put[q] /\ freeing'[q] = freeing[q]
  BY TypesAre DEF Local, LocalPut
<1>2. /\ pc' \in [Procs -> Places] /\ call' \in [Procs -> CallType]
      /\ \A q \in Procs \ {p} : pc'[q] = pc[q] /\ call'[q] = call[q]
  <2>1. call \in [Procs -> CallType] /\ pc \in [Procs -> Places]
    BY DEF TypeOK, CallType
  <2> QED
    BY <2>1 DEF Local, LocalCall
<1>3. /\ walk' \in [Procs -> 0..NINODE] /\ ip' \in [Procs -> 0..NINODE]
      /\ \A q \in Procs \ {p} : walk'[q] = walk[q] /\ ip'[q] = ip[q]
  BY TypesAre DEF Local, LocalCall
<1>4. /\ cwd' \in [Procs -> Slots] /\ ofile' \in [Procs -> [Fds -> 0..NINODE]] /\ calls' \in Nat
      /\ \A q \in Procs \ {p} : cwd'[q] = cwd[q] /\ ofile'[q] = ofile[q]
  BY TypesAre DEF Local, LocalFile
<1>5. Others(p)
  BY <1>1, <1>2, <1>3, <1>4 DEF Others
<1> QED
  BY <1>1, <1>2, <1>3, <1>4, <1>5 DEF TypeOK, CallType, PanicType, DiskType, Tables, Entry

\* The cases of it.
LEMMA CallIs ==
    ASSUME TypeOK
    PROVE  call \in [Procs -> CallType]
BY DEF TypeOK, CallType

LEMMA EndsIs ==
    ASSUME TypeOK, NEW p \in Procs, Ends(p)
    PROVE  LocalCall(p) /\ pc'[p] = "user" /\ call'[p] = Idle /\ walk'[p] = 0 /\ ip'[p] = 0
<1>1. Idle \in CallType /\ call \in [Procs -> CallType]
  <2>1. <<>> \in Seq(Names) /\ "none" \in Ops
    BY DEF Ops
  <2> QED
    BY <2>1 DEF Idle, CallType, TypeOK
<1> QED
  BY <1>1, TypesAre, Numbers DEF Ends, Goes, LocalCall, Places

LEMMA StaysIs ==
    ASSUME TypeOK, NEW p \in Procs
    PROVE  /\ pc[p] \in Places /\ call[p] \in CallType /\ walk[p] \in 0..NINODE /\ ip[p] \in 0..NINODE
           /\ put[p] \in 0..NINODE /\ cwd[p] \in Slots /\ ofile[p] \in [Fds -> 0..NINODE]
           /\ (UNCHANGED call => call' = [call EXCEPT ![p] = call'[p]] /\ call'[p] = call[p])
           /\ (UNCHANGED walk => walk' = [walk EXCEPT ![p] = walk'[p]] /\ walk'[p] = walk[p])
           /\ (UNCHANGED ip => ip' = [ip EXCEPT ![p] = ip'[p]] /\ ip'[p] = ip[p])
<1>1. call \in [Procs -> CallType]
  BY DEF CallType, TypeOK
<1> QED
  BY <1>1, TypesAre

LEMMA GoesIs ==
    ASSUME TypeOK, NEW p \in Procs, NEW place \in Places, Goes(p, place)
    PROVE  pc' = [pc EXCEPT ![p] = pc'[p]] /\ pc'[p] = place
BY TypesAre DEF Goes

LEMMA PutsIs ==
    ASSUME TypeOK, NEW p \in Procs, NEW s \in 0..NINODE, Puts(p, s), UNCHANGED freeing
    PROVE  LocalPut(p) /\ put'[p] = s /\ freeing'[p] = freeing[p]
BY TypesAre DEF Puts, LocalPut

LEMMA NoPuts ==
    ASSUME TypeOK, NEW p \in Procs, UNCHANGED <<put, freeing>>
    PROVE  LocalPut(p) /\ put'[p] = put[p] /\ freeing'[p] = freeing[p]
BY TypesAre DEF LocalPut

LEMMA NoFileIs ==
    ASSUME TypeOK, NEW p \in Procs, UNCHANGED <<cwd, ofile>>, calls' \in Nat
    PROVE  LocalFile(p) /\ cwd'[p] = cwd[p] /\ ofile'[p] = ofile[p] /\ \A s : Filed(s)' = Filed(s)
BY TypesAre, FiledSame DEF LocalFile

\* A process opens a file.
LEMMA OpenedIs ==
    ASSUME TypeOK, NEW p \in Procs, NEW s \in Slots, Room(p), Opened(p, s), UNCHANGED <<cwd, calls>>
    PROVE  /\ LocalFile(p) /\ cwd'[p] = cwd[p]
           /\ \A fd \in Fds : ofile'[p][fd] = ofile[p][fd] \/ ofile'[p][fd] = s
<1> DEFINE fd == First(FreeFds(p))
<1>1. fd \in Fds
  <2>1. IsFiniteSet(Fds) /\ Fds \subseteq Nat
    BY FiniteFds
  <2>2. FreeFds(p) \in SUBSET Fds
    BY DEF FreeFds
  <2>3. IsFiniteSet(FreeFds(p)) /\ FreeFds(p) \subseteq Nat
    BY <2>1, <2>2, FS_Subset
  <2>4. fd \in FreeFds(p)
    BY <2>3, FirstIs DEF Room
  <2> QED
    BY <2>2, <2>4
<1>2. ofile' = [ofile EXCEPT ![p][fd] = s]
  BY DEF Opened
<1> HIDE DEF fd
<1>3. s \in 0..NINODE /\ calls \in Nat
  BY Numbers DEF TypeOK
<1> QED
  BY <1>1, <1>2, <1>3, TypesAre DEF LocalFile

LEMMA OpenedFiled ==
    ASSUME TypeOK, NEW p \in Procs, NEW w \in Slots, Room(p), Opened(p, w), NEW s \in Slots
    PROVE  Filed(s)' = Filed(s) + Bit(s = w)
<1> DEFINE fd == First(FreeFds(p))
<1>1. fd \in Fds /\ ofile[p][fd] = 0
  <2>1. IsFiniteSet(Fds) /\ Fds \subseteq Nat
    BY FiniteFds
  <2>2. FreeFds(p) \in SUBSET Fds
    BY DEF FreeFds
  <2>3. IsFiniteSet(FreeFds(p)) /\ FreeFds(p) \subseteq Nat
    BY <2>1, <2>2, FS_Subset
  <2>4. fd \in FreeFds(p)
    BY <2>3, FirstIs DEF Room
  <2> QED
    BY <2>4 DEF FreeFds
<1>2. ofile' = [ofile EXCEPT ![p][fd] = w]
  BY DEF Opened
<1> HIDE DEF fd
<1>3. /\ \A q \in Procs \ {p} : ofile'[q] = ofile[q]
      /\ \A d \in Fds \ {fd} : ofile'[p][d] = ofile[p][d]
      /\ ofile'[p][fd] = w
  BY <1>1, <1>2, TypesAre
<1>4. Filed(s)' = Filed(s) + Bit(ofile'[p][fd] = s) - Bit(ofile[p][fd] = s)
  BY <1>1, <1>3, FiledStep
<1>5. Filed(s) \in Nat /\ s # 0
  BY PointersAre
<1> QED
  BY <1>1, <1>3, <1>4, <1>5 DEF Bit

------------------------------------------------------------------------------
\* A step that leaves the disk alone and frees nothing.

\* What a process's locks are after a step.
LocksAfter(p) ==
    \A s \in Slots :
        /\ itable'[s].lock = p => Holds(p, s)'
        /\ panicked' = "no" /\ Holds(p, s)' => itable'[s].lock = p /\ itable'[s].valid

Plain(p, g) ==
    /\ panicked = "no" /\ put[p] = 0 /\ UNCHANGED <<disk, freeing>>
    /\ Local(p) /\ panicked' \in PanicType
    /\ TableStep(p, g)
    /\ g # 0 => PointsTo(p, g) \/ itable'[g].inum = ROOTINO \/ NamesOf(itable'[g].inum) # {}
    /\ \A s \in Slots : PointsTo(p, s)' => PointsTo(p, s) \/ s = g
    /\ LocksAfter(p)

\* What the locals of a process are after a step.
LocalsAfter(p) ==
    /\ CallOK(p)' /\ PlaceOK(p)'
    /\ panicked' = "no" => (Walks(p)' => walk'[p] # 0) /\ (Keeps(p)' => ip'[p] # 0)
    /\ Owing(p)' => ip'[p] # 0

\* A name is of an inode in use.
LEMMA NamedIsUsed ==
    ASSUME TypeOK, LinksCounted, NEW i \in Inums, NamesOf(i) # {}
    PROVE  dinode[i].type # "none" /\ dinode[i].nlink > 0
<1>1. dinode[i].nlink # 0
  BY NoLinks
<1>2. dinode[i].nlink \in Nat
  BY DEF TypeOK
<1> QED
  BY <1>1, <1>2 DEF LinksCounted

LEMMA PlainType ==
    ASSUME IInv, NEW p \in Procs, NEW g, Plain(p, g)
    PROVE  TypeOK' /\ Others(p) /\ g \in 0..NINODE
<1>1. DiskType'
  BY DEF Plain, disk, DiskType, IInv, TypeOK
<1>2. itable' \in Tables /\ g \in 0..NINODE
  BY DEF Plain, TableStep
<1> QED
  BY <1>1, <1>2, LocalStep DEF IInv, Plain

LEMMA PlainStep ==
    ASSUME IInv, NEW p \in Procs, NEW g, Plain(p, g), LocalsAfter(p),
           Owing(p)' <=> Owing(p), Owing(p) => ip'[p] = ip[p],
           \A s \in Slots : Own(p, s)' + Filed(s)' <= Own(p, s) + Filed(s) + Bit(s = g)
    PROVE  IInv' /\ Frame(p)
<1>1. TypeOK' /\ Others(p) /\ g \in 0..NINODE
  BY PlainType
<1>2. /\ panicked = "no" /\ dinode' = dinode /\ entries' = entries
      /\ \A s \in Slots : itable'[s].ref = itable[s].ref + Bit(s = g)
      /\ \A s \in Slots : itable[s].ref > 0 => itable'[s].inum = itable[s].inum
      /\ EntriesOK'
  BY DEF Plain, disk, TableStep
<1>3. \A s \in Slots : itable[s].ref \in Nat /\ itable'[s].ref \in Nat
  BY <1>1 DEF IInv, TypeOK
<1>4. RefsCover'
  <2> SUFFICES ASSUME NEW s \in Slots PROVE itable'[s].ref >= Pointers(s)'
    BY DEF RefsCover
  <2>1. itable[s].ref >= Pointers(s)
    BY DEF IInv, RefsCover
  <2>2. /\ Pointers(s)' = Pointers(s) + Own(p, s)' - Own(p, s) + Filed(s)' - Filed(s)
        /\ Pointers(s) \in Nat /\ Filed(s) \in Nat /\ Filed(s)' \in Nat
    BY <1>1, PointersStep DEF IInv
  <2>3. Own(p, s) \in Int /\ Own(p, s)' \in Int /\ Bit(s = g) \in Int
    BY DEF Own, Bit
  <2>4. Own(p, s)' + Filed(s)' <= Own(p, s) + Filed(s) + Bit(s = g)
    OBVIOUS
  <2> HIDE DEF Bit
  <2> QED
    BY <1>2, <1>3, <2>1, <2>2, <2>3, <2>4
<1>5. ASSUME g # 0
      PROVE  /\ g \in Slots /\ itable'[g].inum \in Inums /\ dinode[itable'[g].inum].type # "none"
             /\ PointsTo(p, g) \/ Reached(g)
  <2>1. g \in Slots
    BY <1>1, <1>5, Numbers
  <2>2. itable'[g].ref > 0
    BY <1>2, <1>3, <2>1 DEF Bit
  <2>3. itable'[g].inum # 0 /\ itable'[g].inum \in 0..NINODES
    BY <1>1, <1>2, <2>1, <2>2 DEF EntriesOK, TypeOK
  <2>4. itable'[g].inum \in Inums
    BY <2>3, Numbers
  <2>5. CASE PointsTo(p, g)
    <3>1. itable[g].ref > 0
      BY <2>1, <2>5, Referred DEF IInv
    <3>2. dinode[itable[g].inum].type # "none"
      BY <2>1, <2>5 DEF IInv, CallsOK, PointersOK
    <3> QED
      BY <1>2, <2>1, <2>4, <2>5, <3>1, <3>2
  <2>6. CASE itable'[g].inum = ROOTINO
    BY <2>1, <2>4, <2>6 DEF IInv, DirsOK, Reached
  <2>7. CASE NamesOf(itable'[g].inum) # {}
    BY <2>1, <2>4, <2>7, NamedIsUsed DEF IInv, Reached
  <2> QED
    BY <1>5, <2>5, <2>6, <2>7 DEF Plain
<1>6. Frame(p)
  <2>1. ASSUME NEW s \in Slots PROVE itable'[s].ref <= itable[s].ref \/ PointsTo(p, s) \/ Reached(s)
    <3>1. CASE s = g
      <4>1. g # 0
        BY <3>1, Numbers
      <4> QED
        BY <1>5, <3>1, <4>1
    <3>2. CASE s # g
      BY <1>2, <1>3, <3>2 DEF Bit
    <3> QED
      BY <3>1, <3>2
  <2>2. ASSUME NEW s \in Slots, PointsTo(p, s)' PROVE PointsTo(p, s) \/ Reached(s)
    <3>1. s # 0
      BY Numbers
    <3> QED
      BY <1>5, <2>2, <3>1 DEF Plain
  <2>3. \A s \in Slots, q \in Procs \ {p} :
                /\ itable'[s].lock = q <=> itable[s].lock = q
                /\ itable[s].lock = q =>
                      itable'[s].valid = itable[s].valid /\ itable'[s].nlink = itable[s].nlink
    BY DEF Plain, TableStep
  <2> QED
    BY <1>1, <1>2, <2>1, <2>2, <2>3 DEF Frame
<1>7. \A q \in Procs \ {p} : CallOK(q)' /\ PointersOK(q)' /\ LocksOK(q)' /\ TruncOK(q)' /\ PlaceOK(q)'
  BY <1>1, <1>4, <1>6, OthersKeep
<1>8. freeing[p] = "no" /\ freeing'[p] = "no"
  BY DEF IInv, CallsOK, PointersOK, Plain
<1>9. PointersOK(p)'
  <2>1. ASSUME NEW s \in Slots, PointsTo(p, s)' PROVE dinode'[itable'[s].inum].type # "none"
    <3>1. CASE PointsTo(p, s)
      <4>1. itable[s].ref > 0
        BY <3>1, Referred DEF IInv
      <4>2. dinode[itable[s].inum].type # "none"
        BY <3>1 DEF IInv, CallsOK, PointersOK
      <4> QED
        BY <1>2, <4>1, <4>2
    <3>2. CASE ~PointsTo(p, s)
      <4>1. s = g /\ g # 0
        BY <2>1, <3>2, Numbers DEF Plain
      <4> QED
        BY <1>2, <1>5, <4>1
    <3> QED
      BY <3>1, <3>2
  <2> QED
    BY <1>8, <2>1 DEF PointersOK, LocalsAfter
<1>10. LocksOK(p)' /\ TruncOK(p)' /\ CallOK(p)' /\ PlaceOK(p)'
  BY <1>8 DEF Plain, LocksAfter, LocksOK, TruncOK, LocalsAfter
<1>11. CallsOK'
  BY <1>7, <1>9, <1>10 DEF CallsOK
<1>12. LinksCounted' /\ DirsOK'
  <2>1. Owed' = Owed
    BY <1>1, <1>4, <1>6, OwedSame
  <2>2. UNCHANGED disk
    BY DEF Plain
  <2> QED
    BY <1>1, <1>4, <1>6, <2>1, <2>2, DiskSame
<1> QED
  BY <1>1, <1>2, <1>4, <1>6, <1>11, <1>12 DEF IInv

------------------------------------------------------------------------------
\* Where a process has no locks.
Unlocks == {"user", "walk", "restart", "parent", "exists", "linked", "link_bad"}

LEMMA HasNoLock ==
    ASSUME IInv, NEW p \in Procs, NEW place \in Unlocks, At(p, place)
    PROVE  /\ panicked = "no" /\ put[p] = 0 /\ pc[p] = place /\ freeing[p] = "no"
           /\ \A s \in Slots : ~Holds(p, s) /\ itable[s].lock # p
<1>1. panicked = "no" /\ put[p] = 0 /\ pc[p] = place
  BY DEF At
<1>2. freeing[p] = "no"
  BY <1>1, TypesAre DEF IInv, CallsOK, PointersOK
<1>3. \A s \in Slots : ~Holds(p, s)
  BY <1>1, <1>2 DEF Holds, Unlocks
<1> QED
  BY <1>1, <1>2, <1>3 DEF IInv, CallsOK, LocksOK

\* A pointer that a process uses.
LEMMA UsedSlot ==
    ASSUME IInv, NEW p \in Procs, panicked = "no"
    PROVE  /\ Walks(p) => walk[p] \in Slots /\ PointsTo(p, walk[p])
           /\ Keeps(p) => ip[p] \in Slots /\ PointsTo(p, ip[p])
           /\ cwd[p] \in Slots /\ PointsTo(p, cwd[p])
<1>1. Walks(p) => walk[p] # 0
  BY DEF IInv, CallsOK, PointersOK
<1>2. Keeps(p) => ip[p] # 0
  BY DEF IInv, CallsOK, PointersOK
<1> QED
  BY <1>1, <1>2, Numbers, TypesAre DEF IInv, PointsTo

\* A call ends, and puts an entry.
LEMMA EndStep ==
    ASSUME IInv, NEW p \in Procs, panicked = "no", put[p] = 0, ~Owing(p), freeing[p] = "no",
           Ends(p), UNCHANGED <<disk, freeing, panicked>>, LocalPut(p), LocalFile(p),
           TableStep(p, 0), \A s \in Slots : itable'[s].lock # p,
           \A s \in Slots : cwd'[p] = s \/ (\E fd \in Fds : ofile'[p][fd] = s) => PointsTo(p, s),
           \A s \in Slots : Bit(cwd'[p] = s) + Bit(put'[p] = s) + Filed(s)' <= Own(p, s) + Filed(s)
    PROVE  IInv' /\ Frame(p)
<1>1. LocalCall(p) /\ pc'[p] = "user" /\ call'[p] = Idle /\ walk'[p] = 0 /\ ip'[p] = 0
  BY EndsIs DEF IInv
<1>2. ~Walks(p)' /\ ~Keeps(p)' /\ ~Owing(p)' /\ \A s \in Slots : ~Holds(p, s)'
  BY <1>1 DEF Walks, Keeps, Owing, Holds, Idle
<1>3. Plain(p, 0)
  <2>1. \A s \in Slots : PointsTo(p, s)' => PointsTo(p, s)
    BY <1>2 DEF PointsTo
  <2>2. LocksAfter(p)
    BY <1>2 DEF LocksAfter
  <2>3. panicked' \in PanicType
    BY DEF PanicType
  <2> QED
    BY <1>1, <2>1, <2>2, <2>3 DEF Plain, Local
<1>4. LocalsAfter(p)
  BY <1>1, <1>2 DEF LocalsAfter, CallOK, PlaceOK, Idle, Creates
<1>5. ASSUME NEW s \in Slots PROVE Own(p, s)' + Filed(s)' <= Own(p, s) + Filed(s) + Bit(s = 0)
  <2>1. Own(p, s)' = Bit(cwd'[p] = s) + Bit(put'[p] = s)
    BY <1>2 DEF Own, Bit
  <2>2. Bit(s = 0) = 0
    BY Numbers DEF Bit
  <2>3. TypeOK'
    BY <1>3, PlainType
  <2>4. Filed(s) \in Nat /\ Filed(s)' \in Nat
    BY <2>3, PointersAre, PointersArePrimed DEF IInv
  <2>5. Own(p, s) \in Int /\ Bit(cwd'[p] = s) \in Int /\ Bit(put'[p] = s) \in Int
    BY DEF Own, Bit
  <2> HIDE DEF Bit
  <2> QED
    BY <2>1, <2>2, <2>4, <2>5
<1> QED
  BY <1>2, <1>3, <1>4, <1>5, PlainStep

\* A call ends or, in link, has the old inode's count to take back; it puts what it walked to.
LEMMA FailStep ==
    ASSUME IInv, NEW p \in Procs, NEW place \in {"walk"}, At(p, place),
           LookupFails(p), Puts(p, walk[p]), NoDisk, NoFile,
           TableStep(p, 0), \A s \in Slots : itable'[s].lock # p
    PROVE  IInv' /\ Frame(p)
<1>1. panicked = "no" /\ put[p] = 0 /\ pc[p] = "walk" /\ freeing[p] = "no"
  BY HasNoLock DEF Unlocks
<1>2. walk[p] \in Slots /\ PointsTo(p, walk[p]) /\ walk[p] \in 0..NINODE
  BY <1>1, Numbers, UsedSlot DEF Walks
<1>3. LocalPut(p) /\ put'[p] = walk[p] /\ freeing'[p] = "no"
  BY <1>1, <1>2, PutsIs DEF IInv, NoDisk
<1>4. LocalFile(p) /\ cwd'[p] = cwd[p] /\ ofile'[p] = ofile[p] /\ \A s : Filed(s)' = Filed(s)
  <2>1. calls' \in Nat
    BY DEF NoFile, IInv, TypeOK
  <2> QED
    BY <2>1, NoFileIs DEF IInv, NoFile
<1>5. CASE call[p].op = "link2"
  <2>1. Goes(p, "link_bad") /\ UNCHANGED <<call, walk, ip>>
    BY <1>5 DEF LookupFails
  <2>2. LocalCall(p) /\ pc'[p] = "link_bad" /\ call'[p] = call[p] /\ walk'[p] = walk[p] /\ ip'[p] = ip[p]
    BY <2>1, GoesIs, StaysIs DEF IInv, LocalCall, Places
  <2>3. /\ ~Walks(p)' /\ Keeps(p)' /\ Owing(p)' /\ Owing(p) /\ Walks(p) /\ Keeps(p)
        /\ \A s \in Slots : ~Holds(p, s)'
    BY <1>1, <1>3, <1>5, <2>2 DEF Walks, Keeps, Owing, Holds
  <2>4. ip[p] \in Slots /\ ip[p] # 0
    BY <1>1, <2>3, Numbers, UsedSlot
  <2>5. Plain(p, 0)
    <3>1. \A s \in Slots : PointsTo(p, s)' => PointsTo(p, s)
      BY <1>4, <2>2, <2>3 DEF PointsTo
    <3>2. LocksAfter(p)
      BY <2>3 DEF LocksAfter
    <3>3. panicked' \in PanicType
      BY <1>1 DEF PanicType, NoDisk
    <3> QED
      BY <1>1, <1>3, <1>4, <2>2, <3>1, <3>2, <3>3 DEF Plain, Local, NoDisk
  <2>6. LocalsAfter(p)
    <3>1. CallOK(p)'
      BY <1>5, <2>2 DEF CallOK, IInv, CallsOK
    <3>2. PlaceOK(p)'
      <4>1. dinode'[Inum(ip[p])'].type = dinode[Inum(ip[p])].type
        <5>1. itable[ip[p]].ref > 0
          BY <1>1, <2>3, <2>4, Referred, UsedSlot DEF IInv
        <5> QED
          BY <2>2, <2>4, <5>1 DEF TableStep, Inum, NoDisk, disk
      <4> QED
        BY <1>1, <1>5, <2>2, <4>1 DEF PlaceOK, IInv, CallsOK
    <3> QED
      BY <2>2, <2>3, <2>4, <3>1, <3>2 DEF LocalsAfter
  <2>7. ASSUME NEW s \in Slots PROVE Own(p, s)' + Filed(s)' <= Own(p, s) + Filed(s) + Bit(s = 0)
    <3>1. Own(p, s)' = Own(p, s)
      BY <1>1, <1>3, <1>4, <2>2, <2>3, Numbers DEF Own, Bit
    <3>2. Bit(s = 0) = 0
      BY Numbers DEF Bit
    <3>3. Filed(s) \in Nat /\ Own(p, s) \in Int
      BY PointersAre DEF IInv, Own, Bit
    <3> QED
      BY <1>4, <3>1, <3>2, <3>3
  <2> QED
    BY <2>2, <2>3, <2>5, <2>6, <2>7, PlainStep
<1>6. CASE call[p].op # "link2"
  <2>1. Ends(p) /\ ~Owing(p) /\ Walks(p)
    BY <1>1, <1>6 DEF LookupFails, Owing, Walks
  <2>2. ASSUME NEW s \in Slots
        PROVE Bit(cwd'[p] = s) + Bit(put'[p] = s) + Filed(s)' <= Own(p, s) + Filed(s)
    <3>1. Bit(cwd'[p] = s) + Bit(put'[p] = s) <= Own(p, s) /\ Own(p, s) \in Int
      BY <1>3, <1>4, <2>1 DEF Own, Bit
    <3>2. Filed(s) \in Nat /\ Filed(s)' = Filed(s)
      BY <1>4, PointersAre DEF IInv
    <3>3. Bit(cwd'[p] = s) \in Int /\ Bit(put'[p] = s) \in Int
      BY DEF Bit
    <3> HIDE DEF Bit
    <3> QED
      BY <3>1, <3>2, <3>3
  <2>3. \A s \in Slots : cwd'[p] = s \/ (\E fd \in Fds : ofile'[p][fd] = s) => PointsTo(p, s)
    BY <1>4 DEF PointsTo
  <2> QED
    BY <1>1, <1>3, <1>4, <2>1, <2>2, <2>3, EndStep DEF NoDisk
<1> QED
  BY <1>5, <1>6

------------------------------------------------------------------------------
\* The table after the steps of a lookup.

LEMMA SameStep ==
    ASSUME IInv, NEW p \in Procs, UNCHANGED <<itable, dinode>>
    PROVE  TableStep(p, 0)
BY TabledSame, TabledStep

LEMMA LoadStep ==
    ASSUME IInv, NEW p \in Procs, NEW w \in Slots, Lockable(w)
    PROVE  /\ itable' = Loaded(w) /\ UNCHANGED dinode => TableStep(p, 0)
           /\ \A s \in Slots : Loaded(w)[s].lock = itable[s].lock
           /\ Inum(w) \in Inums /\ Type(w) = dinode[Inum(w)].type /\ itable[w].lock = 0
           /\ Tabled(p, Loaded(w), dinode) /\ Type(w) # "none" /\ Type(w) \in Types
<1>1. Tabled(p, Loaded(w), dinode) /\ \A s \in Slots : Loaded(w)[s].lock = itable[s].lock
  BY TabledLoaded
<1>2. itable' = Loaded(w) /\ UNCHANGED dinode => TableStep(p, 0)
  <2> DEFINE t == Loaded(w)
  <2>1. Tabled(p, t, dinode)
    BY <1>1
  <2> HIDE DEF t
  <2>2. itable' = t /\ UNCHANGED dinode => TableStep(p, 0)
    BY <2>1, TabledStep
  <2> QED
    BY <2>2 DEF t
<1>3. /\ itable[w].inum \in Inums /\ Loaded(w)[w].type = dinode[itable[w].inum].type
      /\ itable[w].lock = 0 /\ Loaded(w)[w].type # "none"
  BY LoadedIs DEF IInv
<1>4. dinode[itable[w].inum].type \in Types
  BY <1>3 DEF IInv, TypeOK
<1> QED
  BY <1>1, <1>2, <1>3, <1>4 DEF Inum, Type

\* The inode of a link in the making is no directory.
LEMMA OldKept ==
    ASSUME IInv, NEW p \in Procs, panicked = "no", call[p].op = "link2", NEW g, TableStep(p, g),
           \A i \in Inums : dinode'[i].type = dinode[i].type \/ dinode[i].type = "none",
           ip'[p] = ip[p]
    PROVE  dinode'[Inum(ip[p])'].type # "T_DIR"
<1>1. Keeps(p)
  BY DEF Keeps
<1>2. ip[p] \in Slots /\ PointsTo(p, ip[p])
  BY <1>1, UsedSlot
<1>3. itable[ip[p]].ref > 0
  BY <1>2, Referred DEF IInv
<1>4. itable[ip[p]].inum \in Inums /\ itable'[ip[p]].inum = itable[ip[p]].inum
  BY <1>2, <1>3, InumIs DEF TableStep, IInv
<1>5. dinode[itable[ip[p]].inum].type # "none"
  BY <1>2 DEF IInv, CallsOK, PointersOK
<1>6. dinode[itable[ip[p]].inum].type # "T_DIR"
  BY DEF IInv, CallsOK, PlaceOK, Inum
<1> QED
  BY <1>4, <1>5, <1>6 DEF Inum

\* A lookup goes on.
Lookups == {"user", "walk", "restart"}

Looks(p, g) ==
    /\ At(p, pc[p]) /\ pc[p] \in Lookups /\ pc'[p] \in {"walk", "restart", "parent"}
    /\ LocalCall(p) /\ LocalPut(p) /\ UNCHANGED <<disk, freeing, cwd, ofile>> /\ calls' \in Nat
    /\ panicked' \in PanicType /\ TableStep(p, g) /\ \A s \in Slots : itable'[s].lock # p
    /\ call'[p].op = "symlink" => call'[p].arg \in Targets
    /\ call'[p].op \in Creates => ip'[p] = 0
    /\ call'[p].op = "link2" <=> call[p].op = "link2"
    /\ call[p].op = "link2" => ip'[p] = ip[p]
    /\ g # 0 => PointsTo(p, g) \/ itable'[g].inum = ROOTINO \/ NamesOf(itable'[g].inum) # {}
    /\ pc'[p] = "parent" =>
          /\ pc[p] = "walk" /\ walk'[p] = walk[p] /\ Rest(p)' # <<>> /\ WantsParent(p)'
          /\ dinode[Inum(walk[p])].type = "T_DIR"
    /\ panicked' = "no" /\ pc'[p] # "restart" => walk'[p] # 0
    /\ \A s \in Slots :
          /\ Bit(put'[p] = s) + Bit(pc'[p] # "restart" /\ walk'[p] = s)
               <= Bit(pc[p] = "walk" /\ walk[p] = s) + Bit(s = g)
          /\ pc'[p] # "restart" /\ walk'[p] = s => (pc[p] = "walk" /\ walk[p] = s) \/ s = g

LEMMA LooksStep ==
    ASSUME IInv, NEW p \in Procs, NEW g, Looks(p, g)
    PROVE  IInv' /\ Frame(p)
<1>1. /\ panicked = "no" /\ put[p] = 0 /\ freeing[p] = "no" /\ pc[p] \in Lookups
      /\ pc'[p] \in {"walk", "restart", "parent"}
  BY HasNoLock DEF Looks, Lookups, Unlocks
<1>2. LocalFile(p) /\ cwd'[p] = cwd[p] /\ ofile'[p] = ofile[p] /\ \A s : Filed(s)' = Filed(s)
  BY NoFileIs DEF IInv, Looks
<1>3. /\ (Walks(p) <=> pc[p] = "walk") /\ (Walks(p)' <=> pc'[p] # "restart")
      /\ (Keeps(p) <=> call[p].op = "link2") /\ (Keeps(p)' <=> call'[p].op = "link2")
      /\ (Owing(p) <=> call[p].op = "link2") /\ (Owing(p)' <=> call'[p].op = "link2")
  BY <1>1 DEF Walks, Keeps, Owing, Lookups
<1>4. (call'[p].op = "link2" <=> call[p].op = "link2") /\ (call[p].op = "link2" => ip'[p] = ip[p])
  BY DEF Looks
<1>5. \A s \in Slots : ~Holds(p, s)'
  BY <1>1 DEF Holds, Looks
<1>6. \A s \in Slots : PointsTo(p, s)' => PointsTo(p, s) \/ s = g
  BY <1>2, <1>3, <1>4 DEF PointsTo, Looks
<1>7. Plain(p, g)
  BY <1>1, <1>2, <1>5, <1>6 DEF Plain, Looks, Local, LocksAfter
<1>8. call[p].op = "link2" => ip[p] # 0 /\ dinode'[Inum(ip[p])'].type # "T_DIR"
  <2> SUFFICES ASSUME call[p].op = "link2" PROVE ip[p] # 0 /\ dinode'[Inum(ip[p])'].type # "T_DIR"
    OBVIOUS
  <2>1. ip[p] # 0
    BY <1>1, <1>3 DEF IInv, CallsOK, PointersOK
  <2>2. dinode' = dinode /\ TableStep(p, g)
    BY DEF Looks, disk
  <2> QED
    BY <1>1, <1>4, <2>1, <2>2, OldKept
<1>9. CallOK(p)'
  BY <1>1 DEF CallOK, Looks
<1>10. PlaceOK(p)'
  <2>1. pc'[p] = "parent" => dinode'[Inum(walk[p])'].type = "T_DIR"
    <3> SUFFICES ASSUME pc'[p] = "parent" PROVE dinode'[Inum(walk[p])'].type = "T_DIR"
      OBVIOUS
    <3>1. walk[p] \in Slots /\ PointsTo(p, walk[p])
      BY <1>1, <1>3, UsedSlot DEF Looks
    <3>2. itable[walk[p]].ref > 0
      BY <3>1, Referred DEF IInv
    <3> QED
      BY <3>1, <3>2 DEF Looks, TableStep, Inum, disk
  <2> QED
    BY <1>1, <1>4, <1>8, <2>1 DEF PlaceOK
<1>11. LocalsAfter(p)
  BY <1>3, <1>4, <1>8, <1>9, <1>10 DEF LocalsAfter, Looks
<1>12. ASSUME NEW s \in Slots PROVE Own(p, s)' + Filed(s)' <= Own(p, s) + Filed(s) + Bit(s = g)
  <2>1. /\ Own(p, s) = Bit(cwd[p] = s) + Bit(pc[p] = "walk" /\ walk[p] = s)
                       + Bit(call[p].op = "link2" /\ ip[p] = s)
        /\ Own(p, s)' = Bit(cwd[p] = s) + Bit(put'[p] = s) + Bit(pc'[p] # "restart" /\ walk'[p] = s)
                        + Bit(call[p].op = "link2" /\ ip[p] = s)
    BY <1>1, <1>2, <1>3, <1>4, Numbers DEF Own, Bit
  <2>2. Bit(put'[p] = s) + Bit(pc'[p] # "restart" /\ walk'[p] = s)
               <= Bit(pc[p] = "walk" /\ walk[p] = s) + Bit(s = g)
    BY DEF Looks
  <2>3. Filed(s) \in Nat /\ Filed(s)' = Filed(s)
    BY <1>2, PointersAre DEF IInv
  <2>4. \A b : Bit(b) \in Int
    BY DEF Bit
  <2> HIDE DEF Bit
  <2> QED
    BY <2>1, <2>2, <2>3, <2>4
<1> QED
  BY <1>3, <1>4, <1>7, <1>11, <1>12, PlainStep

\* idup.
LEMMA DupStep ==
    ASSUME IInv, NEW p \in Procs, NEW c \in Slots, itable[c].ref > 0,
           itable' = [itable EXCEPT ![c].ref = @ + 1], UNCHANGED dinode
    PROVE  TableStep(p, c) /\ \A s \in Slots : itable'[s].lock = itable[s].lock
<1>1. itable \in Tables /\ itable[c] \in Entry
  BY DEF IInv, TypeOK, Tables, Entry
<1>2. /\ itable' \in Tables /\ itable'[c] = [itable[c] EXCEPT !.ref = @ + 1]
      /\ \A s \in Slots \ {c} : itable'[s] = itable[s]
  BY <1>1 DEF Tables, Entry
<1>3. /\ itable'[c].ref = itable[c].ref + 1 /\ itable'[c].inum = itable[c].inum
      /\ itable'[c].valid = itable[c].valid /\ itable'[c].type = itable[c].type
      /\ itable'[c].nlink = itable[c].nlink /\ itable'[c].lock = itable[c].lock
  BY <1>1, <1>2 DEF Entry
<1>4. \A s \in Slots : itable[s].ref \in Nat
  BY <1>1 DEF Tables, Entry
<1>5. ASSUME NEW s \in Slots
      PROVE  /\ itable'[s].ref = itable[s].ref + Bit(s = c) /\ itable'[s].inum = itable[s].inum
             /\ itable'[s].valid = itable[s].valid /\ itable'[s].type = itable[s].type
             /\ itable'[s].nlink = itable[s].nlink /\ itable'[s].lock = itable[s].lock
             /\ (itable'[s].ref > 0 <=> itable[s].ref > 0)
  <2>1. CASE s = c
    BY <1>3, <1>4, <2>1 DEF Bit
  <2>2. CASE s # c
    BY <1>2, <1>4, <2>2 DEF Bit
  <2> QED
    BY <2>1, <2>2
<1>6. EntriesOK'
  BY <1>5 DEF IInv, EntriesOK
<1>7. c \in 0..NINODE
  BY Numbers
<1> QED
  BY <1>2, <1>5, <1>6, <1>7 DEF TableStep

\* Names of paths.
LEMMA NameIs ==
    ASSUME TypeOK, NEW p \in Procs
    PROVE  /\ Rest(p) \in Seq(Names) /\ call[p].arg \in Seq(Names) /\ call[p].op \in Ops
           /\ call[p].depth \in Nat /\ call[p].follows \in Nat
           /\ Rest(p) # <<>> => Name(p) \in Names /\ Tail(Rest(p)) \in Seq(Names)
<1>1. call[p] \in CallType
  BY StaysIs
<1>2. Rest(p) \in Seq(Names)
  BY <1>1 DEF Rest, CallType
<1> QED
  BY <1>1, <1>2 DEF CallType, Name

LEMMA EntryIs ==
    ASSUME TypeOK, NEW d \in Inums, NEW n \in Names
    PROVE  /\ entries[d][n] \in 0..NINODES
           /\ entries[d][n] # 0 => entries[d][n] \in Inums /\ NamesOf(entries[d][n]) # {}
<1>1. entries[d][n] \in 0..NINODES
  <2>1. entries \in [Inums -> [Names -> 0..NINODES]]
    BY DEF TypeOK
  <2> QED
    BY <2>1
<1>2. <<d, n>> \in NamesOf(entries[d][n])
  BY DEF NamesOf
<1> QED
  BY <1>1, <1>2, Numbers

LEMMA TargetIs ==
    ASSUME TypeOK, NEW i \in Inums
    PROVE  target[i] \in Seq(Names)
BY PathsAssumption DEF TypeOK

\* The steps of namex.
LEMMA WalkingIs ==
    ASSUME IInv, NEW p \in Procs, Walking(p)
    PROVE  /\ At(p, "walk") /\ At(p, pc[p]) /\ pc[p] = "walk" /\ put[p] = 0 /\ panicked = "no"
           /\ freeing[p] = "no"
           /\ walk[p] \in Slots /\ walk[p] \in 0..NINODE /\ walk[p] # 0 /\ PointsTo(p, walk[p])
           /\ Lockable(walk[p]) /\ Rest(p) # <<>>
           /\ \A s \in Slots : itable[s].lock # p
<1>1. At(p, "walk") /\ Lockable(walk[p]) /\ Rest(p) # <<>>
  BY DEF Walking
<1>2. /\ panicked = "no" /\ put[p] = 0 /\ pc[p] = "walk" /\ freeing[p] = "no"
      /\ \A s \in Slots : itable[s].lock # p
  BY <1>1, HasNoLock DEF Unlocks
<1>3. walk[p] \in Slots /\ PointsTo(p, walk[p])
  BY <1>2, UsedSlot DEF Walks
<1> QED
  BY <1>1, <1>2, <1>3, Numbers

\* iget of the root, which init has.
LEMMA RootStep ==
    ASSUME IInv, NEW p \in Procs, \A s \in Slots : itable[s].lock # p,
           itable' = Got(itable, ROOTINO), UNCHANGED dinode, NEW g, g = GetSlot(itable, ROOTINO)
    PROVE  /\ g \in Slots /\ g # 0 /\ TableStep(p, g) /\ itable'[g].inum = ROOTINO
           /\ \A s \in Slots : itable'[s].lock # p
<1>1. 1 \in Find(itable, ROOTINO)
  <2>1. itable[1].ref \in Nat /\ itable[1].ref >= 1 /\ 1 \in Slots
    BY Numbers, Referred DEF IInv
  <2> QED
    BY <2>1 DEF Find, IInv, DirsOK
<1>2. g \in Find(itable, ROOTINO)
  <2>1. Find(itable, ROOTINO) \in SUBSET Slots
    BY DEF Find
  <2>2. First(Find(itable, ROOTINO)) \in Find(itable, ROOTINO)
    BY <1>1, <2>1, FiniteSlots, FirstIs
  <2> QED
    BY <1>1, <2>2 DEF GetSlot
<1>3. g \in Slots /\ g # 0
  BY <1>2, Numbers DEF Find
<1>4. Tabled(p, itable, dinode') /\ ROOTINO \in Inums
  BY Numbers, TabledSame
<1>5. GetTable(p, itable, ROOTINO, GetSlot(itable, ROOTINO))
  BY <1>4, GotStep
<1>6. GetTable(p, itable, ROOTINO, g)
  BY <1>5
<1> QED
  BY <1>3, <1>6, Numbers DEF GetTable

\* The entry a lookup starts at is the root's, or one the process holds.
LEMMA StartsFrom ==
    ASSUME IInv, NEW p \in Procs, Starts(p), dinode' = dinode, panicked = "no",
           \A s \in Slots : itable[s].lock # p
    PROVE  \E g \in Slots :
               /\ walk' = [walk EXCEPT ![p] = g] /\ TableStep(p, g)
               /\ \A s \in Slots : itable'[s].lock # p
               /\ PointsTo(p, g) \/ itable'[g].inum = ROOTINO
<1>1. CASE walk' = [walk EXCEPT ![p] = GetSlot(itable, ROOTINO)] /\ itable' = Got(itable, ROOTINO)
  <2> DEFINE g == GetSlot(itable, ROOTINO)
  <2>1. walk' = [walk EXCEPT ![p] = g] /\ g = GetSlot(itable, ROOTINO)
    BY <1>1
  <2> HIDE DEF g
  <2>2. g \in Slots /\ TableStep(p, g) /\ itable'[g].inum = ROOTINO /\ \A s \in Slots : itable'[s].lock # p
    BY <1>1, <2>1, RootStep
  <2> QED
    BY <2>1, <2>2
<1>2. CASE walk' = [walk EXCEPT ![p] = cwd[p]] /\ itable' = [itable EXCEPT ![cwd[p]].ref = @ + 1]
  <2> DEFINE c == cwd[p]
  <2>1. c \in Slots /\ PointsTo(p, c)
    BY UsedSlot
  <2>2. itable[c].ref > 0
    BY <2>1, Referred DEF IInv
  <2>3. walk' = [walk EXCEPT ![p] = c] /\ itable' = [itable EXCEPT ![c].ref = @ + 1]
    BY <1>2
  <2> HIDE DEF c
  <2>4. TableStep(p, c) /\ \A s \in Slots : itable'[s].lock = itable[s].lock
    BY <2>1, <2>2, <2>3, DupStep
  <2> QED
    BY <2>1, <2>3, <2>4
<1> QED
  BY <1>1, <1>2 DEF Starts

LEMMA BeginStep ==
    ASSUME IInv, NEW p \in Procs, NEW op \in Ops \ {"none", "link2"}, NEW path \in Seq(Names),
           NEW arg \in Seq(Names), op = "symlink" => arg \in Targets, Begin(p, op, path, arg)
    PROVE  IInv' /\ Frame(p)
<1>1. /\ At(p, "user") /\ panicked = "no" /\ put[p] = 0 /\ pc[p] = "user" /\ freeing[p] = "no"
      /\ \A s \in Slots : itable[s].lock # p
  BY HasNoLock DEF Begin, Unlocks
<1>2. call[p].op = "none" /\ ip[p] = 0
  BY <1>1 DEF IInv, CallsOK, CallOK
<1>3. /\ panicked' = panicked /\ UNCHANGED <<disk, freeing, cwd, ofile>> /\ calls' \in Nat
      /\ dinode' = dinode
  <2>1. calls \in Nat
    BY DEF IInv, TypeOK
  <2> QED
    BY <2>1 DEF Begin, disk
<1>4. LocalPut(p) /\ put'[p] = 0
  BY <1>1, NoPuts DEF Begin, IInv
<1>5. /\ pc' = [pc EXCEPT ![p] = pc'[p]] /\ pc'[p] = "walk" /\ "walk" \in Places
      /\ ip' = [ip EXCEPT ![p] = ip'[p]] /\ ip'[p] = ip[p] /\ ip[p] \in 0..NINODE
  BY GoesIs, StaysIs DEF Begin, Starts, IInv, Places
<1>6. call' = [call EXCEPT ![p] = call'[p]] /\ call'[p] \in CallType /\ call'[p].op = op
      /\ call'[p].arg = arg
  <2> DEFINE c == [op |-> op, rest |-> path, arg |-> arg, depth |-> 0, follows |-> 0]
  <2>1. c \in CallType /\ c.op = op /\ c.arg = arg
    BY DEF CallType
  <2>2. call' = [call EXCEPT ![p] = c] /\ call \in [Procs -> CallType]
    BY DEF Begin, IInv, TypeOK, CallType
  <2> HIDE DEF c
  <2> QED
    BY <2>1, <2>2
<1>7. ASSUME NEW g \in Slots, walk' = [walk EXCEPT ![p] = g], TableStep(p, g),
             \A s \in Slots : itable'[s].lock # p, PointsTo(p, g) \/ itable'[g].inum = ROOTINO
      PROVE  IInv' /\ Frame(p)
  <2>1. walk' = [walk EXCEPT ![p] = walk'[p]] /\ walk'[p] = g /\ g # 0 /\ g \in 0..NINODE
    BY <1>7, Numbers, TypesAre DEF IInv
  <2>2. LocalCall(p)
    BY <1>5, <1>6, <2>1 DEF LocalCall
  <2>3. \A s \in Slots : s # 0
    BY Numbers
  <2>4. panicked' \in PanicType
    BY <1>1, <1>3 DEF PanicType
  <2>5. Looks(p, g)
    BY <1>1, <1>2, <1>3, <1>4, <1>5, <1>6, <1>7, <2>1, <2>2, <2>3, <2>4 DEF Looks, Lookups, Bit
  <2> QED
    BY <2>5, LooksStep
<1>8. Starts(p)
  BY DEF Begin
<1> QED
  BY <1>1, <1>3, <1>7, <1>8, StartsFrom

LEMMA RestartIsStep ==
    ASSUME IInv, NEW p \in Procs, Restart(p)
    PROVE  IInv' /\ Frame(p)
<1>1. /\ At(p, "restart") /\ panicked = "no" /\ put[p] = 0 /\ pc[p] = "restart" /\ freeing[p] = "no"
      /\ \A s \in Slots : itable[s].lock # p
  BY HasNoLock DEF Restart, Unlocks
<1>3. /\ panicked' = panicked /\ UNCHANGED <<disk, freeing, cwd, ofile>> /\ calls' \in Nat
      /\ dinode' = dinode
  BY DEF Restart, NoFile, disk, IInv, TypeOK
<1>4. LocalPut(p) /\ put'[p] = 0
  BY <1>1, NoPuts DEF Restart, IInv
<1>5. /\ pc' = [pc EXCEPT ![p] = pc'[p]] /\ pc'[p] = "walk" /\ "walk" \in Places
      /\ ip' = [ip EXCEPT ![p] = ip'[p]] /\ ip'[p] = ip[p] /\ ip[p] \in 0..NINODE
      /\ call' = [call EXCEPT ![p] = call'[p]] /\ call'[p] = call[p] /\ call[p] \in CallType
  BY GoesIs, StaysIs DEF Restart, Starts, IInv, Places
<1>6. \A s \in Slots : s # 0
  BY Numbers
<1>7. panicked' \in PanicType
  BY <1>1, <1>3 DEF PanicType
<1>8. (call[p].op = "symlink" => call[p].arg \in Targets) /\ (call[p].op \in Creates => ip[p] = 0)
  BY <1>1 DEF IInv, CallsOK, CallOK
<1>9. ASSUME NEW g \in Slots, walk' = [walk EXCEPT ![p] = g], TableStep(p, g),
             \A s \in Slots : itable'[s].lock # p, PointsTo(p, g) \/ itable'[g].inum = ROOTINO
      PROVE  IInv' /\ Frame(p)
  <2>1. walk' = [walk EXCEPT ![p] = walk'[p]] /\ walk'[p] = g /\ g # 0 /\ g \in 0..NINODE
    BY <1>9, Numbers, TypesAre DEF IInv
  <2>2. LocalCall(p)
    BY <1>5, <2>1 DEF LocalCall
  <2>3. Looks(p, g)
    BY <1>1, <1>3, <1>4, <1>5, <1>6, <1>7, <1>8, <1>9, <2>1, <2>2 DEF Looks, Lookups, Bit
  <2> QED
    BY <2>3, LooksStep
<1>10. Starts(p)
  BY DEF Restart
<1> QED
  BY <1>1, <1>3, <1>9, <1>10, StartsFrom

\* The rest of a lookup's step.
LEMMA WalkFrame ==
    ASSUME IInv, NEW p \in Procs, NoFile, UNCHANGED <<disk, freeing>>, NEW w \in 0..NINODE, Puts(p, w)
    PROVE  /\ UNCHANGED <<disk, freeing, cwd, ofile>> /\ calls' \in Nat /\ dinode' = dinode
           /\ LocalPut(p) /\ put'[p] = w
<1>1. calls \in Nat
  BY DEF IInv, TypeOK
<1>2. LocalPut(p) /\ put'[p] = w
  BY PutsIs DEF IInv
<1> QED
  BY <1>1, <1>2 DEF NoFile, disk

LEMMA WalkLinkStep ==
    ASSUME IInv, NEW p \in Procs, WalkLink(p)
    PROVE  IInv' /\ Frame(p)
<1> DEFINE w == walk[p]
           rest == target[Inum(w)] \o Rest(p)
<1>1. Walking(p)
  BY DEF WalkLink
<1>2. /\ At(p, "walk") /\ At(p, pc[p]) /\ pc[p] = "walk" /\ put[p] = 0 /\ panicked = "no"
      /\ w \in Slots /\ w \in 0..NINODE /\ w # 0 /\ Lockable(w)
      /\ \A s \in Slots : itable[s].lock # p
  BY <1>1, WalkingIs
<1>3. itable' = Loaded(w) /\ Puts(p, w) /\ NoDisk /\ NoFile
  BY DEF WalkLink
<1>4. /\ UNCHANGED <<disk, freeing, cwd, ofile>> /\ calls' \in Nat /\ dinode' = dinode
      /\ LocalPut(p) /\ put'[p] = w /\ panicked' \in PanicType
  BY <1>2, <1>3, WalkFrame DEF NoDisk, PanicType
<1>5. TableStep(p, 0) /\ (\A s \in Slots : itable'[s].lock # p) /\ Inum(w) \in Inums
  BY <1>2, <1>3, <1>4, LoadStep
<1>6. CASE LookupFails(p)
  BY <1>2, <1>3, <1>5, <1>6, FailStep
<1>7. CASE /\ Goes(p, "restart") /\ UNCHANGED <<walk, ip>>
           /\ call' = [call EXCEPT ![p].rest = rest, ![p].depth = @ + 1]
  <2>1. rest \in Seq(Names)
    BY <1>5, NameIs, TargetIs DEF IInv
  <2> HIDE DEF rest
  <2>2. call' = [call EXCEPT ![p] = call'[p]] /\ call'[p] \in CallType
        /\ call'[p].op = call[p].op /\ call'[p].arg = call[p].arg
    <3> DEFINE n == call[p].depth + 1
               c == [call[p] EXCEPT !.rest = rest, !.depth = n]
    <3>1. call \in [Procs -> CallType] /\ call[p] \in CallType /\ n \in Nat
      BY CallIs, NameIs DEF IInv
    <3>2. call' = [call EXCEPT ![p] = c]
      BY <1>7, <3>1
    <3> HIDE DEF n
    <3>3. c \in CallType /\ c.op = call[p].op /\ c.arg = call[p].arg
      BY <2>1, <3>1 DEF CallType
    <3> HIDE DEF c
    <3> QED
      BY <3>1, <3>2, <3>3
  <2>3. LocalCall(p) /\ pc'[p] = "restart" /\ walk'[p] = w /\ ip'[p] = ip[p]
    BY <1>7, <2>2, GoesIs, StaysIs DEF IInv, LocalCall, Places
  <2>4. (call[p].op = "symlink" => call[p].arg \in Targets) /\ (call[p].op \in Creates => ip[p] = 0)
    BY <1>2 DEF IInv, CallsOK, CallOK
  <2>5. \A s \in Slots : s # 0
    BY Numbers
  <2>6. Looks(p, 0)
    BY <1>2, <1>4, <1>5, <2>2, <2>3, <2>4, <2>5 DEF Looks, Lookups, Bit
  <2> QED
    BY <2>6, LooksStep
<1> QED
  BY <1>6, <1>7 DEF WalkLink

LEMMA WalkNoDirStep ==
    ASSUME IInv, NEW p \in Procs, WalkNoDir(p)
    PROVE  IInv' /\ Frame(p)
<1>1. Walking(p)
  BY DEF WalkNoDir
<1>2. /\ At(p, "walk") /\ panicked = "no" /\ walk[p] \in Slots /\ Lockable(walk[p])
      /\ \A s \in Slots : itable[s].lock # p
  BY <1>1, WalkingIs
<1>3. itable' = Loaded(walk[p]) /\ Puts(p, walk[p]) /\ NoDisk /\ NoFile /\ LookupFails(p) /\ dinode' = dinode
  BY DEF WalkNoDir, NoDisk, disk
<1>4. TableStep(p, 0) /\ \A s \in Slots : itable'[s].lock # p
  BY <1>2, <1>3, LoadStep
<1> QED
  BY <1>2, <1>3, <1>4, FailStep

LEMMA WalkNoParentStep ==
    ASSUME IInv, NEW p \in Procs, WalkNoParent(p)
    PROVE  IInv' /\ Frame(p)
<1>1. At(p, "walk") /\ Puts(p, walk[p]) /\ NoDisk /\ NoFile /\ LookupFails(p) /\ UNCHANGED <<itable, dinode>>
  BY DEF WalkNoParent, NoDisk, disk
<1>2. \A s \in Slots : itable[s].lock # p
  BY <1>1, HasNoLock DEF Unlocks
<1>3. TableStep(p, 0)
  BY <1>1, SameStep
<1> QED
  BY <1>1, <1>2, <1>3, FailStep

LEMMA WalkParentStep ==
    ASSUME IInv, NEW p \in Procs, WalkParent(p)
    PROVE  IInv' /\ Frame(p)
<1> DEFINE w == walk[p]
<1>1. Walking(p)
  BY DEF WalkParent
<1>2. /\ At(p, "walk") /\ At(p, pc[p]) /\ pc[p] = "walk" /\ put[p] = 0 /\ panicked = "no"
      /\ w \in Slots /\ w \in 0..NINODE /\ w # 0 /\ Lockable(w) /\ Rest(p) # <<>>
      /\ \A s \in Slots : itable[s].lock # p
  BY <1>1, WalkingIs
<1>3. itable' = Loaded(w) /\ NoDisk /\ NoFile /\ UNCHANGED put
  BY DEF WalkParent
<1>4. /\ UNCHANGED <<disk, freeing, cwd, ofile>> /\ calls' \in Nat /\ dinode' = dinode
      /\ LocalPut(p) /\ put'[p] = 0 /\ panicked' \in PanicType
  <2>1. calls \in Nat
    BY DEF IInv, TypeOK
  <2>2. LocalPut(p) /\ put'[p] = 0
    BY <1>2, <1>3, NoPuts DEF IInv, NoDisk
  <2> QED
    BY <1>2, <1>3, <2>1, <2>2 DEF NoDisk, NoFile, disk, PanicType
<1>5. TableStep(p, 0) /\ (\A s \in Slots : itable'[s].lock # p) /\ Type(w) = dinode[Inum(w)].type
  BY <1>2, <1>3, <1>4, LoadStep
<1>6. LocalCall(p) /\ pc'[p] = "parent" /\ walk'[p] = w /\ ip'[p] = ip[p] /\ call'[p] = call[p]
  BY GoesIs, StaysIs DEF IInv, LocalCall, Places, WalkParent
<1>7. (call[p].op = "symlink" => call[p].arg \in Targets) /\ (call[p].op \in Creates => ip[p] = 0)
  BY <1>1, <1>2 DEF IInv, CallsOK, CallOK
<1>8. \A s \in Slots : s # 0
  BY Numbers
<1>9. Rest(p)' = Rest(p) /\ (WantsParent(p)' <=> WantsParent(p)) /\ WantsParent(p)
  BY <1>6 DEF Rest, WantsParent, WalkParent
<1>10. dinode[Inum(w)].type = "T_DIR"
  BY <1>5 DEF WalkParent
<1>11. Looks(p, 0)
  BY <1>2, <1>4, <1>5, <1>6, <1>7, <1>8, <1>9, <1>10 DEF Looks, Lookups, Bit
<1> QED
  BY <1>11, LooksStep

LEMMA WalkDownStep ==
    ASSUME IInv, NEW p \in Procs, WalkDown(p)
    PROVE  IInv' /\ Frame(p)
<1> DEFINE w == walk[p]
           i == entries[Inum(w)][Name(p)]
           t == Loaded(w)
           g == GetSlot(t, i)
<1>1. Walking(p)
  BY DEF WalkDown
<1>2. /\ At(p, "walk") /\ At(p, pc[p]) /\ pc[p] = "walk" /\ put[p] = 0 /\ panicked = "no"
      /\ w \in Slots /\ w \in 0..NINODE /\ w # 0 /\ Lockable(w) /\ Rest(p) # <<>>
      /\ \A s \in Slots : itable[s].lock # p
  BY <1>1, WalkingIs
<1>3. Puts(p, w) /\ UNCHANGED <<disk, freeing>> /\ NoFile
  BY DEF WalkDown
<1>4. /\ UNCHANGED <<disk, freeing, cwd, ofile>> /\ calls' \in Nat /\ dinode' = dinode
      /\ LocalPut(p) /\ put'[p] = w
  BY <1>2, <1>3, WalkFrame
<1>5. /\ Inum(w) \in Inums /\ Tabled(p, t, dinode) /\ (itable' = t => TableStep(p, 0))
      /\ \A s \in Slots : t[s].lock # p
  BY <1>2, <1>4, LoadStep
<1>6. CASE itable' = t /\ LookupFails(p) /\ UNCHANGED panicked
  BY <1>2, <1>3, <1>5, <1>6, FailStep DEF NoDisk
<1>7. CASE /\ i # 0 /\ itable' = Got(t, i) /\ panicked' = GetPanics(t, i)
           /\ walk' = [walk EXCEPT ![p] = g]
           /\ call' = [call EXCEPT ![p].rest = Tail(@)]
           /\ UNCHANGED <<pc, ip>>
  <2>1. i \in Inums /\ NamesOf(i) # {} /\ Tail(Rest(p)) \in Seq(Names)
    BY <1>2, <1>5, <1>7, EntryIs, NameIs DEF IInv
  <2>2. GetTable(p, t, i, g)
    <3> HIDE DEF i, t
    <3>1. Tabled(p, t, dinode')
      BY <1>4, <1>5
    <3> QED
      BY <1>7, <2>1, <3>1, GotStep DEF g
  <2>3. /\ TableStep(p, g) /\ (g # 0 => itable'[g].inum = i) /\ g \in 0..NINODE
        /\ \A s \in Slots : itable'[s].lock = t[s].lock \/ itable'[s].lock = 0
        /\ panicked' \in PanicType /\ (panicked' = "no" => g # 0)
    BY <1>7, <2>2 DEF GetTable
  <2>4. call' = [call EXCEPT ![p] = call'[p]] /\ call'[p] \in CallType
        /\ call'[p].op = call[p].op /\ call'[p].arg = call[p].arg
    <3>1. call \in [Procs -> CallType] /\ call[p] \in CallType
      BY DEF IInv, TypeOK, CallType
    <3>2. call' = [call EXCEPT ![p] = [call[p] EXCEPT !.rest = Tail(Rest(p))]]
      BY <1>7, <3>1 DEF Rest
    <3>3. [call[p] EXCEPT !.rest = Tail(Rest(p))] \in CallType
      BY <2>1, <3>1 DEF CallType
    <3> QED
      BY <3>1, <3>2, <3>3 DEF CallType
  <2> HIDE DEF i, t, g
  <2>5. LocalCall(p) /\ pc'[p] = "walk" /\ walk'[p] = g /\ ip'[p] = ip[p]
    <3>1. walk' = [walk EXCEPT ![p] = walk'[p]] /\ walk'[p] = g
      BY <1>7, TypesAre DEF IInv
    <3>2. pc' = [pc EXCEPT ![p] = pc'[p]] /\ pc'[p] = "walk"
      BY <1>2, <1>7, TypesAre DEF IInv
    <3> QED
      BY <1>7, <2>3, <2>4, <3>1, <3>2, StaysIs DEF IInv, LocalCall, Places
  <2>6. (call[p].op = "symlink" => call[p].arg \in Targets) /\ (call[p].op \in Creates => ip[p] = 0)
    BY <1>2 DEF IInv, CallsOK, CallOK
  <2>7. 0 \notin Procs /\ \A s \in Slots : itable'[s].lock # p
    BY <1>5, <2>3, Numbers
  <2>8. g # 0 => NamesOf(itable'[g].inum) # {}
    BY <2>1, <2>3
  <2>9. ASSUME NEW s \in Slots
        PROVE /\ Bit(put'[p] = s) + Bit(pc'[p] # "restart" /\ walk'[p] = s)
                   <= Bit(pc[p] = "walk" /\ walk[p] = s) + Bit(s = g)
              /\ pc'[p] # "restart" /\ walk'[p] = s => (pc[p] = "walk" /\ walk[p] = s) \/ s = g
    BY <1>2, <1>4, <2>5 DEF Bit
  <2>10. Looks(p, g)
    BY <1>2, <1>4, <2>3, <2>4, <2>5, <2>6, <2>7, <2>8, <2>9 DEF Looks, Lookups
  <2> QED
    BY <2>10, LooksStep
<1> QED
  BY <1>6, <1>7 DEF WalkDown

LEMMA FollowStep ==
    ASSUME IInv, NEW p \in Procs, Follow(p)
    PROVE  IInv' /\ Frame(p)
<1> DEFINE w == walk[p]
<1>1. /\ At(p, "walk") /\ At(p, pc[p]) /\ pc[p] = "walk" /\ put[p] = 0 /\ panicked = "no"
      /\ w \in Slots /\ w \in 0..NINODE /\ w # 0 /\ Lockable(w)
      /\ call[p].op \in {"open", "chdir"}
      /\ \A s \in Slots : itable[s].lock # p
  <2>1. At(p, "walk") /\ Lockable(w) /\ call[p].op \in {"open", "chdir"}
    BY DEF Follow, NameiDone
  <2>2. /\ panicked = "no" /\ put[p] = 0 /\ pc[p] = "walk"
        /\ \A s \in Slots : itable[s].lock # p
    BY <2>1, HasNoLock DEF Unlocks
  <2>3. w \in Slots
    BY <2>2, UsedSlot DEF Walks
  <2> QED
    BY <2>1, <2>2, <2>3, Numbers
<1>2. itable' = Loaded(w) /\ Puts(p, w) /\ NoDisk /\ NoFile
  BY DEF Follow
<1>3. /\ UNCHANGED <<disk, freeing, cwd, ofile>> /\ calls' \in Nat /\ dinode' = dinode
      /\ LocalPut(p) /\ put'[p] = w /\ panicked' \in PanicType
  BY <1>1, <1>2, WalkFrame DEF NoDisk, PanicType
<1>4. TableStep(p, 0) /\ (\A s \in Slots : itable'[s].lock # p) /\ Inum(w) \in Inums
  BY <1>1, <1>2, <1>3, LoadStep
<1>5. call' = [call EXCEPT ![p] = call'[p]] /\ call'[p] \in CallType
      /\ call'[p].op = call[p].op /\ call'[p].arg = call[p].arg
  <2> DEFINE n == call[p].follows + 1
             r == target[Inum(w)]
             c == [call[p] EXCEPT !.rest = r, !.depth = 0, !.follows = n]
  <2>1. call \in [Procs -> CallType] /\ call[p] \in CallType /\ n \in Nat
    BY CallIs, NameIs DEF IInv
  <2>2. call' = [call EXCEPT ![p] = c]
    BY <2>1 DEF Follow
  <2>3. r \in Seq(Names)
    BY <1>4, TargetIs DEF IInv
  <2> HIDE DEF n, r
  <2>4. c \in CallType /\ c.op = call[p].op /\ c.arg = call[p].arg
    BY <2>1, <2>3 DEF CallType
  <2> HIDE DEF c
  <2> QED
    BY <2>1, <2>2, <2>4
<1>6. LocalCall(p) /\ pc'[p] = "restart" /\ walk'[p] = w
  <2>1. ip' = [ip EXCEPT ![p] = ip'[p]] /\ ip'[p] \in 0..NINODE
    <3>1. ip' = [ip EXCEPT ![p] = IF call[p].op = "chdir" THEN w ELSE 0]
      BY DEF Follow
    <3> QED
      BY <1>1, <3>1, Numbers, TypesAre DEF IInv
  <2> QED
    BY <1>5, <2>1, GoesIs, StaysIs DEF Follow, IInv, LocalCall, Places
<1>7. \A s \in Slots : s # 0
  BY Numbers
<1>8. Looks(p, 0)
  BY <1>1, <1>3, <1>4, <1>5, <1>6, <1>7 DEF Looks, Lookups, Bit, Creates
<1> QED
  BY <1>8, LooksStep

------------------------------------------------------------------------------
\* The steps of sys_open and sys_chdir.

\* A call ends that puts what it walked to or keeps it open.
LEMMA NameiIs ==
    ASSUME IInv, NEW p \in Procs, NEW op \in {"open", "chdir", "link"}, NameiDone(p, op)
    PROVE  /\ panicked = "no" /\ put[p] = 0 /\ pc[p] = "walk" /\ freeing[p] = "no" /\ ~Owing(p)
           /\ Walks(p) /\ ~Keeps(p) /\ call[p].op = op
           /\ walk[p] \in Slots /\ walk[p] \in 0..NINODE /\ PointsTo(p, walk[p]) /\ At(p, pc[p])
           /\ \A s \in Slots : itable[s].lock # p
           /\ \A s \in Slots : Own(p, s) = Bit(cwd[p] = s) + Bit(walk[p] = s)
<1>1. At(p, "walk") /\ call[p].op = op
  BY DEF NameiDone
<1>2. /\ panicked = "no" /\ put[p] = 0 /\ pc[p] = "walk" /\ freeing[p] = "no"
      /\ \A s \in Slots : itable[s].lock # p
  BY <1>1, HasNoLock DEF Unlocks
<1>3. Walks(p) /\ ~Keeps(p) /\ ~Owing(p)
  BY <1>1, <1>2 DEF Walks, Keeps, Owing
<1>4. walk[p] \in Slots /\ PointsTo(p, walk[p])
  BY <1>2, <1>3, UsedSlot
<1>5. \A s \in Slots : Own(p, s) = Bit(cwd[p] = s) + Bit(walk[p] = s)
  BY <1>2, <1>3, Numbers DEF Own, Bit
<1> QED
  BY <1>1, <1>2, <1>3, <1>4, <1>5, Numbers

LEMMA OpenStep ==
    ASSUME IInv, NEW p \in Procs, Open(p)
    PROVE  IInv' /\ Frame(p)
<1> DEFINE w == walk[p]
<1>1. NameiDone(p, "open") /\ Lockable(w) /\ Room(p)
  BY DEF Open
<1>2. /\ panicked = "no" /\ put[p] = 0 /\ freeing[p] = "no" /\ ~Owing(p)
      /\ w \in Slots /\ PointsTo(p, w) /\ \A s \in Slots : itable[s].lock # p
      /\ \A s \in Slots : Own(p, s) = Bit(cwd[p] = s) + Bit(w = s)
  BY <1>1, NameiIs
<1>3. /\ itable' = Loaded(w) /\ Opened(p, w) /\ Ends(p) /\ UNCHANGED <<put, cwd, calls>>
      /\ UNCHANGED <<disk, freeing, panicked>> /\ dinode' = dinode
  BY DEF Open, NoDisk, disk
<1>4. TableStep(p, 0) /\ \A s \in Slots : itable'[s].lock # p
  BY <1>2, <1>1, <1>3, LoadStep
<1>5. LocalPut(p) /\ put'[p] = 0
  BY <1>2, <1>3, NoPuts DEF IInv
<1>6. LocalFile(p) /\ cwd'[p] = cwd[p] /\ \A fd \in Fds : ofile'[p][fd] = ofile[p][fd] \/ ofile'[p][fd] = w
  BY <1>1, <1>2, <1>3, OpenedIs DEF IInv
<1>7. \A s \in Slots : cwd'[p] = s \/ (\E fd \in Fds : ofile'[p][fd] = s) => PointsTo(p, s)
  BY <1>2, <1>6 DEF PointsTo
<1>8. ASSUME NEW s \in Slots
      PROVE  Bit(cwd'[p] = s) + Bit(put'[p] = s) + Filed(s)' <= Own(p, s) + Filed(s)
  <2>1. Filed(s)' = Filed(s) + Bit(s = w)
    BY <1>1, <1>2, <1>3, OpenedFiled DEF IInv
  <2>2. Filed(s) \in Nat /\ s # 0
    BY PointersAre DEF IInv
  <2> QED
    BY <1>2, <1>5, <1>6, <2>1, <2>2 DEF Bit
<1> QED
  BY <1>2, <1>3, <1>4, <1>5, <1>6, <1>7, <1>8, EndStep

\* A call ends and puts what it walked to.
LEMMA EndWalked ==
    ASSUME IInv, NEW p \in Procs, panicked = "no", put[p] = 0, freeing[p] = "no", Walks(p), ~Keeps(p),
           ~Owing(p), Puts(p, walk[p]), Ends(p), NoDisk, NoFile,
           TableStep(p, 0), \A s \in Slots : itable'[s].lock # p
    PROVE  IInv' /\ Frame(p)
<1> DEFINE w == walk[p]
<1>1. w \in Slots /\ w \in 0..NINODE
  BY UsedSlot, Numbers
<1>2. \A s \in Slots : Own(p, s) = Bit(cwd[p] = s) + Bit(w = s)
  BY Numbers DEF Own, Bit
<1>3. UNCHANGED <<disk, freeing, panicked>>
  BY DEF NoDisk
<1>5. LocalPut(p) /\ put'[p] = w
  BY <1>1, <1>3, PutsIs DEF IInv
<1>6. LocalFile(p) /\ cwd'[p] = cwd[p] /\ ofile'[p] = ofile[p] /\ \A s : Filed(s)' = Filed(s)
  <2>1. calls' \in Nat /\ UNCHANGED <<cwd, ofile>>
    BY DEF NoFile, IInv, TypeOK
  <2> QED
    BY <2>1, NoFileIs DEF IInv
<1>7. \A s \in Slots : cwd'[p] = s \/ (\E fd \in Fds : ofile'[p][fd] = s) => PointsTo(p, s)
  BY <1>6 DEF PointsTo
<1>8. ASSUME NEW s \in Slots
      PROVE  Bit(cwd'[p] = s) + Bit(put'[p] = s) + Filed(s)' <= Own(p, s) + Filed(s)
  <2>1. Filed(s)' = Filed(s) /\ Filed(s) \in Nat
    BY <1>6, PointersAre DEF IInv
  <2> QED
    BY <1>2, <1>5, <1>6, <2>1 DEF Bit
<1> QED
  BY <1>3, <1>5, <1>6, <1>7, <1>8, EndStep

LEMMA NameiPuts ==
    ASSUME IInv, NEW p \in Procs, NEW op \in {"open", "chdir", "link"}, NameiDone(p, op),
           Puts(p, walk[p]), Ends(p), NoDisk, NoFile, Lockable(walk[p]), itable' = Loaded(walk[p])
    PROVE  IInv' /\ Frame(p)
<1>1. /\ panicked = "no" /\ put[p] = 0 /\ freeing[p] = "no" /\ ~Owing(p) /\ Walks(p) /\ ~Keeps(p)
      /\ walk[p] \in Slots /\ \A s \in Slots : itable[s].lock # p
  BY NameiIs
<1>2. TableStep(p, 0) /\ \A s \in Slots : itable'[s].lock # p
  BY <1>1, LoadStep DEF NoDisk, disk
<1> QED
  BY <1>1, <1>2, EndWalked

LEMMA OpenFailsStep ==
    ASSUME IInv, NEW p \in Procs, OpenFails(p)
    PROVE  IInv' /\ Frame(p)
BY NameiPuts DEF OpenFails

LEMMA ChdirDiffersStep ==
    ASSUME IInv, NEW p \in Procs, ChdirDiffers(p)
    PROVE  IInv' /\ Frame(p)
<1>1. NameiDone(p, "chdir")
  BY DEF ChdirDiffers
<1>2. /\ panicked = "no" /\ put[p] = 0 /\ freeing[p] = "no" /\ ~Owing(p)
      /\ \A s \in Slots : itable[s].lock # p
      /\ \A s \in Slots : Own(p, s) = Bit(cwd[p] = s) + Bit(walk[p] = s)
  BY <1>1, NameiIs
<1>3. UNCHANGED <<disk, freeing, panicked, itable, put, cwd, ofile, calls, dinode>> /\ Ends(p)
  BY DEF ChdirDiffers, NoDisk, NoFile, disk
<1>4. TableStep(p, 0) /\ \A s \in Slots : itable'[s].lock # p
  BY <1>2, <1>3, SameStep
<1>5. LocalPut(p) /\ put'[p] = 0
  BY <1>2, <1>3, NoPuts DEF IInv
<1>6. LocalFile(p) /\ cwd'[p] = cwd[p] /\ ofile'[p] = ofile[p] /\ \A s : Filed(s)' = Filed(s)
  <2>1. calls' \in Nat
    BY <1>3 DEF IInv, TypeOK
  <2> QED
    BY <1>3, <2>1, NoFileIs DEF IInv
<1>7. \A s \in Slots : cwd'[p] = s \/ (\E fd \in Fds : ofile'[p][fd] = s) => PointsTo(p, s)
  BY <1>6 DEF PointsTo
<1>8. ASSUME NEW s \in Slots
      PROVE  Bit(cwd'[p] = s) + Bit(put'[p] = s) + Filed(s)' <= Own(p, s) + Filed(s)
  <2>1. Filed(s)' = Filed(s) /\ Filed(s) \in Nat /\ s # 0
    BY <1>6, PointersAre DEF IInv
  <2> QED
    BY <1>2, <1>5, <1>6, <2>1 DEF Bit
<1> QED
  BY <1>2, <1>3, <1>4, <1>5, <1>6, <1>7, <1>8, EndStep

LEMMA ChdirEndsStep ==
    ASSUME IInv, NEW p \in Procs, ChdirEnds(p)
    PROVE  IInv' /\ Frame(p)
<1> DEFINE w == walk[p]
           c == cwd[p]
<1>1. NameiDone(p, "chdir") /\ Lockable(w) /\ itable' = Loaded(w) /\ Ends(p) /\ NoDisk
  BY DEF ChdirEnds
<1>2. /\ panicked = "no" /\ put[p] = 0 /\ freeing[p] = "no" /\ ~Owing(p)
      /\ w \in Slots /\ w \in 0..NINODE /\ PointsTo(p, w) /\ \A s \in Slots : itable[s].lock # p
      /\ \A s \in Slots : Own(p, s) = Bit(c = s) + Bit(w = s)
      /\ c \in Slots /\ c \in 0..NINODE
  BY <1>1, NameiIs, UsedSlot, Numbers
<1>3. CASE Puts(p, c) /\ cwd' = [cwd EXCEPT ![p] = w] /\ UNCHANGED <<ofile, calls>>
  <2>3. UNCHANGED <<disk, freeing, panicked>> /\ dinode' = dinode
    BY <1>1 DEF NoDisk, disk
  <2>4. TableStep(p, 0) /\ \A s \in Slots : itable'[s].lock # p
    BY <1>1, <1>2, <2>3, LoadStep
  <2>5. LocalPut(p) /\ put'[p] = c
    BY <1>2, <1>3, <2>3, PutsIs DEF IInv
  <2>6. LocalFile(p) /\ cwd'[p] = w /\ ofile'[p] = ofile[p] /\ \A s : Filed(s)' = Filed(s)
    <3>1. calls' \in Nat
      BY <1>3 DEF IInv, TypeOK
    <3>2. cwd' = [cwd EXCEPT ![p] = cwd'[p]] /\ cwd'[p] = w
      BY <1>3, TypesAre DEF IInv
    <3>3. ofile' = [ofile EXCEPT ![p] = ofile'[p]] /\ ofile'[p] \in [Fds -> 0..NINODE]
      BY <1>3, TypesAre DEF IInv
    <3> QED
      BY <1>2, <1>3, <3>1, <3>2, <3>3, FiledSame DEF LocalFile
  <2>7. \A s \in Slots : cwd'[p] = s \/ (\E fd \in Fds : ofile'[p][fd] = s) => PointsTo(p, s)
    BY <1>2, <2>6 DEF PointsTo
  <2>8. ASSUME NEW s \in Slots
        PROVE  Bit(cwd'[p] = s) + Bit(put'[p] = s) + Filed(s)' <= Own(p, s) + Filed(s)
    <3>1. Filed(s)' = Filed(s) /\ Filed(s) \in Nat
      BY <2>6, PointersAre DEF IInv
    <3> QED
      BY <1>2, <2>5, <2>6, <3>1 DEF Bit
  <2> QED
    BY <1>1, <1>2, <2>3, <2>4, <2>5, <2>6, <2>7, <2>8, EndStep
<1>4. CASE Puts(p, w) /\ UNCHANGED <<cwd, ofile, calls>>
  BY <1>1, <1>4, NameiPuts DEF NoFile
<1> QED
  BY <1>3, <1>4 DEF ChdirEnds

LEMMA CloseStep ==
    ASSUME IInv, NEW p \in Procs, NEW fd \in Fds, Close(p, fd)
    PROVE  IInv' /\ Frame(p)
<1> DEFINE f == ofile[p][fd]
<1>1. /\ panicked = "no" /\ put[p] = 0 /\ pc[p] = "user" /\ freeing[p] = "no"
      /\ \A s \in Slots : ~Holds(p, s) /\ itable[s].lock # p
  BY HasNoLock DEF Close, Unlocks
<1>2. f # 0 /\ f \in 0..NINODE /\ f \in Slots
  BY Numbers, TypesAre DEF Close, IInv
<1>3. /\ ofile' = [ofile EXCEPT ![p][fd] = 0] /\ Puts(p, f)
      /\ UNCHANGED <<itable, pc, call, walk, ip, cwd, calls, disk, freeing, panicked, dinode>>
  BY DEF Close, NoDisk, disk
<1>4. call[p].op = "none" /\ ip[p] = 0
  BY <1>1 DEF IInv, CallsOK, CallOK
<1>5. TableStep(p, 0)
  BY <1>3, SameStep
<1>6. LocalPut(p) /\ put'[p] = f
  BY <1>2, <1>3, PutsIs DEF IInv
<1>7. LocalFile(p) /\ cwd'[p] = cwd[p] /\ \A d \in Fds : ofile'[p][d] = ofile[p][d] \/ ofile'[p][d] = 0
  <2>1. calls' \in Nat
    BY <1>3 DEF IInv, TypeOK
  <2>2. ofile' = [ofile EXCEPT ![p] = ofile'[p]] /\ ofile'[p] \in [Fds -> 0..NINODE]
        /\ \A d \in Fds : ofile'[p][d] = ofile[p][d] \/ ofile'[p][d] = 0
    BY <1>3, Numbers, TypesAre DEF IInv
  <2> QED
    BY <1>3, <2>1, <2>2, TypesAre DEF IInv, LocalFile
<1>8. LocalCall(p) /\ pc'[p] = "user" /\ call'[p] = call[p] /\ walk'[p] = walk[p] /\ ip'[p] = ip[p]
  <2>1. pc' = [pc EXCEPT ![p] = pc'[p]] /\ pc'[p] = pc[p]
    BY <1>3, TypesAre DEF IInv
  <2> QED
    BY <1>1, <1>3, <2>1, StaysIs DEF IInv, LocalCall
<1>9. /\ ~Walks(p) /\ ~Keeps(p) /\ ~Owing(p) /\ ~Walks(p)' /\ ~Keeps(p)' /\ ~Owing(p)'
      /\ \A s \in Slots : ~Holds(p, s)'
  BY <1>1, <1>3, <1>4, <1>8 DEF Walks, Keeps, Owing, Holds
<1>10. Plain(p, 0)
  <2>1. \A s \in Slots : PointsTo(p, s)' => PointsTo(p, s)
    BY <1>7, <1>9, Numbers DEF PointsTo
  <2>2. LocksAfter(p)
    BY <1>1, <1>3, <1>9 DEF LocksAfter
  <2>3. panicked' \in PanicType
    BY <1>1, <1>3 DEF PanicType
  <2> QED
    BY <1>1, <1>3, <1>5, <1>6, <1>7, <1>8, <2>1, <2>2, <2>3 DEF Plain, Local
<1>11. LocalsAfter(p)
  <2>1. CallOK(p)' /\ PlaceOK(p)'
    BY <1>4, <1>8 DEF CallOK, PlaceOK
  <2> QED
    BY <1>9, <2>1 DEF LocalsAfter
<1>12. ASSUME NEW s \in Slots PROVE Own(p, s)' + Filed(s)' <= Own(p, s) + Filed(s) + Bit(s = 0)
  <2>1. Filed(s)' = Filed(s) + Bit(ofile'[p][fd] = s) - Bit(f = s)
    <3>1. /\ \A q \in Procs \ {p} : ofile'[q] = ofile[q]
          /\ \A d \in Fds \ {fd} : ofile'[p][d] = ofile[p][d]
      BY <1>3, TypesAre DEF IInv
    <3> QED
      BY <3>1, FiledStep DEF IInv
  <2>2. ofile'[p][fd] = 0 /\ s # 0
    BY <1>3, Numbers, TypesAre DEF IInv
  <2>3. Own(p, s) = Bit(cwd[p] = s) /\ Own(p, s)' = Bit(cwd[p] = s) + Bit(f = s)
    BY <1>1, <1>6, <1>7, <1>9, <2>2 DEF Own, Bit
  <2>4. Filed(s) \in Nat
    BY PointersAre DEF IInv
  <2> QED
    BY <2>1, <2>2, <2>3, <2>4 DEF Bit
<1> QED
  BY <1>9, <1>10, <1>11, <1>12, PlainStep

------------------------------------------------------------------------------
\* The steps of create, unlink and link that leave the disk alone.

\* A call ends with its other inode open or put.
LEMMA EndKept ==
    ASSUME IInv, NEW p \in Procs, panicked = "no", put[p] = 0, freeing[p] = "no", ~Walks(p), Keeps(p),
           ~Owing(p), Ends(p), NoDisk, UNCHANGED <<cwd, calls>>,
           TableStep(p, 0), \A s \in Slots : itable'[s].lock # p,
           \/ Room(p) /\ Opened(p, ip[p]) /\ UNCHANGED put
           \/ Puts(p, ip[p]) /\ UNCHANGED ofile
    PROVE  IInv' /\ Frame(p)
<1> DEFINE w == ip[p]
<1>1. w \in Slots /\ w \in 0..NINODE /\ PointsTo(p, w)
  BY UsedSlot, Numbers
<1>2. \A s \in Slots : Own(p, s) = Bit(cwd[p] = s) + Bit(w = s)
  BY Numbers DEF Own, Bit
<1>3. UNCHANGED <<disk, freeing, panicked>>
  BY DEF NoDisk
<1>4. CASE Room(p) /\ Opened(p, w) /\ UNCHANGED put
  <2>1. LocalPut(p) /\ put'[p] = 0
    BY <1>3, <1>4, NoPuts DEF IInv
  <2>2. LocalFile(p) /\ cwd'[p] = cwd[p] /\ \A fd \in Fds : ofile'[p][fd] = ofile[p][fd] \/ ofile'[p][fd] = w
    BY <1>1, <1>4, OpenedIs DEF IInv
  <2>3. \A s \in Slots : cwd'[p] = s \/ (\E fd \in Fds : ofile'[p][fd] = s) => PointsTo(p, s)
    BY <1>1, <2>2 DEF PointsTo
  <2>4. ASSUME NEW s \in Slots
        PROVE  Bit(cwd'[p] = s) + Bit(put'[p] = s) + Filed(s)' <= Own(p, s) + Filed(s)
    <3>1. Filed(s)' = Filed(s) + Bit(s = w)
      BY <1>1, <1>4, OpenedFiled DEF IInv
    <3>2. Filed(s) \in Nat /\ s # 0
      BY PointersAre DEF IInv
    <3> QED
      BY <1>2, <2>1, <2>2, <3>1, <3>2 DEF Bit
  <2> QED
    BY <1>3, <2>1, <2>2, <2>3, <2>4, EndStep
<1>5. CASE Puts(p, w) /\ UNCHANGED ofile
  <2>1. LocalPut(p) /\ put'[p] = w
    BY <1>1, <1>3, <1>5, PutsIs DEF IInv
  <2>2. LocalFile(p) /\ cwd'[p] = cwd[p] /\ ofile'[p] = ofile[p] /\ \A s : Filed(s)' = Filed(s)
    <3>1. calls' \in Nat
      BY DEF IInv, TypeOK
    <3> QED
      BY <1>5, <3>1, NoFileIs DEF IInv
  <2>3. \A s \in Slots : cwd'[p] = s \/ (\E fd \in Fds : ofile'[p][fd] = s) => PointsTo(p, s)
    BY <2>2 DEF PointsTo
  <2>4. ASSUME NEW s \in Slots
        PROVE  Bit(cwd'[p] = s) + Bit(put'[p] = s) + Filed(s)' <= Own(p, s) + Filed(s)
    <3>1. Filed(s)' = Filed(s) /\ Filed(s) \in Nat
      BY <2>2, PointersAre DEF IInv
    <3> QED
      BY <1>2, <2>1, <2>2, <3>1 DEF Bit
  <2> QED
    BY <1>3, <2>1, <2>2, <2>3, <2>4, EndStep
<1> QED
  BY <1>4, <1>5

\* The lock of an entry that a process has is let go.
LEMMA UnlockStep ==
    ASSUME IInv, NEW p \in Procs, NEW w \in Slots, \A s \in Slots : Holds(p, s) => s = w,
           itable[w].lock \in {0, p}, itable' = Unlocked(itable, w), UNCHANGED dinode
    PROVE  TableStep(p, 0) /\ \A s \in Slots : itable'[s].lock # p
<1>1. Tabled(p, itable, dinode)
  BY TabledSame
<1> DEFINE u == [itable EXCEPT ![w].lock = 0]
<1>3. itable' = u
  BY DEF Unlocked
<1>2. LockSet(itable, w, 0, u)
  BY <1>1, LockSetIs DEF Tabled
<1>5. itable[w] \in Entry
  BY DEF IInv, TypeOK, Entry
<1> HIDE DEF u
<1>10. Tabled(p, u, dinode)
  BY <1>1, <1>2, TabledLock
<1>4. Tabled(p, u, dinode) /\ u[w] = [itable[w] EXCEPT !.lock = 0] /\ \A s \in Slots \ {w} : u[s] = itable[s]
  BY <1>2, <1>10 DEF LockSet
<1>6. TableStep(p, 0)
  <2>1. Tabled(p, u, dinode')
    BY <1>4
  <2> QED
    BY <1>3, <2>1, TabledStep
<1>7. u[w].lock = 0
  BY <1>4, <1>5 DEF Entry
<1>8. \A s \in Slots : itable[s].lock = p => s = w
  BY DEF IInv, CallsOK, LocksOK
<1>9. ASSUME NEW s \in Slots PROVE itable'[s].lock # p
  <2>1. CASE s = w
    BY <1>3, <1>7, <2>1, Numbers
  <2>2. CASE s # w
    BY <1>3, <1>4, <1>8, <2>2
  <2> QED
    BY <2>1, <2>2
<1> QED
  BY <1>6, <1>9

LEMMA CreateExistingStep ==
    ASSUME IInv, NEW p \in Procs, CreateExisting(p)
    PROVE  IInv' /\ Frame(p)
<1>1. /\ At(p, "exists") /\ Lockable(ip[p]) /\ itable' = Loaded(ip[p]) /\ Ends(p) /\ NoDisk
      /\ UNCHANGED <<cwd, calls>> /\ dinode' = dinode
      /\ \/ Room(p) /\ Opened(p, ip[p]) /\ UNCHANGED put
         \/ Puts(p, ip[p]) /\ UNCHANGED ofile
  BY DEF CreateExisting, NoDisk, disk
<1>2. /\ panicked = "no" /\ put[p] = 0 /\ pc[p] = "exists" /\ freeing[p] = "no"
      /\ \A s \in Slots : itable[s].lock # p
  BY <1>1, HasNoLock DEF Unlocks
<1>3. call[p].op \in Creates
  BY <1>2 DEF IInv, CallsOK, CallOK
<1>4. ~Walks(p) /\ Keeps(p) /\ ~Owing(p)
  BY <1>2, <1>3 DEF Walks, Keeps, Owing, Creates
<1>5. ip[p] \in Slots
  BY <1>2, <1>4, UsedSlot
<1>6. TableStep(p, 0) /\ \A s \in Slots : itable'[s].lock # p
  BY <1>1, <1>2, <1>5, LoadStep
<1> QED
  BY <1>1, <1>2, <1>4, <1>6, EndKept

LEMMA CreateEndsStep ==
    ASSUME IInv, NEW p \in Procs, CreateEnds(p)
    PROVE  IInv' /\ Frame(p)
<1>1. /\ At(p, "created") /\ itable' = Unlocked(itable, ip[p]) /\ Ends(p) /\ NoDisk
      /\ UNCHANGED <<cwd, calls>> /\ dinode' = dinode
      /\ \/ Room(p) /\ Opened(p, ip[p]) /\ UNCHANGED put
         \/ Puts(p, ip[p]) /\ UNCHANGED ofile
  BY DEF CreateEnds, NoDisk, disk
<1>2. panicked = "no" /\ put[p] = 0 /\ pc[p] = "created" /\ freeing[p] = "no"
  BY <1>1, TypesAre DEF At, IInv, CallsOK, PointersOK
<1>3. call[p].op \in Creates
  BY <1>2 DEF IInv, CallsOK, CallOK
<1>4. ~Walks(p) /\ Keeps(p) /\ ~Owing(p) /\ \A s \in Slots : Holds(p, s) <=> ip[p] = s
  BY <1>2, <1>3 DEF Walks, Keeps, Owing, Creates, Holds
<1>5. ip[p] \in Slots
  BY <1>2, <1>4, UsedSlot
<1>6. itable[ip[p]].lock = p
  BY <1>2, <1>4, <1>5 DEF IInv, CallsOK, LocksOK
<1>7. TableStep(p, 0) /\ \A s \in Slots : itable'[s].lock # p
  BY <1>1, <1>4, <1>5, <1>6, UnlockStep
<1> QED
  BY <1>1, <1>2, <1>4, <1>7, EndKept

LEMMA LinkedStep ==
    ASSUME IInv, NEW p \in Procs, Linked(p)
    PROVE  IInv' /\ Frame(p)
<1>1. /\ At(p, "linked") /\ Puts(p, ip[p]) /\ Ends(p) /\ NoDisk
      /\ UNCHANGED <<itable, dinode, cwd, ofile, calls>>
  BY DEF Linked, NoDisk, NoFile, disk
<1>2. /\ panicked = "no" /\ put[p] = 0 /\ pc[p] = "linked" /\ freeing[p] = "no"
      /\ \A s \in Slots : itable[s].lock # p
  BY <1>1, HasNoLock DEF Unlocks
<1>3. ~Walks(p) /\ Keeps(p) /\ ~Owing(p)
  BY <1>2 DEF Walks, Keeps, Owing
<1>4. TableStep(p, 0) /\ \A s \in Slots : itable'[s].lock # p
  BY <1>1, <1>2, SameStep
<1> QED
  BY <1>1, <1>2, <1>3, <1>4, EndKept

LEMMA UnlinkBadStep ==
    ASSUME IInv, NEW p \in Procs, UnlinkBad(p)
    PROVE  IInv' /\ Frame(p)
<1>1. /\ At(p, "unlink_bad") /\ itable' = Unlocked(itable, walk[p]) /\ Puts(p, walk[p]) /\ Ends(p)
      /\ NoDisk /\ NoFile /\ dinode' = dinode
  BY DEF UnlinkBad, NoDisk, disk
<1>2. panicked = "no" /\ put[p] = 0 /\ pc[p] = "unlink_bad" /\ freeing[p] = "no"
  BY <1>1, TypesAre DEF At, IInv, CallsOK, PointersOK
<1>3. call[p].op = "unlink"
  BY <1>2 DEF IInv, CallsOK, CallOK
<1>4. Walks(p) /\ ~Keeps(p) /\ ~Owing(p) /\ \A s \in Slots : Holds(p, s) <=> walk[p] = s
  BY <1>2, <1>3 DEF Walks, Keeps, Owing, Holds
<1>5. walk[p] \in Slots
  BY <1>2, <1>4, UsedSlot
<1>6. itable[walk[p]].lock = p
  BY <1>2, <1>4, <1>5 DEF IInv, CallsOK, LocksOK
<1>7. TableStep(p, 0) /\ \A s \in Slots : itable'[s].lock # p
  BY <1>1, <1>4, <1>5, <1>6, UnlockStep
<1> QED
  BY <1>1, <1>2, <1>4, <1>7, EndWalked

\* A name is looked up in its directory.
LEMMA ParentIs ==
    ASSUME IInv, NEW p \in Procs, At(p, "parent"), Lockable(walk[p])
    PROVE  /\ panicked = "no" /\ put[p] = 0 /\ pc[p] = "parent" /\ freeing[p] = "no"
           /\ Walks(p) /\ walk[p] \in Slots /\ walk[p] \in 0..NINODE /\ PointsTo(p, walk[p])
           /\ Rest(p) # <<>> /\ WantsParent(p) /\ Name(p) \in Names
           /\ Inum(walk[p]) \in Inums /\ dinode[Inum(walk[p])].type = "T_DIR"
           /\ itable[walk[p]].ref > 0 /\ itable[walk[p]].lock = 0
           /\ \A s \in Slots : itable[s].lock # p
<1>1. /\ panicked = "no" /\ put[p] = 0 /\ pc[p] = "parent" /\ freeing[p] = "no"
      /\ \A s \in Slots : itable[s].lock # p
  BY HasNoLock DEF Unlocks
<1>2. Walks(p)
  BY <1>1 DEF Walks
<1>3. walk[p] \in Slots /\ PointsTo(p, walk[p])
  BY <1>1, <1>2, UsedSlot
<1>4. Rest(p) # <<>> /\ WantsParent(p)
  BY <1>1 DEF IInv, CallsOK, CallOK
<1>5. dinode[Inum(walk[p])].type = "T_DIR"
  BY <1>1 DEF IInv, CallsOK, PlaceOK
<1>6. Inum(walk[p]) \in Inums /\ itable[walk[p]].lock = 0 /\ itable[walk[p]].ref > 0
  BY <1>3, LoadStep DEF Lockable
<1>7. Name(p) \in Names
  BY <1>4, NameIs DEF IInv
<1> QED
  BY <1>1, <1>2, <1>3, <1>4, <1>5, <1>6, <1>7, Numbers

LEMMA CreateFindsStep ==
    ASSUME IInv, NEW p \in Procs, CreateFinds(p)
    PROVE  IInv' /\ Frame(p)
<1> DEFINE w == walk[p]
           i == entries[Inum(w)][Name(p)]
           t == Loaded(w)
           g == GetSlot(t, i)
<1>1. At(p, "parent") /\ Lockable(w) /\ call[p].op \in Creates
  BY DEF CreateFinds
<1>2. /\ panicked = "no" /\ put[p] = 0 /\ pc[p] = "parent" /\ freeing[p] = "no"
      /\ w \in Slots /\ w \in 0..NINODE /\ Inum(w) \in Inums /\ Name(p) \in Names
      /\ \A s \in Slots : itable[s].lock # p
  BY <1>1, ParentIs
<1>3. /\ i # 0 /\ itable' = Got(t, i) /\ panicked' = GetPanics(t, i) /\ ip' = [ip EXCEPT ![p] = g]
      /\ Puts(p, w) /\ Goes(p, "exists") /\ UNCHANGED <<disk, freeing, call, walk>> /\ NoFile
  BY DEF CreateFinds
<1>4. /\ UNCHANGED <<disk, freeing, cwd, ofile>> /\ calls' \in Nat /\ dinode' = dinode
      /\ LocalPut(p) /\ put'[p] = w
  BY <1>2, <1>3, WalkFrame
<1>5. Tabled(p, t, dinode) /\ \A s \in Slots : t[s].lock # p
  BY <1>1, <1>2, LoadStep
<1>6. i \in Inums /\ NamesOf(i) # {}
  BY <1>2, <1>3, EntryIs DEF IInv
<1>7. GetTable(p, t, i, g)
  <2> HIDE DEF i, t
  <2>1. Tabled(p, t, dinode')
    BY <1>4, <1>5
  <2> QED
    BY <1>3, <1>6, <2>1, GotStep DEF g
<1>8. /\ TableStep(p, g) /\ (g # 0 => itable'[g].inum = i) /\ g \in 0..NINODE
      /\ \A s \in Slots : itable'[s].lock = t[s].lock \/ itable'[s].lock = 0
      /\ panicked' \in PanicType /\ (panicked' = "no" => g # 0)
  BY <1>3, <1>7 DEF GetTable
<1> HIDE DEF i, t, g
<1>9. /\ LocalCall(p) /\ pc'[p] = "exists" /\ walk'[p] = w /\ ip'[p] = g /\ call'[p] = call[p]
  <2>1. ip' = [ip EXCEPT ![p] = ip'[p]] /\ ip'[p] = g
    BY <1>3, TypesAre DEF IInv
  <2> QED
    BY <1>3, <1>8, <2>1, GoesIs, StaysIs DEF IInv, LocalCall, Places
<1>10. LocalFile(p) /\ cwd'[p] = cwd[p] /\ ofile'[p] = ofile[p] /\ \A s : Filed(s)' = Filed(s)
  BY <1>4, NoFileIs DEF IInv
<1>11. /\ Walks(p) /\ ~Keeps(p) /\ ~Owing(p) /\ ~Walks(p)' /\ Keeps(p)' /\ ~Owing(p)'
       /\ \A s \in Slots : ~Holds(p, s)'
  BY <1>1, <1>2, <1>4, <1>9 DEF Walks, Keeps, Owing, Holds, Creates
<1>12. Plain(p, g)
  <2>1. \A s \in Slots : PointsTo(p, s)' => PointsTo(p, s) \/ s = g
    BY <1>9, <1>10, <1>11 DEF PointsTo
  <2>2. LocksAfter(p)
    BY <1>5, <1>8, <1>11, Numbers DEF LocksAfter
  <2>3. g # 0 => NamesOf(itable'[g].inum) # {}
    BY <1>6, <1>8
  <2> QED
    BY <1>2, <1>4, <1>8, <1>9, <1>10, <2>1, <2>2, <2>3 DEF Plain, Local
<1>13. LocalsAfter(p)
  <2>1. CallOK(p)'
    BY <1>1, <1>9 DEF CallOK, IInv, CallsOK, Creates
  <2>2. PlaceOK(p)'
    BY <1>1, <1>9 DEF PlaceOK, Creates
  <2> QED
    BY <1>8, <1>9, <1>11, <2>1, <2>2 DEF LocalsAfter
<1>14. ASSUME NEW s \in Slots PROVE Own(p, s)' + Filed(s)' <= Own(p, s) + Filed(s) + Bit(s = g)
  <2>1. /\ Own(p, s) = Bit(cwd[p] = s) + Bit(w = s)
        /\ Own(p, s)' = Bit(cwd[p] = s) + Bit(w = s) + Bit(s = g)
    BY <1>2, <1>4, <1>9, <1>10, <1>11, Numbers DEF Own, Bit
  <2>2. Filed(s)' = Filed(s) /\ Filed(s) \in Nat
    BY <1>10, PointersAre DEF IInv
  <2> QED
    BY <2>1, <2>2 DEF Bit
<1> QED
  BY <1>11, <1>12, <1>13, <1>14, PlainStep

LEMMA UnlinkFindsStep ==
    ASSUME IInv, NEW p \in Procs, UnlinkFinds(p)
    PROVE  IInv' /\ Frame(p)
<1> DEFINE w == walk[p]
           i == entries[Inum(w)][Name(p)]
           t == Loaded(w)
           u == Locked(t, w, p)
           g == GetSlot(u, i)
<1>1. At(p, "parent") /\ Lockable(w) /\ call[p].op = "unlink"
  BY DEF UnlinkFinds
<1>2. /\ panicked = "no" /\ put[p] = 0 /\ pc[p] = "parent" /\ freeing[p] = "no"
      /\ w \in Slots /\ w \in 0..NINODE /\ Inum(w) \in Inums /\ Name(p) \in Names /\ w # 0
      /\ itable[w].lock = 0 /\ itable[w].ref > 0 /\ dinode[Inum(w)].type = "T_DIR"
      /\ Rest(p) # <<>> /\ WantsParent(p)
      /\ \A s \in Slots : itable[s].lock # p
  BY <1>1, ParentIs, Numbers
<1>3. UNCHANGED <<disk, freeing>> /\ NoFile /\ dinode' = dinode /\ entries' = entries
  BY DEF UnlinkFinds, disk
<1>4. /\ Walks(p) /\ ~Keeps(p) /\ ~Owing(p)
  BY <1>1, <1>2 DEF Walks, Keeps, Owing
<1>5. /\ Tabled(p, t, dinode) /\ (itable' = t => TableStep(p, 0))
      /\ \A s \in Slots : t[s].lock = itable[s].lock
  BY <1>1, <1>2, <1>3, LoadStep
<1>6. CASE itable' = t /\ Puts(p, w) /\ Ends(p) /\ UNCHANGED panicked
  BY <1>2, <1>3, <1>4, <1>5, <1>6, EndWalked DEF NoDisk
<1>7. CASE /\ i # 0 /\ itable' = Got(u, i) /\ panicked' = GetPanics(u, i)
           /\ ip' = [ip EXCEPT ![p] = g] /\ Goes(p, "victim") /\ UNCHANGED <<put, call, walk>>
  <2>1. i \in Inums /\ NamesOf(i) # {}
    BY <1>2, <1>7, EntryIs DEF IInv
  <2>2. /\ LockSet(t, w, p, u) /\ t[w].lock = 0 /\ t[w].valid /\ t[w].ref > 0 /\ t[w] \in Entry
    <3>1. t[w].valid /\ t[w].ref = itable[w].ref /\ t[w].lock = 0 /\ t \in Tables
      BY <1>1, <1>2, LoadedIs DEF IInv
    <3> HIDE DEF t
    <3>2. LockSet(t, w, p, u)
      BY <1>2, <3>1, LockSetIs DEF Locked
    <3> QED
      BY <1>2, <3>1, <3>2 DEF Tables
  <2>3. /\ Tabled(p, u, dinode) /\ u[w] = [t[w] EXCEPT !.lock = p] /\ \A s \in Slots \ {w} : u[s] = t[s]
    <3> HIDE DEF u, t
    <3>1. Tabled(p, u, dinode)
      BY <1>2, <1>5, <2>2, TabledLock
    <3> QED
      BY <2>2, <3>1 DEF LockSet
  <2>4. u[w].lock = p /\ u[w].valid /\ u[w].ref > 0
    <3> HIDE DEF u, t
    <3> QED
      BY <2>2, <2>3 DEF Entry
  <2>5. GetTable(p, u, i, g)
    <3> HIDE DEF i, u
    <3>1. Tabled(p, u, dinode')
      BY <1>3, <2>3
    <3> QED
      BY <1>7, <2>1, <3>1, GotStep DEF g
  <2>6. /\ TableStep(p, g) /\ (g # 0 => itable'[g].inum = i) /\ g \in 0..NINODE
        /\ \A s \in Slots : itable'[s].lock = u[s].lock \/ itable'[s].lock = 0
        /\ \A s \in Slots : u[s].ref > 0 => itable'[s].lock = u[s].lock /\ itable'[s].valid = u[s].valid
        /\ panicked' \in PanicType /\ (panicked' = "no" => g # 0)
    BY <1>7, <2>5 DEF GetTable
  <2> HIDE DEF t, u, g
  <2>7. itable'[w].lock = p /\ itable'[w].valid /\ \A s \in Slots : itable'[s].lock = p => s = w
    <3>1. itable'[w].lock = p /\ itable'[w].valid
      BY <1>2, <2>4, <2>6
    <3>2. ASSUME NEW s \in Slots, s # w PROVE itable'[s].lock # p
      <4>1. u[s].lock # p
        BY <1>2, <1>5, <2>3, <3>2
      <4>2. itable'[s].lock = u[s].lock \/ itable'[s].lock = 0
        BY <2>6
      <4> QED
        BY <4>1, <4>2, Numbers
    <3> QED
      BY <3>1, <3>2
  <2>8. itable'[w].inum = Inum(w)
    BY <1>2, <2>6 DEF TableStep, Inum
  <2>9. /\ LocalCall(p) /\ pc'[p] = "victim" /\ walk'[p] = w /\ ip'[p] = g /\ call'[p] = call[p]
    <3>1. ip' = [ip EXCEPT ![p] = ip'[p]] /\ ip'[p] = g
      BY <1>7, TypesAre DEF IInv
    <3> QED
      BY <1>7, <2>6, <3>1, GoesIs, StaysIs DEF IInv, LocalCall, Places
  <2>10. LocalFile(p) /\ cwd'[p] = cwd[p] /\ ofile'[p] = ofile[p] /\ \A s : Filed(s)' = Filed(s)
    <3>1. calls' \in Nat /\ UNCHANGED <<cwd, ofile>>
      BY <1>3 DEF NoFile, IInv, TypeOK
    <3> QED
      BY <3>1, NoFileIs DEF IInv
  <2>11. LocalPut(p) /\ put'[p] = 0 /\ freeing'[p] = "no"
    BY <1>2, <1>3, <1>7, NoPuts DEF IInv
  <2>12. /\ Walks(p)' /\ Keeps(p)' /\ ~Owing(p)' /\ \A s \in Slots : Holds(p, s)' <=> s = w
    BY <1>1, <2>9, <2>11 DEF Walks, Keeps, Owing, Holds
  <2>13. Plain(p, g)
    <3>1. \A s \in Slots : PointsTo(p, s)' => PointsTo(p, s) \/ s = g
      BY <1>4, <2>9, <2>10, <2>12 DEF PointsTo
    <3>2. LocksAfter(p)
      BY <2>7, <2>12 DEF LocksAfter
    <3>3. g # 0 => NamesOf(itable'[g].inum) # {}
      BY <2>1, <2>6
    <3> QED
      BY <1>2, <1>3, <2>6, <2>9, <2>10, <2>11, <3>1, <3>2, <3>3 DEF Plain, Local
  <2>14. Rest(p)' = Rest(p) /\ (WantsParent(p)' <=> WantsParent(p)) /\ Name(p)' = Name(p)
    BY <2>9 DEF Rest, WantsParent, Name
  <2>15. LocalsAfter(p)
    <3>1. CallOK(p)'
      BY <1>1, <1>2, <2>9, <2>14 DEF CallOK
    <3>2. PlaceOK(p)'
      <4>1. Inum(walk[p])' = Inum(w) /\ (g # 0 => Inum(ip[p])' = i)
        BY <2>6, <2>8, <2>9 DEF Inum
      <4>2. panicked' = "no" => entries'[Inum(walk[p])'][Name(p)'] = Inum(ip[p])'
        BY <1>3, <2>6, <2>14, <4>1
      <4> QED
        BY <1>1, <1>2, <1>3, <2>9, <4>1, <4>2 DEF PlaceOK
    <3> QED
      BY <1>2, <2>6, <2>9, <2>12, <3>1, <3>2 DEF LocalsAfter
  <2>16. ASSUME NEW s \in Slots PROVE Own(p, s)' + Filed(s)' <= Own(p, s) + Filed(s) + Bit(s = g)
    <3>1. /\ Own(p, s) = Bit(cwd[p] = s) + Bit(w = s)
          /\ Own(p, s)' = Bit(cwd[p] = s) + Bit(w = s) + Bit(s = g)
      BY <1>2, <1>4, <2>9, <2>10, <2>11, <2>12, Numbers DEF Own, Bit
    <3>2. Filed(s)' = Filed(s) /\ Filed(s) \in Nat
      BY <2>10, PointersAre DEF IInv
    <3> QED
      BY <3>1, <3>2 DEF Bit
  <2> QED
    BY <1>4, <2>12, <2>13, <2>15, <2>16, PlainStep
<1>8. IF i = 0
      THEN itable' = t /\ Puts(p, w) /\ Ends(p) /\ UNCHANGED panicked
      ELSE /\ itable' = Got(u, i) /\ panicked' = GetPanics(t, i)
           /\ ip' = [ip EXCEPT ![p] = GetSlot(t, i)]
           /\ Goes(p, "victim") /\ UNCHANGED <<put, call, walk>>
  BY DEF UnlinkFinds
<1>9. GetSlot(t, i) = g /\ GetPanics(t, i) = GetPanics(u, i)
  <2>1. t \in Tables
    BY <1>5 DEF Tabled
  <2> HIDE DEF i, t
  <2>2. LockSet(t, w, p, u)
    BY <1>2, <2>1, LockSetIs DEF Locked
  <2> HIDE DEF u
  <2> QED
    BY <1>2, <2>1, <2>2, LockedSlot DEF g
<1> HIDE DEF i, t, u, g
<1> QED
  BY <1>6, <1>7, <1>8, <1>9

LEMMA UnlinkRefusesStep ==
    ASSUME IInv, NEW p \in Procs, UnlinkRefuses(p)
    PROVE  IInv' /\ Frame(p)
<1> DEFINE w == walk[p]
           v == ip[p]
<1>1. /\ At(p, "victim") /\ Lockable(v) /\ itable' = Loaded(v) /\ Puts(p, v)
      /\ Goes(p, "unlink_bad") /\ UNCHANGED <<call, walk, ip>> /\ NoDisk /\ NoFile
  BY DEF UnlinkRefuses
<1>2. /\ panicked = "no" /\ put[p] = 0 /\ pc[p] = "victim" /\ freeing[p] = "no"
  BY <1>1, TypesAre DEF At, IInv, CallsOK, PointersOK
<1>3. call[p].op = "unlink"
  BY <1>2 DEF IInv, CallsOK, CallOK
<1>4. Walks(p) /\ Keeps(p) /\ ~Owing(p) /\ \A s \in Slots : Holds(p, s) <=> w = s
  BY <1>2, <1>3 DEF Walks, Keeps, Owing, Holds
<1>5. w \in Slots /\ v \in Slots /\ v \in 0..NINODE /\ w # 0 /\ PointsTo(p, w) /\ PointsTo(p, v)
  BY <1>2, <1>4, UsedSlot, Numbers
<1>6. /\ itable[w].lock = p /\ itable[w].valid /\ \A s \in Slots : itable[s].lock = p => s = w
  BY <1>2, <1>4, <1>5 DEF IInv, CallsOK, LocksOK
<1>7. /\ UNCHANGED <<disk, freeing, cwd, ofile, panicked>> /\ calls' \in Nat /\ dinode' = dinode
      /\ LocalPut(p) /\ put'[p] = v
  BY <1>1, <1>5, WalkFrame DEF NoDisk
<1>8. TableStep(p, 0) /\ \A s \in Slots : itable'[s].lock = itable[s].lock
  BY <1>1, <1>5, <1>7, LoadStep
<1>9. itable'[w].valid
  <2>1. itable[v].lock = 0 /\ \A s \in Slots \ {v} : itable'[s] = itable[s]
    BY <1>1, <1>5, LoadedIs DEF IInv
  <2> QED
    BY <1>5, <1>6, <2>1, Numbers
<1>10. /\ LocalCall(p) /\ pc'[p] = "unlink_bad" /\ walk'[p] = w /\ ip'[p] = v /\ call'[p] = call[p]
  BY <1>1, GoesIs, StaysIs DEF IInv, LocalCall, Places
<1>11. LocalFile(p) /\ cwd'[p] = cwd[p] /\ ofile'[p] = ofile[p] /\ \A s : Filed(s)' = Filed(s)
  BY <1>7, NoFileIs DEF IInv
<1>12. /\ Walks(p)' /\ ~Keeps(p)' /\ ~Owing(p)' /\ \A s \in Slots : Holds(p, s)' <=> w = s
  BY <1>2, <1>3, <1>7, <1>10 DEF Walks, Keeps, Owing, Holds
<1>13. Plain(p, 0)
  <2>1. \A s \in Slots : PointsTo(p, s)' => PointsTo(p, s)
    BY <1>4, <1>10, <1>11, <1>12 DEF PointsTo
  <2>2. LocksAfter(p)
    BY <1>6, <1>8, <1>9, <1>12 DEF LocksAfter
  <2>3. panicked' \in PanicType
    BY <1>2, <1>7 DEF PanicType
  <2> QED
    BY <1>2, <1>7, <1>8, <1>10, <1>11, <2>1, <2>2, <2>3 DEF Plain, Local
<1>14. LocalsAfter(p)
  <2>1. CallOK(p)' /\ PlaceOK(p)'
    BY <1>3, <1>10 DEF CallOK, PlaceOK
  <2> QED
    BY <1>5, <1>10, <1>12, <2>1 DEF LocalsAfter
<1>15. ASSUME NEW s \in Slots PROVE Own(p, s)' + Filed(s)' <= Own(p, s) + Filed(s) + Bit(s = 0)
  <2>1. /\ Own(p, s) = Bit(cwd[p] = s) + Bit(w = s) + Bit(v = s)
        /\ Own(p, s)' = Bit(cwd[p] = s) + Bit(v = s) + Bit(w = s)
    BY <1>2, <1>4, <1>7, <1>10, <1>11, <1>12, Numbers DEF Own, Bit
  <2>2. Filed(s)' = Filed(s) /\ Filed(s) \in Nat
    BY <1>11, PointersAre DEF IInv
  <2> QED
    BY <2>1, <2>2 DEF Bit
<1> QED
  BY <1>4, <1>12, <1>13, <1>14, <1>15, PlainStep

------------------------------------------------------------------------------
\* Steps that change the disk.

\* No reference is lost if no pointer comes without one.
LEMMA CoverStep ==
    ASSUME TypeOK, RefsCover, TypeOK', NEW p \in Procs, Others(p),
           \A s \in Slots :
              itable[s].ref - itable'[s].ref <= Own(p, s) - Own(p, s)' + Filed(s) - Filed(s)'
    PROVE  RefsCover'
<1> SUFFICES ASSUME NEW s \in Slots PROVE itable'[s].ref >= Pointers(s)'
  BY DEF RefsCover
<1>1. itable[s].ref >= Pointers(s)
  BY DEF RefsCover
<1>2. /\ Pointers(s)' = Pointers(s) + Own(p, s)' - Own(p, s) + Filed(s)' - Filed(s)
      /\ Pointers(s) \in Nat /\ Filed(s) \in Nat /\ Filed(s)' \in Nat
  BY PointersStep
<1>3. Own(p, s) \in Int /\ Own(p, s)' \in Int
  BY DEF Own, Bit
<1>4. itable[s].ref \in Nat /\ itable'[s].ref \in Nat
  BY DEF TypeOK
<1>5. itable[s].ref - itable'[s].ref <= Own(p, s) - Own(p, s)' + Filed(s) - Filed(s)'
  OBVIOUS
<1> QED
  BY <1>1, <1>2, <1>3, <1>4, <1>5

\* All that is left is what the process itself relies on.
LEMMA StepEnds ==
    ASSUME IInv, NEW p \in Procs, TypeOK', Frame(p), RefsCover', EntriesOK', LinksCounted', DirsOK',
           CallOK(p)', PointersOK(p)', LocksOK(p)', TruncOK(p)', PlaceOK(p)'
    PROVE  IInv' /\ Frame(p)
<1>1. \A q \in Procs \ {p} : CallOK(q)' /\ PointersOK(q)' /\ LocksOK(q)' /\ TruncOK(q)' /\ PlaceOK(q)'
  BY OthersKeep
<1>2. CallsOK'
  BY <1>1 DEF CallsOK
<1> QED
  BY <1>2 DEF IInv

\* A process writes inodes that it has locked, and an inode may be allocated for the entry g.
Writes(p, g) ==
    /\ panicked = "no" /\ put[p] = 0 /\ UNCHANGED freeing
    /\ Local(p) /\ panicked' \in PanicType /\ DiskType'
    /\ TableStep(p, g)
    /\ g # 0 => dinode[itable'[g].inum].type = "none" /\ dinode'[itable'[g].inum].type # "none"
    /\ \A s \in Slots : PointsTo(p, s)' => PointsTo(p, s) \/ s = g
    /\ \A s \in Slots : Own(p, s)' + Filed(s)' <= Own(p, s) + Filed(s) + Bit(s = g)
    /\ LocksAfter(p)
    /\ \A i \in Inums :
          /\ entries'[i] = entries[i] \/ (Mine(p, i) /\ dinode[i].type = "T_DIR")
          /\ dinode'[i] = dinode[i] \/ dinode[i].type = "none" \/ Mine(p, i)
          /\ dinode'[i].type = dinode[i].type \/ dinode[i].type = "none"

LEMMA WritesFrame ==
    ASSUME IInv, NEW p \in Procs, NEW g, Writes(p, g)
    PROVE  TypeOK' /\ RefsCover' /\ Frame(p)
<1>1. TypeOK' /\ Others(p)
  <2>1. itable' \in Tables
    BY DEF Writes, TableStep
  <2> QED
    BY <2>1, LocalStep DEF IInv, Writes
<1>2. /\ \A s \in Slots : itable'[s].ref = itable[s].ref + Bit(s = g)
      /\ \A s \in Slots : itable[s].ref > 0 => itable'[s].inum = itable[s].inum
  BY DEF Writes, TableStep
<1>3. \A s \in Slots : itable[s].ref \in Nat /\ itable'[s].ref \in Nat
  BY <1>1 DEF IInv, TypeOK
<1>4. RefsCover'
  <2>1. ASSUME NEW s \in Slots
        PROVE  itable[s].ref - itable'[s].ref <= Own(p, s) - Own(p, s)' + Filed(s) - Filed(s)'
    <3>1. Own(p, s)' + Filed(s)' <= Own(p, s) + Filed(s) + Bit(s = g)
      BY DEF Writes
    <3>2. Own(p, s) \in Int /\ Own(p, s)' \in Int /\ Bit(s = g) \in Int
      BY DEF Own, Bit
    <3>3. Filed(s) \in Nat /\ Filed(s)' \in Nat
      BY <1>1, PointersAre, PointersArePrimed DEF IInv
    <3>4. itable'[s].ref = itable[s].ref + Bit(s = g)
      BY <1>2
    <3> HIDE DEF Bit
    <3> QED
      BY <1>3, <3>1, <3>2, <3>3, <3>4
  <2> QED
    BY <1>1, <2>1, CoverStep DEF IInv
<1>5. \A s \in Slots : s = g => Reached(s)
  BY Numbers DEF Writes, Reached
<1>6. Frame(p)
  <2>1. ASSUME NEW s \in Slots PROVE itable'[s].ref <= itable[s].ref \/ PointsTo(p, s) \/ Reached(s)
    <3>1. CASE s = g
      BY <1>5, <3>1
    <3>2. CASE s # g
      BY <1>2, <1>3, <3>2 DEF Bit
    <3> QED
      BY <3>1, <3>2
  <2>2. ASSUME NEW s \in Slots, PointsTo(p, s)' PROVE PointsTo(p, s) \/ Reached(s)
    BY <1>5, <2>2 DEF Writes
  <2>3. \A s \in Slots, q \in Procs \ {p} :
                /\ itable'[s].lock = q <=> itable[s].lock = q
                /\ itable[s].lock = q =>
                      itable'[s].valid = itable[s].valid /\ itable'[s].nlink = itable[s].nlink
    BY DEF Writes, TableStep
  <2>4. \A i \in Inums :
          /\ entries'[i] = entries[i] \/ Mine(p, i)
          /\ dinode'[i] = dinode[i] \/ dinode[i].type = "none" \/ Mine(p, i)
          /\ dinode'[i].type = dinode[i].type \/ dinode[i].type = "none"
    BY DEF Writes
  <2>5. panicked = "no"
    BY DEF Writes
  <2> QED
    BY <1>1, <1>2, <2>1, <2>2, <2>3, <2>4, <2>5 DEF Frame
<1> QED
  BY <1>1, <1>4, <1>6

LEMMA WritesStep ==
    ASSUME IInv, NEW p \in Procs, NEW g, Writes(p, g), LocalsAfter(p), LinksCounted'
    PROVE  IInv' /\ Frame(p)
<1>1. TypeOK' /\ RefsCover' /\ Frame(p)
  BY WritesFrame
<1>2. /\ \A s \in Slots : itable[s].ref > 0 => itable'[s].inum = itable[s].inum
      /\ EntriesOK' /\ g \in 0..NINODE
  BY DEF Writes, TableStep
<1>3. freeing[p] = "no" /\ freeing'[p] = "no"
  BY TypesAre DEF IInv, CallsOK, PointersOK, Writes
<1>4. \A i \in Inums : dinode[i].type # "none" => dinode'[i].type = dinode[i].type
  BY DEF Writes
<1>5. PointersOK(p)'
  <2>1. ASSUME NEW s \in Slots, PointsTo(p, s)' PROVE dinode'[itable'[s].inum].type # "none"
    <3>1. CASE PointsTo(p, s)
      <4>1. itable[s].ref > 0
        BY <3>1, Referred DEF IInv
      <4>2. dinode[itable[s].inum].type # "none" /\ itable[s].inum \in Inums
        BY <3>1, <4>1, InumIs DEF IInv, CallsOK, PointersOK
      <4> QED
        BY <1>2, <1>4, <4>1, <4>2
    <3>2. CASE ~PointsTo(p, s)
      BY <2>1, <3>2, Numbers DEF Writes
    <3> QED
      BY <3>1, <3>2
  <2> QED
    BY <1>3, <2>1 DEF PointersOK, LocalsAfter
<1>6. LocksOK(p)' /\ TruncOK(p)' /\ CallOK(p)' /\ PlaceOK(p)'
  BY <1>3 DEF Writes, LocksAfter, LocksOK, TruncOK, LocalsAfter
<1>7. DirsOK'
  <2>1. itable'[1].inum = ROOTINO
    <3>1. 1 \in Slots /\ itable[1].ref > 0
      BY Numbers, Referred DEF IInv
    <3> QED
      BY <1>2, <3>1 DEF IInv, DirsOK
  <2>2. dinode'[ROOTINO].type = "T_DIR"
    BY <1>4, Numbers DEF IInv, DirsOK
  <2>3. ASSUME NEW i \in Inums, entries'[i] # NoNames PROVE dinode'[i].type = "T_DIR"
    <3>1. dinode[i].type = "T_DIR"
      BY <2>3 DEF IInv, DirsOK, Writes
    <3> QED
      BY <1>4, <3>1
  <2> QED
    BY <2>1, <2>2, <2>3 DEF DirsOK
<1> QED
  BY <1>1, <1>2, <1>5, <1>6, <1>7, StepEnds

\* What a step does to the links an inode has still to lose or to get.
LEMMA OwedStep ==
    ASSUME IInv, NEW p \in Procs, TypeOK', RefsCover', Frame(p), NEW i
    PROVE  Count(Owed, i)' = Count(Owed, i) + Bit(Owed'[p] = i) - Bit(Owed[p] = i)
<1>1. ASSUME NEW q \in Procs \ {p} PROVE Owed'[q] = Owed[q]
  <2>1. (Owing(q)' <=> Owing(q)) /\ ip'[q] = ip[q]
    BY DEF Frame, Others, Owing
  <2>2. CASE Owing(q)
    <3>1. ip[q] # 0 /\ Keeps(q)
      BY <2>2 DEF IInv, CallsOK, PointersOK, Owing, Keeps
    <3>2. ip[q] \in Slots /\ PointsTo(q, ip[q])
      BY <3>1, Numbers, TypesAre DEF IInv, PointsTo
    <3>3. itable'[ip[q]].inum = itable[ip[q]].inum
      BY <3>2, StillThere
    <3> QED
      BY <2>1, <2>2, <3>3 DEF Owed, Inum
  <2>3. CASE ~Owing(q)
    BY <2>1, <2>3 DEF Owed
  <2> QED
    BY <2>2, <2>3
<1>2. DOMAIN Owed = Procs /\ DOMAIN Owed' = Procs
  BY DEF Owed
<1>3. Count(Owed', i) = Count(Owed, i) + Bit(Owed'[p] = i) - Bit(Owed[p] = i)
  BY <1>1, <1>2, ProcsAssumption, CountStep
<1> QED
  BY <1>3 DEF Count

LEMMA LinksType ==
    ASSUME TypeOK, NEW i \in Inums
    PROVE  /\ Cardinality(NamesOf(i)) \in Nat /\ Cardinality(SubDirs(i)) \in Nat
           /\ Count(Owed, i) \in Nat /\ IsFiniteSet(NamesOf(i)) /\ IsFiniteSet(SubDirs(i))
           /\ dinode[i].nlink \in Nat /\ dinode[i] \in [type : Types, nlink : Nat]
           /\ \A p \in Procs : Owed[p] = i => Count(Owed, i) >= 1
<1>1. IsFiniteSet(NamesOf(i)) /\ IsFiniteSet(SubDirs(i))
  <2>1. IsFiniteSet(Inums \X Names)
    <3>1. IsFiniteSet(Inums)
      BY FiniteInums
    <3> QED
      BY <3>1, NamesAssumption, FS_Product
  <2>2. NamesOf(i) \in SUBSET (Inums \X Names) /\ SubDirs(i) \in SUBSET Names
    BY DEF NamesOf, SubDirs
  <2> QED
    BY <2>1, <2>2, NamesAssumption, FS_Subset
<1>2. Cardinality(NamesOf(i)) \in Nat /\ Cardinality(SubDirs(i)) \in Nat
  BY <1>1, FS_CardinalityType
<1>3. /\ Count(Owed, i) \in Nat
      /\ \A p \in Procs : Owed[p] = i => Count(Owed, i) >= 1
  BY ProcsAssumption, CountType DEF Owed
<1>4. dinode[i] \in [type : Types, nlink : Nat]
  BY DEF TypeOK
<1> QED
  BY <1>1, <1>2, <1>3, <1>4

\* One name of a directory changes.
Named(d, n, v) == entries' = [entries EXCEPT ![d][n] = v]

LEMMA NamesStep ==
    ASSUME TypeOK, NEW d \in Inums, NEW n \in Names, NEW v \in 0..NINODES,
           Named(d, n, v), NEW i \in Inums
    PROVE  Cardinality(NamesOf(i))' = Cardinality(NamesOf(i)) + Bit(v = i) - Bit(entries[d][n] = i)
<1> USE DEF Named
<1> DEFINE D == Inums \X Names
           f == [x \in D |-> entries[x[1]][x[2]]]
           h == [x \in D |-> entries'[x[1]][x[2]]]
           y == <<d, n>>
<1>1. IsFiniteSet(D)
  <2>1. IsFiniteSet(Inums)
    BY FiniteInums
  <2> QED
    BY <2>1, NamesAssumption, FS_Product
<1>2. entries \in [Inums -> [Names -> 0..NINODES]]
  BY DEF TypeOK
<1>3. y \in D /\ DOMAIN f = D /\ DOMAIN h = D /\ f[y] = entries[d][n] /\ h[y] = v
  BY <1>2
<1>4. \A x \in D \ {y} : h[x] = f[x]
  <2> SUFFICES ASSUME NEW x \in D \ {y} PROVE entries'[x[1]][x[2]] = entries[x[1]][x[2]]
    OBVIOUS
  <2>1. x[1] \in Inums /\ x[2] \in Names /\ (x[1] # d \/ x[2] # n)
    OBVIOUS
  <2> QED
    BY <1>2, <2>1
<1>5. Cardinality(NamesOf(i)) = Count(f, i) /\ Cardinality(NamesOf(i))' = Count(h, i)
  BY DEF NamesOf, Count
<1> HIDE DEF D, f, h, y
<1>6. Count(h, i) = Count(f, i) + Bit(h[y] = i) - Bit(f[y] = i)
  BY <1>1, <1>3, <1>4, CountStep
<1> QED
  BY <1>3, <1>5, <1>6

\* A name of a directory changes, but no type does.
IsDir(i) == i # 0 /\ dinode[i].type = "T_DIR"

LEMMA SubDirsStep ==
    ASSUME TypeOK, NEW d \in Inums, NEW n \in Names, NEW v \in 0..NINODES,
           entries' = [entries EXCEPT ![d][n] = v],
           \A i \in Inums : dinode'[i].type = dinode[i].type, NEW i \in Inums
    PROVE  /\ i # d => SubDirs(i)' = SubDirs(i)
           /\ Cardinality(SubDirs(d))' = Cardinality(SubDirs(d)) + Bit(IsDir(v)) - Bit(IsDir(entries[d][n]))
<1>1. entries \in [Inums -> [Names -> 0..NINODES]]
  BY DEF TypeOK
<1>2. \A j \in 0..NINODES : (j # 0 /\ dinode'[j].type = "T_DIR") <=> IsDir(j)
  BY Numbers DEF IsDir
<1>3. i # d => SubDirs(i)' = SubDirs(i)
  <2> SUFFICES ASSUME i # d PROVE SubDirs(i)' = SubDirs(i)
    OBVIOUS
  <2>1. entries'[i] = entries[i] /\ \A m \in Names : entries[i][m] \in 0..NINODES
    BY <1>1
  <2> QED
    BY <1>2, <2>1 DEF SubDirs, IsDir
<1> DEFINE f == [m \in Names |-> Bit(IsDir(entries[d][m]))]
           h == [m \in Names |-> Bit(IsDir(entries'[d][m]))]
<1>4. DOMAIN f = Names /\ DOMAIN h = Names /\ h[n] = Bit(IsDir(v)) /\ f[n] = Bit(IsDir(entries[d][n]))
      /\ \A m \in Names \ {n} : h[m] = f[m]
  BY <1>1
<1>5. SubDirs(d) = {m \in Names : f[m] = 1} /\ SubDirs(d)' = {m \in Names : h[m] = 1}
  <2>1. \A m \in Names : entries'[d][m] \in 0..NINODES
    BY <1>1
  <2>2. SubDirs(d) = {m \in Names : f[m] = 1}
    BY DEF SubDirs, IsDir, Bit
  <2>3. SubDirs(d)' = {m \in Names : IsDir(entries'[d][m])}
    BY <1>2, <2>1 DEF SubDirs
  <2> QED
    BY <2>2, <2>3 DEF Bit
<1>6. Cardinality(SubDirs(d)) = Count(f, 1) /\ Cardinality(SubDirs(d))' = Count(h, 1)
  BY <1>4, <1>5 DEF Count
<1> HIDE DEF f, h
<1>7. Count(h, 1) = Count(f, 1) + Bit(h[n] = 1) - Bit(f[n] = 1)
  BY <1>4, NamesAssumption, CountStep
<1>8. Bit(h[n] = 1) = Bit(IsDir(v)) /\ Bit(f[n] = 1) = Bit(IsDir(entries[d][n]))
  BY <1>4 DEF Bit
<1> QED
  BY <1>3, <1>6, <1>7, <1>8

------------------------------------------------------------------------------
\* Link counts.

Disks == [Inums -> [type : Types, nlink : Nat]]

\* A link count in the table, and on disk.
NlinkSet(t, w, x, u) ==
    u \in Tables /\ u[w] = [t[w] EXCEPT !.nlink = x] /\ \A s \in Slots \ {w} : u[s] = t[s]
InodeSet(di, i, x, dj) ==
    dj \in Disks /\ dj[i].type = di[i].type /\ dj[i].nlink = x /\ \A j \in Inums \ {i} : dj[j] = di[j]

LEMMA NlinkSetIs ==
    ASSUME NEW t \in Tables, NEW w \in Slots, NEW d \in Int, t[w].nlink + d \in Nat
    PROVE  NlinkSet(t, w, t[w].nlink + d, NlinkInTable(t, w, d))
<1> DEFINE x == t[w].nlink + d
           u == NlinkInTable(t, w, d)
<1>1. t[w] \in Entry /\ x \in Nat
  BY DEF Tables
<1>2. u = [t EXCEPT ![w] = [t[w] EXCEPT !.nlink = x]]
  BY DEF NlinkInTable, Tables
<1> HIDE DEF x, u
<1>3. [t[w] EXCEPT !.nlink = x] \in Entry
  BY <1>1 DEF Entry
<1>4. NlinkSet(t, w, x, u)
  BY <1>2, <1>3 DEF NlinkSet, Tables
<1> QED
  BY <1>4 DEF x, u

LEMMA InodeSetIs ==
    ASSUME NEW di \in Disks, NEW i \in Inums, NEW x \in Nat
    PROVE  InodeSet(di, i, x, [di EXCEPT ![i].nlink = x])
<1>1. di[i] \in [type : Types, nlink : Nat]
  BY DEF Disks
<1> DEFINE e == [di[i] EXCEPT !.nlink = x]
<1>2. e \in [type : Types, nlink : Nat] /\ e.type = di[i].type /\ e.nlink = x
  BY <1>1
<1>3. [di EXCEPT ![i].nlink = x] = [di EXCEPT ![i] = e]
  BY DEF Disks
<1> HIDE DEF e
<1> QED
  BY <1>2, <1>3 DEF InodeSet, Disks

LEMMA TabledNlink ==
    ASSUME IInv, NEW p \in Procs, NEW t, NEW di, Tabled(p, t, di), NEW w \in Slots, itable[w].ref > 0,
           t[w].lock = 0 \/ t[w].lock = p, NEW x, NEW u, NlinkSet(t, w, x, u),
           NEW dj, InodeSet(di, itable[w].inum, x, dj)
    PROVE  Tabled(p, u, dj)
<1>1. t \in Tables /\ t[w] \in Entry /\ u \in Tables /\ itable[w].inum \in Inums
  BY InumIs DEF Tabled, Tables, NlinkSet, IInv
<1>2. u[w] = [t[w] EXCEPT !.nlink = x] /\ \A s \in Slots \ {w} : u[s] = t[s]
  BY DEF NlinkSet
<1>3. /\ u[w].ref = t[w].ref /\ u[w].inum = t[w].inum /\ u[w].valid = t[w].valid
      /\ u[w].type = t[w].type /\ u[w].nlink = x /\ u[w].lock = t[w].lock
  BY <1>1, <1>2 DEF Entry
<1>4. 0 \notin Procs
  BY Numbers
<1>5. /\ dj[itable[w].inum].type = di[itable[w].inum].type /\ dj[itable[w].inum].nlink = x
      /\ \A j \in Inums \ {itable[w].inum} : dj[j] = di[j]
  BY DEF InodeSet
<1>6. t[w].inum = itable[w].inum
  BY DEF Tabled
<1>7. ASSUME NEW s \in Slots
      PROVE  /\ u[s].ref = itable[s].ref /\ u[s].inum = itable[s].inum
             /\ u[s].ref > 0 /\ u[s].valid =>
                   /\ u[s].type = dj[u[s].inum].type /\ u[s].type # "none"
                   /\ u[s].nlink = dj[u[s].inum].nlink
             /\ \A q \in Procs \ {p} :
                   /\ u[s].lock = q <=> itable[s].lock = q
                   /\ itable[s].lock = q =>
                         u[s].valid = itable[s].valid /\ u[s].nlink = itable[s].nlink
  <2>1. CASE s = w
    BY <1>3, <1>4, <1>5, <1>6, <2>1 DEF Tabled
  <2>2. CASE s # w
    <3>1. u[s] = t[s] /\ t[s].ref = itable[s].ref /\ t[s].inum = itable[s].inum
      BY <1>2, <2>2 DEF Tabled
    <3>2. itable[s].ref > 0 => itable[s].inum \in Inums \ {itable[w].inum}
      BY <2>2, InumIs, SameEntry DEF IInv
    <3>3. t[s].ref > 0 => dj[t[s].inum] = di[t[s].inum]
      BY <1>5, <3>1, <3>2
    <3> QED
      BY <3>1, <3>3 DEF Tabled
  <2> QED
    BY <2>1, <2>2
<1> QED
  BY <1>1, <1>7 DEF Tabled

\* An inode that the process may write.
LEMMA MineIs ==
    ASSUME IInv, NEW p \in Procs, NEW w \in Slots, PointsTo(p, w), itable[w].lock = 0 \/ itable[w].lock = p
    PROVE  /\ Mine(p, itable[w].inum) /\ itable[w].ref > 0 /\ itable[w].inum \in Inums
           /\ dinode[itable[w].inum].type # "none"
<1>1. itable[w].ref > 0
  BY Referred DEF IInv
<1>2. dinode[itable[w].inum].type # "none"
  BY DEF IInv, CallsOK, PointersOK
<1> QED
  BY <1>1, <1>2, InumIs DEF IInv, Mine

\* A link is counted that a call owes from now on, or does not owe any more.
LEMMA CountedStep ==
    ASSUME IInv, NEW p \in Procs, TypeOK', RefsCover', Frame(p), UNCHANGED entries, NEW i \in Inums,
           NEW x \in Nat, InodeSet(dinode, i, x, dinode'), dinode[i].type # "none",
           \A j \in Inums \ {i} : Owed'[p] = j => Owed[p] = j,
           dinode[i].nlink - x <= Bit(Owed[p] = i) - Bit(Owed'[p] = i)
    PROVE  LinksCounted'
<1> SUFFICES ASSUME NEW j \in Inums
             PROVE  dinode'[j].nlink >= Links(j)' /\ (dinode'[j].type = "none" => dinode'[j].nlink = 0)
  BY DEF LinksCounted
<1>1. dinode[j].nlink >= Links(j) /\ (dinode[j].type = "none" => dinode[j].nlink = 0)
  BY DEF IInv, LinksCounted
<1>2. \A k \in Inums : dinode'[k].type = dinode[k].type
  BY DEF InodeSet
<1>3. NamesOf(j)' = NamesOf(j) /\ SubDirs(j)' = SubDirs(j)
  <2>1. \A n \in Names : entries[j][n] # 0 => entries[j][n] \in Inums
    BY EntryIs DEF IInv
  <2> QED
    BY <1>2, <2>1 DEF NamesOf, SubDirs
<1>4. Count(Owed, j)' = Count(Owed, j) + Bit(Owed'[p] = j) - Bit(Owed[p] = j)
  BY OwedStep
<1>5. /\ Cardinality(NamesOf(j)) \in Nat /\ Cardinality(SubDirs(j)) \in Nat /\ Count(Owed, j) \in Nat
      /\ dinode[j].nlink \in Nat
  BY LinksType DEF IInv
<1>6. \A b : Bit(b) \in Int
  BY DEF Bit
<1>7. dinode'[j].nlink >= Links(j)'
  <2>1. CASE j = i
    <3>1. dinode'[j].nlink = x /\ dinode[i].nlink - x <= Bit(Owed[p] = i) - Bit(Owed'[p] = i)
      BY <2>1 DEF InodeSet
    <3> HIDE DEF Bit
    <3> QED
      BY <1>1, <1>3, <1>4, <1>5, <1>6, <2>1, <3>1 DEF Links
  <2>2. CASE j # i
    <3>1. dinode'[j].nlink = dinode[j].nlink
      BY <2>2 DEF InodeSet
    <3>2. Bit(Owed'[p] = j) <= Bit(Owed[p] = j)
      BY <2>2 DEF Bit
    <3> HIDE DEF Bit
    <3> QED
      BY <1>1, <1>3, <1>4, <1>5, <1>6, <3>1, <3>2 DEF Links
  <2> QED
    BY <2>1, <2>2
<1>8. dinode'[j].type = "none" => dinode'[j].nlink = 0
  BY <1>1, <1>2 DEF InodeSet
<1> QED
  BY <1>7, <1>8

LEMMA LinkOldStep ==
    ASSUME IInv, NEW p \in Procs, LinkOld(p)
    PROVE  IInv' /\ Frame(p)
<1> DEFINE w == walk[p]
           i == itable[w].inum
           t == Loaded(w)
           u == NlinkInTable(t, w, 1)
           x == t[w].nlink + 1
<1>1. NameiDone(p, "link") /\ Lockable(w)
  BY DEF LinkOld
<1>2. /\ panicked = "no" /\ put[p] = 0 /\ freeing[p] = "no" /\ ~Owing(p) /\ pc[p] = "walk"
      /\ Walks(p) /\ ~Keeps(p) /\ call[p].op = "link"
      /\ w \in Slots /\ w \in 0..NINODE /\ PointsTo(p, w) /\ \A s \in Slots : itable[s].lock # p
      /\ \A s \in Slots : Own(p, s) = Bit(cwd[p] = s) + Bit(w = s)
  BY <1>1, NameiIs
<1>3. UNCHANGED <<entries, target, freeing, panicked>> /\ NoFile
  BY DEF LinkOld
<1>4. CASE itable' = t /\ Puts(p, w) /\ Ends(p) /\ UNCHANGED dinode
  BY <1>1, <1>3, <1>4, NameiPuts DEF NoDisk, disk
<1>5. CASE /\ Type(w) # "T_DIR"
           /\ itable' = u /\ dinode' = NlinkOnDisk(dinode, t, w, 1)
           /\ ip' = [ip EXCEPT ![p] = w]
           /\ call' = [call EXCEPT ![p].op = "link2", ![p].rest = call[p].arg, ![p].depth = 0]
           /\ Goes(p, "restart") /\ UNCHANGED <<put, walk>>
  <2>1. /\ Tabled(p, t, dinode) /\ \A s \in Slots : t[s].lock = itable[s].lock
        /\ itable[w].lock = 0 /\ Type(w) = dinode[Inum(w)].type
    BY <1>1, <1>2, LoadStep
  <2>2. t \in Tables /\ t[w].inum = i /\ t[w].nlink = dinode[i].nlink /\ i \in Inums /\ itable[w].ref > 0
    BY <1>1, <1>2, LoadedIs DEF IInv
  <2>3. dinode \in Disks /\ dinode[i].nlink \in Nat /\ dinode[i].type # "T_DIR"
    BY <1>5, <2>1, <2>2, LinksType DEF IInv, TypeOK, Disks, Inum
  <2>4. x \in Nat /\ x = dinode[i].nlink + 1
    BY <2>2, <2>3
  <2>5. NlinkSet(t, w, x, u)
    BY <1>2, <2>2, <2>4, NlinkSetIs
  <2>6. InodeSet(dinode, i, x, dinode')
    <3>1. dinode' = [dinode EXCEPT ![i].nlink = x]
      BY <1>5, <2>2 DEF NlinkOnDisk
    <3> HIDE DEF i, x
    <3> QED
      BY <2>2, <2>3, <2>4, <3>1, InodeSetIs
  <2>7. Tabled(p, u, dinode')
    <3> HIDE DEF t, u, x
    <3> QED
      BY <1>2, <2>1, <2>2, <2>5, <2>6, TabledNlink
  <2>8. TableStep(p, 0)
    <3> HIDE DEF u
    <3> QED
      BY <1>5, <2>7, TabledStep
  <2>9. \A s \in Slots : itable'[s].lock # p
    <3>1. u[w].lock = t[w].lock /\ \A s \in Slots \ {w} : u[s] = t[s]
      <4>1. t[w] \in Entry
        BY <1>2, <2>2 DEF Tables
      <4> HIDE DEF u, t, x
      <4> QED
        BY <2>5, <4>1 DEF NlinkSet, Entry
    <3> QED
      BY <1>2, <1>5, <2>1, <3>1
  <2> HIDE DEF t, u, x
  <2>10. call' = [call EXCEPT ![p] = call'[p]] /\ call'[p] \in CallType /\ call'[p].op = "link2"
    <3> DEFINE r == call[p].arg
               c == [call[p] EXCEPT !.op = "link2", !.rest = r, !.depth = 0]
    <3>1. call \in [Procs -> CallType] /\ call[p] \in CallType /\ r \in Seq(Names)
      BY CallIs, NameIs DEF IInv
    <3>2. call' = [call EXCEPT ![p] = c]
      BY <1>5, <3>1
    <3> HIDE DEF r
    <3>3. c \in CallType /\ c.op = "link2"
      <4>1. "link2" \in Ops
        BY DEF Ops
      <4> QED
        BY <3>1, <4>1 DEF CallType
    <3> HIDE DEF c
    <3> QED
      BY <3>1, <3>2, <3>3
  <2>11. LocalCall(p) /\ pc'[p] = "restart" /\ walk'[p] = w /\ ip'[p] = w
    <3>1. ip' = [ip EXCEPT ![p] = ip'[p]] /\ ip'[p] = w
      BY <1>2, <1>5, TypesAre DEF IInv
    <3> QED
      BY <1>2, <1>5, <2>10, <3>1, GoesIs, StaysIs DEF IInv, LocalCall, Places
  <2>12. LocalFile(p) /\ cwd'[p] = cwd[p] /\ ofile'[p] = ofile[p] /\ \A s : Filed(s)' = Filed(s)
    <3>1. calls' \in Nat /\ UNCHANGED <<cwd, ofile>>
      BY <1>3 DEF NoFile, IInv, TypeOK
    <3> QED
      BY <3>1, NoFileIs DEF IInv
  <2>13. LocalPut(p) /\ put'[p] = 0 /\ freeing'[p] = "no"
    BY <1>2, <1>3, <1>5, NoPuts DEF IInv
  <2>14. /\ ~Walks(p)' /\ Keeps(p)' /\ Owing(p)' /\ \A s \in Slots : ~Holds(p, s)'
    BY <2>10, <2>11, <2>13 DEF Walks, Keeps, Owing, Holds
  <2>15. /\ Mine(p, i) /\ dinode[i].type # "none" /\ itable'[w].inum = i
    BY <1>2, <2>1, <2>2, <2>8, MineIs DEF TableStep
  <2>16. Writes(p, 0)
    <3>1. \A s \in Slots : PointsTo(p, s)' => PointsTo(p, s)
      BY <1>2, <2>11, <2>12, <2>14 DEF PointsTo
    <3>2. LocksAfter(p)
      BY <2>9, <2>14 DEF LocksAfter
    <3>3. DiskType'
      BY <1>3, <2>6 DEF DiskType, IInv, TypeOK, InodeSet, Disks
    <3>4. ASSUME NEW s \in Slots PROVE Own(p, s)' + Filed(s)' <= Own(p, s) + Filed(s) + Bit(s = 0)
      <4>1. Own(p, s)' = Bit(cwd[p] = s) + Bit(w = s)
        BY <2>11, <2>12, <2>13, <2>14, Numbers DEF Own, Bit
      <4>2. Filed(s)' = Filed(s) /\ Filed(s) \in Nat /\ Own(p, s)' = Own(p, s) /\ Own(p, s) \in Int
        BY <1>2, <2>12, <4>1, PointersAre DEF IInv, Own, Bit
      <4> QED
        BY <4>2 DEF Bit
    <3>5. \A j \in Inums :
            /\ entries'[j] = entries[j]
            /\ dinode'[j] = dinode[j] \/ Mine(p, j)
            /\ dinode'[j].type = dinode[j].type
      BY <1>3, <2>6, <2>15 DEF InodeSet
    <3>6. panicked' \in PanicType
      BY <1>2, <1>3 DEF PanicType
    <3> QED
      BY <1>2, <1>3, <2>8, <2>11, <2>12, <2>13, <3>1, <3>2, <3>3, <3>4, <3>5, <3>6 DEF Writes, Local
  <2>17. LocalsAfter(p)
    <3>1. CallOK(p)'
      BY <2>10, <2>11 DEF CallOK, Creates
    <3>2. dinode'[Inum(ip[p])'].type # "T_DIR"
      BY <2>3, <2>6, <2>11, <2>15 DEF Inum, InodeSet
    <3>3. PlaceOK(p)'
      BY <2>11, <3>2 DEF PlaceOK
    <3> QED
      BY <1>2, <2>11, <2>14, <3>1, <3>3, Numbers DEF LocalsAfter
  <2>18. LinksCounted'
    <3>1. TypeOK' /\ RefsCover' /\ Frame(p)
      BY <2>16, WritesFrame
    <3>2. Owed[p] = 0 /\ Owed'[p] = i
      BY <1>2, <2>11, <2>14, <2>15 DEF Owed, Inum
    <3>3. dinode[i].nlink - x <= Bit(Owed[p] = i) - Bit(Owed'[p] = i)
      BY <2>2, <2>3, <2>4, <3>2, Numbers DEF Bit
    <3>4. \A j \in Inums \ {i} : Owed'[p] = j => Owed[p] = j
      BY <3>2
    <3> HIDE DEF i
    <3> QED
      BY <1>3, <2>2, <2>4, <2>6, <2>15, <3>1, <3>3, <3>4, CountedStep
  <2> QED
    BY <2>16, <2>17, <2>18, WritesStep
<1> QED
  BY <1>4, <1>5 DEF LinkOld

\* A call ends that has taken a link off its inode, and puts it.
LEMMA OwedIs ==
    ASSUME IInv, NEW p \in Procs, panicked = "no", Owing(p)
    PROVE  /\ Keeps(p) /\ ip[p] \in Slots /\ ip[p] \in 0..NINODE /\ PointsTo(p, ip[p])
           /\ Inum(ip[p]) \in Inums /\ Owed[p] = Inum(ip[p]) /\ itable[ip[p]].ref > 0
           /\ dinode[Inum(ip[p])].nlink \in Nat /\ dinode[Inum(ip[p])].nlink >= 1
           /\ dinode[Inum(ip[p])].type # "none"
<1> DEFINE v == ip[p]
           i == Inum(v)
<1>1. Keeps(p)
  BY DEF Owing, Keeps
<1>2. v \in Slots /\ PointsTo(p, v)
  BY <1>1, UsedSlot
<1>3. itable[v].ref > 0 /\ dinode[i].type # "none"
  BY <1>2, Referred DEF IInv, CallsOK, PointersOK, Inum
<1>4. i \in Inums
  BY <1>2, <1>3, InumIs DEF IInv, Inum
<1>5. Owed[p] = i
  BY DEF Owed
<1> HIDE DEF i
<1>6. /\ Cardinality(NamesOf(i)) \in Nat /\ Cardinality(SubDirs(i)) \in Nat /\ Count(Owed, i) \in Nat
      /\ dinode[i].nlink \in Nat /\ Count(Owed, i) >= 1
  BY <1>4, <1>5, LinksType DEF IInv
<1>7. dinode[i].nlink >= Cardinality(NamesOf(i)) + Cardinality(SubDirs(i)) + Count(Owed, i)
  BY <1>4 DEF IInv, LinksCounted, Links
<1>8. dinode[i].nlink >= 1
  BY <1>6, <1>7
<1> QED
  BY <1>1, <1>2, <1>3, <1>4, <1>5, <1>6, <1>8, Numbers DEF i

LEMMA PaidStep ==
    ASSUME IInv, NEW p \in Procs, panicked = "no", put[p] = 0, freeing[p] = "no", ~Walks(p), Owing(p),
           itable[ip[p]].lock = 0 \/ itable[ip[p]].lock = p,
           Ends(p), Puts(p, ip[p]), UNCHANGED <<entries, target, freeing, panicked>>, NoFile,
           InodeSet(dinode, Inum(ip[p]), dinode[Inum(ip[p])].nlink - 1, dinode'),
           TableStep(p, 0), \A s \in Slots : itable'[s].lock # p
    PROVE  IInv' /\ Frame(p)
<1> DEFINE v == ip[p]
           i == Inum(v)
           x == dinode[i].nlink - 1
<1>1. /\ Keeps(p) /\ v \in Slots /\ v \in 0..NINODE /\ PointsTo(p, v) /\ i \in Inums /\ Owed[p] = i
      /\ dinode[i].nlink \in Nat /\ dinode[i].nlink >= 1 /\ dinode[i].type # "none"
  BY OwedIs
<1>2. InodeSet(dinode, i, x, dinode') /\ x \in Nat /\ dinode[i].nlink - x = 1
  BY <1>1
<1>3. Mine(p, i)
  BY <1>1, MineIs DEF Inum
<1> HIDE DEF i, x
<1>4. LocalCall(p) /\ pc'[p] = "user" /\ call'[p] = Idle /\ walk'[p] = 0 /\ ip'[p] = 0
  BY EndsIs DEF IInv
<1>5. ~Walks(p)' /\ ~Keeps(p)' /\ ~Owing(p)'
  BY <1>4 DEF Walks, Keeps, Owing, Idle
<1>6. LocalPut(p) /\ put'[p] = v /\ freeing'[p] = "no"
  BY <1>1, PutsIs DEF IInv
<1>7. LocalFile(p) /\ cwd'[p] = cwd[p] /\ ofile'[p] = ofile[p] /\ \A s : Filed(s)' = Filed(s)
  <2>1. calls' \in Nat /\ UNCHANGED <<cwd, ofile>>
    BY DEF NoFile, IInv, TypeOK
  <2> QED
    BY <2>1, NoFileIs DEF IInv
<1>8. \A s \in Slots : ~Holds(p, s)'
  BY <1>4, <1>6 DEF Holds
<1>9. Writes(p, 0)
  <2>1. \A s \in Slots : PointsTo(p, s)' => PointsTo(p, s)
    BY <1>5, <1>7 DEF PointsTo
  <2>2. LocksAfter(p)
    BY <1>8 DEF LocksAfter
  <2>3. DiskType'
    BY <1>2 DEF DiskType, IInv, TypeOK, InodeSet, Disks
  <2>4. ASSUME NEW s \in Slots PROVE Own(p, s)' + Filed(s)' <= Own(p, s) + Filed(s) + Bit(s = 0)
    <3>1. Own(p, s)' = Bit(cwd[p] = s) + Bit(v = s) /\ Own(p, s) = Bit(cwd[p] = s) + Bit(v = s)
      BY <1>1, <1>5, <1>6, <1>7, Numbers DEF Own, Bit
    <3>2. Filed(s)' = Filed(s) /\ Filed(s) \in Nat
      BY <1>7, PointersAre DEF IInv
    <3> QED
      BY <3>1, <3>2 DEF Bit
  <2>5. \A j \in Inums :
          /\ entries'[j] = entries[j]
          /\ dinode'[j] = dinode[j] \/ Mine(p, j)
          /\ dinode'[j].type = dinode[j].type
    BY <1>2, <1>3 DEF InodeSet
  <2>6. panicked' \in PanicType
    BY DEF PanicType
  <2> QED
    BY <1>4, <1>6, <1>7, <2>1, <2>2, <2>3, <2>4, <2>5, <2>6 DEF Writes, Local
<1>10. LocalsAfter(p)
  BY <1>4, <1>5 DEF LocalsAfter, CallOK, PlaceOK, Idle, Creates
<1>11. LinksCounted'
  <2>1. TypeOK' /\ RefsCover' /\ Frame(p)
    BY <1>9, WritesFrame
  <2>2. Owed'[p] = 0 /\ i # 0
    BY <1>1, <1>5, Numbers DEF Owed
  <2>3. dinode[i].nlink - x <= Bit(Owed[p] = i) - Bit(Owed'[p] = i)
    BY <1>1, <1>2, <2>2 DEF Bit
  <2>4. \A j \in Inums \ {i} : Owed'[p] = j => Owed[p] = j
    BY <2>2, Numbers
  <2> QED
    BY <1>1, <1>2, <2>1, <2>3, <2>4, CountedStep
<1> QED
  BY <1>9, <1>10, <1>11, WritesStep

LEMMA LinkBadStep ==
    ASSUME IInv, NEW p \in Procs, LinkBad(p)
    PROVE  IInv' /\ Frame(p)
<1> DEFINE v == ip[p]
           i == Inum(v)
           t == Loaded(v)
           x == dinode[i].nlink - 1
           u == NlinkInTable(t, v, -1)
<1>1. /\ At(p, "link_bad") /\ Lockable(v) /\ Puts(p, v) /\ Ends(p) /\ NoFile
      /\ itable' = u /\ dinode' = NlinkOnDisk(dinode, t, v, -1)
      /\ UNCHANGED <<entries, target, freeing, panicked>>
  BY DEF LinkBad
<1>2. /\ panicked = "no" /\ put[p] = 0 /\ pc[p] = "link_bad" /\ freeing[p] = "no"
      /\ \A s \in Slots : itable[s].lock # p
  BY <1>1, HasNoLock DEF Unlocks
<1>3. call[p].op = "link2"
  BY <1>2 DEF IInv, CallsOK, CallOK
<1>4. ~Walks(p) /\ Owing(p)
  BY <1>2, <1>3 DEF Walks, Owing
<1>5. /\ v \in Slots /\ i \in Inums /\ dinode[i].nlink \in Nat /\ dinode[i].nlink >= 1
      /\ itable[v].ref > 0 /\ x \in Nat
  BY <1>2, <1>4, OwedIs
<1>6. /\ t \in Tables /\ t[v].inum = i /\ t[v].nlink = dinode[i].nlink /\ t[v].lock = 0
      /\ itable[v].lock = 0 /\ Tabled(p, t, dinode) /\ \A s \in Slots : t[s].lock = itable[s].lock
  BY <1>1, <1>5, LoadedIs, LoadStep DEF IInv, Inum
<1>7. t[v].nlink + (-1) = x
  BY <1>5, <1>6
<1>8. NlinkSet(t, v, x, u)
  <2>1. -1 \in Int
    OBVIOUS
  <2> HIDE DEF t, x
  <2> QED
    BY <1>5, <1>6, <1>7, <2>1, NlinkSetIs
<1>9. InodeSet(dinode, i, x, dinode')
  <2>1. dinode' = [dinode EXCEPT ![i].nlink = x]
    BY <1>1, <1>6, <1>7 DEF NlinkOnDisk
  <2>2. dinode \in Disks
    BY DEF IInv, TypeOK, Disks
  <2> HIDE DEF i, x
  <2> QED
    BY <1>5, <2>1, <2>2, InodeSetIs
<1>10. Tabled(p, u, dinode')
  <2> HIDE DEF t, u, x
  <2> QED
    BY <1>5, <1>6, <1>8, <1>9, TabledNlink DEF i, Inum
<1>11. TableStep(p, 0)
  <2> HIDE DEF u
  <2> QED
    BY <1>1, <1>10, TabledStep
<1>12. \A s \in Slots : itable'[s].lock # p
  <2>1. u[v].lock = t[v].lock /\ \A s \in Slots \ {v} : u[s] = t[s]
    <3>1. t[v] \in Entry
      BY <1>5, <1>6 DEF Tables
    <3> HIDE DEF u, t, x
    <3> QED
      BY <1>8, <3>1 DEF NlinkSet, Entry
  <2> QED
    BY <1>1, <1>2, <1>6, <2>1
<1> HIDE DEF t, u
<1> QED
  BY <1>1, <1>2, <1>4, <1>6, <1>9, <1>11, <1>12, PaidStep

LEMMA UnlinkNlinkStep ==
    ASSUME IInv, NEW p \in Procs, UnlinkNlink(p)
    PROVE  IInv' /\ Frame(p)
<1> DEFINE v == ip[p]
           i == Inum(v)
           x == dinode[i].nlink - 1
           t == NlinkInTable(itable, v, -1)
           u == Unlocked(t, v)
<1>1. /\ At(p, "erased") /\ Puts(p, v) /\ Ends(p) /\ NoFile
      /\ itable' = u /\ dinode' = NlinkOnDisk(dinode, itable, v, -1)
      /\ UNCHANGED <<entries, target, freeing, panicked>>
  BY DEF UnlinkNlink
<1>2. panicked = "no" /\ put[p] = 0 /\ pc[p] = "erased" /\ freeing[p] = "no"
  BY <1>1, TypesAre DEF At, IInv, CallsOK, PointersOK
<1>3. call[p].op = "unlink"
  BY <1>2 DEF IInv, CallsOK, CallOK
<1>4. ~Walks(p) /\ Owing(p) /\ \A s \in Slots : Holds(p, s) <=> v = s
  BY <1>2, <1>3 DEF Walks, Owing, Holds
<1>5. /\ v \in Slots /\ i \in Inums /\ dinode[i].nlink \in Nat /\ dinode[i].nlink >= 1
      /\ itable[v].ref > 0 /\ x \in Nat
  BY <1>2, <1>4, OwedIs
<1>6. itable[v].lock = p /\ itable[v].valid /\ \A s \in Slots : itable[s].lock = p => s = v
  BY <1>2, <1>4, <1>5 DEF IInv, CallsOK, LocksOK
<1>7. Tabled(p, itable, dinode) /\ itable \in Tables /\ itable[v].inum = i /\ itable[v].nlink = dinode[i].nlink
  BY <1>5, <1>6, TabledSame DEF Tabled, Inum
<1>8. itable[v].nlink + (-1) = x
  BY <1>5, <1>7
<1>9. NlinkSet(itable, v, x, t)
  <2>1. -1 \in Int
    OBVIOUS
  <2> HIDE DEF x
  <2> QED
    BY <1>5, <1>7, <1>8, <2>1, NlinkSetIs
<1>10. InodeSet(dinode, i, x, dinode')
  <2>1. dinode' = [dinode EXCEPT ![i].nlink = x]
    BY <1>1, <1>7, <1>8 DEF NlinkOnDisk
  <2>2. dinode \in Disks
    BY DEF IInv, TypeOK, Disks
  <2> HIDE DEF i, x
  <2> QED
    BY <1>5, <2>1, <2>2, InodeSetIs
<1>11. Tabled(p, t, dinode')
  <2> HIDE DEF t, x
  <2> QED
    BY <1>5, <1>6, <1>7, <1>9, <1>10, TabledNlink DEF i, Inum
<1> HIDE DEF t, x
<1>12. t \in Tables /\ t[v].lock = p /\ \A s \in Slots \ {v} : t[s] = itable[s]
  <2>1. itable[v] \in Entry
    BY <1>5, <1>7 DEF Tables
  <2> QED
    BY <1>6, <1>9, <2>1 DEF NlinkSet, Entry
<1>13. LockSet(t, v, 0, u)
  BY <1>5, <1>12, LockSetIs DEF Unlocked
<1> HIDE DEF u
<1>14. Tabled(p, u, dinode')
  BY <1>5, <1>11, <1>12, <1>13, TabledLock
<1>15. TableStep(p, 0)
  BY <1>1, <1>14, TabledStep
<1>16. \A s \in Slots : itable'[s].lock # p
  <2>1. t[v] \in Entry
    BY <1>5, <1>12 DEF Tables
  <2>2. u[v].lock = 0 /\ \A s \in Slots \ {v} : u[s] = t[s]
    BY <1>13, <2>1 DEF LockSet, Entry
  <2> QED
    BY <1>1, <1>6, <1>12, <2>2, Numbers
<1>17. InodeSet(dinode, i, dinode[i].nlink - 1, dinode')
  BY <1>10 DEF x
<1> QED
  BY <1>1, <1>2, <1>4, <1>6, <1>15, <1>16, <1>17, PaidStep

\* What a step that changes a name does to the links of an inode.
LEMMA NamedStep ==
    ASSUME IInv, NEW p \in Procs, TypeOK', RefsCover', Frame(p), NEW d \in Inums, NEW n \in Names,
           NEW v \in 0..NINODES, Named(d, n, v),
           \A i \in Inums : dinode'[i].type = dinode[i].type, NEW j \in Inums
    PROVE  /\ Links(j) \in Nat /\ dinode[j].nlink \in Nat /\ dinode[j].nlink >= Links(j)
           /\ j # d => Links(j)' = Links(j) + Bit(v = j) - Bit(entries[d][n] = j)
                                   + Bit(Owed'[p] = j) - Bit(Owed[p] = j)
           /\ j = d => Links(j)' = Links(j) + Bit(v = j) - Bit(entries[d][n] = j)
                                   + Bit(Owed'[p] = j) - Bit(Owed[p] = j)
                                   + Bit(IsDir(v)) - Bit(IsDir(entries[d][n]))
           /\ dinode[j].type = "none" => dinode[j].nlink = 0
<1>1. Cardinality(NamesOf(j))' = Cardinality(NamesOf(j)) + Bit(v = j) - Bit(entries[d][n] = j)
  <2>1. TypeOK
    BY DEF IInv
  <2> QED
    BY <2>1, NamesStep
<1>2. /\ j # d => SubDirs(j)' = SubDirs(j)
      /\ Cardinality(SubDirs(d))' = Cardinality(SubDirs(d)) + Bit(IsDir(v)) - Bit(IsDir(entries[d][n]))
  BY SubDirsStep DEF IInv, Named
<1>3. Count(Owed, j)' = Count(Owed, j) + Bit(Owed'[p] = j) - Bit(Owed[p] = j)
  BY OwedStep
<1>4. /\ Cardinality(NamesOf(j)) \in Nat /\ Cardinality(SubDirs(j)) \in Nat /\ Count(Owed, j) \in Nat
      /\ dinode[j].nlink \in Nat
  BY LinksType DEF IInv
<1>5. /\ Links(j) = Cardinality(NamesOf(j)) + Cardinality(SubDirs(j)) + Count(Owed, j)
      /\ Links(j)' = Cardinality(NamesOf(j))' + Cardinality(SubDirs(j))' + Count(Owed, j)'
  BY DEF Links
<1>6. dinode[j].nlink >= Links(j) /\ (dinode[j].type = "none" => dinode[j].nlink = 0)
  BY DEF IInv, LinksCounted
<1>7. \A b : Bit(b) \in Int
  BY DEF Bit
<1>8. j # d => Cardinality(SubDirs(j))' = Cardinality(SubDirs(j))
  BY <1>2
<1>9. j = d => Cardinality(SubDirs(j))' = Cardinality(SubDirs(j)) + Bit(IsDir(v)) - Bit(IsDir(entries[d][n]))
  BY <1>2
<1> HIDE DEF Bit
<1>10. ASSUME j # d
       PROVE Links(j)' = Links(j) + Bit(v = j) - Bit(entries[d][n] = j)
                                   + Bit(Owed'[p] = j) - Bit(Owed[p] = j)
  BY <1>1, <1>3, <1>4, <1>5, <1>7, <1>8, <1>10
<1>11. ASSUME j = d
       PROVE Links(j)' = Links(j) + Bit(v = j) - Bit(entries[d][n] = j)
                                   + Bit(Owed'[p] = j) - Bit(Owed[p] = j)
                                   + Bit(IsDir(v)) - Bit(IsDir(entries[d][n]))
  BY <1>1, <1>3, <1>4, <1>5, <1>7, <1>9, <1>11
<1>12. Links(j) \in Nat
  BY <1>4, <1>5
<1> QED
  BY <1>4, <1>6, <1>10, <1>11, <1>12

LEMMA LinkNewStep ==
    ASSUME IInv, NEW p \in Procs, LinkNew(p)
    PROVE  IInv' /\ Frame(p)
<1> DEFINE w == walk[p]
           n == Name(p)
           d == Inum(w)
           i == entries[d][n]
           v == Inum(ip[p])
<1>1. /\ At(p, "parent") /\ Lockable(w) /\ call[p].op = "link2" /\ itable' = Loaded(w) /\ Puts(p, w)
      /\ UNCHANGED <<dinode, target, freeing, call, walk, ip>> /\ NoFile
  BY DEF LinkNew
<1>2. /\ panicked = "no" /\ put[p] = 0 /\ pc[p] = "parent" /\ freeing[p] = "no"
      /\ Walks(p) /\ w \in Slots /\ w \in 0..NINODE /\ PointsTo(p, w) /\ d \in Inums /\ n \in Names
      /\ itable[w].lock = 0 /\ itable[w].ref > 0 /\ dinode[d].type = "T_DIR"
      /\ \A s \in Slots : itable[s].lock # p
  BY <1>1, ParentIs
<1>3. Keeps(p) /\ Owing(p)
  BY <1>1, <1>2 DEF Keeps, Owing
<1>4. /\ ip[p] \in Slots /\ ip[p] \in 0..NINODE /\ ip[p] # 0 /\ PointsTo(p, ip[p]) /\ v \in Inums /\ Owed[p] = v
  BY <1>2, <1>3, OwedIs, Numbers
<1>5. TableStep(p, 0) /\ \A s \in Slots : itable'[s].lock # p
  BY <1>1, <1>2, LoadStep
<1>6. dinode'[Inum(ip[p])'].type # "T_DIR"
  BY <1>1, <1>2, <1>5, OldKept
<1>7. LocalPut(p) /\ put'[p] = w /\ freeing'[p] = "no"
  BY <1>1, <1>2, PutsIs DEF IInv
<1>8. LocalFile(p) /\ cwd'[p] = cwd[p] /\ ofile'[p] = ofile[p] /\ \A s : Filed(s)' = Filed(s)
  <2>1. calls' \in Nat /\ UNCHANGED <<cwd, ofile>>
    BY <1>1 DEF NoFile, IInv, TypeOK
  <2> QED
    BY <2>1, NoFileIs DEF IInv
<1>9. ASSUME NEW place \in {"link_bad", "linked"}, Goes(p, place), panicked' \in PanicType
      PROVE  /\ LocalCall(p) /\ pc'[p] = place /\ walk'[p] = w /\ ip'[p] = ip[p] /\ call'[p] = call[p]
             /\ ~Walks(p)' /\ Keeps(p)' /\ LocksAfter(p) /\ (Owing(p)' <=> place # "linked")
             /\ \A s \in Slots : PointsTo(p, s)' => PointsTo(p, s)
             /\ \A s \in Slots : Own(p, s)' + Filed(s)' <= Own(p, s) + Filed(s) + Bit(s = 0)
             /\ LocalsAfter(p)
  <2>1. place \in Places
    BY DEF Places
  <2>2. LocalCall(p) /\ pc'[p] = place /\ walk'[p] = w /\ ip'[p] = ip[p] /\ call'[p] = call[p]
    BY <1>1, <1>9, <2>1, GoesIs, StaysIs DEF IInv, LocalCall
  <2>3. ~Walks(p)' /\ Keeps(p)' /\ (Owing(p)' <=> place # "linked") /\ \A s \in Slots : ~Holds(p, s)'
    BY <1>1, <1>7, <2>2 DEF Walks, Keeps, Owing, Holds
  <2>4. \A s \in Slots : PointsTo(p, s)' => PointsTo(p, s)
    BY <1>3, <1>8, <2>2, <2>3 DEF PointsTo
  <2>5. ASSUME NEW s \in Slots PROVE Own(p, s)' + Filed(s)' <= Own(p, s) + Filed(s) + Bit(s = 0)
    <3>1. /\ Own(p, s)' = Bit(cwd[p] = s) + Bit(w = s) + Bit(ip[p] = s)
          /\ Own(p, s) = Bit(cwd[p] = s) + Bit(w = s) + Bit(ip[p] = s)
      BY <1>2, <1>3, <1>7, <1>8, <2>2, <2>3, Numbers DEF Own, Bit
    <3>2. Filed(s)' = Filed(s) /\ Filed(s) \in Nat
      BY <1>8, PointersAre DEF IInv
    <3> QED
      BY <3>1, <3>2 DEF Bit
  <2>6. LocksAfter(p)
    BY <1>5, <2>3 DEF LocksAfter
  <2>7. CallOK(p)' /\ PlaceOK(p)'
    BY <1>1, <1>6, <2>2 DEF CallOK, PlaceOK, Creates
  <2>8. LocalsAfter(p)
    BY <1>4, <2>2, <2>3, <2>7 DEF LocalsAfter
  <2> QED
    BY <2>2, <2>3, <2>4, <2>5, <2>6, <2>8
<1>10. CASE Goes(p, "link_bad") /\ panicked' = GetPanics(Loaded(w), i) /\ UNCHANGED entries
  <2>1. panicked' \in PanicType
    BY <1>10 DEF GetPanics, PanicType
  <2>2. /\ LocalCall(p) /\ ip'[p] = ip[p] /\ LocksAfter(p) /\ Owing(p)' /\ LocalsAfter(p)
        /\ \A s \in Slots : PointsTo(p, s)' => PointsTo(p, s)
        /\ \A s \in Slots : Own(p, s)' + Filed(s)' <= Own(p, s) + Filed(s) + Bit(s = 0)
    BY <1>9, <1>10, <2>1
  <2>3. Plain(p, 0)
    BY <1>1, <1>2, <1>5, <1>7, <1>8, <1>10, <2>1, <2>2 DEF Plain, Local, disk
  <2> QED
    BY <1>3, <2>2, <2>3, PlainStep
<1>11. CASE /\ i = 0 /\ Goes(p, "linked") /\ UNCHANGED panicked
            /\ entries' = [entries EXCEPT ![d][n] = v]
  <2>1. panicked' \in PanicType
    BY <1>2, <1>11 DEF PanicType
  <2>2. /\ LocalCall(p) /\ LocksAfter(p) /\ ~Owing(p)' /\ LocalsAfter(p)
        /\ \A s \in Slots : PointsTo(p, s)' => PointsTo(p, s)
        /\ \A s \in Slots : Own(p, s)' + Filed(s)' <= Own(p, s) + Filed(s) + Bit(s = 0)
    BY <1>9, <1>11, <2>1
  <2>3. Mine(p, d)
    BY <1>2, MineIs DEF Inum
  <2>4. v \in 0..NINODES /\ dinode[v].type # "T_DIR"
    BY <1>1, <1>2, <1>4, Numbers DEF IInv, CallsOK, PlaceOK
  <2> HIDE DEF d, n, i, v
  <2>5. entries' \in [Inums -> [Names -> 0..NINODES]] /\ \A j \in Inums \ {d} : entries'[j] = entries[j]
    <3>1. entries \in [Inums -> [Names -> 0..NINODES]]
      BY DEF IInv, TypeOK
    <3> QED
      BY <1>2, <1>11, <2>4, <3>1
  <2>6. DiskType'
    BY <1>1, <2>5 DEF DiskType, IInv, TypeOK
  <2>7. Writes(p, 0)
    <3>1. \A j \in Inums :
            /\ entries'[j] = entries[j] \/ (Mine(p, j) /\ dinode[j].type = "T_DIR")
            /\ dinode'[j] = dinode[j]
      BY <1>1, <1>2, <2>3, <2>5
    <3> QED
      BY <1>1, <1>2, <1>5, <1>7, <1>8, <2>1, <2>2, <2>6, <3>1 DEF Writes, Local
  <2>8. LinksCounted'
    <3>1. TypeOK' /\ RefsCover' /\ Frame(p)
      BY <2>7, WritesFrame
    <3>2. Owed'[p] = 0 /\ ~IsDir(v) /\ ~IsDir(0) /\ 0 \notin Inums
      BY <2>2, <2>4, Numbers DEF Owed, IsDir
    <3>3. \A j \in Inums : dinode'[j].type = dinode[j].type
      BY <1>1
    <3>5. Named(d, n, v)
      BY <1>11 DEF Named
    <3>4. ASSUME NEW j \in Inums
          PROVE  dinode'[j].nlink >= Links(j)' /\ (dinode'[j].type = "none" => dinode'[j].nlink = 0)
      <4>1. /\ Links(j) \in Nat /\ dinode[j].nlink \in Nat /\ dinode[j].nlink >= Links(j)
            /\ j # d => Links(j)' = Links(j) + Bit(v = j) - Bit(entries[d][n] = j)
                                   + Bit(Owed'[p] = j) - Bit(Owed[p] = j)
            /\ j = d => Links(j)' = Links(j) + Bit(v = j) - Bit(entries[d][n] = j)
                                   + Bit(Owed'[p] = j) - Bit(Owed[p] = j)
                                   + Bit(IsDir(v)) - Bit(IsDir(entries[d][n]))
            /\ dinode[j].type = "none" => dinode[j].nlink = 0
        BY <1>2, <2>4, <3>1, <3>3, <3>5, NamedStep
      <4>2. /\ Bit(entries[d][n] = j) = 0 /\ Bit(Owed'[p] = j) = 0 /\ Bit(IsDir(v)) = 0
            /\ Bit(IsDir(entries[d][n])) = 0 /\ Bit(Owed[p] = j) = Bit(v = j) /\ Bit(v = j) \in Int
        BY <1>4, <1>11, <3>2 DEF Bit, i
      <4>3. Links(j)' = Links(j)
        <5> HIDE DEF Bit
        <5> QED
          BY <4>1, <4>2
      <4> QED
        BY <1>1, <4>1, <4>3
    <3> QED
      BY <3>4 DEF LinksCounted
  <2> QED
    BY <2>2, <2>7, <2>8, WritesStep
<1> QED
  BY <1>10, <1>11 DEF LinkNew

LEMMA UnlinkErasesStep ==
    ASSUME IInv, NEW p \in Procs, UnlinkErases(p)
    PROVE  IInv' /\ Frame(p)
<1> DEFINE w == walk[p]
           v == ip[p]
           n == Name(p)
           d == Inum(w)
           i == Inum(v)
           down == Loses(v)
           x == dinode[d].nlink + down
           t0 == Loaded(v)
           t == Locked(t0, v, p)
           u1 == NlinkInTable(t, w, down)
           u == Unlocked(u1, w)
<1>1. /\ At(p, "victim") /\ Lockable(v) /\ Puts(p, w) /\ Goes(p, "erased")
      /\ itable' = u /\ dinode' = NlinkOnDisk(dinode, itable, w, down)
      /\ entries' = [entries EXCEPT ![d][n] = 0]
      /\ UNCHANGED <<target, freeing, panicked, call, walk, ip>> /\ NoFile
  BY DEF UnlinkErases
<1>2. /\ panicked = "no" /\ put[p] = 0 /\ pc[p] = "victim" /\ freeing[p] = "no"
  BY <1>1, TypesAre DEF At, IInv, CallsOK, PointersOK
<1>3. call[p].op = "unlink" /\ Rest(p) # <<>>
  BY <1>2 DEF IInv, CallsOK, CallOK
<1>4. Walks(p) /\ Keeps(p) /\ ~Owing(p) /\ \A s \in Slots : Holds(p, s) <=> w = s
  BY <1>2, <1>3 DEF Walks, Keeps, Owing, Holds
<1>5. /\ w \in Slots /\ v \in Slots /\ w \in 0..NINODE /\ v # 0 /\ PointsTo(p, w) /\ PointsTo(p, v)
      /\ n \in Names
  BY <1>2, <1>3, <1>4, UsedSlot, NameIs, Numbers DEF IInv
<1>6. /\ itable[w].lock = p /\ itable[w].valid /\ \A s \in Slots : itable[s].lock = p => s = w
  BY <1>2, <1>4, <1>5 DEF IInv, CallsOK, LocksOK
<1>7. entries[d][n] = i /\ dinode[d].type = "T_DIR"
  BY <1>2 DEF IInv, CallsOK, PlaceOK
<1>8. /\ itable[v].lock = 0 /\ v # w /\ itable[w].ref > 0 /\ itable[v].ref > 0
      /\ d \in Inums /\ i \in Inums /\ d # i /\ Mine(p, d)
  <2>1. itable[v].lock = 0 /\ itable[v].ref > 0
    BY <1>1 DEF Lockable
  <2>2. v # w
    BY <1>6, <2>1, Numbers
  <2>3. itable[w].ref > 0 /\ Mine(p, d) /\ d \in Inums
    BY <1>5, <1>6, MineIs DEF Inum
  <2>4. i \in Inums
    BY <1>5, <2>1, InumIs DEF IInv, Inum
  <2>5. d # i
    BY <1>5, <2>1, <2>2, <2>3, SameEntry DEF IInv, Inum
  <2> QED
    BY <2>1, <2>2, <2>3, <2>4, <2>5
<1>9. /\ Tabled(p, t0, dinode) /\ \A s \in Slots : t0[s].lock = itable[s].lock
      /\ Type(v) = dinode[i].type
  BY <1>1, <1>5, LoadStep
<1>10. /\ t0 \in Tables /\ t0[v].valid /\ \A s \in Slots \ {v} : t0[s] = itable[s]
  BY <1>1, <1>5, LoadedIs DEF IInv
<1>11. /\ dinode[d].nlink \in Nat /\ itable[w].nlink = dinode[d].nlink
       /\ down \in Int /\ x \in Nat /\ down = 0 - Bit(IsDir(i))
  <2>1. dinode[d].nlink \in Nat
    BY <1>8, LinksType DEF IInv
  <2>2. itable[w].nlink = dinode[d].nlink
    BY <1>5, <1>6, <1>8 DEF IInv, EntriesOK, Inum
  <2>3. down = 0 - Bit(IsDir(i))
    BY <1>8, <1>9, Numbers DEF Loses, IsDir, Bit
  <2>4. x \in Nat
    <3> HIDE DEF d, i, n, down
    <3>1. CASE IsDir(i)
      <4>1. n \in SubDirs(d)
        BY <1>5, <1>7, <3>1 DEF SubDirs, IsDir
      <4>2. Cardinality(SubDirs(d)) # 0
        BY <1>8, <4>1, LinksType, FS_EmptySet DEF IInv
      <4>3. /\ Cardinality(NamesOf(d)) \in Nat /\ Cardinality(SubDirs(d)) \in Nat
            /\ Count(Owed, d) \in Nat
        BY <1>8, LinksType DEF IInv
      <4>4. dinode[d].nlink >= Cardinality(NamesOf(d)) + Cardinality(SubDirs(d)) + Count(Owed, d)
        BY <1>8 DEF IInv, LinksCounted, Links
      <4>5. dinode[d].nlink >= 1
        BY <2>1, <4>2, <4>3, <4>4
      <4> QED
        BY <2>1, <2>3, <3>1, <4>5 DEF Bit
    <3>2. CASE ~IsDir(i)
      BY <2>1, <2>3, <3>2 DEF Bit
    <3> QED
      BY <3>1, <3>2
  <2>5. down \in Int
    BY <2>3 DEF Bit
  <2> QED
    BY <2>1, <2>2, <2>3, <2>4, <2>5
<1> HIDE DEF t0
<1>12. LockSet(t0, v, p, t)
  BY <1>5, <1>10, LockSetIs DEF Locked
<1> HIDE DEF t
<1>13. Tabled(p, t, dinode)
  BY <1>5, <1>8, <1>9, <1>12, TabledLock
<1>14. /\ t \in Tables /\ t[v].lock = p /\ t[v].valid /\ \A s \in Slots \ {v} : t[s] = itable[s]
  <2>1. t0[v] \in Entry
    BY <1>5, <1>10 DEF Tables
  <2> QED
    BY <1>10, <1>12, <2>1 DEF LockSet, Entry
<1>15. t[w] = itable[w] /\ t[w].nlink + down = x
  BY <1>5, <1>8, <1>11, <1>14
<1> HIDE DEF x, down
<1>16. NlinkSet(t, w, x, u1)
  BY <1>5, <1>11, <1>14, <1>15, NlinkSetIs
<1>17. InodeSet(dinode, d, x, dinode')
  <2>1. dinode' = [dinode EXCEPT ![d].nlink = x]
    <3>1. dinode' = [dinode EXCEPT ![itable[w].inum].nlink = itable[w].nlink + down]
      BY <1>1 DEF NlinkOnDisk
    <3> QED
      BY <1>15, <3>1 DEF Inum
  <2>2. dinode \in Disks
    BY DEF IInv, TypeOK, Disks
  <2> HIDE DEF d
  <2> QED
    BY <1>8, <1>11, <2>1, <2>2, InodeSetIs
<1> HIDE DEF u1
<1>18. Tabled(p, u1, dinode')
  <2>1. InodeSet(dinode, itable[w].inum, x, dinode')
    BY <1>17 DEF Inum
  <2> QED
    BY <1>5, <1>6, <1>8, <1>13, <1>15, <1>16, <2>1, TabledNlink
<1>19. /\ u1 \in Tables /\ u1[w].lock = p /\ \A s \in Slots \ {w} : u1[s] = t[s]
  <2>1. t[w] \in Entry
    BY <1>5, <1>14 DEF Tables
  <2> QED
    BY <1>6, <1>15, <1>16, <2>1 DEF NlinkSet, Entry
<1>20. LockSet(u1, w, 0, u)
  BY <1>5, <1>19, LockSetIs DEF Unlocked
<1> HIDE DEF u
<1>21. Tabled(p, u, dinode')
  BY <1>5, <1>18, <1>19, <1>20, TabledLock
<1>22. TableStep(p, 0)
  BY <1>1, <1>21, TabledStep
<1>23. /\ itable'[v].lock = p /\ itable'[v].valid /\ \A s \in Slots \ {v} : itable'[s].lock # p
  <2>1. u1[w] \in Entry
    BY <1>5, <1>19 DEF Tables
  <2>2. u[w].lock = 0 /\ \A s \in Slots \ {w} : u[s] = u1[s]
    BY <1>20, <2>1 DEF LockSet, Entry
  <2>3. u[v] = t[v] /\ \A s \in Slots \ {v, w} : u[s] = itable[s]
    BY <1>5, <1>8, <1>14, <1>19, <2>2
  <2> QED
    BY <1>1, <1>5, <1>6, <1>14, <2>2, <2>3, Numbers
<1> HIDE DEF d, i, n
<1>24. LocalCall(p) /\ pc'[p] = "erased" /\ walk'[p] = w /\ ip'[p] = v /\ call'[p] = call[p]
  BY <1>1, GoesIs, StaysIs DEF IInv, LocalCall, Places
<1>25. LocalPut(p) /\ put'[p] = w /\ freeing'[p] = "no"
  BY <1>1, <1>2, <1>5, PutsIs DEF IInv
<1>26. LocalFile(p) /\ cwd'[p] = cwd[p] /\ ofile'[p] = ofile[p] /\ \A s : Filed(s)' = Filed(s)
  <2>1. calls' \in Nat /\ UNCHANGED <<cwd, ofile>>
    BY <1>1 DEF NoFile, IInv, TypeOK
  <2> QED
    BY <2>1, NoFileIs DEF IInv
<1>27. ~Walks(p)' /\ Keeps(p)' /\ Owing(p)' /\ \A s \in Slots : Holds(p, s)' <=> v = s
  BY <1>24, <1>25 DEF Walks, Keeps, Owing, Holds
<1>28. entries' \in [Inums -> [Names -> 0..NINODES]] /\ \A j \in Inums \ {d} : entries'[j] = entries[j]
  <2>1. entries \in [Inums -> [Names -> 0..NINODES]]
    BY DEF IInv, TypeOK
  <2> QED
    BY <1>1, <1>5, <2>1, Numbers
<1>29. /\ dinode' \in Disks /\ dinode'[d].nlink = x
       /\ \A j \in Inums : dinode'[j].type = dinode[j].type /\ (j # d => dinode'[j] = dinode[j])
  BY <1>8, <1>17 DEF InodeSet
<1>30. Writes(p, 0)
  <2>1. \A s \in Slots : PointsTo(p, s)' => PointsTo(p, s)
    BY <1>4, <1>24, <1>26, <1>27 DEF PointsTo
  <2>2. LocksAfter(p)
    BY <1>23, <1>27 DEF LocksAfter
  <2>3. DiskType'
    BY <1>1, <1>28, <1>29 DEF DiskType, IInv, TypeOK, Disks
  <2>4. ASSUME NEW s \in Slots PROVE Own(p, s)' + Filed(s)' <= Own(p, s) + Filed(s) + Bit(s = 0)
    <3>1. /\ Own(p, s)' = Bit(cwd[p] = s) + Bit(w = s) + Bit(v = s)
          /\ Own(p, s) = Bit(cwd[p] = s) + Bit(w = s) + Bit(v = s)
      BY <1>2, <1>4, <1>24, <1>25, <1>26, <1>27, Numbers DEF Own, Bit
    <3>2. Filed(s)' = Filed(s) /\ Filed(s) \in Nat
      BY <1>26, PointersAre DEF IInv
    <3> QED
      BY <3>1, <3>2 DEF Bit
  <2>5. \A j \in Inums :
          /\ entries'[j] = entries[j] \/ (Mine(p, j) /\ dinode[j].type = "T_DIR")
          /\ dinode'[j] = dinode[j] \/ Mine(p, j)
          /\ dinode'[j].type = dinode[j].type
    BY <1>7, <1>8, <1>28, <1>29
  <2>6. panicked' \in PanicType
    BY <1>1, <1>2 DEF PanicType
  <2> QED
    BY <1>1, <1>2, <1>22, <1>24, <1>25, <1>26, <2>1, <2>2, <2>3, <2>4, <2>5, <2>6 DEF Writes, Local
<1>31. LocalsAfter(p)
  BY <1>3, <1>5, <1>24, <1>27 DEF LocalsAfter, CallOK, PlaceOK, Creates
<1>32. LinksCounted'
  <2>1. TypeOK' /\ RefsCover' /\ Frame(p)
    BY <1>30, WritesFrame
  <2>2. Owed[p] = 0 /\ Owed'[p] = i
    <3>1. itable'[v].inum = itable[v].inum
      BY <1>5, <1>8, <1>22 DEF TableStep
    <3> QED
      BY <1>4, <1>24, <1>27, <3>1 DEF Owed, i, Inum
  <2>3. 0 \in 0..NINODES /\ ~IsDir(0) /\ 0 \notin Inums /\ Named(d, n, 0)
    BY <1>1, Numbers DEF IsDir, Named
  <2>4. ASSUME NEW j \in Inums
        PROVE  dinode'[j].nlink >= Links(j)' /\ (dinode'[j].type = "none" => dinode'[j].nlink = 0)
    <3>1. /\ Links(j) \in Nat /\ dinode[j].nlink \in Nat /\ dinode[j].nlink >= Links(j)
          /\ j # d => Links(j)' = Links(j) + Bit(0 = j) - Bit(entries[d][n] = j)
                                 + Bit(Owed'[p] = j) - Bit(Owed[p] = j)
          /\ j = d => Links(j)' = Links(j) + Bit(0 = j) - Bit(entries[d][n] = j)
                                 + Bit(Owed'[p] = j) - Bit(Owed[p] = j)
                                 + Bit(IsDir(0)) - Bit(IsDir(entries[d][n]))
          /\ dinode[j].type = "none" => dinode[j].nlink = 0
      BY <1>5, <1>8, <1>29, <2>1, <2>3, NamedStep
    <3>2. /\ Bit(0 = j) = 0 /\ Bit(Owed'[p] = j) = Bit(entries[d][n] = j) /\ Bit(Owed[p] = j) = 0
          /\ Bit(IsDir(0)) = 0 /\ Bit(IsDir(entries[d][n])) = Bit(IsDir(i))
          /\ Bit(entries[d][n] = j) \in Int /\ Bit(IsDir(i)) \in Int
      BY <1>7, <2>2, <2>3 DEF Bit
    <3>3. CASE j = d
      <4>1. dinode'[j].nlink = dinode[j].nlink - Bit(IsDir(i))
        <5> HIDE DEF Bit
        <5> QED
          BY <1>11, <1>29, <3>2, <3>3 DEF x
      <4>2. Links(j)' = Links(j) - Bit(IsDir(i))
        <5> HIDE DEF Bit
        <5> QED
          BY <3>1, <3>2, <3>3
      <4>3. dinode'[j].type = "T_DIR"
        BY <1>7, <1>29, <3>3
      <4> HIDE DEF Bit
      <4> QED
        BY <3>1, <3>2, <4>1, <4>2, <4>3
    <3>4. CASE j # d
      <4>1. dinode'[j] = dinode[j]
        BY <1>29, <3>4
      <4>2. Links(j)' = Links(j)
        <5> HIDE DEF Bit
        <5> QED
          BY <3>1, <3>2, <3>4
      <4> QED
        BY <3>1, <4>1, <4>2
    <3> QED
      BY <3>3, <3>4
  <2> QED
    BY <2>4 DEF LinksCounted
<1> QED
  BY <1>30, <1>31, <1>32, WritesStep

LEMMA NlinkSetTo ==
    ASSUME NEW t \in Tables, NEW w \in Slots, NEW x \in Nat
    PROVE  NlinkSet(t, w, x, [t EXCEPT ![w].nlink = x])
<1>1. t[w] \in Entry
  BY DEF Tables
<1> QED
  BY <1>1 DEF NlinkSet, Tables, Entry

LEMMA CreateLinksStep ==
    ASSUME IInv, NEW p \in Procs, CreateLinks(p)
    PROVE  IInv' /\ Frame(p)
<1> DEFINE w == walk[p]
           v == ip[p]
           n == Name(p)
           d == Inum(w)
           i == Inum(v)
           up == IF call[p].op = "mkdir" THEN 1 ELSE 0
           x == dinode[d].nlink + up
           t0 == Loaded(v)
           t1 == Locked(t0, v, p)
           t == [t1 EXCEPT ![v].nlink = 1]
           u1 == NlinkInTable(t, w, up)
           u == Unlocked(u1, w)
           di == [dinode EXCEPT ![i].nlink = 1]
<1>1. /\ At(p, "made") /\ Lockable(v) /\ Puts(p, w) /\ Goes(p, "created")
      /\ itable' = u /\ dinode' = NlinkOnDisk(di, itable, w, up)
      /\ entries' = [entries EXCEPT ![d][n] = i]
      /\ target' = IF call[p].op = "symlink" THEN [target EXCEPT ![i] = call[p].arg] ELSE target
      /\ UNCHANGED <<freeing, panicked, call, walk, ip>> /\ NoFile
  BY DEF CreateLinks
<1>2. /\ panicked = "no" /\ put[p] = 0 /\ pc[p] = "made" /\ freeing[p] = "no"
  BY <1>1, TypesAre DEF At, IInv, CallsOK, PointersOK
<1>3. /\ call[p].op \in Creates /\ Rest(p) # <<>> /\ (call[p].op = "symlink" => call[p].arg \in Targets)
  BY <1>2 DEF IInv, CallsOK, CallOK
<1>4. Walks(p) /\ Keeps(p) /\ ~Owing(p) /\ \A s \in Slots : Holds(p, s) <=> w = s
  BY <1>2, <1>3 DEF Walks, Keeps, Owing, Holds, Creates
<1>5. /\ w \in Slots /\ v \in Slots /\ w \in 0..NINODE /\ v # 0 /\ PointsTo(p, w) /\ PointsTo(p, v)
      /\ n \in Names
  BY <1>2, <1>3, <1>4, UsedSlot, NameIs, Numbers DEF IInv
<1>6. /\ itable[w].lock = p /\ itable[w].valid /\ \A s \in Slots : itable[s].lock = p => s = w
  BY <1>2, <1>4, <1>5 DEF IInv, CallsOK, LocksOK
<1>7. /\ entries[d][n] = 0 /\ dinode[d].type = "T_DIR" /\ w # v
      /\ dinode[i] = [type |-> TypeOf(call[p].op), nlink |-> 0]
  BY <1>2 DEF IInv, CallsOK, PlaceOK
<1>8. /\ itable[v].lock = 0 /\ itable[w].ref > 0 /\ itable[v].ref > 0
      /\ d \in Inums /\ i \in Inums /\ d # i /\ Mine(p, d) /\ Mine(p, i)
  <2>1. itable[v].lock = 0
    BY <1>1 DEF Lockable
  <2>2. itable[w].ref > 0 /\ Mine(p, d) /\ d \in Inums
    BY <1>5, <1>6, MineIs DEF Inum
  <2>3. itable[v].ref > 0 /\ Mine(p, i) /\ i \in Inums
    BY <1>5, <2>1, MineIs DEF Inum
  <2>4. d # i
    BY <1>5, <1>7, <2>2, <2>3, SameEntry DEF IInv, Inum
  <2> QED
    BY <2>1, <2>2, <2>3, <2>4
<1>9. /\ Tabled(p, t0, dinode) /\ \A s \in Slots : t0[s].lock = itable[s].lock
  BY <1>1, <1>5, LoadStep
<1>10. /\ t0 \in Tables /\ t0[v].valid /\ \A s \in Slots \ {v} : t0[s] = itable[s]
  BY <1>1, <1>5, LoadedIs DEF IInv
<1>11. /\ dinode[d].nlink \in Nat /\ itable[w].nlink = dinode[d].nlink /\ dinode[i].nlink = 0
       /\ up \in Int /\ x \in Nat /\ up = Bit(IsDir(i))
  <2>1. dinode[d].nlink \in Nat
    BY <1>8, LinksType DEF IInv
  <2>2. itable[w].nlink = dinode[d].nlink
    BY <1>5, <1>6, <1>8 DEF IInv, EntriesOK, Inum
  <2>3. dinode[i].nlink = 0 /\ dinode[i].type = TypeOf(call[p].op)
    BY <1>7
  <2>4. up = Bit(IsDir(i))
    BY <1>3, <1>8, <2>3, Numbers DEF IsDir, Bit, TypeOf, Creates
  <2> QED
    BY <2>1, <2>2, <2>3, <2>4
<1> HIDE DEF t0
<1>12. LockSet(t0, v, p, t1)
  BY <1>5, <1>10, LockSetIs DEF Locked
<1> HIDE DEF t1
<1>13. Tabled(p, t1, dinode)
  BY <1>5, <1>8, <1>9, <1>12, TabledLock
<1>14. /\ t1 \in Tables /\ t1[v].lock = p /\ t1[v].valid /\ \A s \in Slots \ {v} : t1[s] = itable[s]
  <2>1. t0[v] \in Entry
    BY <1>5, <1>10 DEF Tables
  <2> QED
    BY <1>10, <1>12, <2>1 DEF LockSet, Entry
<1>15. NlinkSet(t1, v, 1, t)
  BY <1>5, <1>14, NlinkSetTo
<1>16. InodeSet(dinode, i, 1, di)
  <2>1. dinode \in Disks
    BY DEF IInv, TypeOK, Disks
  <2> HIDE DEF i
  <2> QED
    BY <1>8, <2>1, InodeSetIs
<1> HIDE DEF t
<1>17. di[d] = dinode[d] /\ di \in Disks
  BY <1>8, <1>16 DEF InodeSet
<1>18. Tabled(p, t, di)
  <2>1. InodeSet(dinode, itable[v].inum, 1, di)
    BY <1>16 DEF Inum
  <2> HIDE DEF di
  <2> QED
    BY <1>5, <1>8, <1>13, <1>14, <1>15, <2>1, TabledNlink
<1>19. /\ t \in Tables /\ t[v].lock = p /\ t[v].valid /\ \A s \in Slots \ {v} : t[s] = itable[s]
  <2>1. t1[v] \in Entry
    BY <1>5, <1>14 DEF Tables
  <2> QED
    BY <1>14, <1>15, <2>1 DEF NlinkSet, Entry
<1>20. t[w] = itable[w] /\ t[w].nlink + up = x
  BY <1>5, <1>7, <1>11, <1>19
<1> HIDE DEF x, up, di
<1>21. NlinkSet(t, w, x, u1)
  BY <1>5, <1>11, <1>19, <1>20, NlinkSetIs
<1>22. InodeSet(di, d, x, dinode')
  <2>1. dinode' = [di EXCEPT ![d].nlink = x]
    <3>1. dinode' = [di EXCEPT ![itable[w].inum].nlink = itable[w].nlink + up]
      BY <1>1 DEF NlinkOnDisk
    <3> QED
      BY <1>20, <3>1 DEF Inum
  <2> HIDE DEF d
  <2> QED
    BY <1>8, <1>11, <1>17, <2>1, InodeSetIs
<1> HIDE DEF u1
<1>23. Tabled(p, u1, dinode')
  <2>1. InodeSet(di, itable[w].inum, x, dinode')
    BY <1>22 DEF Inum
  <2> QED
    BY <1>5, <1>6, <1>8, <1>18, <1>20, <1>21, <2>1, TabledNlink
<1>24. /\ u1 \in Tables /\ u1[w].lock = p /\ \A s \in Slots \ {w} : u1[s] = t[s]
  <2>1. t[w] \in Entry
    BY <1>5, <1>19 DEF Tables
  <2> QED
    BY <1>6, <1>20, <1>21, <2>1 DEF NlinkSet, Entry
<1>25. LockSet(u1, w, 0, u)
  BY <1>5, <1>24, LockSetIs DEF Unlocked
<1> HIDE DEF u
<1>26. Tabled(p, u, dinode')
  BY <1>5, <1>23, <1>24, <1>25, TabledLock
<1>27. TableStep(p, 0)
  BY <1>1, <1>26, TabledStep
<1>28. /\ itable'[v].lock = p /\ itable'[v].valid /\ \A s \in Slots \ {v} : itable'[s].lock # p
  <2>1. u1[w] \in Entry
    BY <1>5, <1>24 DEF Tables
  <2>2. u[w].lock = 0 /\ \A s \in Slots \ {w} : u[s] = u1[s]
    BY <1>25, <2>1 DEF LockSet, Entry
  <2>3. u[v] = t[v] /\ \A s \in Slots \ {v, w} : u[s] = itable[s]
    BY <1>5, <1>7, <1>19, <1>24, <2>2
  <2> QED
    BY <1>1, <1>5, <1>6, <1>19, <2>2, <2>3, Numbers
<1> HIDE DEF d, i, n
<1>29. LocalCall(p) /\ pc'[p] = "created" /\ walk'[p] = w /\ ip'[p] = v /\ call'[p] = call[p]
  BY <1>1, GoesIs, StaysIs DEF IInv, LocalCall, Places
<1>30. LocalPut(p) /\ put'[p] = w /\ freeing'[p] = "no"
  BY <1>1, <1>2, <1>5, PutsIs DEF IInv
<1>31. LocalFile(p) /\ cwd'[p] = cwd[p] /\ ofile'[p] = ofile[p] /\ \A s : Filed(s)' = Filed(s)
  <2>1. calls' \in Nat /\ UNCHANGED <<cwd, ofile>>
    BY <1>1 DEF NoFile, IInv, TypeOK
  <2> QED
    BY <2>1, NoFileIs DEF IInv
<1>32. ~Walks(p)' /\ Keeps(p)' /\ ~Owing(p)' /\ \A s \in Slots : Holds(p, s)' <=> v = s
  BY <1>3, <1>29, <1>30 DEF Walks, Keeps, Owing, Holds, Creates
<1>33. entries' \in [Inums -> [Names -> 0..NINODES]] /\ \A j \in Inums \ {d} : entries'[j] = entries[j]
  <2>1. entries \in [Inums -> [Names -> 0..NINODES]]
    BY DEF IInv, TypeOK
  <2>2. i \in 0..NINODES
    BY <1>8, Numbers
  <2> QED
    BY <1>1, <1>5, <2>1, <2>2
<1>34. /\ dinode' \in Disks /\ dinode'[d].nlink = x /\ dinode'[i].nlink = 1
       /\ \A j \in Inums : dinode'[j].type = dinode[j].type /\ (j \notin {d, i} => dinode'[j] = dinode[j])
  BY <1>8, <1>16, <1>22 DEF InodeSet
<1>35. target' \in [Inums -> Targets]
  <2>1. target \in [Inums -> Targets]
    BY DEF IInv, TypeOK
  <2> QED
    BY <1>1, <1>3, <2>1
<1>36. Writes(p, 0)
  <2>1. \A s \in Slots : PointsTo(p, s)' => PointsTo(p, s)
    BY <1>4, <1>29, <1>31, <1>32 DEF PointsTo
  <2>2. LocksAfter(p)
    BY <1>28, <1>32 DEF LocksAfter
  <2>3. DiskType'
    BY <1>33, <1>34, <1>35 DEF DiskType, Disks
  <2>4. ASSUME NEW s \in Slots PROVE Own(p, s)' + Filed(s)' <= Own(p, s) + Filed(s) + Bit(s = 0)
    <3>1. /\ Own(p, s)' = Bit(cwd[p] = s) + Bit(w = s) + Bit(v = s)
          /\ Own(p, s) = Bit(cwd[p] = s) + Bit(w = s) + Bit(v = s)
      BY <1>2, <1>4, <1>29, <1>30, <1>31, <1>32, Numbers DEF Own, Bit
    <3>2. Filed(s)' = Filed(s) /\ Filed(s) \in Nat
      BY <1>31, PointersAre DEF IInv
    <3> QED
      BY <3>1, <3>2 DEF Bit
  <2>5. \A j \in Inums :
          /\ entries'[j] = entries[j] \/ (Mine(p, j) /\ dinode[j].type = "T_DIR")
          /\ dinode'[j] = dinode[j] \/ Mine(p, j)
          /\ dinode'[j].type = dinode[j].type
    BY <1>7, <1>8, <1>33, <1>34
  <2>6. panicked' \in PanicType
    BY <1>1, <1>2 DEF PanicType
  <2> QED
    BY <1>1, <1>2, <1>27, <1>29, <1>30, <1>31, <2>1, <2>2, <2>3, <2>4, <2>5, <2>6 DEF Writes, Local
<1>37. LocalsAfter(p)
  BY <1>3, <1>5, <1>29, <1>32 DEF LocalsAfter, CallOK, PlaceOK, Creates
<1>38. LinksCounted'
  <2>1. TypeOK' /\ RefsCover' /\ Frame(p)
    BY <1>36, WritesFrame
  <2>2. Owed[p] = 0 /\ Owed'[p] = 0
    BY <1>4, <1>32 DEF Owed
  <2>3. i \in 0..NINODES /\ ~IsDir(0) /\ 0 \notin Inums /\ Named(d, n, i)
    BY <1>1, <1>8, Numbers DEF IsDir, Named
  <2>4. ASSUME NEW j \in Inums
        PROVE  dinode'[j].nlink >= Links(j)' /\ (dinode'[j].type = "none" => dinode'[j].nlink = 0)
    <3>1. /\ Links(j) \in Nat /\ dinode[j].nlink \in Nat /\ dinode[j].nlink >= Links(j)
          /\ j # d => Links(j)' = Links(j) + Bit(i = j) - Bit(entries[d][n] = j)
                                 + Bit(Owed'[p] = j) - Bit(Owed[p] = j)
          /\ j = d => Links(j)' = Links(j) + Bit(i = j) - Bit(entries[d][n] = j)
                                 + Bit(Owed'[p] = j) - Bit(Owed[p] = j)
                                 + Bit(IsDir(i)) - Bit(IsDir(entries[d][n]))
          /\ dinode[j].type = "none" => dinode[j].nlink = 0
      BY <1>5, <1>8, <1>34, <2>1, <2>3, NamedStep
    <3>2. /\ Bit(entries[d][n] = j) = 0 /\ Bit(Owed'[p] = j) = 0 /\ Bit(Owed[p] = j) = 0
          /\ Bit(IsDir(entries[d][n])) = 0 /\ Bit(IsDir(i)) \in Int
          /\ Bit(i = j) = IF i = j THEN 1 ELSE 0
      BY <1>7, <2>2, <2>3 DEF Bit
    <3>3. CASE j = d
      <4>1. dinode'[j].nlink = dinode[j].nlink + Bit(IsDir(i))
        <5> HIDE DEF Bit
        <5> QED
          BY <1>11, <1>34, <3>2, <3>3 DEF x
      <4>2. Links(j)' = Links(j) + Bit(IsDir(i))
        <5>1. Bit(i = j) = 0
          BY <1>8, <3>2, <3>3
        <5> HIDE DEF Bit
        <5> QED
          BY <3>1, <3>2, <3>3, <5>1
      <4>3. dinode'[j].type = "T_DIR"
        BY <1>7, <1>34, <3>3
      <4> HIDE DEF Bit
      <4> QED
        BY <3>1, <3>2, <4>1, <4>2, <4>3
    <3>4. CASE j = i
      <4>1. Bit(i = j) = 1 /\ j # d
        BY <1>8, <3>2, <3>4
      <4>2. Links(j)' = Links(j) + 1
        <5> HIDE DEF Bit
        <5> QED
          BY <3>1, <3>2, <4>1
      <4>3. dinode[j].nlink = 0 /\ dinode'[j].nlink = 1
        BY <1>11, <1>34, <3>4
      <4>4. dinode'[j].type # "none"
        <5>1. dinode[j].type = TypeOf(call[p].op)
          BY <1>7, <3>4
        <5> QED
          BY <1>34, <5>1 DEF TypeOf
      <4> QED
        BY <3>1, <4>2, <4>3, <4>4
    <3>5. CASE j # d /\ j # i
      <4>1. dinode'[j] = dinode[j] /\ Bit(i = j) = 0
        BY <1>34, <3>2, <3>5
      <4>2. Links(j)' = Links(j)
        <5> HIDE DEF Bit
        <5> QED
          BY <3>1, <3>2, <3>5, <4>1
      <4> QED
        BY <3>1, <4>1, <4>2
    <3> QED
      BY <3>3, <3>4, <3>5
  <2> QED
    BY <2>4 DEF LinksCounted
<1> QED
  BY <1>36, <1>37, <1>38, WritesStep

\* No valid entry is of a free inode.
LEMMA TabledAlloc ==
    ASSUME NEW p \in Procs, NEW t, Tabled(p, t, dinode), NEW i \in Inums, dinode[i].type = "none",
           NEW di, \A j \in Inums \ {i} : di[j] = dinode[j],
           \A s \in Slots : itable[s].ref > 0 => itable[s].inum \in Inums
    PROVE  Tabled(p, t, di)
<1> SUFFICES ASSUME NEW s \in Slots, t[s].ref > 0, t[s].valid
             PROVE  /\ t[s].type = di[t[s].inum].type /\ t[s].type # "none"
                    /\ t[s].nlink = di[t[s].inum].nlink
  BY DEF Tabled
<1>1. /\ t[s].type = dinode[t[s].inum].type /\ t[s].type # "none"
      /\ t[s].nlink = dinode[t[s].inum].nlink
  BY DEF Tabled
<1>2. t[s].inum \in Inums \ {i}
  BY <1>1 DEF Tabled
<1> QED
  BY <1>1, <1>2

LEMMA CreateAllocStep ==
    ASSUME IInv, NEW p \in Procs, CreateAlloc(p)
    PROVE  IInv' /\ Frame(p)
<1> DEFINE w == walk[p]
           n == Name(p)
           d == Inum(w)
           i == First(FreeInodes)
           t0 == Loaded(w)
           t == Locked(t0, w, p)
           g == GetSlot(t, i)
           e == [type |-> TypeOf(call[p].op), nlink |-> 0]
<1>1. /\ At(p, "parent") /\ call[p].op \in Creates /\ Lockable(w) /\ entries[d][n] = 0
      /\ Goes(p, "made") /\ UNCHANGED <<entries, target, put, freeing, call, walk>> /\ NoFile
  BY DEF CreateAlloc
<1>2. /\ panicked = "no" /\ put[p] = 0 /\ pc[p] = "parent" /\ freeing[p] = "no"
      /\ Walks(p) /\ w \in Slots /\ w \in 0..NINODE /\ w # 0 /\ PointsTo(p, w) /\ d \in Inums /\ n \in Names
      /\ itable[w].lock = 0 /\ itable[w].ref > 0 /\ dinode[d].type = "T_DIR"
      /\ Rest(p) # <<>> /\ WantsParent(p)
      /\ \A s \in Slots : itable[s].lock # p
  BY <1>1, ParentIs, Numbers
<1>3. ~Keeps(p) /\ ~Owing(p) /\ ip[p] = 0
  <2>1. ~Keeps(p) /\ ~Owing(p)
    BY <1>1, <1>2 DEF Keeps, Owing, Creates
  <2>2. ip[p] = 0
    BY <1>1, <1>2 DEF IInv, CallsOK, CallOK
  <2> QED
    BY <2>1, <2>2
<1>4. LocalPut(p) /\ put'[p] = 0 /\ freeing'[p] = "no"
  BY <1>1, <1>2, NoPuts DEF IInv
<1>5. LocalFile(p) /\ cwd'[p] = cwd[p] /\ ofile'[p] = ofile[p] /\ \A s : Filed(s)' = Filed(s)
  <2>1. calls' \in Nat /\ UNCHANGED <<cwd, ofile>>
    BY <1>1 DEF NoFile, IInv, TypeOK
  <2> QED
    BY <2>1, NoFileIs DEF IInv
<1>6. ASSUME NEW s \in 0..NINODE, ip' = [ip EXCEPT ![p] = s]
      PROVE  /\ LocalCall(p) /\ pc'[p] = "made" /\ walk'[p] = w /\ ip'[p] = s /\ call'[p] = call[p]
             /\ Walks(p)' /\ Keeps(p)' /\ ~Owing(p)' /\ \A r \in Slots : Holds(p, r)' <=> w = r
             /\ \A r \in Slots : PointsTo(p, r)' => PointsTo(p, r) \/ r = s
             /\ \A r \in Slots : Own(p, r)' + Filed(r)' <= Own(p, r) + Filed(r) + Bit(r = s)
             /\ CallOK(p)' /\ Rest(p)' = Rest(p) /\ Name(p)' = n
  <2>1. ip' = [ip EXCEPT ![p] = ip'[p]] /\ ip'[p] = s
    BY <1>6, TypesAre DEF IInv
  <2>2. /\ LocalCall(p) /\ pc'[p] = "made" /\ walk'[p] = w /\ ip'[p] = s /\ call'[p] = call[p]
    BY <1>1, <1>6, <2>1, GoesIs, StaysIs DEF IInv, LocalCall, Places
  <2>3. Walks(p)' /\ Keeps(p)' /\ ~Owing(p)' /\ \A r \in Slots : Holds(p, r)' <=> w = r
    BY <1>1, <1>4, <2>2 DEF Walks, Keeps, Owing, Holds, Creates
  <2>4. \A r \in Slots : PointsTo(p, r)' => PointsTo(p, r) \/ r = s
    BY <1>2, <1>5, <2>2, <2>3 DEF PointsTo
  <2>5. ASSUME NEW r \in Slots PROVE Own(p, r)' + Filed(r)' <= Own(p, r) + Filed(r) + Bit(r = s)
    <3>1. /\ Own(p, r)' = Bit(cwd[p] = r) + Bit(w = r) + Bit(r = s)
          /\ Own(p, r) = Bit(cwd[p] = r) + Bit(w = r)
      BY <1>2, <1>3, <1>4, <1>5, <2>2, <2>3, Numbers DEF Own, Bit
    <3>2. Filed(r)' = Filed(r) /\ Filed(r) \in Nat
      BY <1>5, PointersAre DEF IInv
    <3> QED
      BY <3>1, <3>2 DEF Bit
  <2>6. Rest(p)' = Rest(p) /\ Name(p)' = n /\ (WantsParent(p)' <=> WantsParent(p))
    BY <2>2 DEF Rest, Name, WantsParent
  <2>7. call[p].op = "symlink" => call[p].arg \in Targets
    BY DEF IInv, CallsOK, CallOK
  <2>8. CallOK(p)'
    BY <1>1, <1>2, <2>2, <2>6, <2>7 DEF CallOK, Creates
  <2> QED
    BY <2>2, <2>3, <2>4, <2>5, <2>6, <2>8
<1>7. CASE panicked' = "ialloc: no inodes" /\ UNCHANGED <<dinode, itable, ip>>
  <2>1. ip' = [ip EXCEPT ![p] = 0]
    BY <1>3, <1>7, TypesAre DEF IInv
  <2>2. /\ LocalCall(p) /\ ip'[p] = 0 /\ ~Owing(p)' /\ CallOK(p)'
        /\ \A r \in Slots : PointsTo(p, r)' => PointsTo(p, r) \/ r = 0
        /\ \A r \in Slots : Own(p, r)' + Filed(r)' <= Own(p, r) + Filed(r) + Bit(r = 0)
    BY <1>6, <2>1, Numbers
  <2>3. TableStep(p, 0)
    BY <1>7, SameStep
  <2>4. Plain(p, 0)
    BY <1>1, <1>2, <1>4, <1>5, <1>7, <2>2, <2>3 DEF Plain, Local, disk, LocksAfter, PanicType
  <2>5. LocalsAfter(p)
    BY <1>7, <2>2 DEF LocalsAfter, PlaceOK
  <2> QED
    BY <1>3, <2>2, <2>4, <2>5, PlainStep
<1>8. CASE /\ FreeInodes # {} /\ dinode' = [dinode EXCEPT ![i] = e]
           /\ itable' = Got(t, i) /\ panicked' = GetPanics(t, i) /\ ip' = [ip EXCEPT ![p] = g]
  <2>1. i \in Inums /\ dinode[i].type = "none"
    <3>1. FreeInodes \in SUBSET Inums
      BY DEF FreeInodes
    <3>2. IsFiniteSet(FreeInodes) /\ FreeInodes \subseteq Nat
      BY <3>1, FiniteInums, FS_Subset, Numbers
    <3>3. i \in FreeInodes
      BY <1>8, <3>2, FirstIs
    <3> QED
      BY <3>1, <3>3 DEF FreeInodes
  <2>2. /\ dinode[i].nlink = 0 /\ NamesOf(i) = {} /\ i # d /\ i # ROOTINO
    <3>1. dinode[i].nlink = 0
      BY <2>1 DEF IInv, LinksCounted
    <3>2. NamesOf(i) = {}
      BY <2>1, <3>1, NoLinks DEF IInv
    <3>3. dinode[ROOTINO].type = "T_DIR"
      BY DEF IInv, DirsOK
    <3> QED
      BY <1>2, <2>1, <3>1, <3>2, <3>3
  <2> HIDE DEF i
  <2>3. /\ dinode' \in Disks /\ dinode'[i] = e /\ \A j \in Inums \ {i} : dinode'[j] = dinode[j]
    <3>1. dinode \in Disks
      BY DEF IInv, TypeOK, Disks
    <3>2. TypeOf(call[p].op) \in Types
      BY DEF TypeOf, Types
    <3>3. e \in [type : Types, nlink : Nat]
      BY <3>2
    <3> HIDE DEF e
    <3> QED
      BY <1>8, <2>1, <3>1, <3>3 DEF Disks
  <2>4. e.type # "none" /\ e.nlink = 0
    BY DEF TypeOf
  <2>5. Tabled(p, t0, dinode) /\ \A s \in Slots : t0[s].lock = itable[s].lock
    BY <1>1, <1>2, LoadStep
  <2>6. /\ t0 \in Tables /\ t0[w].valid /\ t0[w].ref = itable[w].ref /\ t0[w].lock = 0
        /\ \A s \in Slots \ {w} : t0[s] = itable[s]
    BY <1>1, <1>2, LoadedIs DEF IInv
  <2> HIDE DEF t0, e
  <2>7. LockSet(t0, w, p, t)
    BY <1>2, <2>6, LockSetIs DEF Locked
  <2> HIDE DEF t
  <2>8. Tabled(p, t, dinode)
    BY <1>2, <2>5, <2>6, <2>7, TabledLock
  <2>9. /\ t[w].lock = p /\ t[w].valid /\ t[w].ref > 0 /\ \A s \in Slots \ {w} : t[s] = itable[s]
    <3>1. t0[w] \in Entry
      BY <1>2, <2>6 DEF Tables
    <3> QED
      BY <1>2, <2>6, <2>7, <3>1 DEF LockSet, Entry
  <2>10. \A s \in Slots : itable[s].ref > 0 => itable[s].inum \in Inums
    BY InumIs DEF IInv
  <2>11. Tabled(p, t, dinode')
    BY <2>1, <2>3, <2>8, <2>10, TabledAlloc
  <2>12. GetTable(p, t, i, g)
    BY <1>8, <2>1, <2>11, GotStep
  <2> HIDE DEF g
  <2>13. /\ TableStep(p, g) /\ (g # 0 => itable'[g].inum = i) /\ g \in 0..NINODE
         /\ \A s \in Slots : itable'[s].lock = t[s].lock \/ itable'[s].lock = 0
         /\ \A s \in Slots : t[s].ref > 0 => itable'[s].lock = t[s].lock /\ itable'[s].valid = t[s].valid
         /\ panicked' \in PanicType /\ (panicked' = "no" => g # 0)
    BY <1>8, <2>12 DEF GetTable
  <2>14. /\ LocalCall(p) /\ pc'[p] = "made" /\ walk'[p] = w /\ ip'[p] = g /\ call'[p] = call[p]
         /\ Walks(p)' /\ Keeps(p)' /\ ~Owing(p)' /\ (\A r \in Slots : Holds(p, r)' <=> w = r)
         /\ (\A r \in Slots : PointsTo(p, r)' => PointsTo(p, r) \/ r = g)
         /\ (\A r \in Slots : Own(p, r)' + Filed(r)' <= Own(p, r) + Filed(r) + Bit(r = g))
         /\ CallOK(p)' /\ Name(p)' = n
    BY <1>6, <1>8, <2>13
  <2>15. itable'[w].lock = p /\ itable'[w].valid /\ \A s \in Slots : itable'[s].lock = p => s = w
    <3>1. itable'[w].lock = p /\ itable'[w].valid
      BY <1>2, <2>9, <2>13
    <3>2. ASSUME NEW s \in Slots, s # w PROVE itable'[s].lock # p
      <4>1. t[s].lock # p
        BY <1>2, <2>9, <3>2
      <4>2. itable'[s].lock = t[s].lock \/ itable'[s].lock = 0
        BY <2>13
      <4> QED
        BY <4>1, <4>2, Numbers
    <3> QED
      BY <3>1, <3>2
  <2>16. itable'[w].inum = d
    BY <1>2, <2>13 DEF TableStep, Inum
  <2>17. ASSUME NEW q \in Procs, NEW s \in Slots, PointsTo(q, s) PROVE s # g
    <3>1. itable[s].ref > 0
      BY <2>17, Referred DEF IInv
    <3>2. dinode[itable[s].inum].type # "none"
      BY <2>17 DEF IInv, CallsOK, PointersOK
    <3>3. itable'[s].inum = itable[s].inum /\ s # 0
      BY <2>13, <3>1, Numbers DEF TableStep
    <3> QED
      BY <2>1, <2>13, <3>2, <3>3
  <2> HIDE DEF d, n
  <2>18. Writes(p, g)
    <3>1. LocksAfter(p)
      BY <2>14, <2>15 DEF LocksAfter
    <3>2. DiskType'
      BY <1>1, <2>3 DEF DiskType, Disks, IInv, TypeOK
    <3>3. g # 0 => dinode[itable'[g].inum].type = "none" /\ dinode'[itable'[g].inum].type # "none"
      BY <2>1, <2>3, <2>4, <2>13
    <3>4. \A j \in Inums :
            /\ entries'[j] = entries[j]
            /\ dinode'[j] = dinode[j] \/ dinode[j].type = "none"
            /\ dinode'[j].type = dinode[j].type \/ dinode[j].type = "none"
      BY <1>1, <2>1, <2>3
    <3> QED
      BY <1>1, <1>2, <1>4, <1>5, <2>13, <2>14, <3>1, <3>2, <3>3, <3>4 DEF Writes, Local
  <2>19. PlaceOK(p)'
    <3> SUFFICES ASSUME panicked' = "no" PROVE PlaceOK(p)'
      BY DEF PlaceOK
    <3>1. g # 0 /\ g \in Slots /\ itable'[g].inum = i
      BY <2>13, Numbers
    <3>2. Inum(walk[p])' = d /\ Inum(ip[p])' = i
      BY <2>14, <2>16, <3>1 DEF Inum
    <3>3. dinode'[d].type = "T_DIR" /\ entries'[d][n] = 0
      BY <1>1, <1>2, <2>2, <2>3 DEF d, n
    <3>4. dinode'[i] = [type |-> TypeOf(call[p].op), nlink |-> 0]
      BY <2>3 DEF e
    <3>5. w # g /\ cwd'[p] # g
      BY <1>2, <1>5, <2>17, UsedSlot
    <3>6. \A fd \in Fds : ofile'[p][fd] # g
      BY <1>5, <2>17, <3>1 DEF PointsTo
    <3>7. ASSUME NEW q \in Procs \ {p} PROVE ~PointsTo(q, ip[p])'
      <4>1. Others(p)
        <5>1. itable' \in Tables /\ panicked' \in PanicType /\ DiskType' /\ Local(p)
          BY <2>18 DEF Writes, TableStep
        <5> QED
          BY <5>1, LocalStep DEF IInv
      <4>2. \A r : PointsTo(q, r)' <=> PointsTo(q, r)
        BY <4>1 DEF PointsTo, Walks, Keeps, Others
      <4>3. \A r \in Slots : PointsTo(q, r)' => r # g
        BY <2>17, <4>2
      <4>4. ip'[p] = g /\ ip'[p] \in Slots
        BY <2>14, <3>1
      <4> QED
        BY <4>3, <4>4
    <3>8. call'[p].op # "link2"
      BY <1>1, <2>14 DEF Creates
    <3> QED
      BY <2>2, <2>14, <3>2, <3>3, <3>4, <3>5, <3>6, <3>7, <3>8 DEF PlaceOK
  <2>20. LocalsAfter(p)
    BY <1>2, <2>13, <2>14, <2>19 DEF LocalsAfter
  <2>21. LinksCounted'
    <3>1. TypeOK' /\ RefsCover' /\ Frame(p)
      BY <2>18, WritesFrame
    <3>2. Owed[p] = 0 /\ Owed'[p] = 0
      BY <1>3, <2>14 DEF Owed
    <3>3. ASSUME NEW j \in Inums PROVE Links(j)' = Links(j)
      <4>1. Count(Owed, j)' = Count(Owed, j)
        <5>1. Count(Owed, j)' = Count(Owed, j) + Bit(Owed'[p] = j) - Bit(Owed[p] = j)
          BY <3>1, OwedStep
        <5>2. Count(Owed, j) \in Nat
          BY LinksType DEF IInv
        <5> QED
          BY <3>2, <5>1, <5>2 DEF Bit
      <4>2. NamesOf(j)' = NamesOf(j)
        BY <1>1 DEF NamesOf
      <4>3. SubDirs(j)' = SubDirs(j)
        <5>1. ASSUME NEW m \in Names, entries[j][m] # 0 PROVE dinode'[entries[j][m]] = dinode[entries[j][m]]
          <6>1. entries[j][m] \in Inums /\ NamesOf(entries[j][m]) # {}
            BY <5>1, EntryIs DEF IInv
          <6> QED
            BY <2>2, <2>3, <6>1
        <5> QED
          BY <1>1, <5>1 DEF SubDirs
      <4> QED
        BY <4>1, <4>2, <4>3 DEF Links
    <3>4. ASSUME NEW j \in Inums
          PROVE dinode'[j].nlink >= Links(j)' /\ (dinode'[j].type = "none" => dinode'[j].nlink = 0)
      <4>1. dinode[j].nlink >= Links(j) /\ (dinode[j].type = "none" => dinode[j].nlink = 0)
        BY DEF IInv, LinksCounted
      <4>2. dinode'[j].nlink = dinode[j].nlink
        BY <2>2, <2>3, <2>4
      <4> QED
        BY <2>2, <2>3, <2>4, <3>3, <4>1, <4>2
    <3> QED
      BY <3>4 DEF LinksCounted
  <2> QED
    BY <2>18, <2>20, <2>21, WritesStep
<1>9. IF FreeInodes = {}
      THEN panicked' = "ialloc: no inodes" /\ UNCHANGED <<dinode, itable, ip>>
      ELSE /\ dinode' = [dinode EXCEPT ![i] = e]
           /\ itable' = Got(t, i) /\ panicked' = GetPanics(t, i) /\ ip' = [ip EXCEPT ![p] = g]
  BY DEF CreateAlloc
<1> HIDE DEF i, t, g, e
<1> QED
  BY <1>7, <1>8, <1>9

------------------------------------------------------------------------------
\* iput.

\* A step of an iput leaves the process where it is in its call.
Steady(p) ==
    /\ panicked = "no" /\ panicked' = "no"
    /\ UNCHANGED <<pc, call, walk, ip, cwd, ofile, calls>>
    /\ LocalPut(p)

LEMMA SteadyIs ==
    ASSUME IInv, NEW p \in Procs, panicked = "no", panicked' = panicked,
           UNCHANGED <<pc, call, walk, ip, cwd, ofile, calls>>,
           NEW s \in 0..NINODE, put' = [put EXCEPT ![p] = s],
           NEW f \in {"no", "trunc", "ref"}, freeing' = [freeing EXCEPT ![p] = f]
    PROVE  Steady(p) /\ put'[p] = s /\ freeing'[p] = f
BY TypesAre DEF Steady, LocalPut, IInv

\* What a process points to is not disturbed by its iput.
LEMMA SteadyLocals ==
    ASSUME IInv, NEW p \in Procs, Steady(p), itable' \in Tables, DiskType'
    PROVE  /\ TypeOK' /\ Others(p)
           /\ \A s : PointsTo(p, s)' <=> PointsTo(p, s)
           /\ (Owing(p)' <=> Owing(p)) /\ ip'[p] = ip[p]
           /\ \A s \in Slots : Own(p, s)' = Own(p, s) - Bit(put[p] = s) + Bit(put'[p] = s)
           /\ \A s : Filed(s)' = Filed(s)
<1>1. LocalCall(p) /\ LocalFile(p)
  <2>1. pc \in [Procs -> Places] /\ call \in [Procs -> CallType] /\ calls \in Nat
    BY DEF IInv, TypeOK, CallType
  <2> QED
    BY <2>1, TypesAre DEF Steady, LocalCall, LocalFile, IInv
<1>2. TypeOK' /\ Others(p)
  BY <1>1, LocalStep DEF IInv, Local, Steady, PanicType
<1>3. \A s : PointsTo(p, s)' <=> PointsTo(p, s)
  BY DEF Steady, PointsTo, Walks, Keeps
<1>4. \A s \in Slots : Own(p, s)' = Own(p, s) - Bit(put[p] = s) + Bit(put'[p] = s)
  <2>1. (Walks(p)' <=> Walks(p)) /\ (Keeps(p)' <=> Keeps(p))
    BY DEF Steady, Walks, Keeps
  <2> QED
    BY <2>1 DEF Steady, Own, Bit
<1> QED
  BY <1>2, <1>3, <1>4, FiledSame DEF Steady, Owing

LEMMA PutKeeps ==
    ASSUME IInv, NEW p \in Procs, Steady(p), itable' \in Tables, DiskType',
           freeing'[p] # "no" => put'[p] # 0,
           \A s \in Slots : PointsTo(p, s) =>
              /\ itable'[s].inum = itable[s].inum
              /\ dinode'[itable[s].inum] = dinode[itable[s].inum]
              /\ entries'[itable[s].inum] = entries[itable[s].inum]
    PROVE  CallOK(p)' /\ PointersOK(p)' /\ PlaceOK(p)'
<1>1. CallOK(p) /\ PointersOK(p) /\ PlaceOK(p)
  BY DEF IInv, CallsOK
<1>2. /\ panicked = "no" /\ panicked' = "no"
      /\ UNCHANGED <<pc, call, walk, ip, cwd, ofile, calls>>
      /\ \A s : PointsTo(p, s)' <=> PointsTo(p, s)
      /\ Others(p)
  BY SteadyLocals DEF Steady
<1>3. CallOK(p)'
  BY <1>1, <1>2 DEF CallOK, Rest, WantsParent
<1>4. PointersOK(p)'
  <2>1. ASSUME NEW s \in Slots, PointsTo(p, s)' PROVE dinode'[itable'[s].inum].type # "none"
    BY <1>1, <1>2, <2>1 DEF PointersOK
  <2> QED
    BY <1>1, <1>2, <2>1 DEF PointersOK, Walks, Keeps, Owing
<1>5. Walks(p) => /\ Inum(walk[p])' = Inum(walk[p])
                  /\ dinode'[Inum(walk[p])] = dinode[Inum(walk[p])]
                  /\ entries'[Inum(walk[p])] = entries[Inum(walk[p])]
  <2>1. Walks(p) => walk[p] \in Slots /\ PointsTo(p, walk[p])
    BY <1>1, <1>2, Numbers, TypesAre DEF PointersOK, PointsTo, IInv
  <2> QED
    BY <1>2, <2>1 DEF Inum
<1>6. Keeps(p) => /\ Inum(ip[p])' = Inum(ip[p])
                  /\ dinode'[Inum(ip[p])] = dinode[Inum(ip[p])]
  <2>1. Keeps(p) => ip[p] \in Slots /\ PointsTo(p, ip[p])
    BY <1>1, <1>2, Numbers, TypesAre DEF PointersOK, PointsTo, IInv
  <2> QED
    BY <1>2, <2>1 DEF Inum
<1>7. \A q \in Procs \ {p} : \A r : PointsTo(q, r)' <=> PointsTo(q, r)
  BY <1>2 DEF PointsTo, Walks, Keeps, Others
<1>8. (pc[p] \in {"parent", "made", "victim"} => dinode[Inum(walk[p])].type = "T_DIR")'
  BY <1>1, <1>2, <1>5 DEF PlaceOK, Walks
<1>9. (pc[p] = "victim" => entries[Inum(walk[p])][Name(p)] = Inum(ip[p]))'
  BY <1>1, <1>2, <1>5, <1>6 DEF PlaceOK, Walks, Keeps, Name, Rest
<1>10. (pc[p] = "made" =>
              /\ entries[Inum(walk[p])][Name(p)] = 0
              /\ dinode[Inum(ip[p])] = [type |-> TypeOf(call[p].op), nlink |-> 0]
              /\ Inum(ip[p]) # ROOTINO
              /\ walk[p] # ip[p] /\ cwd[p] # ip[p] /\ \A fd \in Fds : ofile[p][fd] # ip[p]
              /\ \A q \in Procs \ {p} : ~PointsTo(q, ip[p]))'
  <2> SUFFICES ASSUME pc[p] = "made"
               PROVE  /\ entries'[Inum(walk[p])'][Name(p)'] = 0
                      /\ dinode'[Inum(ip[p])'] = [type |-> TypeOf(call[p].op), nlink |-> 0]
                      /\ Inum(ip[p])' # ROOTINO
                      /\ walk[p] # ip[p] /\ cwd[p] # ip[p] /\ \A fd \in Fds : ofile[p][fd] # ip[p]
                      /\ \A q \in Procs \ {p} : ~PointsTo(q, ip[p])'
    BY <1>2
  <2>1. Walks(p) /\ Keeps(p) /\ Name(p)' = Name(p)
    BY <1>2 DEF Walks, Keeps, Name, Rest
  <2>2. /\ entries[Inum(walk[p])][Name(p)] = 0
        /\ dinode[Inum(ip[p])] = [type |-> TypeOf(call[p].op), nlink |-> 0]
        /\ Inum(ip[p]) # ROOTINO
        /\ walk[p] # ip[p] /\ cwd[p] # ip[p] /\ \A fd \in Fds : ofile[p][fd] # ip[p]
        /\ \A q \in Procs \ {p} : ~PointsTo(q, ip[p])
    BY <1>1, <1>2 DEF PlaceOK
  <2>3. \A q \in Procs \ {p} : ~PointsTo(q, ip[p])'
    <3>1. \A q \in Procs \ {p} : \A r : r = ip[p] => ~PointsTo(q, r)'
      BY <1>7, <2>2
    <3>2. ip'[p] = ip[p]
      BY <1>2
    <3> QED
      BY <3>1, <3>2
  <2> QED
    BY <1>5, <1>6, <2>1, <2>2, <2>3
<1>11. (call[p].op = "link2" => dinode[Inum(ip[p])].type # "T_DIR")'
  BY <1>1, <1>2, <1>6 DEF PlaceOK, Keeps
<1> QED
  BY <1>3, <1>4, <1>8, <1>9, <1>10, <1>11 DEF PlaceOK

\* Who has a lock that is not held for its iput refers to the entry once more.
LEMMA PutLocked ==
    ASSUME IInv, NEW p \in Procs, NEW s \in Slots, put[p] = s, NEW q \in Procs,
           Holds(q, s), q # p \/ freeing[q] # "trunc"
    PROVE  itable[s].ref >= 2
<1>1. PointsTo(q, s) \/ (q # p /\ put[q] = s)
  BY DEF Holds, PointsTo, Walks, Keeps
<1> QED
  BY <1>1, Referred DEF IInv

\* A reference is dropped.
DropOf(t, w, u) ==
    /\ u \in Tables /\ \A s \in Slots \ {w} : u[s] = t[s]
    /\ u[w].lock = t[w].lock /\ u[w].ref = t[w].ref - 1
    /\ t[w].ref > 1 => /\ u[w].inum = t[w].inum /\ u[w].valid = t[w].valid
                       /\ u[w].type = t[w].type /\ u[w].nlink = t[w].nlink

LEMMA DropOfIs ==
    ASSUME NEW t \in Tables, NEW w \in Slots, t[w].ref >= 1
    PROVE  DropOf(t, w, Dropped(t, w))
<1>1. t[w] \in Entry
  BY DEF Tables
<1>2. CASE t[w].ref = 1
  <2> DEFINE e == [FreeEntry EXCEPT !.lock = t[w].lock]
  <2>1. /\ e \in Entry /\ e.lock = t[w].lock /\ e.ref = 0
    BY <1>1, Numbers DEF Entry, FreeEntry, Types
  <2>2. Dropped(t, w) = [t EXCEPT ![w] = e]
    BY <1>2 DEF Dropped
  <2> HIDE DEF e
  <2> QED
    BY <1>2, <2>1, <2>2 DEF DropOf, Tables
<1>3. CASE t[w].ref # 1
  <2> DEFINE n == t[w].ref - 1
             e == [t[w] EXCEPT !.ref = n]
  <2>1. n \in Nat /\ t[w].ref = n + 1
    BY <1>1 DEF Entry
  <2>2. Dropped(t, w) = [t EXCEPT ![w] = e]
    BY <1>3 DEF Dropped, Tables
  <2> HIDE DEF n
  <2>3. /\ e \in Entry /\ e.lock = t[w].lock /\ e.ref = n /\ e.inum = t[w].inum
        /\ e.valid = t[w].valid /\ e.type = t[w].type /\ e.nlink = t[w].nlink
    BY <1>1, <2>1 DEF Entry
  <2>4. n = t[w].ref - 1
    BY <2>1
  <2> HIDE DEF e
  <2> QED
    BY <2>2, <2>3, <2>4 DEF DropOf, Tables
<1> QED
  BY <1>2, <1>3

LEMMA DropStep ==
    ASSUME IInv, NEW p \in Procs, Steady(p), UNCHANGED disk, put[p] # 0, freeing[p] # "trunc",
           put'[p] = 0, freeing'[p] = "no", itable' = Dropped(itable, put[p])
    PROVE  IInv' /\ Frame(p)
<1> DEFINE w == put[p]
<1>1. /\ panicked = "no" /\ panicked' = "no" /\ UNCHANGED <<pc, call, walk, ip, cwd, ofile, calls>>
      /\ dinode' = dinode /\ entries' = entries
  BY DEF Steady, disk
<1>2. w \in Slots /\ itable[w].ref >= 1
  <2>1. w \in Slots
    BY Numbers, TypesAre DEF IInv
  <2> QED
    BY <2>1, Referred DEF IInv
<1> HIDE DEF w
<1>3. DropOf(itable, w, itable')
  <2>1. itable \in Tables
    BY DEF IInv, TypeOK, Tables, Entry
  <2> QED
    BY <1>2, <2>1, DropOfIs DEF w
<1>4. DiskType'
  BY <1>1 DEF disk, DiskType, IInv, TypeOK
<1>5. /\ TypeOK' /\ Others(p)
      /\ \A s : PointsTo(p, s)' <=> PointsTo(p, s)
      /\ (Owing(p)' <=> Owing(p)) /\ ip'[p] = ip[p]
      /\ \A s \in Slots : Own(p, s)' = Own(p, s) - Bit(put[p] = s) + Bit(put'[p] = s)
      /\ \A s : Filed(s)' = Filed(s)
  BY <1>3, <1>4, SteadyLocals DEF DropOf
<1>6. \A s \in Slots : itable[s].ref \in Nat /\ itable'[s].ref \in Nat
  BY <1>5 DEF IInv, TypeOK
<1>7. \A s \in Slots : itable'[s].ref > 0 =>
          /\ itable[s].ref > 0 /\ itable'[s].inum = itable[s].inum
          /\ itable'[s].valid = itable[s].valid /\ itable'[s].type = itable[s].type
          /\ itable'[s].nlink = itable[s].nlink
  BY <1>2, <1>3, <1>6 DEF DropOf
<1>8. ASSUME NEW q \in Procs, NEW s \in Slots, Holds(q, s), q # p \/ freeing[q] # "trunc"
      PROVE  /\ itable'[s].valid = itable[s].valid /\ itable'[s].nlink = itable[s].nlink
  <2>1. CASE s = w
    <3>1. itable[w].ref >= 2
      BY <1>2, <1>8, <2>1, PutLocked DEF w
    <3>2. itable[w].ref > 1
      BY <1>2, <1>6, <3>1
    <3> QED
      BY <1>3, <2>1, <3>2 DEF DropOf
  <2>2. CASE s # w
    BY <1>3, <2>2 DEF DropOf
  <2> QED
    BY <2>1, <2>2
<1>9. \A s \in Slots : itable'[s].lock = itable[s].lock
  BY <1>3 DEF DropOf
<1>10. \A s \in Slots : itable'[s].ref <= itable[s].ref
  BY <1>2, <1>3, <1>6 DEF DropOf
<1>11. RefsCover'
  <2>1. ASSUME NEW s \in Slots
        PROVE  itable[s].ref - itable'[s].ref <= Own(p, s) - Own(p, s)' + Filed(s) - Filed(s)'
    <3>1. itable[s].ref - itable'[s].ref = Bit(w = s)
      BY <1>2, <1>3, <1>6 DEF DropOf, Bit
    <3>2. Own(p, s) \in Int /\ Own(p, s)' = Own(p, s) - Bit(w = s) + 0
      BY <1>5, Numbers DEF Own, Bit, w
    <3>3. Filed(s) \in Nat /\ Filed(s)' = Filed(s)
      BY <1>5, PointersAre DEF IInv
    <3>4. Bit(w = s) \in Int
      BY DEF Bit
    <3> HIDE DEF Bit
    <3> QED
      BY <1>6, <3>1, <3>2, <3>3, <3>4
  <2> QED
    BY <1>5, <2>1, CoverStep DEF IInv
<1>12. Frame(p)
  <2>1. ASSUME NEW s \in Slots, NEW q \in Procs \ {p}
        PROVE  /\ itable'[s].lock = q <=> itable[s].lock = q
               /\ itable[s].lock = q =>
                    itable'[s].valid = itable[s].valid /\ itable'[s].nlink = itable[s].nlink
    <3>1. itable[s].lock = q => Holds(q, s)
      BY DEF IInv, CallsOK, LocksOK
    <3> QED
      BY <1>8, <1>9, <3>1
  <2> QED
    BY <1>1, <1>5, <1>7, <1>10, <2>1 DEF Frame
<1>13. EntriesOK'
  <2>1. \A s \in Slots : itable[s].ref > 0 =>
        /\ itable[s].inum # 0
        /\ \A t \in Slots : itable[t].ref > 0 /\ itable[t].inum = itable[s].inum => s = t
        /\ itable[s].valid =>
              /\ itable[s].type = dinode[itable[s].inum].type /\ itable[s].type # "none"
              /\ itable[s].nlink = dinode[itable[s].inum].nlink
    BY DEF IInv, EntriesOK
  <2> QED
    BY <1>1, <1>7, <2>1 DEF EntriesOK
<1>14. LinksCounted' /\ DirsOK'
  BY <1>5, <1>11, <1>12, OwedSame, DiskSame
<1>15. CallOK(p)' /\ PointersOK(p)' /\ PlaceOK(p)'
  <2>1. ASSUME NEW s \in Slots, PointsTo(p, s) PROVE itable'[s].inum = itable[s].inum
    BY <1>5, <1>7, <1>11, <2>1, ReferredPrimed
  <2> QED
    BY <1>1, <1>3, <1>4, <2>1, PutKeeps DEF DropOf
<1>16. LocksOK(p)'
  <2>1. \A s \in Slots : Holds(p, s)' <=> Holds(p, s)
    BY <1>1 DEF Holds
  <2>2. LocksOK(p)
    BY DEF IInv, CallsOK
  <2> QED
    BY <1>1, <1>8, <1>9, <2>1, <2>2 DEF LocksOK
<1>17. TruncOK(p)'
  BY DEF TruncOK
<1> QED
  BY <1>5, <1>11, <1>12, <1>13, <1>14, <1>15, <1>16, <1>17, StepEnds

\* The rest of a step of a process that does an iput.
Elsewhere == UNCHANGED <<pc, call, walk, ip, cwd, ofile, calls>>

LEMMA IputStep ==
    ASSUME IInv, NEW p \in Procs, Iput(p), Elsewhere
    PROVE  IInv' /\ Frame(p)
<1>1. freeing' = [freeing EXCEPT ![p] = "no"]
  BY TypesAre DEF Iput, IInv
<1>2. Steady(p) /\ put'[p] = 0 /\ freeing'[p] = "no"
  <2>1. 0 \in 0..NINODE /\ panicked = "no" /\ panicked' = panicked /\ put' = [put EXCEPT ![p] = 0]
    BY Numbers DEF Iput
  <2> QED
    BY <1>1, <2>1, SteadyIs DEF Elsewhere
<1> QED
  BY <1>2, DropStep DEF Iput

LEMMA IputDropStep ==
    ASSUME IInv, NEW p \in Procs, IputDrop(p), Elsewhere
    PROVE  IInv' /\ Frame(p)
<1>1. Steady(p) /\ put'[p] = 0 /\ freeing'[p] = "no"
  <2>1. 0 \in 0..NINODE /\ panicked = "no" /\ panicked' = panicked /\ put' = [put EXCEPT ![p] = 0]
    BY Numbers DEF IputDrop
  <2> QED
    BY <2>1, SteadyIs DEF IputDrop, Elsewhere
<1>2. put[p] # 0
  BY DEF IputDrop, IInv, CallsOK, PointersOK
<1> QED
  BY <1>1, <1>2, DropStep DEF IputDrop

\* An inode without links that one pointer is left to.
LEMMA LastIs ==
    ASSUME IInv, NEW p \in Procs, NEW s \in Slots, put[p] = s, itable[s].ref = 1,
           itable[s].valid, itable[s].nlink = 0
    PROVE  /\ itable[s].inum \in Inums /\ itable[s].inum # ROOTINO
           /\ dinode[itable[s].inum].type # "none" /\ dinode[itable[s].inum].nlink = 0
           /\ \A q \in Procs : ~PointsTo(q, s)
<1>1. itable[s].inum \in Inums
  BY InumIs DEF IInv
<1>2. \A q \in Procs : ~PointsTo(q, s)
  BY Referred DEF IInv
<1>3. itable[s].inum # ROOTINO
  <2>1. itable[1].inum = ROOTINO /\ itable[1].ref > 0 /\ 1 \in Slots
    BY Numbers, Referred DEF IInv, DirsOK
  <2>2. itable[s].inum = ROOTINO => s = 1
    BY <2>1, SameEntry DEF IInv
  <2>3. s = 1 => itable[s].ref >= 2
    BY Referred DEF IInv
  <2> QED
    BY <2>2, <2>3
<1> QED
  BY <1>1, <1>2, <1>3 DEF IInv, EntriesOK

LEMMA IputLockStep ==
    ASSUME IInv, NEW p \in Procs, IputLock(p), Elsewhere
    PROVE  IInv' /\ Frame(p)
<1> DEFINE w == put[p]
<1>1. /\ panicked = "no" /\ w # 0 /\ freeing[p] = "no" /\ IsLast(w)
      /\ itable[w].lock = 0 /\ itable' = Locked(itable, w, p)
      /\ freeing' = [freeing EXCEPT ![p] = "trunc"]
      /\ UNCHANGED <<disk, put, panicked>>
  BY DEF IputLock
<1>2. w \in Slots /\ w \in 0..NINODE
  BY <1>1, Numbers, TypesAre DEF IInv
<1>3. put' = [put EXCEPT ![p] = w]
  BY <1>1, TypesAre DEF IInv
<1>4. Steady(p) /\ put'[p] = w /\ freeing'[p] = "trunc"
  BY <1>1, <1>2, <1>3, SteadyIs DEF Elsewhere
<1>5. w = put[p]
  OBVIOUS
<1> HIDE DEF w
<1>6. LockSet(itable, w, p, itable')
  <2>1. itable \in Tables
    BY DEF IInv, TypeOK, Tables, Entry
  <2> QED
    BY <1>1, <1>2, <2>1, LockSetIs DEF Locked
<1>7. Tabled(p, itable', dinode')
  BY <1>1, <1>2, <1>6, TabledSame, TabledLock DEF disk
<1>8. TableStep(p, 0)
  BY <1>7, TabledStep
<1>9. /\ itable' \in Tables /\ EntriesOK'
      /\ \A s \in Slots : itable'[s].ref = itable[s].ref + Bit(s = 0)
      /\ \A s \in Slots : itable'[s].inum = itable[s].inum
  BY <1>7, <1>8 DEF TableStep, Tabled
<1>10. DiskType' /\ dinode' = dinode /\ entries' = entries
  BY <1>1 DEF disk, DiskType, IInv, TypeOK
<1>11. /\ TypeOK' /\ Others(p)
       /\ \A s : PointsTo(p, s)' <=> PointsTo(p, s)
       /\ (Owing(p)' <=> Owing(p)) /\ ip'[p] = ip[p]
       /\ \A s \in Slots : Own(p, s)' = Own(p, s) - Bit(put[p] = s) + Bit(put'[p] = s)
       /\ \A s : Filed(s)' = Filed(s)
  BY <1>4, <1>9, <1>10, SteadyLocals
<1>12. \A s \in Slots : itable'[s].ref = itable[s].ref /\ itable[s].ref \in Nat
  <2>1. \A s \in Slots : itable[s].ref \in Nat
    BY DEF IInv, TypeOK
  <2> QED
    BY <1>9, <2>1, Numbers DEF Bit
<1>13. RefsCover'
  <2>1. ASSUME NEW s \in Slots
        PROVE  itable[s].ref - itable'[s].ref <= Own(p, s) - Own(p, s)' + Filed(s) - Filed(s)'
    <3>1. Own(p, s) \in Int /\ Own(p, s)' = Own(p, s)
      BY <1>4, <1>5, <1>11 DEF Own, Bit
    <3>2. Filed(s) \in Nat /\ Filed(s)' = Filed(s)
      BY <1>11, PointersAre DEF IInv
    <3> QED
      BY <1>12, <3>1, <3>2
  <2> QED
    BY <1>11, <2>1, CoverStep DEF IInv
<1>14. Frame(p)
  <2>1. \A s \in Slots, q \in Procs \ {p} :
                /\ itable'[s].lock = q <=> itable[s].lock = q
                /\ itable[s].lock = q =>
                      itable'[s].valid = itable[s].valid /\ itable'[s].nlink = itable[s].nlink
    BY <1>8 DEF TableStep
  <2> QED
    BY <1>1, <1>9, <1>10, <1>11, <1>12, <2>1 DEF Frame
<1>15. LinksCounted' /\ DirsOK'
  BY <1>1, <1>11, <1>13, <1>14, OwedSame, DiskSame
<1>16. CallOK(p)' /\ PointersOK(p)' /\ PlaceOK(p)'
  <2>1. put'[p] # 0
    BY <1>1, <1>4
  <2> QED
    BY <1>4, <1>9, <1>10, <2>1, PutKeeps
<1>17. itable[w].ref = 1 /\ itable[w].valid /\ itable[w].nlink = 0
  BY <1>1 DEF IsLast
<1>18. /\ itable'[w].ref = 1 /\ itable'[w].valid /\ itable'[w].nlink = 0 /\ itable'[w].lock = p
       /\ \A s \in Slots \ {w} : itable'[s] = itable[s]
  <2>1. itable[w] \in Entry
    BY <1>2 DEF IInv, TypeOK, Entry
  <2> QED
    BY <1>6, <1>17, <2>1 DEF LockSet, Entry
<1>19. LocksOK(p)'
  <2>1. \A s \in Slots \ {w} : Holds(p, s)' <=> Holds(p, s)
    BY <1>1, <1>4, <1>5 DEF Holds, Steady
  <2>2. \A s \in Slots : s = w => Holds(p, s)'
    <3>1. freeing'[p] = "trunc" /\ put'[p] = w
      BY <1>4
    <3> QED
      BY <3>1 DEF Holds
  <2>3. LocksOK(p)
    BY DEF IInv, CallsOK
  <2> QED
    BY <1>1, <1>18, <2>1, <2>2, <2>3 DEF LocksOK
<1>20. TruncOK(p)'
  BY <1>4, <1>18 DEF TruncOK
<1> QED
  BY <1>9, <1>11, <1>13, <1>14, <1>15, <1>16, <1>19, <1>20, StepEnds

LEMMA IputFreeStep ==
    ASSUME IInv, NEW p \in Procs, IputFree(p), Elsewhere
    PROVE  IInv' /\ Frame(p)
<1> DEFINE w == put[p]
           i == itable[w].inum
           e == [itable[w] EXCEPT !.valid = FALSE, !.type = "none", !.nlink = 0, !.lock = 0]
<1>1. /\ panicked = "no" /\ freeing[p] = "trunc" /\ itable' = Freed(w)
      /\ dinode' = [dinode EXCEPT ![i] = [type |-> "none", nlink |-> 0]]
      /\ entries' = [entries EXCEPT ![i] = NoNames]
      /\ target' = [target EXCEPT ![i] = <<>>]
      /\ freeing' = [freeing EXCEPT ![p] = "ref"] /\ UNCHANGED <<put, panicked>>
  BY DEF IputFree
<1>2. w # 0 /\ itable[w].ref = 1 /\ itable[w].nlink = 0
  BY <1>1 DEF IInv, CallsOK, PointersOK, TruncOK
<1>3. w \in Slots /\ w \in 0..NINODE
  BY <1>2, Numbers, TypesAre DEF IInv
<1>4. itable[w].lock = p /\ itable[w].valid
  BY <1>1, <1>3 DEF IInv, CallsOK, LocksOK, Holds
<1>5. /\ i \in Inums /\ i # ROOTINO /\ dinode[i].type # "none" /\ dinode[i].nlink = 0
      /\ \A q \in Procs : ~PointsTo(q, w)
  BY <1>2, <1>3, <1>4, LastIs
<1>6. Steady(p) /\ put'[p] = w /\ freeing'[p] = "ref"
  <2>1. put' = [put EXCEPT ![p] = w]
    BY <1>1, TypesAre DEF IInv
  <2> QED
    BY <1>1, <1>3, <2>1, SteadyIs DEF Elsewhere
<1>7. /\ itable' \in Tables /\ \A s \in Slots \ {w} : itable'[s] = itable[s]
      /\ itable'[w].ref = 1 /\ itable'[w].inum = i /\ ~itable'[w].valid /\ itable'[w].lock = 0
  <2>1. itable \in Tables /\ itable[w] \in Entry
    BY <1>3 DEF IInv, TypeOK, Tables, Entry
  <2>2. itable' = [itable EXCEPT ![w] = e]
    BY <1>1, <2>1 DEF Freed, Tables
  <2>3. e \in Entry /\ e.ref = 1 /\ e.inum = i /\ ~e.valid /\ e.lock = 0
    BY <1>2, <2>1, Numbers DEF Entry, Types
  <2> HIDE DEF e
  <2> QED
    BY <1>3, <2>1, <2>2, <2>3 DEF Tables
<1>8. w = put[p] /\ i = itable[w].inum
  OBVIOUS
<1> HIDE DEF w, i, e
<1>9. /\ \A j \in Inums \ {i} : dinode'[j] = dinode[j] /\ entries'[j] = entries[j]
      /\ dinode'[i] = [type |-> "none", nlink |-> 0] /\ entries'[i] = NoNames
      /\ DiskType'
  <2>1. /\ dinode \in Disks /\ entries \in [Inums -> [Names -> 0..NINODES]]
        /\ target \in [Inums -> Targets]
    BY DEF IInv, TypeOK, Disks
  <2>2. NoNames \in [Names -> 0..NINODES] /\ <<>> \in Targets
    BY Numbers, TableAssumption DEF NoNames
  <2>3. [type |-> "none", nlink |-> 0] \in [type : Types, nlink : Nat]
    BY DEF Types
  <2>4. dinode' \in Disks /\ dinode'[i] = [type |-> "none", nlink |-> 0]
        /\ \A j \in Inums \ {i} : dinode'[j] = dinode[j]
    BY <1>1, <1>5, <2>1, <2>3 DEF Disks
  <2>5. /\ entries' \in [Inums -> [Names -> 0..NINODES]] /\ entries'[i] = NoNames
        /\ \A j \in Inums \ {i} : entries'[j] = entries[j]
    BY <1>1, <1>5, <2>1, <2>2
  <2>6. target' \in [Inums -> Targets]
    BY <1>1, <1>5, <2>1, <2>2
  <2> QED
    BY <2>4, <2>5, <2>6 DEF DiskType, Disks
<1>10. /\ TypeOK' /\ Others(p)
       /\ \A s : PointsTo(p, s)' <=> PointsTo(p, s)
       /\ (Owing(p)' <=> Owing(p)) /\ ip'[p] = ip[p]
       /\ \A s \in Slots : Own(p, s)' = Own(p, s) - Bit(put[p] = s) + Bit(put'[p] = s)
       /\ \A s : Filed(s)' = Filed(s)
  BY <1>6, <1>7, <1>9, SteadyLocals
<1>11. \A s \in Slots : /\ itable'[s].ref = itable[s].ref /\ itable[s].ref \in Nat
                        /\ itable'[s].inum = itable[s].inum
  <2>1. \A s \in Slots : itable[s].ref \in Nat
    BY DEF IInv, TypeOK
  <2> QED
    BY <1>2, <1>7, <1>8, <2>1
<1>12. RefsCover'
  <2>1. ASSUME NEW s \in Slots
        PROVE  itable[s].ref - itable'[s].ref <= Own(p, s) - Own(p, s)' + Filed(s) - Filed(s)'
    <3>1. Own(p, s) \in Int /\ Own(p, s)' = Own(p, s)
      BY <1>6, <1>8, <1>10 DEF Own, Bit
    <3>2. Filed(s) \in Nat /\ Filed(s)' = Filed(s)
      BY <1>10, PointersAre DEF IInv
    <3> QED
      BY <1>11, <3>1, <3>2
  <2> QED
    BY <1>10, <2>1, CoverStep DEF IInv
<1>13. Mine(p, i) /\ Inum(put[p]) = i
  BY <1>1, <1>2, <1>3, <1>8 DEF Mine, Inum
<1>14. Frame(p)
  <2>1. ASSUME NEW s \in Slots, NEW q \in Procs \ {p}
        PROVE  /\ itable'[s].lock = q <=> itable[s].lock = q
               /\ itable[s].lock = q =>
                      itable'[s].valid = itable[s].valid /\ itable'[s].nlink = itable[s].nlink
    <3>1. CASE s = w
      BY <1>4, <1>7, <3>1, Numbers
    <3>2. CASE s # w
      BY <1>7, <3>2
    <3> QED
      BY <3>1, <3>2
  <2>2. \A j \in Inums :
          /\ entries'[j] = entries[j] \/ Mine(p, j)
          /\ dinode'[j] = dinode[j] \/ dinode[j].type = "none" \/ Mine(p, j)
          /\ \/ dinode'[j].type = dinode[j].type \/ dinode[j].type = "none"
             \/ freeing[p] = "trunc" /\ j = Inum(put[p])
    BY <1>1, <1>9, <1>13
  <2> QED
    BY <1>1, <1>10, <1>11, <2>1, <2>2 DEF Frame
<1>15. EntriesOK'
  <2>1. \A s \in Slots : itable[s].ref > 0 =>
        /\ itable[s].inum # 0
        /\ \A t \in Slots : itable[t].ref > 0 /\ itable[t].inum = itable[s].inum => s = t
    BY DEF IInv, EntriesOK
  <2>2. ASSUME NEW s \in Slots, itable'[s].ref > 0, itable'[s].valid
        PROVE  /\ itable'[s].type = dinode'[itable'[s].inum].type /\ itable'[s].type # "none"
               /\ itable'[s].nlink = dinode'[itable'[s].inum].nlink
    <3>1. s # w /\ itable'[s] = itable[s]
      BY <1>7, <2>2
    <3>2. itable[s].inum \in Inums /\ itable[s].inum # i
      <4>1. itable[s].ref > 0 /\ itable[w].ref > 0 /\ s # w
        BY <1>2, <2>2, <3>1
      <4>2. itable[s].inum # itable[w].inum
        BY <1>3, <4>1, SameEntry DEF IInv
      <4> QED
        BY <1>8, <4>1, <4>2, InumIs DEF IInv
    <3>3. /\ itable[s].type = dinode[itable[s].inum].type /\ itable[s].type # "none"
          /\ itable[s].nlink = dinode[itable[s].inum].nlink
      BY <2>2, <3>1 DEF IInv, EntriesOK
    <3> QED
      BY <1>9, <3>1, <3>2, <3>3
  <2> QED
    BY <1>11, <2>1, <2>2 DEF EntriesOK
<1>16. Owed' = Owed
  BY <1>10, <1>12, <1>14, OwedSame
<1>17. NamesOf(i) = {} /\ SubDirs(i) = {} /\ \A q \in Procs : Owed[q] # i
  BY <1>5, NoLinks DEF IInv
<1>18. LinksCounted'
  <2> SUFFICES ASSUME NEW j \in Inums
               PROVE  dinode'[j].nlink >= Links(j)' /\ (dinode'[j].type = "none" => dinode'[j].nlink = 0)
    BY DEF LinksCounted
  <2>1. dinode[j].nlink >= Links(j) /\ (dinode[j].type = "none" => dinode[j].nlink = 0)
    BY DEF IInv, LinksCounted
  <2>2. Count(Owed, j)' = Count(Owed, j)
    BY <1>16 DEF Count
  <2>3. NamesOf(j)' \subseteq NamesOf(j)
    <3>1. ASSUME NEW x \in Inums \X Names, entries'[x[1]][x[2]] = j
          PROVE  entries[x[1]][x[2]] = j
      <4>1. x[1] \in Inums /\ x[2] \in Names /\ j # 0
        BY Numbers
      <4>2. x[1] # i
        BY <1>9, <3>1, <4>1 DEF NoNames
      <4> QED
        BY <1>9, <3>1, <4>1, <4>2
    <3> QED
      BY <3>1 DEF NamesOf
  <2>4. SubDirs(j)' \subseteq SubDirs(j)
    <3>1. ASSUME NEW n \in Names, entries'[j][n] # 0, dinode'[entries'[j][n]].type = "T_DIR"
          PROVE  entries[j][n] # 0 /\ dinode[entries[j][n]].type = "T_DIR"
      <4>1. j # i
        BY <1>9, <3>1 DEF NoNames
      <4>2. entries'[j][n] = entries[j][n]
        BY <1>9, <4>1
      <4>3. entries[j][n] \in Inums
        BY <3>1, <4>2, EntryIs DEF IInv
      <4>4. entries[j][n] # i
        BY <1>9, <3>1, <4>2
      <4> QED
        BY <1>9, <3>1, <4>2, <4>3, <4>4
    <3> QED
      BY <3>1 DEF SubDirs
  <2>5. /\ Cardinality(NamesOf(j)) \in Nat /\ Cardinality(SubDirs(j)) \in Nat /\ Count(Owed, j) \in Nat
        /\ IsFiniteSet(NamesOf(j)) /\ IsFiniteSet(SubDirs(j)) /\ dinode[j].nlink \in Nat
    BY LinksType DEF IInv
  <2>6. Cardinality(NamesOf(j)') <= Cardinality(NamesOf(j)) /\ Cardinality(NamesOf(j)') \in Nat
    BY <2>3, <2>5, FS_Subset, FS_CardinalityType
  <2>7. Cardinality(SubDirs(j)') <= Cardinality(SubDirs(j)) /\ Cardinality(SubDirs(j)') \in Nat
    BY <2>4, <2>5, FS_Subset, FS_CardinalityType
  <2>8. Links(j)' = Cardinality(NamesOf(j)') + Cardinality(SubDirs(j)') + Count(Owed, j)
    BY <2>2 DEF Links
  <2>9. dinode'[j].nlink = dinode[j].nlink
    BY <1>5, <1>9
  <2>10. dinode'[j].type = "none" => dinode'[j].nlink = 0
    BY <1>9, <2>1
  <2> QED
    BY <2>1, <2>5, <2>6, <2>7, <2>8, <2>9, <2>10 DEF Links
<1>19. DirsOK'
  <2>1. itable'[1].inum = ROOTINO
    BY <1>11, Numbers DEF IInv, DirsOK
  <2>2. dinode'[ROOTINO].type = "T_DIR"
    BY <1>5, <1>9, Numbers DEF IInv, DirsOK
  <2>3. ASSUME NEW j \in Inums, entries'[j] # NoNames PROVE dinode'[j].type = "T_DIR"
    <3>1. j # i
      BY <1>9, <2>3
    <3> QED
      BY <1>9, <2>3, <3>1 DEF IInv, DirsOK
  <2> QED
    BY <2>1, <2>2, <2>3 DEF DirsOK
<1>20. CallOK(p)' /\ PointersOK(p)' /\ PlaceOK(p)'
  <2>1. ASSUME NEW s \in Slots, PointsTo(p, s)
        PROVE  /\ itable'[s].inum = itable[s].inum
               /\ dinode'[itable[s].inum] = dinode[itable[s].inum]
               /\ entries'[itable[s].inum] = entries[itable[s].inum]
    <3>1. itable[s].ref > 0 /\ s # w
      BY <1>5, <2>1, Referred DEF IInv
    <3>2. itable[s].inum \in Inums /\ itable[s].inum # i
      <4>1. itable[s].ref > 0 /\ itable[w].ref > 0 /\ s # w
        BY <1>2, <3>1
      <4>2. itable[s].inum # itable[w].inum
        BY <1>3, <4>1, SameEntry DEF IInv
      <4> QED
        BY <1>8, <4>1, <4>2, InumIs DEF IInv
    <3> QED
      BY <1>9, <1>11, <3>2
  <2>2. put'[p] # 0
    BY <1>2, <1>6
  <2> QED
    BY <1>6, <1>7, <1>9, <2>1, <2>2, PutKeeps
<1>21. LocksOK(p)'
  <2>1. \A s \in Slots \ {w} : Holds(p, s)' <=> Holds(p, s)
    BY <1>1, <1>6, <1>8 DEF Holds, Steady
  <2>2. ASSUME NEW s \in Slots, s = w PROVE ~Holds(p, s)'
    <3>1. ~PointsTo(p, s)'
      BY <1>5, <1>10, <2>2
    <3>2. freeing'[p] = "ref"
      BY <1>6
    <3> QED
      BY <3>1, <3>2 DEF Holds, PointsTo, Walks, Keeps
  <2>3. LocksOK(p)
    BY DEF IInv, CallsOK
  <2> QED
    BY <1>1, <1>7, <2>1, <2>2, <2>3, Numbers DEF LocksOK
<1>22. TruncOK(p)'
  BY <1>6 DEF TruncOK
<1> QED
  BY <1>10, <1>12, <1>14, <1>15, <1>18, <1>19, <1>20, <1>21, <1>22, StepEnds

------------------------------------------------------------------------------
\* The invariant.

LEMMA InitType == Init => TypeOK
<1> SUFFICES ASSUME Init PROVE TypeOK
  OBVIOUS
<1>1. dinode \in [Inums -> [type : Types, nlink : Nat]]
  BY DEF Init, InitTable, Types
<1>2. entries \in [Inums -> [Names -> 0..NINODES]] /\ target \in [Inums -> Targets]
  BY Numbers, TableAssumption DEF Init, InitTable
<1>3. itable \in [Slots -> Entry]
  <2>1. Cardinality(Procs) + 1 \in Nat
    BY ProcsAssumption, FS_CardinalityType
  <2> DEFINE refs == Cardinality(Procs) + 1
  <2>2. refs \in Nat
    BY <2>1
  <2>3. itable = [s \in Slots |->
          IF s = 1 THEN [inum |-> ROOTINO, ref |-> refs, valid |-> TRUE,
                         type |-> "T_DIR", nlink |-> 2, lock |-> 0]
          ELSE FreeEntry]
    BY DEF Init, InitTable
  <2> HIDE DEF refs
  <2>4. [inum |-> ROOTINO, ref |-> refs, valid |-> TRUE, type |-> "T_DIR", nlink |-> 2, lock |-> 0] \in Entry
    BY <2>2, Numbers DEF Entry, Types
  <2>5. FreeEntry \in Entry
    BY Numbers DEF Entry, FreeEntry, Types
  <2> QED
    BY <2>3, <2>4, <2>5
<1>4. /\ put \in [Procs -> 0..NINODE] /\ freeing \in [Procs -> {"no", "trunc", "ref"}]
      /\ panicked \in PanicType /\ calls \in Nat
      /\ pc \in [Procs -> Places]
      /\ walk \in [Procs -> 0..NINODE] /\ ip \in [Procs -> 0..NINODE]
      /\ cwd \in [Procs -> Slots] /\ ofile \in [Procs -> [Fds -> 0..NINODE]]
  BY Numbers DEF Init, InitTable, Places, PanicType
<1>5. call \in [Procs -> CallType]
  <2>1. Idle \in CallType
    BY DEF Idle, CallType, Ops, Creates
  <2> QED
    BY <2>1 DEF Init
<1> QED
  BY <1>1, <1>2, <1>3, <1>4, <1>5 DEF TypeOK, Entry, CallType, PanicType

\* In the beginning all processes are in the root, between two calls.
LEMMA InitIs ==
    ASSUME Init
    PROVE  /\ \A p \in Procs :
                /\ pc[p] = "user" /\ call[p].op = "none" /\ put[p] = 0 /\ freeing[p] = "no"
                /\ walk[p] = 0 /\ ip[p] = 0 /\ cwd[p] = 1 /\ \A fd \in Fds : ofile[p][fd] = 0
                /\ ~Walks(p) /\ ~Keeps(p) /\ ~Owing(p)
           /\ \A s \in Slots : itable[s].lock = 0 /\ (s # 1 => itable[s].ref = 0)
           /\ itable[1].inum = ROOTINO /\ itable[1].ref = Cardinality(Procs) + 1
           /\ itable[1].valid /\ itable[1].type = "T_DIR" /\ itable[1].nlink = 2
<1>1. \A p \in Procs :
        /\ pc[p] = "user" /\ call[p].op = "none" /\ put[p] = 0 /\ freeing[p] = "no"
        /\ walk[p] = 0 /\ ip[p] = 0 /\ cwd[p] = 1 /\ \A fd \in Fds : ofile[p][fd] = 0
  BY DEF Init, InitTable, Idle
<1>2. \A p \in Procs : ~Walks(p) /\ ~Keeps(p) /\ ~Owing(p)
  BY <1>1 DEF Walks, Keeps, Owing
<1>3. \A s \in Slots : itable[s] =
          IF s = 1 THEN [inum |-> ROOTINO, ref |-> Cardinality(Procs) + 1, valid |-> TRUE,
                         type |-> "T_DIR", nlink |-> 2, lock |-> 0]
          ELSE FreeEntry
  BY DEF Init, InitTable
<1> QED
  BY <1>1, <1>2, <1>3, Numbers DEF FreeEntry

LEMMA NoneCounted ==
    ASSUME NEW f, NEW v, \A x \in DOMAIN f : f[x] # v
    PROVE  Count(f, v) = 0
<1>1. {x \in DOMAIN f : f[x] = v} = {}
  OBVIOUS
<1> QED
  BY <1>1, FS_EmptySet DEF Count

LEMMA InitRefs == Init => RefsCover
<1> SUFFICES ASSUME Init, NEW s \in Slots PROVE itable[s].ref >= Pointers(s)
  BY DEF RefsCover
<1>1. TypeOK
  BY InitType
<1>2. Pointers(s) = Filed(s) + Count(cwd, s) + Count(put, s) + Count(WalkOf, s) + Count(KeptOf, s)
                    + Bit(s = 1) /\ s # 0
  BY <1>1, PointersAre
<1>3. Filed(s) = 0
  <2>1. \A x \in DOMAIN FileOf : FileOf[x] # s
    BY <1>2, InitIs DEF FileOf
  <2> QED
    BY <2>1, NoneCounted DEF Filed
<1>4. Count(put, s) = 0 /\ Count(WalkOf, s) = 0 /\ Count(KeptOf, s) = 0
  <2>1. \A x \in DOMAIN put : put[x] # s
    BY <1>1, <1>2, InitIs, TypesAre
  <2>2. \A x \in DOMAIN WalkOf : WalkOf[x] # s
    BY <1>2, InitIs DEF WalkOf
  <2>3. \A x \in DOMAIN KeptOf : KeptOf[x] # s
    BY <1>2, InitIs DEF KeptOf
  <2> QED
    BY <2>1, <2>2, <2>3, NoneCounted
<1>5. DOMAIN cwd = Procs /\ \A x \in Procs : cwd[x] = 1
  BY <1>1, InitIs, TypesAre
<1>6. Cardinality(Procs) \in Nat
  BY ProcsAssumption, FS_CardinalityType
<1>7. CASE s = 1
  <2>1. {x \in DOMAIN cwd : cwd[x] = s} = Procs
    BY <1>5, <1>7
  <2>2. Count(cwd, s) = Cardinality(Procs)
    BY <2>1 DEF Count
  <2>3. itable[s].ref = Cardinality(Procs) + 1
    BY <1>7, InitIs
  <2> QED
    BY <1>2, <1>3, <1>4, <1>6, <1>7, <2>2, <2>3 DEF Bit
<1>8. CASE s # 1
  <2>1. Count(cwd, s) = 0
    BY <1>5, <1>8, NoneCounted
  <2>2. itable[s].ref = 0
    BY <1>8, InitIs
  <2> QED
    BY <1>2, <1>3, <1>4, <1>8, <2>1, <2>2 DEF Bit
<1> QED
  BY <1>7, <1>8

LEMMA InitLinks == Init => LinksCounted /\ DirsOK
<1> SUFFICES ASSUME Init PROVE LinksCounted /\ DirsOK
  OBVIOUS
<1>1. \A i \in Inums, n \in Names : entries[i][n] = IF i = 1 /\ n = Dir THEN 2 ELSE 0
  BY DEF Init, InitTable, ROOTINO
<1>2. /\ dinode[1].type = "T_DIR" /\ dinode[1].nlink = 2
      /\ dinode[2].type = "T_DIR" /\ dinode[2].nlink = 1
      /\ \A i \in Inums \ {1, 2} : dinode[i].type = "none" /\ dinode[i].nlink = 0
  BY Numbers DEF Init, InitTable, ROOTINO
<1>3. Dir \in Names /\ 1 \in Inums /\ 2 \in Inums /\ 0 \notin Inums /\ Inums \subseteq Nat
  BY PathsAssumption, Numbers DEF ROOTINO
<1>4. \A i \in Inums : Count(Owed, i) = 0
  <2>1. \A p \in DOMAIN Owed : Owed[p] = 0
    BY InitIs DEF Owed
  <2> QED
    BY <1>3, <2>1, NoneCounted
<1>5. Cardinality(NamesOf(2)) = 1 /\ \A i \in Inums \ {2} : Cardinality(NamesOf(i)) = 0
  <2>1. NamesOf(2) = {<<1, Dir>>}
    BY <1>1, <1>3 DEF NamesOf
  <2>2. \A i \in Inums \ {2} : NamesOf(i) = {}
    BY <1>1, <1>3 DEF NamesOf
  <2> QED
    BY <2>1, <2>2, FS_Singleton, FS_EmptySet
<1>6. Cardinality(SubDirs(1)) = 1 /\ \A i \in Inums \ {1} : Cardinality(SubDirs(i)) = 0
  <2>1. SubDirs(1) = {Dir}
    BY <1>1, <1>2, <1>3 DEF SubDirs
  <2>2. \A i \in Inums \ {1} : SubDirs(i) = {}
    BY <1>1 DEF SubDirs
  <2> QED
    BY <2>1, <2>2, FS_Singleton, FS_EmptySet
<1>7. ASSUME NEW i \in Inums
      PROVE  dinode[i].nlink >= Links(i) /\ (dinode[i].type = "none" => dinode[i].nlink = 0)
  <2>1. Count(Owed, i) = 0
    BY <1>4
  <2>2. CASE i = 1
    BY <1>2, <1>5, <1>6, <2>1, <2>2 DEF Links
  <2>3. CASE i = 2
    BY <1>2, <1>5, <1>6, <2>1, <2>3 DEF Links
  <2>4. CASE i \notin {1, 2}
    BY <1>2, <1>5, <1>6, <2>1, <2>4 DEF Links
  <2> QED
    BY <2>2, <2>3, <2>4
<1>8. ASSUME NEW i \in Inums, entries[i] # NoNames PROVE dinode[i].type = "T_DIR"
  <2>1. i # 1 => entries[i] = NoNames
    BY DEF Init, InitTable, NoNames, ROOTINO
  <2> QED
    BY <1>2, <1>8, <2>1
<1> QED
  BY <1>2, <1>7, <1>8, InitIs DEF LinksCounted, DirsOK, ROOTINO

LEMMA InitIInv == Init => IInv
<1> SUFFICES ASSUME Init PROVE IInv
  OBVIOUS
<1>1. TypeOK /\ RefsCover /\ LinksCounted /\ DirsOK
  BY InitType, InitRefs, InitLinks
<1>2. EntriesOK
  <2>1. dinode[ROOTINO].type = "T_DIR" /\ dinode[ROOTINO].nlink = 2 /\ ROOTINO # 0
    BY Numbers DEF Init, InitTable, ROOTINO
  <2>2. \A s \in Slots : itable[s].ref > 0 => s = 1
    BY InitIs
  <2> QED
    BY <2>1, <2>2, InitIs DEF EntriesOK
<1>3. ASSUME NEW p \in Procs
      PROVE  CallOK(p) /\ PointersOK(p) /\ LocksOK(p) /\ TruncOK(p) /\ PlaceOK(p)
  <2>1. /\ pc[p] = "user" /\ call[p].op = "none" /\ put[p] = 0 /\ freeing[p] = "no"
        /\ walk[p] = 0 /\ ip[p] = 0 /\ cwd[p] = 1 /\ \A fd \in Fds : ofile[p][fd] = 0
        /\ ~Walks(p) /\ ~Keeps(p) /\ ~Owing(p)
    BY InitIs
  <2>2. CallOK(p)
    BY <2>1 DEF CallOK, Creates
  <2>3. PointersOK(p)
    <3>1. ASSUME NEW s \in Slots, PointsTo(p, s) PROVE dinode[itable[s].inum].type # "none"
      <4>1. s = 1
        BY <2>1, <3>1, Numbers DEF PointsTo
      <4> QED
        BY <1>1, <4>1 DEF DirsOK
    <3> QED
      BY <2>1, <3>1 DEF PointersOK
  <2>4. LocksOK(p)
    <3>1. \A s \in Slots : itable[s].lock = 0
      BY InitIs
    <3> QED
      BY <2>1, <3>1, Numbers DEF LocksOK, Holds
  <2>5. TruncOK(p) /\ PlaceOK(p)
    BY <2>1 DEF TruncOK, PlaceOK
  <2> QED
    BY <2>2, <2>3, <2>4, <2>5
<1> QED
  BY <1>1, <1>2, <1>3 DEF IInv, CallsOK

\* A step of a call.
LEMMA CallIsStep ==
    ASSUME IInv, NEW p \in Procs, CallStep(p)
    PROVE  IInv' /\ Frame(p)
<1>1. ASSUME NEW op \in {"open", "create", "mkdir", "unlink", "chdir"}, NEW path \in Paths,
             Begin(p, op, path, <<>>)
      PROVE  IInv' /\ Frame(p)
  <2>1. path \in Seq(Names) /\ <<>> \in Seq(Names) /\ op \in Ops \ {"none", "link2"} /\ op # "symlink"
    BY PathsAssumption DEF Ops, Creates
  <2> QED
    BY <1>1, <2>1, BeginStep
<1>2. ASSUME NEW path \in Paths, NEW arg \in Targets, Begin(p, "symlink", path, arg)
      PROVE  IInv' /\ Frame(p)
  <2>1. path \in Seq(Names) /\ arg \in Seq(Names) /\ "symlink" \in Ops \ {"none", "link2"}
    BY PathsAssumption DEF Ops, Creates
  <2> QED
    BY <1>2, <2>1, BeginStep
<1>3. ASSUME NEW path \in Paths, NEW arg \in Paths, Begin(p, "link", path, arg)
      PROVE  IInv' /\ Frame(p)
  <2>1. path \in Seq(Names) /\ arg \in Seq(Names) /\ "link" \in Ops \ {"none", "link2"}
    BY PathsAssumption DEF Ops, Creates
  <2> QED
    BY <1>3, <2>1, BeginStep
<1>4. CASE Namex(p)
  BY <1>4, RestartIsStep, WalkLinkStep, WalkNoDirStep, WalkParentStep, WalkDownStep, WalkNoParentStep
     DEF Namex
<1>5. CASE Follow(p) \/ Open(p) \/ OpenFails(p) \/ ChdirDiffers(p) \/ ChdirEnds(p)
  BY <1>5, FollowStep, OpenStep, OpenFailsStep, ChdirDiffersStep, ChdirEndsStep
<1>6. CASE \E fd \in Fds : Close(p, fd)
  BY <1>6, CloseStep
<1>7. CASE Create(p)
  BY <1>7, CreateFindsStep, CreateExistingStep, CreateAllocStep, CreateLinksStep, CreateEndsStep
     DEF Create
<1>8. CASE Unlink(p)
  BY <1>8, UnlinkFindsStep, UnlinkErasesStep, UnlinkNlinkStep, UnlinkRefusesStep, UnlinkBadStep
     DEF Unlink
<1>9. CASE Link(p)
  BY <1>9, LinkOldStep, LinkNewStep, LinkedStep, LinkBadStep DEF Link
<1> QED
  BY <1>1, <1>2, <1>3, <1>4, <1>5, <1>6, <1>7, <1>8, <1>9 DEF CallStep

LEMMA ProcessStep ==
    ASSUME IInv, NEW p \in Procs, CallStep(p) \/ (PutStep(p) /\ Elsewhere)
    PROVE  IInv' /\ Frame(p)
<1>1. CASE CallStep(p)
  BY <1>1, CallIsStep
<1>2. CASE PutStep(p) /\ Elsewhere
  BY <1>2, IputStep, IputLockStep, IputFreeStep, IputDropStep DEF PutStep
<1> QED
  BY <1>1, <1>2

LEMMA NextIs == Next => (\E p \in Procs : CallStep(p) \/ (PutStep(p) /\ Elsewhere)) \/ UNCHANGED vars
BY DEF Next, Halted, Quiet, Elsewhere

LEMMA StutterStep ==
    ASSUME IInv, UNCHANGED vars
    PROVE  IInv'
<1>1. /\ UNCHANGED <<dinode, entries, target, itable, put, freeing, panicked>>
      /\ UNCHANGED <<pc, call, walk, ip, cwd, ofile, calls>>
  BY DEF vars, tableVars
<1>2. TypeOK'
  BY <1>1 DEF IInv, TypeOK
<1>3. EntriesOK' /\ DirsOK'
  BY <1>1 DEF IInv, EntriesOK, DirsOK
<1>4. RefsCover'
  BY <1>1 DEF IInv, RefsCover, Pointers, Walks, Keeps, Count
<1>5. LinksCounted'
  BY <1>1 DEF IInv, LinksCounted, Links, NamesOf, SubDirs, Owed, Owing, Inum, Count
<1>6. CallsOK'
  <2> SUFFICES ASSUME NEW p \in Procs
               PROVE  CallOK(p)' /\ PointersOK(p)' /\ LocksOK(p)' /\ TruncOK(p)' /\ PlaceOK(p)'
    BY DEF CallsOK
  <2>1. CallOK(p) /\ PointersOK(p) /\ LocksOK(p) /\ TruncOK(p) /\ PlaceOK(p)
    BY DEF IInv, CallsOK
  <2>2. \A q, s : (PointsTo(q, s)' <=> PointsTo(q, s)) /\ (Holds(q, s)' <=> Holds(q, s))
    BY <1>1 DEF PointsTo, Holds, Walks, Keeps
  <2>3. CallOK(p)' /\ TruncOK(p)'
    BY <1>1, <2>1 DEF CallOK, TruncOK, Rest, WantsParent
  <2>4. PointersOK(p)'
    BY <1>1, <2>1, <2>2 DEF PointersOK, Walks, Keeps, Owing
  <2>5. LocksOK(p)'
    BY <1>1, <2>1, <2>2 DEF LocksOK
  <2>6. PlaceOK(p)'
    BY <1>1, <2>1 DEF PlaceOK, Inum, Name, Rest, PointsTo, Walks, Keeps
  <2> QED
    BY <2>3, <2>4, <2>5, <2>6
<1> QED
  BY <1>2, <1>3, <1>4, <1>5, <1>6 DEF IInv

LEMMA NextIInv == IInv /\ [Next]_vars => IInv'
BY NextIs, ProcessStep, StutterStep

THEOREM Invariance == Spec => []IInv
BY InitIInv, NextIInv, PTL DEF Spec

\* Every variable keeps its type, and no count of references or of links goes below 0.
THEOREM TypeCorrect == Spec => []TypeOK
<1>1. IInv => TypeOK
  BY DEF IInv
<1> QED
  BY <1>1, Invariance, PTL

\* The table tells the truth: an entry has a reference for every pointer to it, an inode
\* has one entry, and the copy in a valid entry is what the disk holds.
THEOREM TableTells == Spec => []TableAgrees
<1>1. IInv => TableAgrees
  <2> SUFFICES ASSUME IInv PROVE TableAgrees
    OBVIOUS
  <2>1. \A s \in Slots : itable[s].ref >= Pointers(s)
    BY DEF IInv, RefsCover
  <2>2. ASSUME NEW i \in Inums PROVE Cardinality(Find(itable, i)) <= 1
    <3>1. CASE Find(itable, i) = {}
      BY <3>1, FS_EmptySet
    <3>2. ASSUME NEW s \in Find(itable, i) PROVE Cardinality(Find(itable, i)) = 1
      <4>1. Find(itable, i) = {s}
        BY <3>2, SameEntry DEF Find, IInv
      <4> QED
        BY <4>1, FS_Singleton
    <3> QED
      BY <3>1, <3>2
  <2>3. \A s \in Slots : itable[s].ref > 0 /\ itable[s].valid =>
              /\ itable[s].type = dinode[itable[s].inum].type
              /\ itable[s].nlink = dinode[itable[s].inum].nlink
    BY DEF IInv, EntriesOK
  <2> QED
    BY <2>1, <2>2, <2>3 DEF TableAgrees
<1> QED
  BY <1>1, Invariance, PTL

\* No name ever refers to a free inode: an inode's link count covers its names.
THEOREM LinksCover == Spec => []LinksLead
<1>1. IInv => LinksLead
  <2> SUFFICES ASSUME IInv, NEW i \in Inums, NamesOf(i) # {}
               PROVE  dinode[i].type # "none" /\ dinode[i].nlink >= Cardinality(NamesOf(i))
    BY DEF LinksLead
  <2>1. dinode[i].type # "none"
    BY NamedIsUsed DEF IInv
  <2>2. /\ Cardinality(NamesOf(i)) \in Nat /\ Cardinality(SubDirs(i)) \in Nat
        /\ Count(Owed, i) \in Nat /\ dinode[i].nlink \in Nat
    BY LinksType DEF IInv
  <2>3. dinode[i].nlink >= Cardinality(NamesOf(i)) + Cardinality(SubDirs(i)) + Count(Owed, i)
    BY DEF IInv, LinksCounted, Links
  <2> QED
    BY <2>1, <2>2, <2>3
<1> QED
  BY <1>1, Invariance, PTL

\* The kernel's assertions hold: what ilock finds is referenced and has a type, the parent
\* of a name is a directory, an inode that loses a name has a link, and iput's lock is free.
THEOREM AssertionsHold == Spec => []Asserts
<1>1. IInv => Asserts
  <2> SUFFICES ASSUME IInv, NEW p \in Procs
               PROVE  /\ NextLock(p) # 0 =>
                            LET e == itable[NextLock(p)]
                            IN  e.ref > 0 /\ (e.lock = 0 => e.valid \/ dinode[e.inum].type # "none")
                      /\ At(p, "parent") => dinode[Inum(walk[p])].type = "T_DIR"
                      /\ At(p, "victim") /\ Lockable(ip[p]) => Loaded(ip[p])[ip[p]].nlink >= 1
                      /\ put[p] # 0 /\ freeing[p] = "no" /\ IsLast(put[p]) => itable[put[p]].lock = 0
    BY DEF Asserts
  <2>1. ASSUME NextLock(p) # 0
        PROVE  /\ itable[NextLock(p)].ref > 0 /\ dinode[itable[NextLock(p)].inum].type # "none"
    <3> DEFINE s == NextLock(p)
    <3>1. panicked = "no" /\ ((Walks(p) /\ s = walk[p]) \/ (Keeps(p) /\ s = ip[p]))
      BY <2>1 DEF NextLock, Walks, Keeps
    <3>2. s \in Slots /\ PointsTo(p, s)
      BY <3>1, UsedSlot
    <3> HIDE DEF s
    <3>3. itable[s].ref > 0
      BY <3>2, Referred DEF IInv
    <3>4. dinode[itable[s].inum].type # "none"
      BY <3>2 DEF IInv, CallsOK, PointersOK
    <3> QED
      BY <3>3, <3>4 DEF s
  <2>2. At(p, "parent") => dinode[Inum(walk[p])].type = "T_DIR"
    BY DEF IInv, CallsOK, PlaceOK, At
  <2>3. ASSUME At(p, "victim"), Lockable(ip[p]) PROVE Loaded(ip[p])[ip[p]].nlink >= 1
    <3> DEFINE w == walk[p]
               v == ip[p]
    <3>1. panicked = "no" /\ pc[p] = "victim" /\ Walks(p) /\ Keeps(p) /\ Rest(p) # <<>>
      BY <2>3 DEF At, Walks, Keeps, IInv, CallsOK, CallOK
    <3>2. w \in Slots /\ v \in Slots /\ PointsTo(p, w) /\ Name(p) \in Names
      BY <3>1, UsedSlot, NameIs DEF IInv
    <3>3. Inum(w) \in Inums
      BY <3>2, Referred, InumIs DEF IInv, Inum
    <3>4. entries[Inum(w)][Name(p)] = Inum(v)
      BY <3>1 DEF IInv, CallsOK, PlaceOK
    <3> HIDE DEF w, v
    <3>5. Inum(v) \in Inums /\ Loaded(v)[v].nlink = dinode[Inum(v)].nlink
      BY <2>3, <3>2, LoadedIs DEF IInv, Inum, v
    <3>6. NamesOf(Inum(v)) # {}
      BY <3>2, <3>3, <3>4, <3>5, Numbers, EntryIs DEF IInv
    <3>7. dinode[Inum(v)].nlink > 0 /\ dinode[Inum(v)].nlink \in Nat
      BY <3>5, <3>6, NamedIsUsed, LinksType DEF IInv
    <3> QED
      BY <3>5, <3>7 DEF v
  <2>4. ASSUME put[p] # 0, freeing[p] = "no", IsLast(put[p]) PROVE itable[put[p]].lock = 0
    <3> DEFINE s == put[p]
    <3>1. s \in Slots /\ itable[s].ref = 1
      BY <2>4, Numbers, TypesAre DEF IInv, IsLast
    <3>2. ASSUME itable[s].lock # 0 PROVE FALSE
      <4> DEFINE q == itable[s].lock
      <4>1. q \in Procs /\ Holds(q, s)
        BY <3>1, <3>2, LockedIsUsed
      <4> HIDE DEF q
      <4>2. itable[s].ref >= 2
        BY <2>4, <3>1, <4>1, PutLocked
      <4> QED
        BY <3>1, <4>2
    <3> QED
      BY <3>2
  <2> QED
    BY <2>1, <2>2, <2>3, <2>4
<1> QED
  BY <1>1, Invariance, PTL

\* What a step of a process does to an entry and its inode that somebody refers to before
\* and after it.
LEMMA KeptStep ==
    ASSUME IInv, IInv', NEW q \in Procs, Frame(q), NEW p \in Procs, NEW s \in Slots,
           PointsTo(p, s), PointsTo(p, s)'
    PROVE  /\ itable'[s].inum = itable[s].inum
           /\ dinode'[itable[s].inum].type = dinode[itable[s].inum].type
<1>1. itable[s].ref > 0 /\ itable'[s].ref > 0
  BY Referred, ReferredPrimed DEF IInv
<1>2. itable'[s].inum = itable[s].inum /\ itable[s].inum \in Inums
  BY <1>1, InumIs DEF Frame, IInv
<1>3. dinode[itable[s].inum].type # "none"
  BY DEF IInv, CallsOK, PointersOK
<1>4. ~(freeing[q] = "trunc" /\ itable[s].inum = Inum(put[q]))
  <2> SUFFICES ASSUME freeing[q] = "trunc", itable[s].inum = Inum(put[q]) PROVE FALSE
    OBVIOUS
  <2>1. put[q] # 0 /\ itable[put[q]].ref = 1
    BY DEF IInv, CallsOK, TruncOK, PointersOK
  <2>2. put[q] \in Slots
    BY <2>1, Numbers, TypesAre DEF IInv
  <2>3. put[q] = s
    BY <1>1, <2>1, <2>2, SameEntry DEF IInv, Inum
  <2>4. itable[s].ref >= 2
    BY <2>3, Referred DEF IInv
  <2> QED
    BY <2>1, <2>3, <2>4
<1> QED
  BY <1>2, <1>3, <1>4 DEF Frame

\* What a process has open or is in stays the same inode, allocated, though others unlink
\* its names and reuse inodes.
THEOREM OpenKept == Spec => FileKept
<1> DEFINE Kept == \A p \in Procs, s \in Slots :
          (\E fd \in Fds : ofile[p][fd] = s /\ ofile'[p][fd] = s) \/ (cwd[p] = s /\ cwd'[p] = s) =>
              /\ itable'[s].inum = itable[s].inum
              /\ dinode'[itable[s].inum].type = dinode[itable[s].inum].type
<1>1. IInv /\ IInv' /\ [Next]_vars => [Kept]_vars
  <2> SUFFICES ASSUME IInv, IInv', Next, NEW p \in Procs, NEW s \in Slots,
                      \/ \E fd \in Fds : ofile[p][fd] = s /\ ofile'[p][fd] = s
                      \/ cwd[p] = s /\ cwd'[p] = s
               PROVE  /\ itable'[s].inum = itable[s].inum
                      /\ dinode'[itable[s].inum].type = dinode[itable[s].inum].type
    OBVIOUS
  <2>1. PointsTo(p, s) /\ PointsTo(p, s)'
    BY DEF PointsTo
  <2>2. CASE UNCHANGED vars
    BY <2>2 DEF vars, tableVars
  <2>3. ASSUME NEW q \in Procs, CallStep(q) \/ (PutStep(q) /\ Elsewhere)
        PROVE  /\ itable'[s].inum = itable[s].inum
               /\ dinode'[itable[s].inum].type = dinode[itable[s].inum].type
    BY <2>1, <2>3, ProcessStep, KeptStep
  <2> QED
    BY <2>2, <2>3, NextIs
<1> QED
  BY <1>1, Invariance, PTL DEF Spec, FileKept
==============================================================================
