----------------------------- MODULE BookingProofs -----------------------------
(***************************************************************************)
(* Theorems about the booking servers, for any servers, connections, ids,   *)
(* amounts and limits, whatever clients do.  A server's bookkeeping is      *)
(* proved until closefd has released, at that server, a record for a client *)
(* that was not let in for it; that is what the history variable stray says.*)
(***************************************************************************)
EXTENDS Booking, FiniteSetTheorems, TLAPS

\* The connections of a server whose clients were let in for a record.
OpenFor(s, i) == {c \in Conns(s) : stage[s][c] = "open" /\ asked[s][c] = i}

\* A write lock excludes every other lock.
LockExclusive ==
    \A i \in Ids : \A s \in locks[i] \cap WriteServers : locks[i] = {s}

\* A client that gave an id is let in, and then the server has a last id.
OpenGaveId ==
    \A s \in Servers : \A c \in Conns(s) :
        /\ asked[s][c] # None => stage[s][c] = "open"
        /\ stage[s][c] = "open" => globalbookid[s] # None

\* idused counts the clients a server let in for a record.
Counted(s) ==
    \A i \in Ids :
        idused[s][i] = IF s \in ReadServers THEN Cardinality(OpenFor(s, i))
                                            ELSE 0 - Cardinality(OpenFor(s, i))

\* A server holds a lock while a client is let in, and no longer.
LockedIsOpen(s) == \A i \in Ids : s \in locks[i] <=> OpenFor(s, i) # {}

\* The servers where closefd has always found the right record.
Kept == \A s \in Servers \ stray : Counted(s) /\ LockedIsOpen(s)

BInv == TypeOK /\ LockExclusive /\ OpenGaveId /\ Kept

------------------------------------------------------------------------------
\* Types.

\* closefd counts in the range of the counters.
LEMMA ReleasedType ==
    ASSUME NEW s \in Servers, NEW g \in Ids, NEW users \in [Ids -> Int]
    PROVE  /\ Released(s, g, users) \in [Ids -> Int]
           /\ s \in WriteServers /\ (\A i \in Ids : users[i] \in {-1, 0}) =>
                 \A i \in Ids : Released(s, g, users)[i] \in {-1, 0}
<1>1. s \in WriteServers => s \notin ReadServers
  BY ServersAssumption
<1> QED
  BY <1>1 DEF Released

\* closefd changes one connection, the counters of its server and that server's locks.
LEMMA ClosedType ==
    ASSUME TypeOK, NEW s \in Servers, NEW c \in Conns(s), NEW g \in Ids \cup {None},
           NEW users \in [Ids -> Int], Closed(s, c, g, users),
           s \in WriteServers => \A i \in Ids : users[i] \in {-1, 0},
           globalbookid' \in [Servers -> Ids \cup {None}],
           bookings' \in [Ids -> [Items -> (-IntHalf)..(IntHalf - 1)]],
           stray' \in SUBSET Servers
    PROVE  TypeOK'
<1> DEFINE after == IF g = None THEN users ELSE Released(s, g, users)
<1>1. /\ after \in [Ids -> Int]
      /\ s \in WriteServers => \A i \in Ids : after[i] \in {-1, 0}
  <2>1. CASE g = None
    BY <2>1
  <2>2. CASE g # None
    BY <2>2, ReleasedType
  <2> QED
    BY <2>1, <2>2
<1>2. idused' = [idused EXCEPT ![s] = after]
  BY DEF Closed
<1> HIDE DEF after
<1>3. /\ idused' \in [Servers -> [Ids -> Int]]
      /\ \A r \in WriteServers, i \in Ids : idused'[r][i] \in {-1, 0}
  BY <1>1, <1>2 DEF TypeOK, Servers
<1>4. locks' \in [Ids -> SUBSET Servers]
  BY DEF Closed, TypeOK
<1>5. /\ DOMAIN stage' = Servers /\ DOMAIN asked' = Servers
      /\ \A r \in Servers :
            /\ stage'[r] \in [Conns(r) -> {"free", "id", "open"}]
            /\ asked'[r] \in [Conns(r) -> Ids \cup {None}]
  BY DEF Closed, TypeOK
<1> QED
  BY <1>3, <1>4, <1>5 DEF TypeOK, Conns

\* A client let in is counted, and locks its record for the server.
LEMMA AdmitType ==
    ASSUME TypeOK, NEW s \in Servers, NEW c \in Conns(s), NEW i \in Ids,
           NEW users \in [Ids -> Int], Admit(s, c, i, users),
           s \in WriteServers => \A j \in Ids : users[j] \in {-1, 0},
           globalbookid' \in [Servers -> Ids \cup {None}],
           bookings' = bookings, stray' \in SUBSET Servers
    PROVE  TypeOK'
<1>1. /\ idused' \in [Servers -> [Ids -> Int]]
      /\ \A r \in WriteServers, j \in Ids : idused'[r][j] \in {-1, 0}
  BY DEF Admit, TypeOK, Servers
<1>2. locks' \in [Ids -> SUBSET Servers]
  BY DEF Admit, TypeOK
<1>3. /\ DOMAIN stage' = Servers /\ DOMAIN asked' = Servers
      /\ \A r \in Servers :
            /\ stage'[r] \in [Conns(r) -> {"free", "id", "open"}]
            /\ asked'[r] \in [Conns(r) -> Ids \cup {None}]
  BY DEF Admit, TypeOK
<1> QED
  BY <1>1, <1>2, <1>3 DEF TypeOK, Conns

\* An int stays one, whatever is added to it.
LEMMA WrapType ==
    ASSUME NEW n \in Int
    PROVE  Wrap(n) \in (-IntHalf)..(IntHalf - 1)
<1>1. 2 * IntHalf \in Nat /\ 2 * IntHalf > 0 /\ IntHalf \in Nat
  BY IntAssumption
<1>2. PICK m \in Int : m = n + IntHalf
  BY <1>1
<1>3. m % (2 * IntHalf) \in 0..(2 * IntHalf - 1)
  BY <1>1
<1> QED
  BY <1>1, <1>2, <1>3 DEF Wrap

\* Every step keeps the types.
LEMMA TypeStep ==
    ASSUME TypeOK, [Next]_vars
    PROVE  TypeOK'
<1>0. /\ globalbookid \in [Servers -> Ids \cup {None}]
      /\ idused \in [Servers -> [Ids -> Int]]
      /\ bookings \in [Ids -> [Items -> (-IntHalf)..(IntHalf - 1)]]
      /\ \A s \in WriteServers, i \in Ids : idused[s][i] \in {-1, 0}
      /\ stray \in SUBSET Servers
  BY DEF TypeOK
<1>1. ASSUME NEW s \in Servers, Restart(s) PROVE TypeOK'
  <2>1. /\ DOMAIN stage' = Servers /\ DOMAIN asked' = Servers
        /\ \A r \in Servers :
              /\ stage'[r] \in [Conns(r) -> {"free", "id", "open"}]
              /\ asked'[r] \in [Conns(r) -> Ids \cup {None}]
    BY <1>1 DEF Restart, TypeOK
  <2>2. /\ idused' \in [Servers -> [Ids -> Int]]
        /\ \A r \in WriteServers, j \in Ids : idused'[r][j] \in {-1, 0}
    BY <1>0, <1>1 DEF Restart, Servers
  <2>3. locks' \in [Ids -> SUBSET Servers]
    BY <1>1 DEF Restart, TypeOK
  <2> QED
    BY <1>0, <1>1, <2>1, <2>2, <2>3 DEF Restart, TypeOK, Conns
<1>2. ASSUME NEW s \in Servers, NEW c \in Conns(s), Accept(s, c) PROVE TypeOK'
  <2>1. /\ DOMAIN stage' = Servers
        /\ \A r \in Servers : stage'[r] \in [Conns(r) -> {"free", "id", "open"}]
    BY <1>2 DEF Accept, TypeOK
  <2> QED
    BY <1>0, <1>2, <2>1 DEF Accept, TypeOK, Conns
<1>3. ASSUME NEW s \in Servers, NEW c \in Conns(s), NEW i \in Ids, ReadId(s, c, i)
      PROVE  TypeOK'
  <2> DEFINE users == [idused[s] EXCEPT ![i] = @ + 1]
  <2>1. users \in [Ids -> Int] /\ s \notin WriteServers
    BY <1>0, <1>3, ServersAssumption DEF ReadId
  <2>2. /\ globalbookid' \in [Servers -> Ids \cup {None}]
        /\ bookings' = bookings /\ stray' \in SUBSET Servers
    BY <1>0, <1>3 DEF ReadId
  <2>3. Admit(s, c, i, users) \/ Closed(s, c, i, users)
    BY <1>3 DEF ReadId
  <2> HIDE DEF users
  <2> QED
    BY <1>0, <2>1, <2>2, <2>3, AdmitType, ClosedType
<1>4. ASSUME NEW s \in Servers, NEW c \in Conns(s), NEW i \in Ids, WriteId(s, c, i)
      PROVE  TypeOK'
  <2> DEFINE users == [idused[s] EXCEPT ![i] = -1]
  <2>1. /\ users \in [Ids -> Int] /\ idused[s] \in [Ids -> Int]
        /\ \A j \in Ids : users[j] \in {-1, 0} /\ idused[s][j] \in {-1, 0}
    BY <1>0, <1>4 DEF WriteId
  <2>2. /\ globalbookid' \in [Servers -> Ids \cup {None}]
        /\ bookings' = bookings /\ stray' \in SUBSET Servers
    BY <1>0, <1>4 DEF WriteId, Strays
  <2>3. Admit(s, c, i, users) \/ Closed(s, c, i, idused[s])
    BY <1>4 DEF WriteId
  <2> HIDE DEF users
  <2> QED
    BY <1>0, <2>1, <2>2, <2>3, AdmitType, ClosedType
<1>5. ASSUME NEW s \in Servers, NEW c \in Conns(s),
             InvalidId(s, c) \/ Leave(s, c) \/ HangUp(s, c)
      PROVE  TypeOK'
  <2>1. /\ Closed(s, c, globalbookid[s], idused[s])
        /\ UNCHANGED <<globalbookid, bookings>> /\ stray' \in SUBSET Servers
    BY <1>0, <1>5 DEF InvalidId, Leave, HangUp, CloseOnly, Strays
  <2>2. globalbookid[s] \in Ids \cup {None} /\ idused[s] \in [Ids -> Int]
    BY <1>0
  <2> QED
    BY <1>0, <2>1, <2>2, ClosedType
<1>6. ASSUME NEW s \in Servers, NEW c \in Conns(s), NEW nums \in [Items -> Amounts],
             Book(s, c, nums)
      PROVE  TypeOK'
  <2> DEFINE after == [t \in Items |-> Wrap(bookings[globalbookid[s]][t] + nums[t])]
  <2>1. /\ Closed(s, c, globalbookid[s], idused[s])
        /\ UNCHANGED globalbookid /\ stray' \in SUBSET Servers
        /\ bookings' = bookings \/ bookings' = [bookings EXCEPT ![globalbookid[s]] = after]
    BY <1>0, <1>6 DEF Book, Strays
  <2>2. globalbookid[s] \in Ids \cup {None} /\ idused[s] \in [Ids -> Int]
    BY <1>0
  <2>3. ASSUME globalbookid[s] \in Ids
        PROVE  after \in [Items -> (-IntHalf)..(IntHalf - 1)]
    <3>1. ASSUME NEW t \in Items
          PROVE  bookings[globalbookid[s]][t] + nums[t] \in Int
      <4>1. bookings[globalbookid[s]][t] \in (-IntHalf)..(IntHalf - 1)
        BY <1>0, <2>3
      <4>2. nums[t] \in (-IntHalf)..(IntHalf - 1)
        BY AmountAssumption
      <4> QED
        BY <4>1, <4>2, IntAssumption
    <3> QED
      BY <3>1, WrapType
  <2> HIDE DEF after
  <2>4. bookings' \in [Ids -> [Items -> (-IntHalf)..(IntHalf - 1)]]
    BY <1>0, <2>1, <2>2, <2>3, NoneAssumption
  <2> QED
    BY <1>0, <2>1, <2>2, <2>4, ClosedType
<1>7. ASSUME UNCHANGED vars PROVE TypeOK'
  BY <1>7 DEF vars, TypeOK, Conns
<1> QED
  BY <1>1, <1>2, <1>3, <1>4, <1>5, <1>6, <1>7 DEF Next, Client

------------------------------------------------------------------------------
\* Locks.

\* fcntl gives a write lock to one server, and none beside it.
LEMMA LockExclusiveStep ==
    ASSUME TypeOK, LockExclusive, [Next]_vars
    PROVE  LockExclusive'
<1> USE DEF LockExclusive
<1>0. locks \in [Ids -> SUBSET Servers]
  BY DEF TypeOK
<1>1. ASSUME \A i \in Ids : locks'[i] \subseteq locks[i] PROVE LockExclusive'
  BY <1>1
<1>2. ASSUME NEW s \in Servers, NEW c \in Conns(s), NEW i \in Ids, CanLock(s, i),
             locks' = [locks EXCEPT ![i] = @ \cup {s}]
      PROVE  LockExclusive'
  <2>1. \A j \in Ids : j # i => locks'[j] = locks[j]
    BY <1>0, <1>2
  <2>2. locks'[i] = locks[i] \cup {s}
    BY <1>0, <1>2
  <2>3. ASSUME NEW r \in locks'[i] \cap WriteServers PROVE locks'[i] = {r}
    BY <1>2, <2>2, <2>3, ServersAssumption DEF CanLock
  <2> QED
    BY <2>1, <2>3
<1>3. ASSUME NEW s, NEW c, NEW g, NEW users, Closed(s, c, g, users) PROVE LockExclusive'
  BY <1>0, <1>1, <1>3 DEF Closed
<1>4. ASSUME NEW s \in Servers, Restart(s) PROVE LockExclusive'
  BY <1>0, <1>1, <1>4 DEF Restart
<1>5. ASSUME NEW s \in Servers, NEW c \in Conns(s), Accept(s, c) PROVE LockExclusive'
  BY <1>5 DEF Accept
<1>6. ASSUME NEW s \in Servers, NEW c \in Conns(s), NEW i \in Ids,
             ReadId(s, c, i) \/ WriteId(s, c, i)
      PROVE  LockExclusive'
  <2>1. \/ CanLock(s, i) /\ \E users : Admit(s, c, i, users)
        \/ \E users : Closed(s, c, i, users)
    BY <1>6 DEF ReadId, WriteId
  <2> QED
    BY <1>2, <1>3, <2>1 DEF Admit
<1>7. ASSUME NEW s \in Servers, NEW c \in Conns(s),
             \/ InvalidId(s, c) \/ Leave(s, c) \/ HangUp(s, c)
             \/ \E nums \in [Items -> Amounts] : Book(s, c, nums)
      PROVE  LockExclusive'
  <2>1. Closed(s, c, globalbookid[s], idused[s])
    BY <1>7 DEF InvalidId, Leave, HangUp, CloseOnly, Book
  <2> QED
    BY <1>3, <2>1
<1>8. ASSUME UNCHANGED vars PROVE LockExclusive'
  BY <1>8 DEF vars
<1> QED
  BY <1>4, <1>5, <1>6, <1>7, <1>8 DEF Next, Client

------------------------------------------------------------------------------
\* The bookkeeping of closefd.

\* The clients a server let in for a record are finitely many.
LEMMA OpenFinite ==
    ASSUME NEW s \in Servers, NEW i \in Ids
    PROVE  /\ IsFiniteSet(OpenFor(s, i)) /\ Cardinality(OpenFor(s, i)) \in Nat
           /\ Cardinality(OpenFor(s, i)) = 0 <=> OpenFor(s, i) = {}
<1>1. IsFiniteSet(Conns(s))
  BY ConnsAssumption DEF Conns
<1>2. OpenFor(s, i) \subseteq Conns(s)
  BY DEF OpenFor
<1>3. IsFiniteSet(OpenFor(s, i))
  BY <1>1, <1>2, FS_Subset
<1> QED
  BY <1>3, FS_CardinalityType, FS_EmptySet

\* A write server whose counters are right has let in one client or none for a record.
LEMMA OneWriter ==
    ASSUME TypeOK, NEW s \in WriteServers, Counted(s), NEW i \in Ids, NEW c \in OpenFor(s, i)
    PROVE  OpenFor(s, i) = {c} /\ idused[s][i] = -1
<1>1. s \in Servers /\ s \notin ReadServers
  BY ServersAssumption DEF Servers
<1>2. Cardinality(OpenFor(s, i)) \in Nat \ {0} /\ IsFiniteSet(OpenFor(s, i))
  BY <1>1, OpenFinite
<1>3. idused[s][i] \in {-1, 0} /\ idused[s][i] = 0 - Cardinality(OpenFor(s, i))
  BY <1>1 DEF TypeOK, Counted
<1>4. Cardinality(OpenFor(s, i)) = 1
  BY <1>2, <1>3
<1>5. \E x : OpenFor(s, i) = {x}
  BY <1>2, <1>4, FS_Singleton
<1> QED
  BY <1>3, <1>4, <1>5

\* closefd takes its client out, and no other.
LEMMA ClosedOpen ==
    ASSUME TypeOK, NEW s \in Servers, NEW c \in Conns(s), NEW g, NEW users,
           Closed(s, c, g, users), NEW r \in Servers, NEW i \in Ids
    PROVE  OpenFor(r, i)' = IF r = s THEN OpenFor(r, i) \ {c} ELSE OpenFor(r, i)
  BY DEF OpenFor, Closed, TypeOK, Conns

\* closefd for a client that was not let in lets nobody out.
LEMMA NobodyLeaves ==
    ASSUME TypeOK, NEW s \in Servers, NEW c \in Conns(s), NEW g, NEW users,
           Closed(s, c, g, users), \A i \in Ids : c \notin OpenFor(s, i)
    PROVE  \A i \in Ids : OpenFor(s, i)' = OpenFor(s, i)
<1>1. \A i \in Ids : OpenFor(s, i)' = OpenFor(s, i) \ {c}
  BY ClosedOpen
<1>2. \A i \in Ids : OpenFor(s, i) \ {c} = OpenFor(s, i)
  OBVIOUS
<1> QED
  BY <1>1, <1>2

\* What a step leaves alone at a server: its clients, its counters and its locks.
Untouched(r) ==
    /\ idused'[r] = idused[r]
    /\ \A i \in Ids : /\ OpenFor(r, i)' = OpenFor(r, i)
                      /\ r \in locks'[i] <=> r \in locks[i]

\* A server's bookkeeping is not disturbed by a step that leaves it alone.
LEMMA UntouchedKeeps ==
    ASSUME NEW r \in Servers, Counted(r), LockedIsOpen(r), Untouched(r)
    PROVE  Counted(r)' /\ LockedIsOpen(r)'
  BY DEF Counted, LockedIsOpen, Untouched

\* A step of one server keeps the bookkeeping of all if it keeps that server's.
LEMMA KeptStep ==
    ASSUME Kept, NEW s \in Servers, \A r \in Servers \ {s} : Untouched(r),
           \A r \in Servers \ {s} : r \in stray => r \in stray',
           s \notin stray' => Counted(s)' /\ LockedIsOpen(s)'
    PROVE  Kept'
<1>1. ASSUME NEW r \in Servers, r \notin stray' PROVE Counted(r)' /\ LockedIsOpen(r)'
  <2>1. CASE r = s
    BY <1>1, <2>1
  <2>2. CASE r # s
    <3>1. r \notin stray /\ Untouched(r)
      BY <1>1, <2>2
    <3>2. Counted(r) /\ LockedIsOpen(r)
      BY <3>1 DEF Kept
    <3> QED
      BY <3>1, <3>2, UntouchedKeeps
  <2> QED
    BY <2>1, <2>2
<1> QED
  BY <1>1 DEF Kept

\* closefd leaves the other servers alone, and its own when there is nothing to release.
LEMMA ClosedElsewhere ==
    ASSUME TypeOK, NEW s \in Servers, NEW c \in Conns(s), NEW g \in Ids \cup {None},
           NEW users, Closed(s, c, g, users)
    PROVE  \A r \in Servers \ {s} : Untouched(r)
<1> SUFFICES ASSUME NEW r \in Servers \ {s} PROVE Untouched(r)
  OBVIOUS
<1>1. \A i \in Ids : OpenFor(r, i)' = OpenFor(r, i)
  BY ClosedOpen
<1>2. idused'[r] = idused[r] /\ \A i \in Ids : r \in locks'[i] <=> r \in locks[i]
  BY DEF Closed, TypeOK
<1> QED
  BY <1>1, <1>2 DEF Untouched

\* The leaving of a client under the id it was let in for: the count of its record goes
\* down by one and the lock goes with the last.
LEMMA LeaveOwn ==
    ASSUME TypeOK, NEW s \in Servers, NEW c \in Conns(s), Counted(s), LockedIsOpen(s),
           NEW g \in Ids, c \in OpenFor(s, g), Closed(s, c, g, idused[s])
    PROVE  Counted(s)' /\ LockedIsOpen(s)'
<1>0. g # None
  BY NoneAssumption
<1> DEFINE after == Released(s, g, idused[s])
<1>2. /\ idused' = [idused EXCEPT ![s] = after]
      /\ locks' = IF Unlocks(s, after[g]) THEN [locks EXCEPT ![g] = @ \ {s}] ELSE locks
  BY <1>0 DEF Closed
<1>3. \A i \in Ids : OpenFor(s, i)' = OpenFor(s, i) \ {c}
  BY ClosedOpen
<1>4. \A i \in Ids : i # g => c \notin OpenFor(s, i)
  BY DEF OpenFor
<1>5. /\ IsFiniteSet(OpenFor(s, g)) /\ Cardinality(OpenFor(s, g)) \in Nat
      /\ IsFiniteSet(OpenFor(s, g) \ {c})
      /\ Cardinality(OpenFor(s, g) \ {c}) = Cardinality(OpenFor(s, g)) - 1
  BY OpenFinite, FS_RemoveElement
<1>6. idused[s] \in [Ids -> Int]
  BY DEF TypeOK
<1>7. after[g] = IF s \in ReadServers THEN Cardinality(OpenFor(s, g) \ {c})
                                      ELSE 0 - Cardinality(OpenFor(s, g) \ {c})
  <2>1. CASE s \in ReadServers
    BY <1>5, <1>6, <2>1 DEF Counted, Released
  <2>2. CASE s \notin ReadServers
    <3>1. idused[s][g] = -1
      BY <2>2, OneWriter DEF Servers
    <3>2. Cardinality(OpenFor(s, g)) = 1
      BY <1>5, <2>2, <3>1 DEF Counted
    <3> QED
      BY <1>5, <1>6, <2>2, <3>1, <3>2 DEF Released
  <2> QED
    BY <2>1, <2>2
<1>8. \A i \in Ids : i # g => after[i] = idused[s][i]
  BY <1>6 DEF Released
<1>9. Unlocks(s, after[g]) <=> OpenFor(s, g) \ {c} = {}
  <2>1. CASE s \in ReadServers
    <3>1. after[g] = 0 <=> OpenFor(s, g) \ {c} = {}
      BY <1>5, <1>7, <2>1, FS_EmptySet
    <3> QED
      BY <2>1, <3>1, ServersAssumption DEF Unlocks
  <2>2. CASE s \notin ReadServers
    BY <2>2, OneWriter DEF Unlocks, Servers
  <2> QED
    BY <2>1, <2>2
<1> HIDE DEF after
<1>10. ASSUME NEW i \in Ids
       PROVE  idused'[s][i] = IF s \in ReadServers THEN Cardinality(OpenFor(s, i)')
                                                   ELSE 0 - Cardinality(OpenFor(s, i)')
  <2>1. CASE i = g
    BY <1>2, <1>3, <1>7, <2>1 DEF TypeOK
  <2>2. CASE i # g
    <3>1. OpenFor(s, i)' = OpenFor(s, i) /\ idused'[s][i] = idused[s][i]
      BY <1>2, <1>3, <1>4, <1>8, <2>2 DEF TypeOK
    <3> QED
      BY <3>1 DEF Counted
  <2> QED
    BY <2>1, <2>2
<1>11. ASSUME NEW i \in Ids
       PROVE  s \in locks'[i] <=> OpenFor(s, i)' # {}
  <2>1. CASE i = g
    BY <1>2, <1>3, <1>9, <2>1 DEF LockedIsOpen, TypeOK
  <2>2. CASE i # g
    <3>1. (s \in locks'[i] <=> s \in locks[i]) /\ OpenFor(s, i)' = OpenFor(s, i)
      BY <1>2, <1>3, <1>4, <2>2 DEF TypeOK
    <3> QED
      BY <3>1 DEF LockedIsOpen
  <2> QED
    BY <2>1, <2>2
<1> QED
  BY <1>10, <1>11 DEF Counted, LockedIsOpen

\* A write server releases nothing for a client that was not let in when nobody has
\* the record either.
LEMMA LeaveNothing ==
    ASSUME TypeOK, NEW s \in Servers, s \notin ReadServers, NEW c \in Conns(s), Counted(s),
           LockedIsOpen(s), NEW g \in Ids, \A i \in Ids : c \notin OpenFor(s, i),
           idused[s][g] = 0, Closed(s, c, g, idused[s])
    PROVE  Untouched(s)
<1>1. OpenFor(s, g) = {} /\ s \notin locks[g]
  BY OpenFinite DEF Counted, LockedIsOpen
<1>2. \A i \in Ids : OpenFor(s, i)' = OpenFor(s, i)
  BY NobodyLeaves
<1>3. idused'[s] = idused[s]
  BY NoneAssumption DEF Closed, Released, TypeOK
<1>4. \A i \in Ids : s \in locks'[i] <=> s \in locks[i]
  BY <1>1 DEF Closed, TypeOK
<1> QED
  BY <1>2, <1>3, <1>4 DEF Untouched

\* closefd keeps the bookkeeping of a server that does not stray.
LEMMA CloseStep ==
    ASSUME TypeOK, OpenGaveId, Kept, NEW s \in Servers, NEW c \in Conns(s),
           NEW g \in Ids \cup {None}, Closed(s, c, g, idused[s]), Strays(s, c, g),
           g = None => stage[s][c] # "open"
    PROVE  Kept'
<1>1. \A r \in Servers \ {s} : Untouched(r)
  BY ClosedElsewhere
<1>2. ASSUME s \notin stray' PROVE Counted(s)' /\ LockedIsOpen(s)'
  <2>1. s \notin stray /\ ~Misplaced(s, c, g)
    BY <1>2 DEF Strays
  <2>2. Counted(s) /\ LockedIsOpen(s)
    BY <2>1 DEF Kept
  <2>3. CASE g = None
    <3>1. \A i \in Ids : c \notin OpenFor(s, i)
      BY <2>3 DEF OpenFor
    <3>2. \A i \in Ids : OpenFor(s, i)' = OpenFor(s, i)
      BY <3>1, NobodyLeaves
    <3>3. UNCHANGED <<idused, locks>>
      BY <2>3 DEF Closed, TypeOK
    <3>4. Untouched(s)
      BY <3>2, <3>3 DEF Untouched
    <3> QED
      BY <2>2, <3>4, UntouchedKeeps
  <2>4. CASE g # None /\ g = asked[s][c]
    <3>1. c \in OpenFor(s, g)
      BY <2>4 DEF OpenGaveId, OpenFor
    <3> QED
      BY <2>2, <2>4, <3>1, LeaveOwn
  <2>5. CASE g # None /\ g # asked[s][c]
    <3>1. s \notin ReadServers /\ asked[s][c] = None /\ idused[s][g] = 0
      BY <2>1, <2>5 DEF Misplaced
    <3>2. \A i \in Ids : c \notin OpenFor(s, i)
      BY <3>1, NoneAssumption DEF OpenFor
    <3> QED
      BY <2>2, <2>5, <3>1, <3>2, LeaveNothing, UntouchedKeeps
  <2> QED
    BY <2>3, <2>4, <2>5
<1> QED
  BY <1>1, <1>2, KeptStep DEF Strays

\* A client let in is counted, and its server holds the lock.
LEMMA AdmitStep ==
    ASSUME TypeOK, Kept, NEW s \in Servers, NEW c \in Conns(s),
           NEW i \in Ids, stage[s][c] = "id", NEW users \in [Ids -> Int],
           Admit(s, c, i, users), stray' = stray,
           \A j \in Ids : j # i => users[j] = idused[s][j],
           users[i] = IF s \in ReadServers THEN idused[s][i] + 1 ELSE -1,
           s \notin ReadServers => idused[s][i] = 0
    PROVE  Kept'
<1>1. ASSUME NEW r \in Servers, NEW j \in Ids
      PROVE  OpenFor(r, j)' = IF r = s /\ j = i THEN OpenFor(r, j) \cup {c}
                                                ELSE OpenFor(r, j)
  <2>1. \A d \in Conns(r) : r # s \/ d # c =>
            stage'[r][d] = stage[r][d] /\ asked'[r][d] = asked[r][d]
    BY DEF Admit, TypeOK
  <2>2. stage'[s][c] = "open" /\ asked'[s][c] = i
    BY DEF Admit, TypeOK
  <2> QED
    BY <2>1, <2>2 DEF OpenFor, Conns
<1>2. c \notin OpenFor(s, i)
  BY DEF OpenFor
<1>3. /\ Cardinality(OpenFor(s, i) \cup {c}) = Cardinality(OpenFor(s, i)) + 1
      /\ Cardinality(OpenFor(s, i)) \in Nat
  BY <1>2, OpenFinite, FS_AddElement
<1>4. \A r \in Servers \ {s} : Untouched(r)
  <2> SUFFICES ASSUME NEW r \in Servers \ {s} PROVE Untouched(r)
    OBVIOUS
  <2>1. idused'[r] = idused[r] /\ \A j \in Ids : r \in locks'[j] <=> r \in locks[j]
    BY DEF Admit, TypeOK
  <2> QED
    BY <1>1, <2>1 DEF Untouched
<1>5. ASSUME Counted(s), LockedIsOpen(s) PROVE Counted(s)' /\ LockedIsOpen(s)'
  <2>1. ASSUME NEW j \in Ids
        PROVE  idused'[s][j] = IF s \in ReadServers THEN Cardinality(OpenFor(s, j)')
                                                    ELSE 0 - Cardinality(OpenFor(s, j)')
    <3>1. idused'[s][j] = users[j]
      BY DEF Admit, TypeOK
    <3>2. CASE j # i
      BY <1>1, <1>5, <3>1, <3>2 DEF Counted
    <3>3. CASE j = i
      <4>1. Cardinality(OpenFor(s, j)') = Cardinality(OpenFor(s, i)) + 1
        BY <1>1, <1>3, <3>3
      <4>2. CASE s \in ReadServers
        BY <1>5, <3>1, <3>3, <4>1, <4>2 DEF Counted
      <4>3. CASE s \notin ReadServers
        <5>1. Cardinality(OpenFor(s, i)) = 0
          BY <1>3, <1>5, <4>3 DEF Counted
        <5> QED
          BY <3>1, <3>3, <4>1, <4>3, <5>1
      <4> QED
        BY <4>2, <4>3
    <3> QED
      BY <3>2, <3>3
  <2>2. ASSUME NEW j \in Ids PROVE s \in locks'[j] <=> OpenFor(s, j)' # {}
    <3>1. s \in locks'[j] <=> (s \in locks[j] \/ j = i)
      BY DEF Admit, TypeOK
    <3> QED
      BY <1>1, <1>5, <3>1 DEF LockedIsOpen
  <2> QED
    BY <2>1, <2>2 DEF Counted, LockedIsOpen
<1> QED
  BY <1>4, <1>5, KeptStep DEF Kept

\* A reader refused because the record is locked was never counted.
LEMMA ReadRefusedStep ==
    ASSUME TypeOK, Kept, NEW s \in ReadServers, NEW c \in Conns(s), NEW i \in Ids,
           stage[s][c] = "id", Closed(s, c, i, [idused[s] EXCEPT ![i] = @ + 1]),
           stray' = stray
    PROVE  Kept'
<1>0. s \in Servers /\ idused[s] \in [Ids -> Int] /\ i # None
  BY NoneAssumption DEF Servers, TypeOK
<1>1. Released(s, i, [idused[s] EXCEPT ![i] = @ + 1]) = idused[s]
  BY <1>0 DEF Released
<1>2. idused' = idused
  BY <1>0, <1>1 DEF Closed, TypeOK
<1>3. \A j \in Ids : OpenFor(s, j)' = OpenFor(s, j)
  <2>1. \A j \in Ids : c \notin OpenFor(s, j)
    BY DEF OpenFor
  <2> QED
    BY <1>0, <2>1, NobodyLeaves
<1>4. \A r \in Servers \ {s} : Untouched(r)
  BY <1>0, ClosedElsewhere
<1>5. ASSUME Counted(s), LockedIsOpen(s) PROVE Untouched(s)
  <2>1. CASE Unlocks(s, idused[s][i])
    <3>1. idused[s][i] = 0
      BY <2>1, ServersAssumption DEF Unlocks
    <3>2. s \notin locks[i]
      BY <1>0, <1>5, <3>1, OpenFinite DEF Counted, LockedIsOpen
    <3>3. \A j \in Ids : s \in locks'[j] <=> s \in locks[j]
      BY <1>0, <3>2 DEF Closed, TypeOK
    <3> QED
      BY <1>2, <1>3, <3>3 DEF Untouched
  <2>2. CASE ~Unlocks(s, idused[s][i])
    <3>1. locks' = locks
      BY <1>0, <1>1, <2>2 DEF Closed
    <3> QED
      BY <1>2, <1>3, <3>1 DEF Untouched
  <2> QED
    BY <2>1, <2>2
<1>6. s \notin stray' => Counted(s)' /\ LockedIsOpen(s)'
  BY <1>0, <1>5, UntouchedKeeps DEF Kept
<1> QED
  BY <1>0, <1>4, <1>6, KeptStep

\* A server that is killed has no client, no count and no lock.
LEMMA RestartStep ==
    ASSUME TypeOK, Kept, NEW s \in Servers, Restart(s)
    PROVE  Kept'
<1>1. ASSUME NEW r \in Servers, NEW i \in Ids
      PROVE  OpenFor(r, i)' = IF r = s THEN {} ELSE OpenFor(r, i)
  BY DEF OpenFor, Restart, TypeOK, Conns
<1>2. \A r \in Servers \ {s} : Untouched(r)
  <2> SUFFICES ASSUME NEW r \in Servers \ {s} PROVE Untouched(r)
    OBVIOUS
  <2>1. idused'[r] = idused[r] /\ \A i \in Ids : r \in locks'[i] <=> r \in locks[i]
    BY DEF Restart, TypeOK
  <2> QED
    BY <1>1, <2>1 DEF Untouched
<1>3. Counted(s)'
  <2>1. \A i \in Ids : idused'[s][i] = 0 /\ OpenFor(s, i)' = {}
    BY <1>1 DEF Restart, TypeOK
  <2>2. Cardinality({}) = 0
    BY FS_EmptySet
  <2> QED
    BY <2>1, <2>2 DEF Counted
<1>4. LockedIsOpen(s)'
  BY <1>1 DEF Restart, LockedIsOpen
<1>5. \A r \in Servers \ {s} : r \in stray => r \in stray'
  BY DEF Restart
<1> QED
  BY <1>2, <1>3, <1>4, <1>5, KeptStep

\* A step that lets nobody in or out keeps the bookkeeping.
LEMMA NobodyMoves ==
    ASSUME Kept, \A s \in Servers, i \in Ids : OpenFor(s, i)' = OpenFor(s, i),
           UNCHANGED <<idused, locks, stray>>
    PROVE  Kept'
<1>1. \A s \in Servers : Untouched(s)
  BY DEF Untouched
<1> QED
  BY <1>1, UntouchedKeeps DEF Kept

\* Every step keeps the bookkeeping of the servers that do not stray.
LEMMA BookkeepingStep ==
    ASSUME TypeOK, OpenGaveId, Kept, [Next]_vars
    PROVE  Kept'
<1>1. ASSUME NEW s \in Servers, Restart(s) PROVE Kept'
  BY <1>1, RestartStep
<1>2. ASSUME NEW s \in Servers, NEW c \in Conns(s), Accept(s, c) PROVE Kept'
  <2>1. \A r \in Servers : \A d \in Conns(r) :
           stage'[r][d] = "open" <=> stage[r][d] = "open"
    BY <1>2 DEF Accept, TypeOK
  <2>2. UNCHANGED <<asked, idused, locks, stray>>
    BY <1>2 DEF Accept
  <2>3. \A r \in Servers, i \in Ids : OpenFor(r, i)' = OpenFor(r, i)
    BY <2>1, <2>2 DEF OpenFor, Conns
  <2> QED
    BY <2>2, <2>3, NobodyMoves
<1>3. ASSUME NEW s \in Servers, NEW c \in Conns(s), NEW i \in Ids, ReadId(s, c, i)
      PROVE  Kept'
  <2> DEFINE users == [idused[s] EXCEPT ![i] = @ + 1]
  <2>1. /\ s \in ReadServers /\ stage[s][c] = "id" /\ stray' = stray
        /\ Admit(s, c, i, users) \/ Closed(s, c, i, users)
    BY <1>3 DEF ReadId
  <2>2. /\ users \in [Ids -> Int] /\ users[i] = idused[s][i] + 1
        /\ \A j \in Ids : j # i => users[j] = idused[s][j]
    BY DEF TypeOK
  <2>3. CASE Admit(s, c, i, users)
    <3> HIDE DEF users
    <3> QED
      BY <2>1, <2>2, <2>3, AdmitStep
  <2>4. CASE Closed(s, c, i, users)
    BY <2>1, <2>4, ReadRefusedStep
  <2> QED
    BY <2>1, <2>3, <2>4
<1>4. ASSUME NEW s \in Servers, NEW c \in Conns(s), NEW i \in Ids, WriteId(s, c, i)
      PROVE  Kept'
  <2> DEFINE users == [idused[s] EXCEPT ![i] = -1]
  <2>1. /\ s \notin ReadServers /\ stage[s][c] = "id"
        /\ \/ idused[s][i] = 0 /\ Admit(s, c, i, users) /\ stray' = stray
           \/ Closed(s, c, i, idused[s]) /\ Strays(s, c, i)
    BY <1>4, ServersAssumption DEF WriteId
  <2>2. /\ users \in [Ids -> Int] /\ users[i] = -1
        /\ \A j \in Ids : j # i => users[j] = idused[s][j]
    BY DEF TypeOK
  <2>3. CASE idused[s][i] = 0 /\ Admit(s, c, i, users) /\ stray' = stray
    <3> HIDE DEF users
    <3> QED
      BY <2>1, <2>2, <2>3, AdmitStep
  <2>4. CASE Closed(s, c, i, idused[s]) /\ Strays(s, c, i)
    BY <2>1, <2>4, CloseStep
  <2> QED
    BY <2>1, <2>3, <2>4
<1>5. ASSUME NEW s \in Servers, NEW c \in Conns(s),
             \/ InvalidId(s, c) \/ Leave(s, c) \/ HangUp(s, c)
             \/ \E nums \in [Items -> Amounts] : Book(s, c, nums)
      PROVE  Kept'
  <2>1. Closed(s, c, globalbookid[s], idused[s]) /\ Strays(s, c, globalbookid[s])
    BY <1>5 DEF InvalidId, Leave, HangUp, CloseOnly, Book
  <2>2. globalbookid[s] \in Ids \cup {None}
    BY DEF TypeOK
  <2>3. globalbookid[s] = None => stage[s][c] # "open"
    BY DEF OpenGaveId
  <2> QED
    BY <2>1, <2>2, <2>3, CloseStep
<1>6. ASSUME UNCHANGED vars PROVE Kept'
  <2>1. \A r \in Servers, i \in Ids : OpenFor(r, i)' = OpenFor(r, i)
    BY <1>6 DEF vars, OpenFor, Conns
  <2> QED
    BY <1>6, <2>1, NobodyMoves DEF vars
<1> QED
  BY <1>1, <1>2, <1>3, <1>4, <1>5, <1>6 DEF Next, Client

\* Whoever is let in gave an id to the server.
LEMMA OpenGaveIdStep ==
    ASSUME TypeOK, OpenGaveId, [Next]_vars
    PROVE  OpenGaveId'
<1>1. ASSUME NEW s \in Servers, Restart(s) PROVE OpenGaveId'
  BY <1>1 DEF OpenGaveId, Restart, TypeOK, Conns
<1>2. ASSUME NEW s \in Servers, NEW c \in Conns(s), Accept(s, c) PROVE OpenGaveId'
  BY <1>2 DEF OpenGaveId, Accept, TypeOK, Conns
<1>3. ASSUME NEW s \in Servers, NEW c \in Conns(s), NEW g, NEW users, Closed(s, c, g, users),
             \A r \in Servers : globalbookid[r] # None => globalbookid'[r] # None
      PROVE  OpenGaveId'
  BY <1>3 DEF OpenGaveId, Closed, TypeOK, Conns
<1>4. ASSUME NEW s \in Servers, NEW c \in Conns(s), NEW i \in Ids, NEW users,
             Admit(s, c, i, users), globalbookid' = [globalbookid EXCEPT ![s] = i]
      PROVE  OpenGaveId'
  BY <1>4, NoneAssumption DEF OpenGaveId, Admit, TypeOK, Conns
<1>5. ASSUME NEW s \in Servers, NEW c \in Conns(s), NEW i \in Ids,
             ReadId(s, c, i) \/ WriteId(s, c, i)
      PROVE  OpenGaveId'
  <2>1. /\ globalbookid' = [globalbookid EXCEPT ![s] = i]
        /\ (\E users : Admit(s, c, i, users)) \/ (\E users : Closed(s, c, i, users))
    BY <1>5 DEF ReadId, WriteId
  <2>2. \A r \in Servers : globalbookid[r] # None => globalbookid'[r] # None
    BY <2>1, NoneAssumption DEF TypeOK
  <2> QED
    BY <1>3, <1>4, <2>1, <2>2
<1>6. ASSUME NEW s \in Servers, NEW c \in Conns(s),
             \/ InvalidId(s, c) \/ Leave(s, c) \/ HangUp(s, c)
             \/ \E nums \in [Items -> Amounts] : Book(s, c, nums)
      PROVE  OpenGaveId'
  <2>1. Closed(s, c, globalbookid[s], idused[s]) /\ globalbookid' = globalbookid
    BY <1>6 DEF InvalidId, Leave, HangUp, CloseOnly, Book
  <2> QED
    BY <1>3, <2>1
<1>7. ASSUME UNCHANGED vars PROVE OpenGaveId'
  BY <1>7 DEF vars, OpenGaveId, Conns
<1> QED
  BY <1>1, <1>2, <1>5, <1>6, <1>7 DEF Next, Client

------------------------------------------------------------------------------
\* Nobody is let in, counted or locks anything at the start.
LEMMA InitInv == Init => BInv
<1> SUFFICES ASSUME Init PROVE BInv
  OBVIOUS
<1>1. TypeOK
  <2>1. /\ DOMAIN stage = Servers /\ DOMAIN asked = Servers
        /\ \A s \in Servers : /\ stage[s] \in [Conns(s) -> {"free", "id", "open"}]
                              /\ asked[s] \in [Conns(s) -> Ids \cup {None}]
    BY DEF Init
  <2>2. /\ idused \in [Servers -> [Ids -> Int]]
        /\ \A s \in WriteServers, i \in Ids : idused[s][i] \in {-1, 0}
    BY DEF Init, Servers
  <2>3. bookings \in [Ids -> [Items -> (-IntHalf)..(IntHalf - 1)]]
    BY IntAssumption DEF Init
  <2> QED
    BY <2>1, <2>2, <2>3 DEF Init, TypeOK
<1>2. \A s \in Servers, i \in Ids : OpenFor(s, i) = {}
  BY DEF Init, OpenFor
<1>3. OpenGaveId /\ LockExclusive
  BY DEF Init, OpenGaveId, LockExclusive
<1>4. ASSUME NEW s \in Servers PROVE Counted(s) /\ LockedIsOpen(s)
  <2>1. \A i \in Ids : idused[s][i] = 0 /\ Cardinality(OpenFor(s, i)) = 0
    BY <1>2, FS_EmptySet DEF Init
  <2>2. LockedIsOpen(s)
    BY <1>2 DEF Init, LockedIsOpen
  <2> QED
    BY <2>1, <2>2 DEF Counted
<1> QED
  BY <1>1, <1>3, <1>4 DEF BInv, Kept

\* The variables keep their types for any number of servers and connections; a write
\* server's mark is -1 or 0, whatever clients do (server.c:155, closefd).
THEOREM TypeCorrect == Spec => []TypeOK
<1>1. TypeOK /\ [Next]_vars => TypeOK'
  BY TypeStep
<1>2. Init => TypeOK
  BY InitInv DEF BInv
<1> QED
  BY <1>1, <1>2, PTL DEF Spec

\* The inductive invariant.
THEOREM Invariant == Spec => []BInv
<1>1. BInv /\ [Next]_vars => BInv'
  BY TypeStep, LockExclusiveStep, OpenGaveIdStep, BookkeepingStep DEF BInv
<1> QED
  BY InitInv, <1>1, PTL DEF Spec

\* The clients let in for a record are the open connections of the servers.
LEMMA OpenIsClient ==
    ASSUME NEW i \in Ids, NEW s \in Servers, NEW c \in OpenFor(s, i)
    PROVE  <<s, c>> \in ClientsOf(i) /\ <<s, c>>[1] = s
  BY DEF ClientsOf, Clients, OpenFor, Conns

\* And nobody else is.
LEMMA ClientIsOpen ==
    ASSUME NEW i \in Ids, NEW x \in ClientsOf(i)
    PROVE  \E s \in Servers, c \in ReadConns \cup WriteConns :
               x = <<s, c>> /\ c \in OpenFor(s, i)
  BY DEF ClientsOf, Clients, OpenFor, Conns

\* A client let in to write a record is beside no other client of it (server.c:265),
\* unless closefd of the server of one of them has released a record for a client that was
\* not let in for it: with stray empty this is WriteExclusive, and a closefd of that kind
\* is the only way to lose it.
THEOREM WritersAreAlone == Spec => []ExclusiveUnlessStray
<1>1. BInv => ExclusiveUnlessStray
  <2> SUFFICES ASSUME BInv, NEW i \in Ids, NEW x \in ClientsOf(i), NEW y \in ClientsOf(i),
                      x[1] \in WriteServers, {x[1], y[1]} \cap stray = {}
               PROVE  x = y
    BY DEF ExclusiveUnlessStray
  <2>1. PICK s \in Servers, c \in ReadConns \cup WriteConns : x = <<s, c>> /\ c \in OpenFor(s, i)
    BY ClientIsOpen
  <2>2. PICK r \in Servers, d \in ReadConns \cup WriteConns : y = <<r, d>> /\ d \in OpenFor(r, i)
    BY ClientIsOpen
  <2>3. s \notin stray /\ r \notin stray /\ s \in WriteServers
    BY <2>1, <2>2
  <2>4. Counted(s) /\ s \in locks[i] /\ r \in locks[i]
    BY <2>1, <2>2, <2>3 DEF BInv, Kept, LockedIsOpen
  <2>5. r = s
    BY <2>3, <2>4 DEF BInv, LockExclusive
  <2>6. c = d
    BY <2>1, <2>2, <2>3, <2>4, <2>5, OneWriter DEF BInv
  <2> QED
    BY <2>1, <2>2, <2>5, <2>6
<1> QED
  BY Invariant, <1>1, PTL

\* The mark of a writer is the negated number of clients.
LEMMA Negated == ASSUME NEW n \in Nat PROVE 0 - n = -n
  OBVIOUS

\* Until closefd of a server has released a record for a client that was not let in for
\* it, the server has the lock of a record exactly while a client of it is let in for
\* that record, and idused counts those clients (server.c:168): whatever the clients of
\* the other servers do, and through every hang-up and malformed id for which closefd
\* finds the right record, or nothing.
THEOREM LocksAreKept == Spec => []LocksMatchClients
<1>1. BInv => LocksMatchClients
  <2> SUFFICES ASSUME BInv, NEW i \in Ids, NEW s \in Servers \ stray
               PROVE  LET mine == {x \in ClientsOf(i) : x[1] = s}
                      IN  /\ s \in locks[i] <=> mine # {}
                          /\ idused[s][i] = IF s \in ReadServers THEN Cardinality(mine)
                                                                 ELSE -Cardinality(mine)
    BY DEF LocksMatchClients
  <2> DEFINE mine == {x \in ClientsOf(i) : x[1] = s}
  <2>1. Counted(s) /\ LockedIsOpen(s)
    BY DEF BInv, Kept
  <2> DEFINE f == [c \in OpenFor(s, i) |-> <<s, c>>]
  <2>2. f \in [OpenFor(s, i) -> mine]
    <3>1. ASSUME NEW c \in OpenFor(s, i) PROVE <<s, c>> \in mine
      BY OpenIsClient
    <3> QED
      BY <3>1
  <2>3. \A x \in mine : \E c \in OpenFor(s, i) : f[c] = x
    BY ClientIsOpen
  <2>4. \A c, d \in OpenFor(s, i) : f[c] = f[d] => c = d
    OBVIOUS
  <2>5. mine # {} <=> OpenFor(s, i) # {}
    BY <2>2, <2>3
  <2> HIDE DEF f, mine
  <2>6. f \in Bijection(OpenFor(s, i), mine)
    BY <2>2, <2>3, <2>4 DEF Bijection, Injection, IsInjective, Surjection
  <2>7. Cardinality(mine) = Cardinality(OpenFor(s, i)) /\ Cardinality(mine) \in Nat
    BY <2>6, OpenFinite, FS_Bijection DEF ExistsBijection
  <2>8. 0 - Cardinality(mine) = -Cardinality(mine)
    BY <2>7, Negated
  <2>9. idused[s][i] = IF s \in ReadServers THEN Cardinality(mine) ELSE -Cardinality(mine)
    BY <2>1, <2>7, <2>8 DEF Counted
  <2>10. s \in locks[i] <=> mine # {}
    BY <2>1, <2>5 DEF LockedIsOpen
  <2> QED
    BY <2>9, <2>10 DEF mine
<1> QED
  BY Invariant, <1>1, PTL

------------------------------------------------------------------------------
\* The file.

\* An int that fits does not wrap.
LEMMA WrapFits ==
    ASSUME NEW n \in Int, -IntHalf <= n, n < IntHalf
    PROVE  Wrap(n) = n
<1>1. IntHalf \in Nat
  BY IntAssumption
<1>2. PICK m \in Int : m = n + IntHalf
  BY <1>1
<1>3. m % (2 * IntHalf) = m
  BY <1>1, <1>2
<1> QED
  BY <1>1, <1>2, <1>3 DEF Wrap

\* Whatever clients book, no amount of a record is negative, and a record holds at most
\* MaxTotal items or at least 2^31 (server.c:111, 112): a total beyond the limit that an
\* int can hold is always refused, and the wrap of the sum at server.c:336 is the only way
\* past it.
THEOREM LimitedRecords == Spec => []LimitedOrWrapped
<1>1. Init => LimitedOrWrapped
  BY IntAssumption DEF Init, LimitedOrWrapped, InAll, Items
<1>2. ASSUME TypeOK, LimitedOrWrapped, [Next]_vars PROVE LimitedOrWrapped'
  <2>1. ASSUME bookings' = bookings PROVE LimitedOrWrapped'
    BY <1>2, <2>1 DEF LimitedOrWrapped
  <2>2. ASSUME NEW s \in Servers, NEW c \in Conns(s), NEW nums \in [Items -> Amounts],
               Book(s, c, nums)
        PROVE  LimitedOrWrapped'
    <3> DEFINE g == globalbookid[s]
               after == [t \in Items |-> Wrap(bookings[g][t] + nums[t])]
               ok == Total(after) <= MaxTotal /\ \A t \in Items : after[t] >= 0
    <3>1. CASE ok /\ g \in Ids
      <4>1. ASSUME NEW t \in Items
            PROVE  after[t] \in Int /\ after[t] >= 0
        <5>1. bookings[g][t] \in (-IntHalf)..(IntHalf - 1)
          BY <1>2, <3>1 DEF TypeOK
        <5>2. nums[t] \in (-IntHalf)..(IntHalf - 1)
          BY AmountAssumption
        <5>3. bookings[g][t] + nums[t] \in Int
          BY <5>1, <5>2, IntAssumption
        <5>4. after[t] \in (-IntHalf)..(IntHalf - 1)
          BY <5>3, WrapType
        <5> QED
          BY <3>1, <5>4, IntAssumption
      <4>2. bookings' = [bookings EXCEPT ![g] = after]
        BY <2>2, <3>1 DEF Book
      <4>3. Total(after) <= MaxTotal
        BY <3>1
      <4> HIDE DEF after
      <4>4. InAll(after) \in Int /\ InAll(after) >= 0
        BY <4>1 DEF InAll, Items
      <4>5. InAll(after) <= MaxTotal \/ InAll(after) >= IntHalf
        BY <4>3, <4>4, WrapFits, IntAssumption DEF Total
      <4> QED
        BY <1>2, <4>1, <4>2, <4>5 DEF LimitedOrWrapped, TypeOK
    <3>2. CASE ~(ok /\ g \in Ids)
      <4>1. bookings' = bookings \/ (g \notin Ids /\ bookings' = [bookings EXCEPT ![g] = after])
        BY <2>2, <3>2 DEF Book
      <4>2. bookings' = bookings
        BY <1>2, <4>1 DEF TypeOK
      <4> QED
        BY <2>1, <4>2
    <3> QED
      BY <3>1, <3>2
  <2>3. ASSUME NEW s \in Servers,
               \/ Restart(s)
               \/ \E c \in Conns(s) : \/ Accept(s, c) \/ InvalidId(s, c)
                                      \/ Leave(s, c) \/ HangUp(s, c)
                                      \/ \E i \in Ids : ReadId(s, c, i) \/ WriteId(s, c, i)
        PROVE  LimitedOrWrapped'
    BY <2>1, <2>3
    DEF Restart, Accept, InvalidId, Leave, HangUp, CloseOnly, ReadId, WriteId
  <2>4. ASSUME UNCHANGED vars PROVE LimitedOrWrapped'
    BY <2>1, <2>4 DEF vars
  <2> QED
    BY <1>2, <2>2, <2>3, <2>4 DEF Next, Client
<1>3. TypeOK /\ LimitedOrWrapped /\ [Next]_vars => LimitedOrWrapped'
  BY <1>2
<1> QED
  BY TypeCorrect, <1>1, <1>3, PTL DEF Spec
================================================================================
