------------------------------- MODULE Booking -------------------------------
(***************************************************************************)
(* The booking system of System-Programming/hw1/server.c: read servers and  *)
(* write servers, each a select() loop over its connections, sharing the    *)
(* file bookingRecord under fcntl record locks.  One action is one handler  *)
(* call; what the handlers keep in globals is shared by all connections of  *)
(* a server.                                                                *)
(***************************************************************************)
EXTENDS Integers, FiniteSets

CONSTANTS
    ReadServers, WriteServers,   \* processes
    ReadConns, WriteConns,       \* connection slots of a server of each kind
    Ids,                         \* the ids 902001..902020
    MaxTotal,                    \* 15
    Amounts,                     \* amounts a booking command may name
    IntHalf,                     \* 2^31: an int is in -IntHalf..IntHalf-1
    HangUps,                     \* may a client disconnect early?
    BadIds,                      \* may a client send a malformed id?
    MaxDebt,                     \* bound: idused of a reader is not driven below -MaxDebt
    None

ASSUME IntAssumption == MaxTotal \in Nat /\ IntHalf \in Nat /\ MaxTotal < IntHalf
ASSUME AmountAssumption == Amounts \subseteq (-IntHalf)..(IntHalf - 1)
ASSUME ServersAssumption == ReadServers \cap WriteServers = {}
ASSUME EnvAssumption ==
    HangUps \in BOOLEAN /\ BadIds \in BOOLEAN /\ MaxDebt \in Nat \ {0}
ASSUME NoneAssumption == None \notin Ids
ASSUME ConnsAssumption == IsFiniteSet(ReadConns) /\ IsFiniteSet(WriteConns)

Servers == ReadServers \cup WriteServers
Conns(s) == IF s \in ReadServers THEN ReadConns ELSE WriteConns
Items == {"Food", "Concert", "Electronics"}

VARIABLES
    stage,         \* per server and connection: "free", "id" or "open"
    asked,         \* the id the client of the connection gave (its own)
    globalbookid,  \* per server: the last valid id any client gave
    idused,        \* per server and id
    locks,         \* per id: the servers holding its fcntl lock
    bookings,      \* the file: per id and item, what is booked
    stray          \* history: the servers whose closefd has, since they were started,
                   \* released a record for a client that was not let in for it

vars == <<stage, asked, globalbookid, idused, locks, bookings, stray>>

Wrap(n) == ((n + IntHalf) % (2 * IntHalf)) - IntHalf

\* What a record holds in all, and as an int.
InAll(booked) == booked["Food"] + booked["Concert"] + booked["Electronics"]
Total(booked) == Wrap(InAll(booked))

Init ==
    /\ stage = [s \in Servers |-> [c \in Conns(s) |-> "free"]]
    /\ asked = [s \in Servers |-> [c \in Conns(s) |-> None]]
    /\ globalbookid = [s \in Servers |-> None]
    /\ idused = [s \in Servers |-> [i \in Ids |-> 0]]
    /\ locks = [i \in Ids |-> {}]
    /\ bookings = [i \in Ids |-> [t \in Items |-> 0]]
    /\ stray = {}

\* Mutant: a write lock goes beside read locks.
CanLockOverReads(s, i) ==
    LET others == locks[i] \ {s}
    IN  others \cap WriteServers = {}

\* fcntl(F_SETLK): a read lock goes beside other read locks, a write lock
\* beside none; the locks of a process itself are no obstacle.
CanLock(s, i) ==
    LET others == locks[i] \ {s}
    IN  IF s \in ReadServers THEN others \cap WriteServers = {}
                             ELSE others = {}

------------------------------------------------------------------------------
\* Mutant: a write server counts up unconditionally.
ReleasedTwice(s, g, users) ==
    [users EXCEPT ![g] = IF s \in ReadServers THEN @ - 1 ELSE @ + 1]

\* closefd on idused: the decrement of a read server is unconditional (its if
\* guards only a printf).
Released(s, g, users) ==
    [users EXCEPT ![g] = IF s \in ReadServers THEN @ - 1
                         ELSE IF @ < 0 THEN @ + 1 ELSE @]

\* Mutant: a read server unlocks beside other readers.
UnlocksAlways(s, left) == TRUE

\* closefd on the record lock.
Unlocks(s, left) == s \in WriteServers \/ left = 0

\* What closefd releases is keyed by globalbookid, g here, whoever the closing
\* client is; users is idused[s] at the call.
Closed(s, c, g, users) ==
    LET after == IF g = None THEN users ELSE Released(s, g, users)
    IN  /\ idused' = [idused EXCEPT ![s] = after]
        /\ locks' = IF g # None /\ Unlocks(s, after[g])
                    THEN [locks EXCEPT ![g] = @ \ {s}] ELSE locks
        /\ stage' = [stage EXCEPT ![s][c] = "free"]
        /\ asked' = [asked EXCEPT ![s][c] = None]

\* closefd releases the record of g for a client that was not let in for it: a
\* read server always counts, a write server only if somebody else has the record
\* or the client has another one.
Misplaced(s, c, g) ==
    /\ g \notin {None, asked[s][c]}
    /\ s \in ReadServers \/ asked[s][c] # None \/ idused[s][g] # 0

Strays(s, c, g) == stray' = IF Misplaced(s, c, g) THEN stray \cup {s} ELSE stray

\* Clients for whom the wrong record is released can drive its count down for ever.
DebtLeft(s) ==
    s \in ReadServers /\ globalbookid[s] # None =>
        idused[s][globalbookid[s]] > -MaxDebt

CloseOnly(s, c) ==
    /\ DebtLeft(s)
    /\ Closed(s, c, globalbookid[s], idused[s])
    /\ Strays(s, c, globalbookid[s])
    /\ UNCHANGED <<globalbookid, bookings>>

Admit(s, c, i, users) ==
    /\ idused' = [idused EXCEPT ![s] = users]
    /\ locks' = [locks EXCEPT ![i] = @ \cup {s}]
    /\ stage' = [stage EXCEPT ![s][c] = "open"]
    /\ asked' = [asked EXCEPT ![s][c] = i]

Accept(s, c) ==
    /\ stage[s][c] = "free"
    /\ stage' = [stage EXCEPT ![s][c] = "id"]
    /\ UNCHANGED <<asked, globalbookid, idused, locks, bookings, stray>>

\* myreadserver, first message: show the record under a read lock, or "Locked."
ReadId(s, c, i) ==
    LET users == [idused[s] EXCEPT ![i] = @ + 1]
    IN  /\ s \in ReadServers /\ stage[s][c] = "id"
        /\ globalbookid' = [globalbookid EXCEPT ![s] = i]
        /\ IF users[i] >= 0 /\ CanLock(s, i)
           THEN Admit(s, c, i, users)
           ELSE Closed(s, c, i, users)
        /\ UNCHANGED <<bookings, stray>>

\* mywriteserver, first message: idused keeps out clients of this server, the
\* fcntl lock those of the others.
WriteId(s, c, i) ==
    /\ s \in WriteServers /\ stage[s][c] = "id"
    /\ globalbookid' = [globalbookid EXCEPT ![s] = i]
    /\ IF idused[s][i] = 0 /\ CanLock(s, i)
       THEN Admit(s, c, i, [idused[s] EXCEPT ![i] = -1]) /\ UNCHANGED stray
       ELSE Closed(s, c, i, idused[s]) /\ Strays(s, c, i)
    /\ UNCHANGED bookings

\* An id that validoperation refuses: an error message and closefd.
InvalidId(s, c) ==
    /\ BadIds /\ stage[s][c] = "id"
    /\ CloseOnly(s, c)

\* "Exit" of a reader, a booking command validbookingcommand refuses.
Leave(s, c) ==
    /\ stage[s][c] = "open"
    /\ CloseOnly(s, c)

HangUp(s, c) ==
    /\ HangUps /\ stage[s][c] # "free"
    /\ CloseOnly(s, c)

\* Mutant: the lower bound is not tested.
BookNegative(s, c, nums) ==
    LET g     == globalbookid[s]
        after == [t \in Items |-> Wrap(bookings[g][t] + nums[t])]
        ok    == Total(after) <= MaxTotal
    IN  /\ s \in WriteServers /\ stage[s][c] = "open"
        /\ bookings' = IF ok THEN [bookings EXCEPT ![g] = after] ELSE bookings
        /\ Closed(s, c, g, idused[s]) /\ Strays(s, c, g)
        /\ UNCHANGED globalbookid

\* mywriteserver, the booking command: the record of globalbookid is updated
\* unless its total or one of its amounts would be out of range.
Book(s, c, nums) ==
    LET g     == globalbookid[s]
        after == [t \in Items |-> Wrap(bookings[g][t] + nums[t])]
        ok    == Total(after) <= MaxTotal /\ \A t \in Items : after[t] >= 0
    IN  /\ s \in WriteServers /\ stage[s][c] = "open"
        /\ bookings' = IF ok THEN [bookings EXCEPT ![g] = after] ELSE bookings
        /\ Closed(s, c, g, idused[s]) /\ Strays(s, c, g)
        /\ UNCHANGED globalbookid

\* A server is killed and started again: the system drops its locks, the file
\* stays.
Restart(s) ==
    /\ stage' = [stage EXCEPT ![s] = [c \in Conns(s) |-> "free"]]
    /\ asked' = [asked EXCEPT ![s] = [c \in Conns(s) |-> None]]
    /\ globalbookid' = [globalbookid EXCEPT ![s] = None]
    /\ idused' = [idused EXCEPT ![s] = [i \in Ids |-> 0]]
    /\ locks' = [i \in Ids |-> locks[i] \ {s}]
    /\ stray' = stray \ {s}
    /\ UNCHANGED bookings

Client(s, c) ==
    \/ Accept(s, c)
    \/ \E i \in Ids : ReadId(s, c, i) \/ WriteId(s, c, i)
    \/ InvalidId(s, c) \/ Leave(s, c) \/ HangUp(s, c)
    \/ \E nums \in [Items -> Amounts] : Book(s, c, nums)

Next == \E s \in Servers : Restart(s) \/ \E c \in Conns(s) : Client(s, c)

Spec == Init /\ [][Next]_vars

------------------------------------------------------------------------------
\* The type invariant.
TypeOK ==
    /\ DOMAIN stage = Servers /\ DOMAIN asked = Servers
    /\ \A s \in Servers :
          /\ stage[s] \in [Conns(s) -> {"free", "id", "open"}]
          /\ asked[s] \in [Conns(s) -> Ids \cup {None}]
    /\ globalbookid \in [Servers -> Ids \cup {None}]
    /\ idused \in [Servers -> [Ids -> Int]]
    /\ \A s \in WriteServers, i \in Ids : idused[s][i] \in {-1, 0}
    /\ locks \in [Ids -> SUBSET Servers]
    /\ bookings \in [Ids -> [Items -> (-IntHalf)..(IntHalf - 1)]]
    /\ stray \in SUBSET Servers

\* The clients let in, as <<server, connection>>, and those let in for i.
Clients == UNION {{<<s, c>> : c \in {d \in Conns(s) : stage[s][d] = "open"}} :
                  s \in Servers}
ClientsOf(i) == {x \in Clients : asked[x[1]][x[2]] = i}

\* While a client is let in to write a record no other client, of any server,
\* is let in to read or write it ("if fcntl return -1 ... the region already
\* has read lock or write locks", server.c:265).  The code does not keep this:
\* closefd releases the record of globalbookid whoever the closing client is.
WriteExclusive ==
    \A i \in Ids : \A x, y \in ClientsOf(i) : x[1] \in WriteServers => x = y

\* That closefd is the only way to lose the exclusion: a writer is beside another
\* client only if the server of one of them has released a record for a client
\* that was not let in for it.  A refused writer, a reader who leaves after
\* another one asked for another id, a client who hangs up before its id do that.
ExclusiveUnlessStray ==
    \A i \in Ids : \A x, y \in ClientsOf(i) :
        x[1] \in WriteServers /\ {x[1], y[1]} \cap stray = {} => x = y

\* The bookkeeping of closefd, until it has released a record for a client that was
\* not let in for it: a server holds the lock of a record exactly while
\* one of its clients is let in for it, so none leaks and none is dropped under a
\* client ("unlock the region if within the same process, all of the read request
\* are done", server.c:168), and idused counts those clients, the one writer as
\* -1.  Hang-ups and malformed ids of clients for whom closefd finds the right
\* record, or nothing, are among the steps that keep it.
LocksMatchClients ==
    \A i \in Ids, s \in Servers \ stray :
        LET mine == {x \in ClientsOf(i) : x[1] = s}
        IN  /\ s \in locks[i] <=> mine # {}
            /\ idused[s][i] = IF s \in ReadServers THEN Cardinality(mine)
                                                   ELSE -Cardinality(mine)

\* What "you cannot book more than 15 items in total" (server.c:111) and "less than 0
\* items" (server.c:112) come to: no record holds a negative amount, and none more than
\* MaxTotal items unless it holds at least 2^31, so that their sum wraps (server.c:336).
LimitedOrWrapped ==
    \A i \in Ids :
        /\ \A t \in Items : bookings[i][t] >= 0
        /\ InAll(bookings[i]) <= MaxTotal \/ InAll(bookings[i]) >= IntHalf
==============================================================================
