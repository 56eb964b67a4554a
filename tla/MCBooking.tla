------------------------------ MODULE MCBooking ------------------------------
(* Instances of Booking for TLC. *)
EXTENDS Booking, TLC

CONSTANTS r1, r2, w1, w2, i1, i2, rc1, rc2, wc1, wc2, wc3
SmallAmounts == -1..1

\* Ids, servers of one kind and connections of one kind are not told apart.
Alike == Permutations({i1, i2}) \cup Permutations({w1, w2}) \cup Permutations({r1, r2})
             \cup Permutations({rc1, rc2}) \cup Permutations({wc1, wc2})

InUse(s) == {c \in Conns(s) : stage[s][c] # "free"}

\* Three connections are in use, at any servers.  One server at a time has released a
\* wrong record; what it does after that is followed with one connection.
ThreeClients ==
    /\ Cardinality({x \in Servers \X (ReadConns \cup WriteConns) :
                       x[2] \in InUse(x[1])}) <= 3
    /\ Cardinality(stray) <= 1
    /\ \A s \in stray : Cardinality(InUse(s)) <= 1

\* Nothing but records depends on what records hold: those that are not empty
\* are followed at one server, with the others just started.
BookedAlone ==
    (\E i \in Ids : bookings[i] # [t \in Items |-> 0]) =>
        \E r \in Servers : \A s \in Servers \ {r} : InUse(s) = {} /\ globalbookid[s] = None

Bounds == ThreeClients /\ BookedAlone
==============================================================================
