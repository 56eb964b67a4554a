------------------------------- MODULE Selection -------------------------------
(***************************************************************************)
(* The entries of a sequence at a set of positions, in their order.  Unlike *)
(* SelectSeq it is not recursive: an entry is found by its rank.            *)
(***************************************************************************)
EXTENDS Integers, Sequences, FiniteSets

\* How many of the positions P are up to i.
Rank(P, i) == Cardinality({j \in P : j <= i})

\* The n-th of the positions P.
Nth(P, n) == CHOOSE i \in P : Rank(P, i) = n

Selected(q, P) == [n \in 1..Cardinality(P) |-> q[Nth(P, n)]]

\* The entries of a sequence, and that none is there twice.
Entries(q) == {q[i] : i \in DOMAIN q}
Distinct(q) == \A i, j \in DOMAIN q : q[i] = q[j] => i = j

\* Pairs of entries, an earlier one and a later one.
Before(q) == {<<q[x[1]], q[x[2]]>> : x \in {y \in (DOMAIN q) \X (DOMAIN q) : y[1] < y[2]}}
================================================================================
