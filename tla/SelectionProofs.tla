---------------------------- MODULE SelectionProofs ----------------------------
(* Lemmas about selected entries: they are those at the positions, in order. *)
EXTENDS Selection, Sequences, FiniteSetTheorems, WellFoundedInduction, TLAPS

\* The positions up to one are finitely many, and those up to a later one are more.
LEMMA RankGrows ==
    ASSUME NEW P, P \subseteq Nat, IsFiniteSet(P), NEW i \in P
    PROVE  /\ Rank(P, i) \in 1..Cardinality(P) /\ Cardinality(P) \in Nat
           /\ \A j \in P : i < j => Rank(P, i) < Rank(P, j)
<1> DEFINE Upto(k) == {m \in P : m <= k}
<1>1. ASSUME NEW k \in P
      PROVE  /\ IsFiniteSet(Upto(k)) /\ Cardinality(Upto(k)) \in 1..Cardinality(P)
             /\ Cardinality(P) \in Nat
  <2>1. Upto(k) \subseteq P /\ Upto(k) # {}
    OBVIOUS
  <2> HIDE DEF Upto
  <2>2. IsFiniteSet(Upto(k)) /\ Cardinality(Upto(k)) <= Cardinality(P)
    BY <2>1, FS_Subset
  <2>3. Cardinality(Upto(k)) \in Nat /\ Cardinality(P) \in Nat
    BY <2>2, FS_CardinalityType
  <2>4. Cardinality(Upto(k)) # 0
    BY <2>1, <2>2, FS_EmptySet
  <2> QED
    BY <2>2, <2>3, <2>4
<1>2. ASSUME NEW j \in P, i < j PROVE Cardinality(Upto(i)) < Cardinality(Upto(j))
  <2>1. Upto(i) \subseteq Upto(j)
    <3>1. ASSUME NEW k \in P, k <= i PROVE k <= j
      <4>1. i \in Nat /\ j \in Nat /\ k \in Nat
        OBVIOUS
      <4> QED
        BY <1>2, <3>1, <4>1
    <3> QED
      BY <3>1
  <2>2. j \in Upto(j) /\ j \notin Upto(i)
    BY <1>2
  <2> HIDE DEF Upto
  <2>3. /\ Cardinality(Upto(i)) <= Cardinality(Upto(j))
        /\ Cardinality(Upto(i)) # Cardinality(Upto(j))
    BY <1>1, <2>1, <2>2, FS_Subset
  <2>4. Cardinality(Upto(i)) \in Nat /\ Cardinality(Upto(j)) \in Nat
    BY <1>1
  <2> QED
    BY <2>3, <2>4
<1> QED
  BY <1>1, <1>2 DEF Rank

\* Each position has a rank of its own, and each rank a position.
LEMMA NthIs ==
    ASSUME NEW P, P \subseteq Nat, IsFiniteSet(P)
    PROVE  /\ \A n \in 1..Cardinality(P) : Nth(P, n) \in P /\ Rank(P, Nth(P, n)) = n
           /\ \A i \in P : Nth(P, Rank(P, i)) = i
           /\ \A m, n \in 1..Cardinality(P) : m < n => Nth(P, m) < Nth(P, n)
<1>1. \A i, j \in P : Rank(P, i) = Rank(P, j) => i = j
  <2>1. ASSUME NEW i \in P, NEW j \in P, i < j PROVE Rank(P, i) # Rank(P, j)
    <3>1. /\ Rank(P, i) \in 1..Cardinality(P) /\ Cardinality(P) \in Nat
          /\ Rank(P, i) < Rank(P, j)
      BY <2>1, RankGrows
    <3>2. Rank(P, i) \in Int
      BY <3>1
    <3> QED
      BY <3>1, <3>2
  <2>2. \A i, j \in P : i = j \/ i < j \/ j < i
    OBVIOUS
  <2> QED
    BY <2>1, <2>2
<1>2. \A n \in 1..Cardinality(P) : \E i \in P : Rank(P, i) = n
  <2> DEFINE f == [i \in P |-> Rank(P, i)]
  <2>1. f \in [P -> 1..Cardinality(P)]
    BY RankGrows
  <2>2. \A i, j \in P : f[i] = f[j] => i = j
    BY <1>1
  <2>3. \A i \in P : f[i] = Rank(P, i)
    OBVIOUS
  <2> HIDE DEF f
  <2>4. f \in Injection(P, 1..Cardinality(P))
    BY <2>1, <2>2 DEF Injection, IsInjective
  <2>5. Cardinality(P) \in Nat
    BY FS_CardinalityType
  <2>6. /\ IsFiniteSet(1..Cardinality(P))
        /\ Cardinality(1..Cardinality(P)) = Cardinality(P)
    BY <2>5, FS_Interval
  <2>7. f \in Surjection(P, 1..Cardinality(P))
    BY <2>4, <2>6, FS_Injection
  <2> QED
    BY <2>3, <2>7 DEF Surjection
<1>3. \A n \in 1..Cardinality(P) : Nth(P, n) \in P /\ Rank(P, Nth(P, n)) = n
  BY <1>2 DEF Nth
<1>4. \A i \in P : Nth(P, Rank(P, i)) = i
  BY <1>1, <1>3, RankGrows
<1>5. ASSUME NEW m \in 1..Cardinality(P), NEW n \in 1..Cardinality(P), m < n
      PROVE  Nth(P, m) < Nth(P, n)
  <2>1. /\ Nth(P, m) \in P /\ Nth(P, n) \in P /\ Nth(P, m) \in Nat /\ Nth(P, n) \in Nat
        /\ Rank(P, Nth(P, m)) = m /\ Rank(P, Nth(P, n)) = n
    BY <1>3
  <2>2. Nth(P, n) < Nth(P, m) => n < m
    BY <2>1, RankGrows
  <2>3. m \in Int /\ n \in Int
    OBVIOUS
  <2>4. Nth(P, m) # Nth(P, n)
    BY <1>5, <2>1, <2>3
  <2> QED
    BY <1>5, <2>1, <2>2, <2>3, <2>4
<1> QED
  BY <1>3, <1>4, <1>5

------------------------------------------------------------------------------
\* What is selected from a sequence are the entries at the positions, each once.
LEMMA SelectedEntries ==
    ASSUME NEW S, NEW q \in Seq(S), NEW P, P \subseteq DOMAIN q
    PROVE  /\ Selected(q, P) \in Seq(S)
           /\ Entries(Selected(q, P)) = {q[i] : i \in P}
           /\ Distinct(q) => Distinct(Selected(q, P))
<1>1. P \subseteq Nat /\ IsFiniteSet(P) /\ Cardinality(P) \in Nat
  <2>1. DOMAIN q = 1..Len(q) /\ Len(q) \in Nat
    OBVIOUS
  <2>2. IsFiniteSet(1..Len(q))
    BY <2>1, FS_Interval
  <2>3. IsFiniteSet(P)
    BY <2>1, <2>2, FS_Subset
  <2> QED
    BY <2>1, <2>3, FS_CardinalityType
<1>2. \A n \in 1..Cardinality(P) : Nth(P, n) \in P /\ Rank(P, Nth(P, n)) = n
  BY <1>1, NthIs
<1>3. \A i \in P : q[i] \in S
  OBVIOUS
<1>4. Selected(q, P) \in Seq(S)
  BY <1>1, <1>2, <1>3 DEF Selected
<1>5. /\ DOMAIN Selected(q, P) = 1..Cardinality(P)
      /\ \A n \in 1..Cardinality(P) : Selected(q, P)[n] = q[Nth(P, n)]
  BY DEF Selected
<1>6. Entries(Selected(q, P)) = {q[i] : i \in P}
  <2>1. ASSUME NEW i \in P PROVE q[i] \in Entries(Selected(q, P))
    <3>1. Rank(P, i) \in 1..Cardinality(P) /\ Nth(P, Rank(P, i)) = i
      BY <1>1, RankGrows, NthIs
    <3> QED
      BY <1>5, <3>1 DEF Entries
  <2>2. ASSUME NEW n \in 1..Cardinality(P) PROVE \E i \in P : Selected(q, P)[n] = q[i]
    BY <1>2, <1>5
  <2> QED
    BY <1>5, <2>1, <2>2 DEF Entries
<1>7. Distinct(q) => Distinct(Selected(q, P))
  BY <1>2, <1>5 DEF Distinct
<1> QED
  BY <1>4, <1>6, <1>7

------------------------------------------------------------------------------
\* Two entries, the one at the smaller position first.
LEMMA BeforeHolds ==
    ASSUME NEW q, NEW i \in DOMAIN q, NEW j \in DOMAIN q, i < j
    PROVE  <<q[i], q[j]>> \in Before(q)
<1>1. <<i, j>> \in (DOMAIN q) \X (DOMAIN q)
  OBVIOUS
<1> QED
  BY <1>1 DEF Before

\* Sequences one after the other.
LEMMA Joined ==
    ASSUME NEW S, NEW r \in Seq(S), NEW w \in Seq(S)
    PROVE  /\ r \o w \in Seq(S)
           /\ Entries(r \o w) = Entries(r) \cup Entries(w)
           /\ Before(r \o w) = Before(r) \cup Before(w) \cup (Entries(r) \X Entries(w))
<1>1. /\ r \o w \in Seq(S) /\ Len(r) \in Nat /\ Len(w) \in Nat
      /\ DOMAIN r = 1..Len(r) /\ DOMAIN w = 1..Len(w)
      /\ DOMAIN (r \o w) = 1..(Len(r) + Len(w))
      /\ \A i \in 1..Len(r) : (r \o w)[i] = r[i]
      /\ \A i \in 1..Len(w) : (r \o w)[Len(r) + i] = w[i]
  OBVIOUS
<1> DEFINE both == r \o w
           m == Len(r)
           n == Len(w)
<1> HIDE DEF both, m, n
<1>2. /\ m \in Nat /\ n \in Nat /\ DOMAIN r = 1..m /\ DOMAIN w = 1..n
      /\ DOMAIN both = 1..(m + n)
      /\ \A i \in 1..m : i \in 1..(m + n) /\ both[i] = r[i]
      /\ \A i \in 1..n : m + i \in 1..(m + n) /\ both[m + i] = w[i]
  BY <1>1 DEF both, m, n
<1>3. \A k \in 1..(m + n) : k \in 1..m \/ \E i \in 1..n : k = m + i
  <2>1. ASSUME NEW k \in 1..(m + n), k \notin 1..m PROVE k - m \in 1..n /\ k = m + (k - m)
    BY <1>2, <2>1
  <2> QED
    BY <2>1
<1>4. Entries(both) = Entries(r) \cup Entries(w)
  <2>1. \A k \in 1..(m + n) : both[k] \in Entries(r) \cup Entries(w)
    BY <1>2, <1>3 DEF Entries
  <2>2. Entries(r) \subseteq Entries(both)
    BY <1>2 DEF Entries
  <2>3. Entries(w) \subseteq Entries(both)
    BY <1>2 DEF Entries
  <2>4. Entries(both) \subseteq Entries(r) \cup Entries(w)
    BY <1>2, <2>1 DEF Entries
  <2> QED
    BY <2>2, <2>3, <2>4
<1>5. ASSUME NEW k \in 1..(m + n), NEW l \in 1..(m + n), k < l
      PROVE  <<both[k], both[l]>> \in Before(r) \cup Before(w) \cup (Entries(r) \X Entries(w))
  <2>1. CASE k \in 1..m /\ l \in 1..m
    BY <1>2, <1>5, <2>1, BeforeHolds
  <2>2. CASE \E i \in 1..n, j \in 1..n : k = m + i /\ l = m + j
    <3>1. PICK i \in 1..n, j \in 1..n : k = m + i /\ l = m + j
      BY <2>2
    <3>2. i < j
      BY <1>2, <1>5, <3>1
    <3>3. <<w[i], w[j]>> \in Before(w)
      BY <1>2, <3>2, BeforeHolds
    <3> QED
      BY <1>2, <3>1, <3>3
  <2>3. CASE k \in 1..m /\ \E j \in 1..n : l = m + j
    BY <1>2, <2>3 DEF Entries
  <2>4. ~(l \in 1..m /\ k \notin 1..m)
    BY <1>2, <1>5
  <2> QED
    BY <1>3, <2>1, <2>2, <2>3, <2>4
<1>6. Before(both) \subseteq Before(r) \cup Before(w) \cup (Entries(r) \X Entries(w))
  <2>1. ASSUME NEW x \in Before(both)
        PROVE  x \in Before(r) \cup Before(w) \cup (Entries(r) \X Entries(w))
    <3>1. PICK y \in (DOMAIN both) \X (DOMAIN both) :
            y[1] < y[2] /\ x = <<both[y[1]], both[y[2]]>>
      BY <2>1 DEF Before
    <3>2. y[1] \in 1..(m + n) /\ y[2] \in 1..(m + n)
      BY <1>2
    <3> QED
      BY <1>5, <3>1, <3>2
  <2> QED
    BY <2>1
<1>7. ASSUME NEW k \in 1..(m + n), NEW l \in 1..(m + n), k < l
      PROVE  <<both[k], both[l]>> \in Before(both)
  BY <1>2, <1>7, BeforeHolds
<1>8. Before(r) \subseteq Before(both)
  <2>1. ASSUME NEW x \in Before(r) PROVE x \in Before(both)
    <3>1. PICK y \in (DOMAIN r) \X (DOMAIN r) : y[1] < y[2] /\ x = <<r[y[1]], r[y[2]]>>
      BY <2>1 DEF Before
    <3>2. y[1] \in 1..m /\ y[2] \in 1..m
      BY <1>2
    <3> QED
      BY <1>2, <1>7, <3>1, <3>2
  <2> QED
    BY <2>1
<1>9. Before(w) \subseteq Before(both)
  <2>1. ASSUME NEW x \in Before(w) PROVE x \in Before(both)
    <3>1. PICK y \in (DOMAIN w) \X (DOMAIN w) : y[1] < y[2] /\ x = <<w[y[1]], w[y[2]]>>
      BY <2>1 DEF Before
    <3>2. y[1] \in 1..n /\ y[2] \in 1..n /\ m + y[1] < m + y[2]
      BY <1>2, <3>1
    <3> QED
      BY <1>2, <1>7, <3>1, <3>2
  <2> QED
    BY <2>1
<1>10. Entries(r) \X Entries(w) \subseteq Before(both)
  <2>1. ASSUME NEW i \in 1..m, NEW j \in 1..n PROVE <<r[i], w[j]>> \in Before(both)
    <3>1. i < m + j
      BY <1>2
    <3> QED
      BY <1>2, <1>7, <3>1
  <2> QED
    BY <1>2, <2>1 DEF Entries
<1> QED
  BY <1>1, <1>4, <1>6, <1>8, <1>9, <1>10 DEF both

\* A sequence of one entry.
LEMMA Single ==
    ASSUME NEW S, NEW x \in S
    PROVE  <<x>> \in Seq(S) /\ Entries(<<x>>) = {x} /\ Before(<<x>>) = {}
BY DEF Entries, Before

\* The first entry of a sequence is before the others.
LEMMA HeadFirst ==
    ASSUME NEW S, NEW q \in Seq(S), q # <<>>
    PROVE  /\ Head(q) \in S /\ Tail(q) \in Seq(S)
           /\ Entries(q) = {Head(q)} \cup Entries(Tail(q))
           /\ Before(q) = Before(Tail(q)) \cup ({Head(q)} \X Entries(Tail(q)))
<1>1. Head(q) \in S /\ Tail(q) \in Seq(S) /\ q = <<Head(q)>> \o Tail(q)
  OBVIOUS
<1> DEFINE h == Head(q)
           t == Tail(q)
           one == <<h>>
<1> HIDE DEF h, t
<1>2. one \in Seq(S) /\ Entries(one) = {h} /\ Before(one) = {}
  BY <1>1, Single DEF h
<1> HIDE DEF one
<1>3. q = one \o t /\ t \in Seq(S)
  BY <1>1 DEF h, t, one
<1>4. /\ Entries(one \o t) = Entries(one) \cup Entries(t)
      /\ Before(one \o t) = Before(one) \cup Before(t) \cup (Entries(one) \X Entries(t))
  BY <1>2, <1>3, Joined
<1>5. /\ Entries(q) = {h} \cup Entries(t)
      /\ Before(q) = Before(t) \cup ({h} \X Entries(t))
  BY <1>2, <1>3, <1>4
<1> QED
  BY <1>1, <1>5 DEF h, t

\* The others are before the entry appended to a sequence.
LEMMA LastLast ==
    ASSUME NEW S, NEW q \in Seq(S), NEW x \in S
    PROVE  /\ Append(q, x) \in Seq(S)
           /\ Entries(Append(q, x)) = Entries(q) \cup {x}
           /\ Before(Append(q, x)) = Before(q) \cup (Entries(q) \X {x})
<1> DEFINE one == <<x>>
<1>1. one \in Seq(S) /\ Entries(one) = {x} /\ Before(one) = {}
  BY Single
<1>2. Append(q, x) = q \o one
  OBVIOUS
<1> HIDE DEF one
<1>3. /\ q \o one \in Seq(S)
      /\ Entries(q \o one) = Entries(q) \cup Entries(one)
      /\ Before(q \o one) = Before(q) \cup Before(one) \cup (Entries(q) \X Entries(one))
  BY <1>1, Joined
<1> QED
  BY <1>1, <1>2, <1>3

------------------------------------------------------------------------------
\* Selected entries keep their order.
LEMMA SelectedOrder ==
    ASSUME NEW S, NEW q \in Seq(S), NEW P, P \subseteq DOMAIN q, NEW x \in Before(Selected(q, P))
    PROVE  \E i, j \in P : i < j /\ x = <<q[i], q[j]>>
<1>1. P \subseteq Nat /\ IsFiniteSet(P)
  <2>1. DOMAIN q = 1..Len(q) /\ Len(q) \in Nat
    OBVIOUS
  <2>2. IsFiniteSet(1..Len(q))
    BY <2>1, FS_Interval
  <2> QED
    BY <2>1, <2>2, FS_Subset
<1>2. /\ DOMAIN Selected(q, P) = 1..Cardinality(P)
      /\ \A n \in 1..Cardinality(P) : Selected(q, P)[n] = q[Nth(P, n)]
  BY DEF Selected
<1>3. PICK y \in (DOMAIN Selected(q, P)) \X (DOMAIN Selected(q, P)) :
        y[1] < y[2] /\ x = <<Selected(q, P)[y[1]], Selected(q, P)[y[2]]>>
  BY DEF Before
<1>4. y[1] \in 1..Cardinality(P) /\ y[2] \in 1..Cardinality(P)
  BY <1>2
<1>5. Nth(P, y[1]) \in P /\ Nth(P, y[2]) \in P /\ Nth(P, y[1]) < Nth(P, y[2])
  BY <1>1, <1>3, <1>4, NthIs
<1> QED
  BY <1>2, <1>3, <1>4, <1>5

\* The rank of a number among the first m.
LEMMA RankOfFirst ==
    ASSUME NEW m \in Nat, NEW n \in 1..m
    PROVE  Rank(1..m, n) = n
<1>1. {j \in 1..m : j <= n} = 1..n /\ n \in Nat
  OBVIOUS
<1>2. Cardinality(1..n) = n
  BY <1>1, FS_Interval
<1> QED
  BY <1>1, <1>2 DEF Rank

\* Selecting the first m entries.
LEMMA SelectedFirst ==
    ASSUME NEW q, NEW m \in Nat
    PROVE  Selected(q, 1..m) = [n \in 1..m |-> q[n]]
<1>1. IsFiniteSet(1..m) /\ Cardinality(1..m) = m /\ 1..m \subseteq Nat
  BY FS_Interval
<1>2. \A n \in 1..m : Nth(1..m, n) = n
  <2>1. \A n \in 1..m : Nth(1..m, Rank(1..m, n)) = n
    BY <1>1, NthIs
  <2> QED
    BY <2>1, RankOfFirst
<1> QED
  BY <1>1, <1>2 DEF Selected

\* The rank of the least position.
LEMMA RankOfLeast ==
    ASSUME NEW P, P \subseteq Nat, NEW i \in P, \A j \in P : i <= j
    PROVE  Rank(P, i) = 1
<1>1. \A j \in P : j <= i <=> j = i
  OBVIOUS
<1>2. {j \in P : j <= i} = {i}
  BY <1>1
<1> QED
  BY <1>2, FS_Singleton DEF Rank

\* Without a position, the ranks of the later ones are one less.
LEMMA RankWithout ==
    ASSUME NEW P, P \subseteq Nat, IsFiniteSet(P), NEW s \in P, NEW k \in P, k # s
    PROVE  /\ k < s => Rank(P \ {s}, k) = Rank(P, k)
           /\ k > s => Rank(P \ {s}, k) = Rank(P, k) - 1
<1> DEFINE upto == {j \in P : j <= k}
<1>1. IsFiniteSet(upto)
  BY FS_Subset
<1>2. {j \in P \ {s} : j <= k} = upto \ {s}
  OBVIOUS
<1>3. k < s => s \notin upto
  OBVIOUS
<1>4. k > s => s \in upto
  OBVIOUS
<1>5. Rank(P, k) = Cardinality(upto) /\ Rank(P \ {s}, k) = Cardinality(upto \ {s})
  BY <1>2 DEF Rank
<1> HIDE DEF upto
<1>6. k < s => upto \ {s} = upto
  BY <1>3
<1>7. s \in upto => Cardinality(upto \ {s}) = Cardinality(upto) - 1
  BY <1>1, FS_RemoveElement
<1> QED
  BY <1>4, <1>5, <1>6, <1>7

\* A set of positions has a first one.
LEMMA LeastExists ==
    ASSUME NEW P, P \subseteq Nat, IsFiniteSet(P), P # {}
    PROVE  \E i \in P : \A j \in P : i <= j
<1>1. /\ \A n \in 1..Cardinality(P) : Nth(P, n) \in P
      /\ \A i \in P : Nth(P, Rank(P, i)) = i
      /\ \A m, n \in 1..Cardinality(P) : m < n => Nth(P, m) < Nth(P, n)
  BY NthIs
<1>2. \A i \in P : Rank(P, i) \in 1..Cardinality(P) /\ Cardinality(P) \in Nat
  BY RankGrows
<1>3. 1 \in 1..Cardinality(P)
  <2>1. PICK i \in P : TRUE
    OBVIOUS
  <2>2. Rank(P, i) \in 1..Cardinality(P) /\ Cardinality(P) \in Nat
    BY <1>2
  <2> QED
    BY <2>2
<1>4. ASSUME NEW j \in P PROVE Nth(P, 1) <= j
  <2>1. Rank(P, j) = 1 \/ 1 < Rank(P, j)
    BY <1>2
  <2>2. Nth(P, Rank(P, j)) = j /\ Nth(P, 1) \in Nat /\ j \in Nat
    BY <1>1, <1>3
  <2>3. 1 < Rank(P, j) => Nth(P, 1) < Nth(P, Rank(P, j))
    BY <1>1, <1>2, <1>3
  <2> QED
    BY <2>1, <2>2, <2>3
<1> QED
  BY <1>1, <1>3, <1>4
================================================================================
