------------------------------ MODULE SackProofs ------------------------------
(***************************************************************************)
(* Theorems about the transport, for any number of segments, any threshold  *)
(* and any buffer: types always, the rest while the timer only fires when   *)
(* everything sent has been answered or lost.  The queues are seen as the   *)
(* sets of what is in them and of what is before what.                      *)
(***************************************************************************)
EXTENDS SackInvariant, SelectionProofs

Timely == Spurious = FALSE

\* Each program selects as Selection does.
LEMMA SameSelection ==
    /\ \A P, i : S!Rank(P, i) = Rank(P, i)
    /\ \A q, P : S!Selected(q, P) = Selected(q, P) /\ R!Selected(q, P) = Selected(q, P)
<1>0. /\ \A P : S!Cardinality(P) = Cardinality(P)
      /\ \A P : R!Cardinality(P) = Cardinality(P)
  BY DEF S!Cardinality, R!Cardinality, Cardinality
<1>1. /\ \A P, i : S!Rank(P, i) = Rank(P, i)
      /\ \A P, i : R!Rank(P, i) = Rank(P, i)
  BY <1>0 DEF S!Rank, R!Rank, Rank
<1>2. /\ \A P, n : S!Nth(P, n) = Nth(P, n)
      /\ \A P, n : R!Nth(P, n) = Nth(P, n)
  BY <1>1 DEF S!Nth, R!Nth, Nth
<1>3. \A q, P : S!Selected(q, P) = Selected(q, P)
  BY <1>0, <1>2 DEF S!Selected, Selected
<1>4. \A q, P : R!Selected(q, P) = Selected(q, P)
  BY <1>0, <1>2 DEF R!Selected, Selected
<1> QED
  BY <1>1, <1>3, <1>4

------------------------------------------------------------------------------
\* The queues.

\* A message is from the sender or from the receiver.
LEMMA Origin ==
    /\ \A m \in S!Packets : m \notin S!Acks /\ ~G!FromReceiver(m)
    /\ \A m \in S!Acks : m \notin S!Packets /\ G!FromReceiver(m)
<1>1. \A m \in S!Packets : ~G!FromReceiver(m)
  BY DEF S!Packets, G!FromReceiver
<1>2. \A m \in S!Acks : G!FromReceiver(m)
  BY DEF S!Acks, G!FromReceiver
<1> QED
  BY <1>1, <1>2

\* A message between others.
LEMMA Between ==
    ASSUME NEW M, NEW r \in Seq(M), NEW m \in M, NEW w \in Seq(M)
    PROVE  /\ r \o (<<m>> \o w) \in Seq(M) /\ r \o w \in Seq(M)
           /\ Entries(r \o (<<m>> \o w)) = Entries(r \o w) \cup {m}
           /\ Before(r \o (<<m>> \o w)) =
                Before(r \o w) \cup (Entries(r) \X {m}) \cup ({m} \X Entries(w))
           /\ Entries(r) \subseteq Entries(r \o w) /\ Entries(w) \subseteq Entries(r \o w)
<1> DEFINE one == <<m>>
<1>1. one \in Seq(M) /\ Entries(one) = {m} /\ Before(one) = {}
  BY Single
<1> HIDE DEF one
<1> DEFINE rest == one \o w
<1>2. /\ rest \in Seq(M)
      /\ Entries(rest) = {m} \cup Entries(w)
      /\ Before(rest) = Before(w) \cup ({m} \X Entries(w))
  BY <1>1, Joined
<1> HIDE DEF rest
<1>3. /\ r \o rest \in Seq(M)
      /\ Entries(r \o rest) = Entries(r) \cup Entries(rest)
      /\ Before(r \o rest) = Before(r) \cup Before(rest) \cup (Entries(r) \X Entries(rest))
  BY <1>2, Joined
<1>4. /\ r \o w \in Seq(M)
      /\ Entries(r \o w) = Entries(r) \cup Entries(w)
      /\ Before(r \o w) = Before(r) \cup Before(w) \cup (Entries(r) \X Entries(w))
  BY Joined
<1>5. Entries(r) \X ({m} \cup Entries(w)) = (Entries(r) \X {m}) \cup (Entries(r) \X Entries(w))
  OBVIOUS
<1>6. Before(r \o rest) = Before(r \o w) \cup (Entries(r) \X {m}) \cup ({m} \X Entries(w))
  BY <1>2, <1>3, <1>4, <1>5
<1>7. Entries(r \o rest) = Entries(r \o w) \cup {m}
  BY <1>2, <1>3, <1>4
<1> QED
  BY <1>3, <1>4, <1>6, <1>7 DEF one, rest

\* What is on its way has one of two forms.
Messages == S!Packets \cup S!Acks

LEMMA Ways ==
    ASSUME TypeOK
    PROVE  /\ agentQ \in Seq(Messages) /\ receiverQ \in Seq(Messages) /\ senderQ \in Seq(Messages)
           /\ receiverQ \in Seq(S!Packets) /\ senderQ \in Seq(S!Acks)
           /\ ToSender \in Seq(Messages) /\ ToReceiver \in Seq(Messages)
BY DEF TypeOK, Messages, ToSender, ToReceiver

\* What is before what is in the sequence.
LEMMA BeforeEntries ==
    ASSUME NEW q
    PROVE  Before(q) \subseteq Entries(q) \X Entries(q)
BY DEF Before, Entries

\* Queues with messages of two kinds, and messages of the second kind.
Kinds(C, D, q, a, w) ==
    C \cap D = {} /\ q \in Seq(C \cup D) /\ a \in Seq(C \cup D) /\ w \in Seq(D)

\* One program takes the first message of its queue q, and appends w to the agent's
\* queue a, messages of the other kind: of those of kind C on their way to it, the
\* first is gone.
LEMMA Taking ==
    ASSUME NEW C, NEW D, NEW q, NEW a, NEW w, Kinds(C, D, q, a, w), q \in Seq(C), q # <<>>
    PROVE  /\ Head(q) \in C /\ Head(q) \in Seen(q \o a, C)
           /\ Seen(q \o a, C) = {Head(q)} \cup Seen(Tail(q) \o (a \o w), C)
           /\ Order(q \o a, C) =
                Order(Tail(q) \o (a \o w), C) \cup ({Head(q)} \X Seen(Tail(q) \o (a \o w), C))
<1> DEFINE h == Head(q)
           t == Tail(q)
           M == C \cup D
<1>1. /\ h \in C /\ t \in Seq(C)
      /\ Entries(q) = {h} \cup Entries(t)
      /\ Before(q) = Before(t) \cup ({h} \X Entries(t))
  BY HeadFirst
<1> HIDE DEF h, t
<1>2. w \in Seq(D) /\ C \cap D = {}
  BY DEF Kinds
<1>3. w \in Seq(M) /\ t \in Seq(M) /\ q \in Seq(M) /\ a \in Seq(M)
  BY <1>1 DEF Kinds
<1> HIDE DEF M
<1>4. /\ Entries(q \o a) = {h} \cup Entries(t) \cup Entries(a)
      /\ Before(q \o a) = Before(t) \cup ({h} \X Entries(t)) \cup Before(a)
                            \cup (({h} \cup Entries(t)) \X Entries(a))
  BY <1>1, <1>3, Joined
<1> DEFINE both == a \o w
<1>5. /\ both \in Seq(M)
      /\ Entries(both) = Entries(a) \cup Entries(w)
      /\ Before(both) = Before(a) \cup Before(w) \cup (Entries(a) \X Entries(w))
  BY <1>3, Joined
<1> HIDE DEF both
<1>6. /\ Entries(t \o both) = Entries(t) \cup Entries(both)
      /\ Before(t \o both) = Before(t) \cup Before(both) \cup (Entries(t) \X Entries(both))
  BY <1>3, <1>5, Joined
<1>7. \A m \in Entries(w) : m \notin C
  BY <1>2 DEF Entries
<1>8. Before(w) \subseteq Entries(w) \X Entries(w)
  BY BeforeEntries
<1>9. /\ Entries(q \o a) \cap C = (({h} \cup Entries(t)) \cup Entries(a)) \cap C
      /\ Entries(t \o both) \cap C = (Entries(t) \cup Entries(a) \cup Entries(w)) \cap C
  BY <1>4, <1>5, <1>6
<1>10. Entries(q \o a) \cap C = {h} \cup (Entries(t \o both) \cap C)
  BY <1>1, <1>7, <1>9
<1>11. Before(q \o a) \cap (C \X C) =
         (Before(t \o both) \cap (C \X C)) \cup ({h} \X (Entries(t \o both) \cap C))
  <2>1. Before(q \o a) \cap (C \X C) =
          (Before(t) \cup ({h} \X Entries(t)) \cup Before(a)
             \cup (({h} \cup Entries(t)) \X Entries(a))) \cap (C \X C)
    BY <1>4
  <2>2. Before(t \o both) \cap (C \X C) =
          (Before(t) \cup Before(a) \cup Before(w) \cup (Entries(a) \X Entries(w))
             \cup (Entries(t) \X (Entries(a) \cup Entries(w)))) \cap (C \X C)
    BY <1>5, <1>6
  <2> QED
    BY <1>1, <1>7, <1>8, <1>9, <2>1, <2>2
<1> QED
  BY <1>1, <1>4, <1>10, <1>11 DEF h, t, both, Seen, Order

\* What a program appends is on its way to the other one, behind the rest; to
\* itself nothing else is on its way.
LEMMA Sending ==
    ASSUME NEW C, NEW D, NEW q, NEW a, NEW w, Kinds(C, D, q, a, w)
    PROVE  /\ Seen(q \o (a \o w), D) = Seen(q \o a, D) \cup Entries(w)
           /\ Order(q \o (a \o w), D) =
                Order(q \o a, D) \cup Before(w) \cup (Seen(q \o a, D) \X Entries(w))
           /\ Seen(q \o (a \o w), C) = Seen(q \o a, C)
           /\ Order(q \o (a \o w), C) = Order(q \o a, C)
<1> DEFINE M == C \cup D
<1>1. w \in Seq(D) /\ w \in Seq(M) /\ q \in Seq(M) /\ a \in Seq(M) /\ C \cap D = {}
  BY DEF Kinds
<1> HIDE DEF M
<1> DEFINE r == q \o a
<1>2. q \o (a \o w) = r \o w
  BY <1>1
<1>3. r \in Seq(M)
  BY <1>1
<1> HIDE DEF r
<1>4. \A m \in Entries(w) : m \in D /\ m \notin C
  BY <1>1 DEF Entries
<1>5. Before(w) \subseteq Entries(w) \X Entries(w)
  BY BeforeEntries
<1>6. /\ Entries(r \o w) = Entries(r) \cup Entries(w)
      /\ Before(r \o w) = Before(r) \cup Before(w) \cup (Entries(r) \X Entries(w))
  BY <1>1, <1>3, Joined
<1>7. /\ Entries(r \o w) \cap D = (Entries(r) \cap D) \cup Entries(w)
      /\ Entries(r \o w) \cap C = Entries(r) \cap C
  BY <1>4, <1>6
<1>8. Before(r \o w) \cap (C \X C) = Before(r) \cap (C \X C)
  BY <1>4, <1>5, <1>6
<1>9. Before(r \o w) \cap (D \X D) =
        (Before(r) \cap (D \X D)) \cup Before(w) \cup ((Entries(r) \cap D) \X Entries(w))
  BY <1>4, <1>5, <1>6
<1> QED
  BY <1>2, <1>7, <1>8, <1>9 DEF r, Seen, Order

\* The sender takes an answer, and may send segments.
LEMMA SenderTakes ==
    ASSUME TypeOK, senderQ # <<>>, senderQ' = Tail(senderQ),
           NEW w \in Seq(S!Packets), agentQ' = agentQ \o w
    PROVE  /\ Head(senderQ) \in S!Acks /\ Head(senderQ) \in Replies
           /\ Replies = {Head(senderQ)} \cup Replies'
           /\ ReplyOrder = ReplyOrder' \cup ({Head(senderQ)} \X Replies')
<1> DEFINE rest == Tail(senderQ) \o (agentQ \o w)
<1>1. senderQ \in Seq(S!Acks)
  BY DEF TypeOK
<1>2. Kinds(S!Acks, S!Packets, senderQ, agentQ, w)
  BY Origin DEF TypeOK, Kinds
<1>3. /\ Head(senderQ) \in S!Acks /\ Head(senderQ) \in Seen(senderQ \o agentQ, S!Acks)
      /\ Seen(senderQ \o agentQ, S!Acks) = {Head(senderQ)} \cup Seen(rest, S!Acks)
      /\ Order(senderQ \o agentQ, S!Acks) =
            Order(rest, S!Acks) \cup ({Head(senderQ)} \X Seen(rest, S!Acks))
  BY <1>1, <1>2, Taking
<1>4. ToSender' = rest
  BY DEF ToSender
<1> QED
  BY <1>3, <1>4 DEF Replies, ReplyOrder, ToSender

\* The sender sends segments.
LEMMA SenderSends ==
    ASSUME TypeOK, receiverQ' = receiverQ, NEW w \in Seq(S!Packets), agentQ' = agentQ \o w
    PROVE  /\ Segments' = Segments \cup Entries(w)
           /\ SegmentOrder' = SegmentOrder \cup Before(w) \cup (Segments \X Entries(w))
           /\ senderQ' = senderQ => Replies' = Replies /\ ReplyOrder' = ReplyOrder
<1>1. /\ Kinds(S!Acks, S!Packets, receiverQ, agentQ, w)
      /\ Kinds(S!Acks, S!Packets, senderQ, agentQ, w)
  BY Origin DEF TypeOK, Kinds
<1>3. /\ Seen(receiverQ \o (agentQ \o w), S!Packets) =
            Seen(receiverQ \o agentQ, S!Packets) \cup Entries(w)
      /\ Order(receiverQ \o (agentQ \o w), S!Packets) =
            Order(receiverQ \o agentQ, S!Packets) \cup Before(w)
              \cup (Seen(receiverQ \o agentQ, S!Packets) \X Entries(w))
  BY <1>1, Sending
<1>4. /\ Seen(senderQ \o (agentQ \o w), S!Acks) = Seen(senderQ \o agentQ, S!Acks)
      /\ Order(senderQ \o (agentQ \o w), S!Acks) = Order(senderQ \o agentQ, S!Acks)
  BY <1>1, Sending
<1>5. /\ ToReceiver' = receiverQ \o (agentQ \o w)
      /\ senderQ' = senderQ => ToSender' = senderQ \o (agentQ \o w)
  BY DEF ToReceiver, ToSender
<1> QED
  BY <1>3, <1>4, <1>5
     DEF Segments, SegmentOrder, Replies, ReplyOrder, ToReceiver, ToSender

\* The receiver takes a segment and answers it.
LEMMA ReceiverTakes ==
    ASSUME TypeOK, receiverQ # <<>>, receiverQ' = Tail(receiverQ), senderQ' = senderQ,
           NEW r \in S!Acks, agentQ' = Append(agentQ, r)
    PROVE  /\ Head(receiverQ) \in S!Packets /\ Head(receiverQ) \in Segments
           /\ Segments = {Head(receiverQ)} \cup Segments'
           /\ SegmentOrder = SegmentOrder' \cup ({Head(receiverQ)} \X Segments')
           /\ Replies' = Replies \cup {r}
           /\ ReplyOrder' = ReplyOrder \cup (Replies \X {r})
<1> DEFINE one == <<r>>
           rest == Tail(receiverQ) \o (agentQ \o one)
<1>1. one \in Seq(S!Acks) /\ Entries(one) = {r} /\ Before(one) = {}
  BY Single
<1>2. agentQ' = agentQ \o one
  BY DEF TypeOK
<1> HIDE DEF one
<1>3. S!Packets \cap S!Acks = {} /\ receiverQ \in Seq(S!Packets)
  BY Origin DEF TypeOK
<1>4. /\ Kinds(S!Packets, S!Acks, receiverQ, agentQ, one)
      /\ Kinds(S!Packets, S!Acks, senderQ, agentQ, one)
  BY <1>1, <1>3 DEF TypeOK, Kinds
<1>5. /\ Head(receiverQ) \in S!Packets /\ Head(receiverQ) \in Seen(receiverQ \o agentQ, S!Packets)
      /\ Seen(receiverQ \o agentQ, S!Packets) = {Head(receiverQ)} \cup Seen(rest, S!Packets)
      /\ Order(receiverQ \o agentQ, S!Packets) =
            Order(rest, S!Packets) \cup ({Head(receiverQ)} \X Seen(rest, S!Packets))
  BY <1>3, <1>4, Taking
<1>6. /\ Seen(senderQ \o (agentQ \o one), S!Acks) =
            Seen(senderQ \o agentQ, S!Acks) \cup Entries(one)
      /\ Order(senderQ \o (agentQ \o one), S!Acks) =
            Order(senderQ \o agentQ, S!Acks) \cup Before(one)
              \cup (Seen(senderQ \o agentQ, S!Acks) \X Entries(one))
  BY <1>4, Sending
<1>7. ToReceiver' = rest /\ ToSender' = senderQ \o (agentQ \o one)
  BY <1>2 DEF ToReceiver, ToSender
<1> QED
  BY <1>1, <1>5, <1>6, <1>7
     DEF Segments, SegmentOrder, Replies, ReplyOrder, ToReceiver, ToSender

\* A message m between two parts q and t of a way.
Parts(C, q, m, t) ==
    C \subseteq Messages /\ q \in Seq(Messages) /\ m \in Messages /\ t \in Seq(Messages)

LEMMA Within ==
    ASSUME NEW C, NEW q, NEW m, NEW t, Parts(C, q, m, t)
    PROVE  /\ Seen(q \o (<<m>> \o t), C) = Seen(q \o t, C) \cup ({m} \cap C)
           /\ Order(q \o (<<m>> \o t), C) =
                Order(q \o t, C) \cup (Seen(q, C) \X ({m} \cap C)) \cup (({m} \cap C) \X Seen(t, C))
<1>1. q \in Seq(Messages) /\ m \in Messages /\ t \in Seq(Messages)
  BY DEF Parts
<1>2. /\ Entries(q \o (<<m>> \o t)) = Entries(q \o t) \cup {m}
      /\ Before(q \o (<<m>> \o t)) =
           Before(q \o t) \cup (Entries(q) \X {m}) \cup ({m} \X Entries(t))
  BY <1>1, Between
<1> DEFINE way == q \o (<<m>> \o t)
           less == q \o t
<1> HIDE DEF way, less
<1>4. /\ Entries(way) = Entries(less) \cup {m}
      /\ Before(way) = Before(less) \cup (Entries(q) \X {m}) \cup ({m} \X Entries(t))
  BY <1>2 DEF way, less
<1>5. Seen(way, C) = Seen(less, C) \cup ({m} \cap C)
  BY <1>4 DEF Seen
<1>6. Order(way, C) =
        Order(less, C) \cup (Seen(q, C) \X ({m} \cap C)) \cup (({m} \cap C) \X Seen(t, C))
  BY <1>4 DEF Order, Seen
<1> QED
  BY <1>5, <1>6 DEF way, less

LEMMA Shifted ==
    ASSUME NEW C, NEW q, NEW m, NEW t, Parts(C, q, m, t)
    PROVE  Append(q, m) \o t = q \o (<<m>> \o t)
<1>1. Append(q, m) = q \o <<m>> /\ <<m>> \in Seq(Messages)
  BY DEF Parts
<1> DEFINE one == <<m>>
<1> HIDE DEF one
<1>2. one \in Seq(Messages) /\ Append(q, m) = q \o one
  BY <1>1 DEF one
<1>3. (q \o one) \o t = q \o (one \o t)
  BY <1>1, <1>2
<1> QED
  BY <1>2, <1>3 DEF one

\* A segment on its way may be lost or corrupted, but keeps its number and place.
Alike(m, n) == m.seq = n.seq /\ m.fin = n.fin /\ m.ack = n.ack

LEMMA AgentMoves ==
    ASSUME TypeOK, AgentStep
    PROVE  /\ Replies' = Replies /\ ReplyOrder' = ReplyOrder
           /\ \A m \in Segments' : \E n \in Segments : Alike(m, n)
           /\ \A x \in SegmentOrder' :
                \E y \in SegmentOrder : x[1].seq = y[1].seq /\ x[2].seq = y[2].seq
<1> DEFINE m == Head(agentQ)
           t == Tail(agentQ)
<1>1. agentQ # <<>> /\ agentQ' = t
  BY DEF AgentStep, Forward, ForwardAck, Drop, Corrupt, G!AgentForward, G!AgentForwardAck,
         G!AgentDrop, G!AgentCorrupt, G!GTake
<1>2. m \in Messages /\ t \in Seq(Messages) /\ agentQ = <<m>> \o t
  BY <1>1, Ways
<1>3. \/ /\ m \in S!Packets /\ receiverQ' = receiverQ /\ senderQ' = senderQ
      \/ /\ m \in S!Packets /\ senderQ' = senderQ
         /\ \E n \in S!Packets : Alike(n, m) /\ receiverQ' = Append(receiverQ, n)
      \/ /\ m \in S!Acks /\ receiverQ' = receiverQ /\ senderQ' = Append(senderQ, m)
  <2>1. CASE Forward
    BY <1>2, <2>1, Origin DEF Forward, G!AgentForward, G!Msg, Messages, Alike
  <2>2. CASE ForwardAck
    BY <1>2, <2>2, Origin DEF ForwardAck, G!AgentForwardAck, G!Msg, Messages
  <2>3. CASE Drop
    BY <1>2, <2>3, Origin DEF Drop, G!AgentDrop, G!Msg, G!IsData, Messages
  <2>4. CASE Corrupt
    <3>1. m \in S!Packets /\ senderQ' = senderQ
          /\ receiverQ' = Append(receiverQ, [m EXCEPT !.bad = TRUE])
      BY <1>2, <2>4, Origin DEF Corrupt, G!AgentCorrupt, G!Msg, G!IsData, Messages
    <3>2. [m EXCEPT !.bad = TRUE] \in S!Packets /\ Alike([m EXCEPT !.bad = TRUE], m)
      BY <3>1 DEF S!Packets, Alike
    <3> QED
      BY <3>1, <3>2
  <2> QED
    BY <2>1, <2>2, <2>3, <2>4 DEF AgentStep
<1> HIDE DEF m, t
<1>4. Parts(S!Acks, senderQ, m, t) /\ Parts(S!Packets, receiverQ, m, t)
  BY <1>2, Ways DEF Parts, Messages
<1> DEFINE toS == senderQ \o (<<m>> \o t)
           toR == receiverQ \o (<<m>> \o t)
<1>8. /\ Seen(toS, S!Acks) = Seen(senderQ \o t, S!Acks) \cup ({m} \cap S!Acks)
      /\ Order(toS, S!Acks) =
           Order(senderQ \o t, S!Acks) \cup (Seen(senderQ, S!Acks) \X ({m} \cap S!Acks))
             \cup (({m} \cap S!Acks) \X Seen(t, S!Acks))
  BY <1>4, Within
<1>11. Append(senderQ, m) \o t = toS
  BY <1>4, Shifted
<1>10. ASSUME NEW n, Parts(S!Packets, receiverQ, n, t)
       PROVE  /\ Seen(receiverQ \o (<<n>> \o t), S!Packets) =
                   Seen(receiverQ \o t, S!Packets) \cup ({n} \cap S!Packets)
              /\ Order(receiverQ \o (<<n>> \o t), S!Packets) =
                   Order(receiverQ \o t, S!Packets)
                     \cup (Seen(receiverQ, S!Packets) \X ({n} \cap S!Packets))
                     \cup (({n} \cap S!Packets) \X Seen(t, S!Packets))
  BY <1>10, Within
<1>12. /\ Seen(toR, S!Packets) = Seen(receiverQ \o t, S!Packets) \cup ({m} \cap S!Packets)
       /\ Order(toR, S!Packets) =
            Order(receiverQ \o t, S!Packets)
              \cup (Seen(receiverQ, S!Packets) \X ({m} \cap S!Packets))
              \cup (({m} \cap S!Packets) \X Seen(t, S!Packets))
  BY <1>4, <1>10
<1>9. ToSender = toS /\ ToReceiver = toR
  BY <1>2 DEF ToSender, ToReceiver
<1> HIDE DEF toS, toR
<1>5. CASE m \in S!Packets /\ receiverQ' = receiverQ /\ senderQ' = senderQ
  <2>1. m \notin S!Acks
    BY <1>5, Origin
  <2>2. Replies' = Replies /\ ReplyOrder' = ReplyOrder
    BY <1>1, <1>5, <1>8, <1>9, <2>1 DEF Replies, ReplyOrder, ToSender
  <2>3. Segments = Segments' \cup {m} /\ SegmentOrder' \subseteq SegmentOrder
    BY <1>1, <1>5, <1>9, <1>12 DEF Segments, SegmentOrder, ToReceiver
  <2> QED
    BY <2>2, <2>3 DEF Alike
<1>6. CASE m \in S!Packets /\ senderQ' = senderQ
           /\ \E n \in S!Packets : Alike(n, m) /\ receiverQ' = Append(receiverQ, n)
  <2>1. m \notin S!Acks
    BY <1>6, Origin
  <2>2. Replies' = Replies /\ ReplyOrder' = ReplyOrder
    BY <1>1, <1>6, <1>8, <1>9, <2>1 DEF Replies, ReplyOrder, ToSender
  <2>3. PICK n \in S!Packets : Alike(n, m) /\ receiverQ' = Append(receiverQ, n)
    BY <1>6
  <2>4. Parts(S!Packets, receiverQ, n, t)
    BY <1>4 DEF Parts, Messages
  <2> DEFINE less == receiverQ \o t
  <2>5. /\ Segments = Seen(less, S!Packets) \cup {m}
        /\ SegmentOrder = Order(less, S!Packets) \cup (Seen(receiverQ, S!Packets) \X {m})
                             \cup ({m} \X Seen(t, S!Packets))
    BY <1>6, <1>9, <1>12 DEF Segments, SegmentOrder
  <2>6. ToReceiver' = receiverQ \o (<<n>> \o t)
    BY <1>1, <2>3, <2>4, Shifted DEF ToReceiver
  <2>7. /\ Segments' = Seen(less, S!Packets) \cup {n}
        /\ SegmentOrder' = Order(less, S!Packets) \cup (Seen(receiverQ, S!Packets) \X {n})
                             \cup ({n} \X Seen(t, S!Packets))
    BY <1>10, <2>4, <2>6 DEF Segments, SegmentOrder
  <2> HIDE DEF less
  <2>8. \A k \in Segments' : \E l \in Segments : Alike(k, l)
    BY <2>3, <2>5, <2>7 DEF Alike
  <2>9. ASSUME NEW x \in SegmentOrder'
        PROVE  \E y \in SegmentOrder : x[1].seq = y[1].seq /\ x[2].seq = y[2].seq
    <3>1. CASE x \in Order(less, S!Packets)
      BY <2>5, <3>1
    <3>2. CASE x \in Seen(receiverQ, S!Packets) \X {n}
      <4>1. <<x[1], m>> \in SegmentOrder /\ x[2] = n
        BY <2>5, <3>2
      <4> QED
        BY <2>3, <4>1 DEF Alike
    <3>3. CASE x \in {n} \X Seen(t, S!Packets)
      <4>1. <<m, x[2]>> \in SegmentOrder /\ x[1] = n
        BY <2>5, <3>3
      <4> QED
        BY <2>3, <4>1 DEF Alike
    <3> QED
      BY <2>7, <3>1, <3>2, <3>3
  <2> QED
    BY <2>2, <2>8, <2>9
<1>7. CASE m \in S!Acks /\ receiverQ' = receiverQ /\ senderQ' = Append(senderQ, m)
  <2>1. m \notin S!Packets
    BY <1>7, Origin
  <2>2. ToSender' = ToSender
    BY <1>1, <1>7, <1>9, <1>11 DEF ToSender
  <2>3. Segments' = Segments /\ SegmentOrder' = SegmentOrder
    BY <1>1, <1>7, <1>9, <1>12, <2>1 DEF Segments, SegmentOrder, ToReceiver
  <2> QED
    BY <2>2, <2>3 DEF Replies, ReplyOrder, Alike
<1> QED
  BY <1>3, <1>5, <1>6, <1>7

------------------------------------------------------------------------------
\* The window.

LEMMA FreeType ==
    ASSUME TypeOK
    PROVE  /\ Marked \subseteq 1..Total /\ Free = (1..Total) \ Marked
           /\ Free \subseteq Nat /\ IsFiniteSet(Free) /\ Window \subseteq Free
           /\ \A k \in Free : Rank(Free, k) \in Nat
           /\ cwnd \in Nat \ {0} /\ sbase \in Nat \ {0}
<1>1. Free \subseteq 1..Total /\ 1..Total \subseteq Nat
  BY TotalAssumption DEF Free
<1>2. IsFiniteSet(1..Total)
  BY TotalAssumption, FS_Interval
<1>3. IsFiniteSet(Free)
  BY <1>1, <1>2, FS_Subset
<1>4. \A k \in Free : Rank(Free, k) \in Nat
  <2>1. Free \subseteq Nat
    BY <1>1
  <2>2. \A k \in Free : Rank(Free, k) \in 1..Cardinality(Free) /\ Cardinality(Free) \in Nat
    BY <1>3, <2>1, RankGrows
  <2> QED
    BY <2>2
<1>5. Marked \subseteq 1..Total /\ Free = (1..Total) \ Marked
  BY DEF Free, Marked
<1> QED
  BY <1>1, <1>3, <1>4, <1>5 DEF Window, TypeOK, S!SenderTypeOK

\* What is free below a segment of the window is in the window.
LEMMA WindowDown ==
    ASSUME TypeOK, NEW k \in Window, NEW j \in Free, j <= k
    PROVE  j \in Window
<1>1. j = k \/ j < k
  BY FreeType
<1>2. j < k => Rank(Free, j) < Rank(Free, k)
  BY FreeType, RankGrows
<1> QED
  BY <1>1, <1>2, FreeType DEF Window

\* The first segment that is not marked is in the window.
LEMMA BaseInWindow ==
    ASSUME TypeOK, 1..(sbase - 1) \subseteq Marked, sbase \notin Marked, sbase <= Total
    PROVE  sbase \in Window
<1>1. sbase \in Free /\ \A j \in Free : sbase <= j
  BY FreeType, TotalAssumption
<1>2. Rank(Free, sbase) = 1
  BY <1>1, FreeType, RankOfLeast
<1> QED
  BY <1>1, <1>2, FreeType DEF Window

\* With a segment marked, the rest of the window stays in it, and who comes to its
\* end was not in it and is behind it.
LEMMA WindowMoves ==
    ASSUME TypeOK, NEW s \in Window, acked' = S!MarkSACK(s), cwnd' \in Nat, cwnd' >= cwnd
    PROVE  /\ Marked' = Marked \cup {s} /\ Free' = Free \ {s}
           /\ Window \ {s} \subseteq Window'
           /\ \A k \in Free' : Rank(Free', k) >= cwnd =>
                 k \notin Window /\ \A j \in Window : j < k
<1>1. s \in Free /\ Rank(Free, s) <= cwnd
  BY DEF Window
<1>2. Marked' = Marked \cup {s}
  BY <1>1 DEF Marked, Free, S!MarkSACK
<1>3. Free' = Free \ {s}
  BY DEF Free, S!MarkSACK
<1> DEFINE rest == Free \ {s}
<1>4. \A k \in rest : /\ k < s => Rank(rest, k) = Rank(Free, k)
                      /\ k > s => Rank(rest, k) = Rank(Free, k) - 1
                      /\ k < s \/ k > s
                      /\ Rank(Free, k) \in Nat /\ Rank(Free, s) \in Nat
                      /\ k < s => Rank(Free, k) < Rank(Free, s)
  BY <1>1, FreeType, RankWithout, RankGrows
<1>5. Window' = {k \in rest : Rank(rest, k) <= cwnd'}
  BY <1>3 DEF Window
<1> HIDE DEF rest
<1>6. Window \ {s} \subseteq Window'
  <2>1. ASSUME NEW k \in Window \ {s} PROVE k \in rest /\ Rank(rest, k) <= cwnd'
    <3>1. k \in rest /\ Rank(Free, k) <= cwnd
      BY DEF rest, Window
    <3> QED
      BY <1>4, <3>1, FreeType
  <2> QED
    BY <1>5, <2>1
<1>7. ASSUME NEW k \in rest, Rank(rest, k) >= cwnd
      PROVE  k \notin Window /\ \A j \in Window : j < k
  <2>1. Rank(Free, k) > cwnd
    BY <1>1, <1>4, <1>7, FreeType
  <2>2. k \notin Window
    BY <2>1, FreeType DEF Window
  <2>3. ASSUME NEW j \in Window PROVE j < k
    <3>1. k \in Free /\ j \in Free /\ k \in Nat /\ j \in Nat
      BY FreeType DEF rest
    <3>2. ~(k <= j)
      BY <2>2, <3>1, WindowDown
    <3> QED
      BY <3>1, <3>2
  <2> QED
    BY <2>2, <2>3
<1> QED
  BY <1>2, <1>3, <1>6, <1>7 DEF rest

\* The segments that transmitNew puts on the wire, in order.
LEMMA Burst ==
    ASSUME NEW marks \in [1..Total -> BOOLEAN], NEW base \in Nat \ {0}, NEW num \in Int,
           NEW win \in Int
    PROVE  LET w     == S!TransmitNew(num, base, marks, win)
               fresh == S!Fresh(num, base, marks, win)
           IN  /\ w \in Seq(S!Packets)
               /\ \A m \in Entries(w) : ~m.ack /\ ~m.fin /\ m.seq \in fresh
               /\ \A x \in Before(w) : x[1].seq < x[2].seq
<1> DEFINE w == S!TransmitNew(num, base, marks, win)
           fresh == S!Fresh(num, base, marks, win)
           all == [k \in 1..Total |-> S!Segment(k, marks)]
<1>1. \A k \in fresh : k \in 1..Total /\ ~marks[k]
  BY TotalAssumption DEF S!Fresh, S!Unsacked
<1>2. all \in Seq(S!Packets) /\ DOMAIN all = 1..Total
  <2>1. \A k \in 1..Total : S!Segment(k, marks) \in S!Packets
    BY TotalAssumption DEF S!Segment, S!Packets
  <2> QED
    BY <2>1, TotalAssumption
<1>3. \A k \in fresh : all[k].seq = k /\ ~all[k].ack /\ ~all[k].fin
  BY <1>1 DEF S!Segment
<1>4. w = Selected(all, fresh)
  BY SameSelection DEF S!TransmitNew
<1> HIDE DEF all, fresh, w
<1>5. fresh \subseteq DOMAIN all
  BY <1>1, <1>2
<1>6. w \in Seq(S!Packets) /\ Entries(w) = {all[k] : k \in fresh}
  BY <1>2, <1>4, <1>5, SelectedEntries
<1>7. ASSUME NEW x \in Before(Selected(all, fresh))
      PROVE  \E i, j \in fresh : i < j /\ x = <<all[i], all[j]>>
  <2>1. all \in Seq(S!Packets)
    BY <1>2
  <2> QED
    BY <1>5, <2>1, SelectedOrder
<1>8. \A m \in Entries(w) : ~m.ack /\ ~m.fin /\ m.seq \in fresh
  BY <1>3, <1>6
<1>9. \A x \in Before(w) : x[1].seq < x[2].seq
  BY <1>3, <1>4, <1>7
<1> QED
  BY <1>6, <1>8, <1>9 DEF w, fresh

------------------------------------------------------------------------------
\* Answers.

\* The receiver has the segments up to Top and not the next one.
Gapless ==
    /\ Top \in Nat /\ Arrived \subseteq 1..Total
    /\ 1..Top \subseteq Arrived /\ Top + 1 \notin Arrived

\* What the answers say of the sender's marks.
Answered == Known /\ AnswerTrue /\ AnswersGrow /\ Raised /\ MarkedBefore

LEMMA AnswerType ==
    /\ \A a \in Answers : a \in S!Acks /\ a.ackNumber \in Nat /\ a.sackNumber \in Nat
    /\ AnswerOrder \subseteq Answers \X Answers
<1>1. Replies \subseteq S!Acks /\ ReplyOrder \subseteq Replies \X Replies
  BY BeforeEntries DEF Replies, ReplyOrder, Seen, Order
<1>2. \A a \in Answers : a \in S!Acks /\ a.ackNumber \in Nat /\ a.sackNumber \in Nat
  BY <1>1 DEF Answers, S!Acks
<1>3. AnswerOrder \subseteq Answers \X Answers
  BY <1>1 DEF Answers, AnswerOrder
<1> QED
  BY <1>2, <1>3

\* h is the first of the answers.
First(h) ==
    /\ h \in Answers /\ Answers = {h} \cup Answers'
    /\ AnswerOrder = AnswerOrder' \cup ({h} \X Answers')
    /\ AnswerOrder' \subseteq Answers' \X Answers'

\* An answer acknowledges all up to its number, but for what it marks itself.
LEMMA FirstAnswer ==
    ASSUME TypeOK, Gapless, Answered, InWindow, NEW h, First(h)
    PROVE  /\ h.ackNumber \in Nat /\ h.sackNumber \in Nat
           /\ sbase <= h.ackNumber + 1 /\ h.ackNumber <= Top
           /\ 1..h.ackNumber \subseteq Marked \cup {h.sackNumber}
           /\ h.ackNumber + 1 \notin Marked \cup {h.sackNumber}
           /\ h.sackNumber \in Marked \cup {0} => h.ackNumber = sbase - 1
           /\ h.sackNumber \in Marked \cup {0} \cup Window
           /\ h.sackNumber \in Arrived \cup {0}
<1>1. h \in Answers /\ h.ackNumber \in Nat /\ h.sackNumber \in Nat /\ sbase \in Nat /\ Top \in Nat
  BY AnswerType, FreeType DEF First, Gapless
<1>2. /\ sbase - 1 <= h.ackNumber /\ h.ackNumber <= Top
      /\ h.ackNumber + 1 \notin Marked /\ h.sackNumber # h.ackNumber + 1
      /\ h.sackNumber \in Marked \cup {0} => h.ackNumber = h.sackNumber
  BY <1>1 DEF Answered, AnswerTrue
<1>3. \A a \in Answers' : /\ a \in Answers /\ a.ackNumber \in Nat /\ a.sackNumber \in Nat
                          /\ <<h, a>> \in AnswerOrder
  BY AnswerType DEF First
<1>9. \A a \in Answers' : a.sackNumber > h.ackNumber \/ a.sackNumber = h.ackNumber
  <2>1. ASSUME NEW a \in Answers'
        PROVE  a.sackNumber > h.ackNumber \/ a.sackNumber = h.ackNumber
    <3>1. <<h, a>> \in AnswerOrder
      BY <1>3
    <3> QED
      BY <3>1 DEF Answered, AnswersGrow
  <2> QED
    BY <2>1
<1>4. h.sackNumber \in Arrived \cup {0}
  BY <1>1 DEF Answered, Known
<1>5. h.sackNumber \in Marked \cup {0} \cup Window
  BY <1>4 DEF InWindow
\* Only an answer that is behind it could mark what it acknowledges.
<1>6. ASSUME h.ackNumber # h.sackNumber
      PROVE  h.ackNumber \in Marked \cup {0}
  <2>1. CASE \E b \in Answers : b.sackNumber = h.ackNumber /\ <<b, h>> \in AnswerOrder
    <3>1. PICK b \in Answers : b.sackNumber = h.ackNumber /\ <<b, h>> \in AnswerOrder
      BY <2>1
    <3>2. h \in Answers'
      BY <3>1 DEF First
    <3>4. <<h, h>> \in AnswerOrder
      BY <1>3, <3>2
    <3>5. h.sackNumber = h.sackNumber => h.ackNumber = h.sackNumber
      BY <3>4 DEF Answered, AnswersGrow
    <3> QED
      BY <1>6, <3>5
  <2> QED
    BY <1>1, <1>6, <2>1 DEF Answered, MarkedBefore
<1>7. ASSUME NEW j \in 1..h.ackNumber PROVE j \in Marked \cup {h.sackNumber}
  <2>1. j \in Arrived /\ j \in Nat /\ j # 0
    BY <1>1, <1>2 DEF Gapless
  <2>2. CASE \E a \in Answers' : j = a.sackNumber
    <3>1. PICK a \in Answers' : j = a.sackNumber
      BY <2>2
    <3>6. a.sackNumber \in Nat
      BY <1>3, <3>1
    <3>2. a.sackNumber > h.ackNumber \/ a.sackNumber = h.ackNumber
      BY <1>9, <3>1
    <3>3. j = h.ackNumber
      BY <1>1, <3>1, <3>2, <3>6
    <3> QED
      BY <1>6, <2>1, <3>3
  <2> QED
    BY <2>1, <2>2 DEF Answered, Known, First
<1>8. ASSUME h.sackNumber \in Marked \cup {0} PROVE h.ackNumber = sbase - 1
  <2>1. h.ackNumber = h.sackNumber
    BY <1>2, <1>8
  <2>2. ASSUME NEW b \in Answers, b.ackNumber = h.ackNumber, Raises(b) PROVE FALSE
    <3>1. b.sackNumber <= h.ackNumber /\ b.sackNumber \notin Marked \cup {0}
      BY <2>2 DEF Raises
    <3>2. b # h
      BY <1>8, <3>1
    <3>3. b \in Answers'
      BY <3>2 DEF First
    <3>6. b.sackNumber \in Nat
      BY <1>3, <3>3
    <3>4. b.sackNumber > h.ackNumber \/ b.sackNumber = h.ackNumber
      BY <1>9, <3>3
    <3>5. b.sackNumber = h.ackNumber
      BY <1>1, <3>1, <3>4, <3>6
    <3> QED
      BY <1>8, <2>1, <3>1, <3>5
  <2>3. h.ackNumber < sbase
    BY <1>1, <2>2 DEF Answered, Raised
  <2> QED
    BY <1>1, <1>2, <2>3
<1> QED
  BY <1>1, <1>2, <1>4, <1>5, <1>7, <1>8

\* The sender takes an answer: the base is behind what it acknowledges, what it
\* selects is marked.
LEMMA AnswerTaken ==
    ASSUME TypeOK, Gapless, Answered, InWindow, NEW h, First(h),
           Marked' = Marked \cup ({h.sackNumber} \ {0}), sbase' = h.ackNumber + 1,
           Arrived' = Arrived, Top' = Top
    PROVE  Answered'
<1>1. /\ h.ackNumber \in Nat /\ h.sackNumber \in Nat
      /\ sbase <= h.ackNumber + 1 /\ h.ackNumber <= Top
      /\ 1..h.ackNumber \subseteq Marked \cup {h.sackNumber}
      /\ h.ackNumber + 1 \notin Marked \cup {h.sackNumber}
      /\ sbase \in Nat /\ Top \in Nat
  BY FirstAnswer, FreeType DEF Gapless
<1>2. \A a \in Answers' : a \in Answers /\ a.ackNumber \in Nat /\ a.sackNumber \in Nat
  BY AnswerType DEF First
<1>3. AnswerOrder' \subseteq AnswerOrder
  BY DEF First
<1>4. ASSUME NEW a \in Answers'
      PROVE  /\ h.ackNumber <= a.ackNumber /\ h.sackNumber # a.ackNumber + 1
             /\ h.sackNumber = a.sackNumber => a.ackNumber = a.sackNumber
  <2>1. <<h, a>> \in AnswerOrder
    BY DEF First
  <2> QED
    BY <2>1 DEF Answered, AnswersGrow
<1>5. Known'
  <2>1. Arrived = Marked' \cup ({a.sackNumber : a \in Answers'} \ {0})
    <3>1. /\ Arrived = Marked \cup ({a.sackNumber : a \in Answers} \ {0})
          /\ Answers = {h} \cup Answers'
      BY DEF Answered, Known, First
    <3> QED
      BY <3>1
  <2>2. 1..(sbase' - 1) \subseteq Marked'
    BY <1>1
  <2>3. sbase' - 1 <= Top /\ sbase' \notin Marked'
    BY <1>1
  <2>4. sbase' - 1 = Top \/ \E a \in Answers' : a.ackNumber = Top
    <3>1. sbase - 1 = Top \/ \E a \in Answers : a.ackNumber = Top
      BY DEF Answered, Known
    <3>2. sbase - 1 = Top => h.ackNumber = Top
      BY <1>1
    <3> QED
      BY <1>1, <3>1, <3>2 DEF First
  <2> QED
    BY <2>1, <2>2, <2>3, <2>4 DEF Known
<1>6. AnswerTrue'
  <2> SUFFICES ASSUME NEW a \in Answers'
               PROVE  /\ sbase' - 1 <= a.ackNumber /\ a.ackNumber <= Top'
                      /\ a.ackNumber + 1 \notin Marked' /\ a.sackNumber # a.ackNumber + 1
                      /\ a.sackNumber \in Marked' \cup {0} => a.ackNumber = a.sackNumber
    BY DEF AnswerTrue
  <2>1. /\ a.ackNumber <= Top /\ a.ackNumber + 1 \notin Marked
        /\ a.sackNumber # a.ackNumber + 1
        /\ a.sackNumber \in Marked \cup {0} => a.ackNumber = a.sackNumber
    BY <1>2 DEF Answered, AnswerTrue
  <2> QED
    BY <1>1, <1>2, <1>4, <2>1
<1>7. AnswersGrow'
  BY <1>3 DEF Answered, AnswersGrow
<1>8. Raised'
  <2> SUFFICES ASSUME NEW a \in Answers', ~(a.ackNumber < sbase')
               PROVE  \E b \in Answers' : b.ackNumber = a.ackNumber /\ Raises(b)'
    BY DEF Raised
  <2>1. h.ackNumber < a.ackNumber /\ ~(a.ackNumber < sbase)
    BY <1>1, <1>2
  <2>2. PICK b \in Answers : b.ackNumber = a.ackNumber /\ Raises(b)
    BY <1>2, <2>1 DEF Answered, Raised
  <2>3. h \in Answers /\ (h.sackNumber = b.sackNumber => h.ackNumber >= b.ackNumber)
    BY <2>2 DEF Raises, First
  <2>4. h.sackNumber # b.sackNumber /\ b # h
    BY <1>1, <1>2, <2>1, <2>2, <2>3
  <2>5. b \in Answers'
    BY <2>4 DEF First
  <2>6. /\ b.sackNumber <= b.ackNumber /\ b.sackNumber \notin Marked'
        /\ b.sackNumber # 0
        /\ \A x \in Answers' : x.sackNumber = b.sackNumber => x.ackNumber >= b.ackNumber
    BY <1>2, <2>2, <2>4 DEF Raises
  <2> QED
    BY <2>2, <2>5, <2>6 DEF Raises
<1>9. MarkedBefore'
  <2> SUFFICES ASSUME NEW a \in Answers', a.ackNumber # a.sackNumber,
                      a.ackNumber \notin Marked' \cup {0}
               PROVE  \E b \in Answers' : b.sackNumber = a.ackNumber /\ <<b, a>> \in AnswerOrder'
    BY DEF MarkedBefore
  <2>1. a.ackNumber \notin Marked \cup {0}
    OBVIOUS
  <2>2. PICK b \in Answers : b.sackNumber = a.ackNumber /\ <<b, a>> \in AnswerOrder
    BY <1>2, <2>1 DEF Answered, MarkedBefore
  <2>3. b # h
    BY <2>2
  <2>4. b \in Answers' /\ <<b, a>> \in AnswerOrder'
    BY <2>2, <2>3 DEF First
  <2> QED
    BY <2>2, <2>4
<1> QED
  BY <1>5, <1>6, <1>7, <1>8, <1>9 DEF Answered

------------------------------------------------------------------------------
\* Segments.

\* What the segments on their way say of the window and of the receiver.
Sent == InWindow /\ InSequence /\ LostBefore /\ SentBefore

LEMMA SegmentType ==
    /\ \A m \in Segments : m \in S!Packets /\ m.seq \in 1..(Total + 1)
    /\ SegmentOrder \subseteq Segments \X Segments
<1>1. /\ Segments \subseteq S!Packets /\ SegmentOrder \subseteq Segments \X Segments
  BY BeforeEntries DEF Segments, SegmentOrder, Seen, Order
<1> QED
  BY <1>1 DEF S!Packets

\* Less on its way, and fewer answers.
LEMMA SentLess ==
    ASSUME Sent, OnWire' \subseteq OnWire, WireOrder' \subseteq WireOrder,
           Answers' \subseteq Answers, AnswerOrder' \subseteq AnswerOrder,
           Arrived' = Arrived, Marked' = Marked, Window' = Window,
           sbase' = sbase, dup_ack' = dup_ack
    PROVE  Sent'
<1>1. InWindow'
  BY DEF Sent, InWindow
<1>2. InSequence'
  BY DEF Sent, InSequence, Retransmitted
<1>3. ASSUME NEW c, Duplicate(c)' PROVE Duplicate(c)
  BY <1>3 DEF Duplicate
<1>4. LostBefore'
  BY <1>3 DEF Sent, LostBefore, Retransmitted
<1>5. SentBefore'
  BY <1>3 DEF Sent, SentBefore
<1> QED
  BY <1>1, <1>2, <1>4, <1>5 DEF Sent

\* A segment that comes into the window is behind all that were in it.
Fresh(k) ==
    k \in Free /\ k \notin Window /\ k \in Window' /\ \A j \in Window : j < k

\* The segment at the base is sent again with the third answer for it.
Again(k) == k = sbase /\ k \in Window' /\ dup_ack = 2 /\ sbase' = sbase /\ dup_ack' = 3

\* What the sender puts on the wire once it has marked s.
LEMMA SentMore ==
    ASSUME TypeOK, Sent, NEW s \in Arrived \cup {0}, NEW w \in Seq(S!Packets),
           Marked' = Marked \cup ({s} \ {0}), Window \ {s} \subseteq Window', Arrived' = Arrived,
           \A m \in Segments : m.seq # Total + 1,
           Segments' = Segments \cup Entries(w),
           SegmentOrder' = SegmentOrder \cup Before(w) \cup (Segments \X Entries(w)),
           \A m \in Entries(w) : Fresh(m.seq) \/ Again(m.seq),
           \A x \in Before(w) : \/ x[1].seq < x[2].seq
                                \/ Again(x[2].seq) /\ x[1].seq # x[2].seq,
           \A c \in Int : Duplicate(c)' => Duplicate(c),
           \A k \in OnWire : Retransmitted(k) => Retransmitted(k)',
           \A k \in Arrived : Retransmitted(k) => Retransmitted(k)' \/ ~Duplicate(k - 1)'
    PROVE  Sent'
<1> DEFINE new == {m.seq : m \in Entries(w)}
<1>1. \A k \in new : k \in 1..Total /\ (Fresh(k) \/ Again(k))
  <2>1. \A k : Fresh(k) \/ Again(k) => k \in Window'
    BY DEF Fresh, Again
  <2>2. Window' \subseteq 1..Total
    BY DEF Window, Free
  <2> QED
    BY <2>1, <2>2
<1>2. OnWire' = OnWire \cup new
  <2>1. \A k \in new : k # Total + 1
    BY <1>1, TotalAssumption
  <2> QED
    BY <2>1 DEF OnWire
<1>3. /\ OnWire \cap Arrived = {} /\ OnWire \subseteq Window /\ Arrived \ Marked \subseteq Window
      /\ Window \subseteq Free /\ Window \subseteq 1..Total
  BY FreeType DEF Sent, InWindow
\* It has neither arrived nor is it on its way.
<1>4. ASSUME NEW k \in new
      PROVE  k \notin Arrived /\ k \notin OnWire
  <2>1. CASE Fresh(k)
    BY <1>3, <2>1 DEF Fresh, Free, Marked
  <2>2. CASE Again(k)
    <3>1. Duplicate(k - 1) /\ ~Retransmitted(k)
      BY <1>1, <2>2, FreeType DEF Again, Duplicate, Retransmitted
    <3> QED
      BY <3>1 DEF Sent, LostBefore
  <2> QED
    BY <1>1, <2>1, <2>2
<1>5. InWindow'
  <2>1. OnWire' \cap Arrived' = {}
    BY <1>2, <1>3, <1>4
  <2>2. s \notin OnWire
    BY <1>3, TotalAssumption
  <2>3. OnWire' \subseteq Window'
    BY <1>1, <1>2, <1>3, <2>2 DEF Fresh, Again
  <2>4. Arrived' \ Marked' \subseteq Window'
    <3>1. Arrived \ Marked' \subseteq Window \ {s}
      BY <1>3, TotalAssumption
    <3> QED
      BY <3>1
  <2> QED
    BY <2>1, <2>3, <2>4 DEF InWindow
<1>6. InSequence'
  <2> SUFFICES ASSUME NEW x \in WireOrder'
               PROVE  x[1] < x[2] \/ (Retransmitted(x[2])' /\ x[1] # x[2])
    BY DEF InSequence
  <2>1. PICK y \in SegmentOrder' : x = <<y[1].seq, y[2].seq>>
    BY DEF WireOrder
  <2>2. CASE y \in SegmentOrder
    <3>1. x \in WireOrder
      BY <2>1, <2>2 DEF WireOrder
    <3>2. y[2] \in Segments
      BY <2>2, SegmentType
    <3>3. x[2] \in OnWire
      BY <2>1, <3>2 DEF OnWire
    <3> QED
      BY <3>1, <3>3 DEF Sent, InSequence
  <2>3. CASE y \in Before(w)
    BY <2>1, <2>3, SMTT(20) DEF Again, Retransmitted
  <2>4. CASE y \in Segments \X Entries(w)
    <3>1. x[1] \in OnWire /\ x[2] \in new
      BY <2>1, <2>4 DEF OnWire
    <3>2. CASE Fresh(x[2])
      BY <1>3, <3>1, <3>2 DEF Fresh
    <3>3. CASE Again(x[2])
      BY <1>4, <3>1, <3>3 DEF Again, Retransmitted
    <3> QED
      BY <1>1, <3>1, <3>2, <3>3
  <2> QED
    BY <2>1, <2>2, <2>3, <2>4
<1>7. LostBefore'
  <2> SUFFICES ASSUME NEW k \in OnWire' \cup Arrived'
               PROVE  Retransmitted(k)' \/ ~Duplicate(k - 1)'
    BY DEF LostBefore
  <2>1. k \in Int
    <3>1. k \in OnWire => k \in Int
      BY <1>3
    <3>2. k \in Arrived => k \in Marked \cup Window
      BY <1>3
    <3> QED
      BY <1>1, <1>2, <1>3, <3>1, <3>2, FreeType
  <2>2. CASE k \in OnWire \cup Arrived
    BY <2>1, <2>2 DEF Sent, LostBefore
  <2>3. CASE k \in new /\ Fresh(k)
    <3>1. k \notin Marked \cup Window /\ k - 1 \in 0..(Total - 1) /\ (k - 1) + 1 = k
      BY <1>1, <2>3, TotalAssumption DEF Fresh, Free, Marked
    <3>2. ~Duplicate(k - 1)
      BY <3>1 DEF Sent, SentBefore
    <3> QED
      BY <2>1, <3>2
  <2>4. CASE k \in new /\ Again(k)
    BY <2>4 DEF Again, Retransmitted
  <2> QED
    BY <1>1, <1>2, <2>2, <2>3, <2>4
<1>8. SentBefore'
  <2> SUFFICES ASSUME NEW c \in 0..(Total - 1), Duplicate(c)'
               PROVE  c + 1 \in Marked' \cup Window'
    BY DEF SentBefore
  <2>1. c + 1 \in Marked \cup Window /\ c + 1 # 0
    BY TotalAssumption DEF Sent, SentBefore
  <2> QED
    BY <2>1
<1> QED
  BY <1>5, <1>6, <1>7, <1>8 DEF Sent

------------------------------------------------------------------------------
\* The buffer.

LEMMA Remainder ==
    ASSUME NEW P \in Nat \ {0}, NEW q \in Nat, NEW m \in 0..(P - 1), NEW x \in Nat, x = P * q + m
    PROVE  x % P = m
OBVIOUS

\* Where the window of the receiver's buffer starts.
Start == BufSize * flush_count

LEMMA StartType ==
    ASSUME TypeOK
    PROVE  /\ Start \in Nat /\ BufSize \in Nat \ {0} /\ Total \in Nat \ {0}
           /\ rbase \in 1..(BufSize + 1) /\ R!Cumulative = Start + rbase - 1 /\ R!NULL = 0
           /\ buffer \in [1..BufSize -> Nat] /\ file \in Seq(Nat) /\ endflag \in BOOLEAN
BY BufAssumption, TotalAssumption DEF TypeOK, R!ReceiverTypeOK, R!Cumulative, R!NULL, Start

\* The slot of a segment of the window.
LEMMA SlotIs ==
    ASSUME TypeOK, NEW i \in 1..BufSize
    PROVE  R!Slot(Start + i) = i
<1>1. BufSize \in Nat \ {0} /\ flush_count \in Nat
  BY BufAssumption DEF TypeOK, R!ReceiverTypeOK
<1>6. Start \in Nat
  BY StartType
<1>2. i - 1 \in 0..(BufSize - 1) /\ Start \in Nat /\ (Start + i) - 1 \in Nat
  BY <1>1, <1>6
<1> DEFINE x == (Start + i) - 1
           m == i - 1
<1>3. x = BufSize * flush_count + m
  BY <1>1, <1>2 DEF Start
<1>4. x \in Nat /\ m \in 0..(BufSize - 1)
  BY <1>2
<1> HIDE DEF x, m
<1>5. x % BufSize = m
  BY <1>1, <1>3, <1>4, Remainder
<1> QED
  BY <1>5 DEF x, m, R!Slot

\* What the receiver holds while it has not ended.
LEMMA ArrivedIs ==
    ASSUME TypeOK, Buffered, ~endflag
    PROVE  /\ Arrived = (1..Start) \cup {Start + i : i \in {j \in 1..BufSize : buffer[j] # 0}}
           /\ Top = Start + rbase - 1
<1>1. /\ file = [i \in 1..Start |-> i] /\ Len(file) = Start
      /\ \A i \in 1..BufSize : buffer[i] # 0 => buffer[i] = Start + i
  BY StartType DEF Buffered, Start
<1>2. {file[i] : i \in 1..Len(file)} = 1..Start
  BY <1>1
<1>3. {buffer[i] : i \in 1..BufSize} \ {0} = {Start + i : i \in {j \in 1..BufSize : buffer[j] # 0}}
  BY <1>1, StartType
<1>4. Arrived = ((1..Start) \ {0}) \cup ({buffer[i] : i \in 1..BufSize} \ {0})
  BY <1>2, StartType DEF Arrived, Held
<1>5. (1..Start) \ {0} = 1..Start
  BY StartType
<1> QED
  BY <1>3, <1>4, <1>5, StartType DEF Top

LEMMA ArrivedAtEnd ==
    ASSUME TypeOK, Buffered, endflag
    PROVE  Arrived = 1..Total /\ Top = Total
<1>1. /\ file = [i \in 1..Total |-> i] /\ Len(file) = Total
      /\ \A i \in 1..BufSize : buffer[i] = 0
  BY StartType DEF Buffered
<1> QED
  BY <1>1, StartType DEF Arrived, Held, Top

LEMMA NothingMissing ==
    ASSUME TypeOK, Buffered
    PROVE  Gapless
<1>1. CASE endflag
  BY <1>1, ArrivedAtEnd, StartType DEF Gapless
<1>2. CASE ~endflag
  <2>1. /\ Arrived = (1..Start) \cup {Start + i : i \in {j \in 1..BufSize : buffer[j] # 0}}
        /\ Top = Start + rbase - 1
    BY <1>2, ArrivedIs
  <2>2. /\ Start <= Total /\ rbase \in 1..BufSize /\ buffer[rbase] = 0
        /\ \A i \in 1..BufSize : buffer[i] # 0 => Start + i <= Total
        /\ \A i \in 1..(rbase - 1) : buffer[i] # 0
    BY <1>2, StartType DEF Buffered, Start
  <2>3. Top \in Nat /\ Arrived \subseteq 1..Total
    BY <2>1, <2>2, StartType
  <2>4. ASSUME NEW k \in 1..Top PROVE k \in Arrived
    <3>1. CASE k <= Start
      BY <2>1, <3>1, StartType
    <3>2. CASE k > Start
      <4>1. k - Start \in 1..(rbase - 1) /\ k - Start \in 1..BufSize /\ k = Start + (k - Start)
        BY <2>1, <2>2, <3>2, StartType
      <4>2. buffer[k - Start] # 0
        BY <2>2, <4>1
      <4> QED
        BY <2>1, <4>1, <4>2
    <3> QED
      BY <2>3, <3>1, <3>2, StartType
  <2>5. Top + 1 \notin Arrived
    <3>1. Top + 1 = Start + rbase /\ Top + 1 \notin 1..Start
      BY <2>1, <2>2, StartType
    <3>2. \A i \in 1..BufSize : Start + i = Start + rbase => i = rbase
      BY <2>2, StartType
    <3> QED
      BY <2>1, <2>2, <3>1, <3>2
  <2> QED
    BY <2>3, <2>4, <2>5 DEF Gapless
<1> QED
  BY <1>1, <1>2

\* The slots of a buffer in which the first m are used go to the file in order.
LEMMA Delivers ==
    ASSUME TypeOK, Buffered, ~endflag, NEW m \in 0..BufSize, NEW buf,
           \A i \in 1..m : buf[i] = Start + i,
           \A i \in (m + 1)..BufSize : buf[i] = 0
    PROVE  file \o R!Filled(buf) = [i \in 1..(Start + m) |-> i]
<1>1. {i \in 1..BufSize : buf[i] # R!NULL} = 1..m
  <2>1. \A i \in 1..BufSize : i \in 1..m \/ i \in (m + 1)..BufSize
    BY StartType
  <2>2. \A i \in 1..m : i \in 1..BufSize /\ buf[i] # 0
    BY StartType
  <2> QED
    BY <2>1, <2>2, StartType
<1>2. R!Filled(buf) = [n \in 1..m |-> buf[n]]
  <2>1. m \in Nat
    BY StartType
  <2>2. Selected(buf, 1..m) = [n \in 1..m |-> buf[n]]
    BY <2>1, SelectedFirst
  <2> DEFINE P == 1..m
  <2>3. R!Filled(buf) = R!Selected(buf, P)
    BY <1>1 DEF R!Filled
  <2> HIDE DEF P
  <2>4. R!Filled(buf) = Selected(buf, P)
    BY <2>3, SameSelection
  <2> QED
    BY <2>2, <2>4 DEF P
<1>3. R!Filled(buf) = [n \in 1..m |-> Start + n]
  BY <1>2
<1>4. file = [i \in 1..Start |-> i]
  BY StartType DEF Buffered, Start
<1> DEFINE r == [i \in 1..Start |-> i]
           w == [n \in 1..m |-> Start + n]
<1>5. r \o w = [i \in 1..(Start + m) |-> i]
  <2>1. Start \in Nat /\ m \in Nat
    BY StartType
  <2>2. r \in Seq(Nat) /\ w \in Seq(Nat) /\ Len(r) = Start /\ Len(w) = m
    BY <2>1
  <2> QED
    BY <2>1, <2>2
<1> QED
  BY <1>3, <1>4, <1>5
\* The slots above the base are in use up to the next base.
LEMMA NextBase ==
    ASSUME TypeOK
    PROVE  /\ R!UpdateBase \in 1..(BufSize + 1)
           /\ \A i \in (rbase + 1)..(R!UpdateBase - 1) : buffer[i] # 0
           /\ R!UpdateBase <= BufSize => buffer[R!UpdateBase] = 0
           /\ rbase <= BufSize => rbase < R!UpdateBase
<1>1. BufSize \in Nat \ {0} /\ rbase \in 1..(BufSize + 1) /\ R!NULL = 0
  BY StartType
<1> DEFINE empty == {i \in (rbase + 1)..BufSize : buffer[i] = R!NULL}
<1>2. CASE empty = {}
  <2>1. R!UpdateBase = BufSize + 1
    BY <1>2 DEF R!UpdateBase
  <2> QED
    BY <1>1, <1>2, <2>1
<1>3. CASE empty # {}
  <2>1. IsFiniteSet(1..BufSize)
    BY <1>1, FS_Interval
  <2>2. \A i \in empty : i \in 1..BufSize
    BY <1>1
  <2>3. empty \subseteq Nat /\ IsFiniteSet(empty)
    <3>1. empty \subseteq 1..BufSize
      BY <2>2
    <3> QED
      BY <1>1, <2>1, <3>1, FS_Subset
  <2> HIDE DEF empty
  <2>4. \E i \in empty : \A j \in empty : i <= j
    BY <1>3, <2>3, LeastExists
  <2> DEFINE c == CHOOSE i \in empty : \A j \in empty : i <= j
  <2>5. c \in empty /\ \A j \in empty : c <= j
    BY <2>4
  <2>6. R!UpdateBase = c
    BY <1>3 DEF R!UpdateBase, empty
  <2> HIDE DEF c
  <2>7. c \in (rbase + 1)..BufSize /\ buffer[c] = 0
    BY <1>1, <2>5 DEF empty
  <2>8. ASSUME NEW i \in (rbase + 1)..(c - 1) PROVE buffer[i] # 0
    <3>1. ~(c <= i) /\ i \in (rbase + 1)..BufSize
      BY <1>1, <2>7
    <3>2. i \notin empty
      BY <2>5, <3>1
    <3> QED
      BY <1>1, <3>1, <3>2 DEF empty
  <2> QED
    BY <1>1, <2>6, <2>7, <2>8
<1> QED
  BY <1>2, <1>3

------------------------------------------------------------------------------
\* Types, whatever the timer does.

LEMMA FilledType ==
    ASSUME NEW buf \in [1..BufSize -> Nat]
    PROVE  R!Filled(buf) \in Seq(Nat)
<1>1. buf \in Seq(Nat) /\ DOMAIN buf = 1..BufSize
  BY BufAssumption
<1> DEFINE P == {i \in 1..BufSize : buf[i] # R!NULL}
<1>2. P \subseteq DOMAIN buf /\ R!Filled(buf) = R!Selected(buf, P)
  BY <1>1 DEF R!Filled
<1> HIDE DEF P
<1>3. R!Filled(buf) = Selected(buf, P)
  BY <1>2, SameSelection
<1>4. Selected(buf, P) \in Seq(Nat)
  BY <1>1, <1>2, SelectedEntries
<1> QED
  BY <1>3, <1>4

LEMMA InitTypes == Init => TypeOK
<1> SUFFICES ASSUME Init PROVE TypeOK
  OBVIOUS
<1>1. S!SenderTypeOK
  BY TotalAssumption, ThreshAssumption DEF Init, S!SInit, S!SenderTypeOK
<1>2. R!ReceiverTypeOK
  <2>1. /\ buffer = [i \in 1..BufSize |-> 0] /\ rbase = 1 /\ flush_count = 0 /\ file = <<>>
        /\ endflag = FALSE
    BY DEF Init, R!RInit, R!NULL
  <2>2. rbase \in 1..(BufSize + 1)
    BY <2>1, BufAssumption
  <2>3. buffer \in [1..BufSize -> Nat]
    BY <2>1
  <2>5. file = <<>> /\ flush_count = 0 /\ endflag = FALSE
    BY <2>1
  <2>6. <<>> \in Seq(Nat)
    OBVIOUS
  <2>4. file \in Seq(Nat) /\ flush_count \in Nat /\ endflag \in BOOLEAN
    BY <2>5, <2>6
  <2> QED
    BY <2>2, <2>3, <2>4 DEF R!ReceiverTypeOK
<1>3. G!AgentTypeOK
  BY DEF Init, G!GInit, G!AgentTypeOK
<1>4. agentQ \in Seq(S!Packets)
  <2> DEFINE none == [k \in 1..Total |-> FALSE]
  <2>1. none \in [1..Total -> BOOLEAN] /\ agentQ = S!TransmitNew(1, 1, none, 1)
    BY DEF Init, S!InitialBurst
  <2> HIDE DEF none
  <2> QED
    BY <2>1, Burst
<1> QED
  BY <1>1, <1>2, <1>3, <1>4 DEF Init, TypeOK

LEMMA SenderTypes ==
    ASSUME TypeOK, Sender
    PROVE  TypeOK'
<1>1. /\ senderQ \in Seq(S!Acks) /\ agentQ \in Seq(S!Packets \cup S!Acks) /\ Total \in Nat \ {0}
      /\ acked \in [1..Total -> BOOLEAN] /\ sbase \in Nat \ {0} /\ cwnd \in Nat \ {0}
      /\ frac \in 0..(cwnd - 1) /\ thresh \in Nat \ {0} /\ dup_ack \in 0..4
      /\ S!SenderTypeOK
  BY TotalAssumption DEF TypeOK, S!SenderTypeOK
<1>2. UNCHANGED <<rVars, agent, receiverQ>>
  BY DEF Sender, SenderTimeout, SenderDupACK, SenderNewACK, SenderFin, SenderFinack
<1>3. ASSUME S!SenderTypeOK', senderQ' \in Seq(S!Acks),
             NEW w \in Seq(S!Packets), agentQ' = agentQ \o w
      PROVE  TypeOK'
  <2>1. agentQ' \in Seq(S!Packets \cup S!Acks)
    BY <1>1, <1>3
  <2> QED
    BY <1>2, <1>3, <2>1 DEF TypeOK, rVars, R!ReceiverTypeOK, G!AgentTypeOK
<1>4. ASSUME NEW marks \in [1..Total -> BOOLEAN], sbase <= Total
      PROVE  S!TransmitMissing(sbase, marks) \in Seq(S!Packets)
  BY <1>1, <1>4 DEF S!TransmitMissing, S!Segment, S!Packets
<1>5. \A seq : S!MarkSACK(seq) \in [1..Total -> BOOLEAN]
  BY <1>1 DEF S!MarkSACK
<1>6. ASSUME S!NullDeref PROVE TypeOK'
  BY <1>1, <1>2, <1>6 DEF S!NullDeref, TypeOK, rVars, R!ReceiverTypeOK, G!AgentTypeOK,
     S!SenderTypeOK
<1>7. CASE SenderTimeout
  <2>1. CASE S!Timeout
    <3>1. S!ThreshAfter \in Nat \ {0}
      BY <1>1 DEF S!ThreshAfter
    <3>2. S!SenderTypeOK' /\ senderQ' \in Seq(S!Acks)
      BY <1>1, <2>1, <3>1 DEF S!Timeout, S!SenderTypeOK, S!InLoop
    <3>3. /\ S!TransmitMissing(sbase, acked) \in Seq(S!Packets)
          /\ agentQ' = agentQ \o S!TransmitMissing(sbase, acked)
      BY <1>1, <1>4, <2>1 DEF S!Timeout, S!BaseExists
    <3> QED
      BY <1>3, <3>2, <3>3
  <2> QED
    BY <1>6, <1>7, <2>1 DEF SenderTimeout
<1>8. CASE SenderDupACK
  <2> DEFINE a     == Head(senderQ)
             marks == S!MarkSACK(a.sackNumber)
             num   == IF sbase + cwnd - 1 >= Total \/ a.ackNumber = a.sackNumber THEN 0 ELSE 1
             v     == S!TransmitNew(num, sbase, marks, cwnd)
             u     == IF dup_ack = 2 THEN S!TransmitMissing(sbase, marks) ELSE <<>>
  <2>1. /\ senderQ # <<>> /\ senderQ' = Tail(senderQ) /\ S!InLoop /\ sbase <= Total
        /\ acked' = marks /\ dup_ack' = (IF dup_ack < 4 THEN dup_ack + 1 ELSE 4)
        /\ agentQ' = agentQ \o v \o u
        /\ UNCHANGED <<spc, sbase, cwnd, frac, thresh, state>>
    BY <1>8 DEF SenderDupACK, S!DupACK, S!BaseExists
  <2>2. marks \in [1..Total -> BOOLEAN]
    BY <1>5
  <2>3. S!SenderTypeOK' /\ senderQ' \in Seq(S!Acks)
    BY <1>1, <2>1, <2>2 DEF S!SenderTypeOK
  <2>4. v \in Seq(S!Packets) /\ u \in Seq(S!Packets)
    <3>1. num \in Int /\ cwnd \in Int
      BY <1>1
    <3> HIDE DEF num, marks
    <3>2. v \in Seq(S!Packets)
      BY <1>1, <2>2, <3>1, Burst
    <3> QED
      BY <1>4, <2>1, <2>2, <3>2
  <2> HIDE DEF v, u
  <2>6. v \in Seq(S!Packets \cup S!Acks) /\ u \in Seq(S!Packets \cup S!Acks)
    BY <2>4
  <2>7. v \o u \in Seq(S!Packets)
    BY <2>4
  <2>8. (agentQ \o v) \o u = agentQ \o (v \o u)
    BY <1>1, <2>6
  <2>5. v \o u \in Seq(S!Packets) /\ agentQ' = agentQ \o (v \o u)
    BY <2>1, <2>7, <2>8
  <2> QED
    BY <1>3, <2>3, <2>5
<1>9. CASE SenderNewACK
  <2>1. CASE S!NewACK
    <3> DEFINE a == Head(senderQ)
               v == S!TransmitNew(1 + cwnd' - cwnd, sbase', acked', cwnd')
    <3>1. /\ senderQ # <<>> /\ senderQ' = Tail(senderQ) /\ S!InLoop
          /\ acked' = S!MarkSACK(a.sackNumber) /\ dup_ack' = 0 /\ sbase' = a.ackNumber + 1
          /\ S!GrowWindow /\ agentQ' = agentQ \o v
          /\ UNCHANGED <<spc, thresh>>
      BY <2>1 DEF S!NewACK, S!BaseAfter
    <3>8. a \in S!Acks /\ senderQ' \in Seq(S!Acks)
      BY <1>1, <3>1
    <3>2. a \in S!Acks /\ a.ackNumber \in Nat
      BY <3>8 DEF S!Acks
    <3>3. acked' \in [1..Total -> BOOLEAN] /\ sbase' \in Nat \ {0}
      BY <1>5, <3>1, <3>2
    <3>4. cwnd' \in Nat \ {0} /\ frac' \in 0..(cwnd' - 1)
          /\ state' \in {"SLOWSTART", "CONGESTIONAVOID"}
      <4>1. state \in {"SLOWSTART", "CONGESTIONAVOID"} /\ S!GrowWindow
        BY <1>1, <3>1 DEF S!SenderTypeOK
      <4> QED
        BY <1>1, <4>1 DEF S!GrowWindow
    <3>9. spc' = spc /\ thresh' = thresh /\ dup_ack' = 0
      BY <3>1
    <3>5. S!SenderTypeOK' /\ senderQ' \in Seq(S!Acks)
      <4>1. spc' \in {"sending", "finwait", "done", "crashed"} /\ thresh' \in Nat \ {0}
            /\ dup_ack' \in 0..4
        BY <1>1, <3>9 DEF S!SenderTypeOK
      <4> QED
        BY <3>8, <3>3, <3>4, <4>1 DEF S!SenderTypeOK
    <3>6. 1 + cwnd' - cwnd \in Int /\ cwnd' \in Int
      BY <1>1, <3>4
    <3>7. v \in Seq(S!Packets)
      BY <3>3, <3>6, Burst
    <3> QED
      BY <1>3, <3>1, <3>5, <3>7
  <2> QED
    BY <1>6, <1>9, <2>1 DEF SenderNewACK
<1>10. CASE SenderFin
  <2> DEFINE one == <<S!FinSegment>>
  <2>1. one \in Seq(S!Packets)
    BY <1>1 DEF S!FinSegment, S!Packets
  <2>2. agentQ' = agentQ \o one /\ S!SenderTypeOK' /\ senderQ' \in Seq(S!Acks)
    BY <1>1, <1>10 DEF SenderFin, S!SendFin, S!SenderTypeOK
  <2> HIDE DEF one
  <2> QED
    BY <1>3, <2>1, <2>2
<1>11. CASE SenderFinack
  <2>1. /\ senderQ # <<>> /\ senderQ' = Tail(senderQ) /\ agentQ' = agentQ
        /\ spc' \in {"finwait", "done"}
        /\ UNCHANGED <<sbase, acked, cwnd, frac, thresh, dup_ack, state>>
    BY <1>11 DEF SenderFinack, S!RecvFinack
  <2>2. senderQ' \in Seq(S!Acks) /\ S!SenderTypeOK'
    BY <1>1, <2>1 DEF S!SenderTypeOK
  <2> QED
    BY <1>1, <1>2, <2>1, <2>2 DEF TypeOK, rVars, R!ReceiverTypeOK, G!AgentTypeOK
<1> QED
  BY <1>7, <1>8, <1>9, <1>10, <1>11 DEF Sender

LEMMA ReceiverTypes ==
    ASSUME TypeOK, Receiver
    PROVE  TypeOK'
<1>1. /\ receiverQ \in Seq(S!Packets) /\ agentQ \in Seq(S!Packets \cup S!Acks)
      /\ BufSize \in Nat \ {0} /\ R!NULL = 0
      /\ buffer \in [1..BufSize -> Nat] /\ rbase \in 1..(BufSize + 1) /\ flush_count \in Nat
      /\ file \in Seq(Nat) /\ endflag \in BOOLEAN
  BY BufAssumption DEF TypeOK, R!ReceiverTypeOK, R!NULL
<1> DEFINE g == Head(receiverQ)
<1>2. /\ UNCHANGED <<sVars, agent, senderQ>> /\ receiverQ # <<>> /\ receiverQ' = Tail(receiverQ)
  BY DEF Receiver, R!ReceiveDataPacket, R!RecvCorrupt, R!RecvInOrder, R!RecvFin,
         R!RecvOverBuffer, R!RecvOutOfOrder, R!Take
<1>3. g \in S!Packets /\ g.seq \in Nat /\ receiverQ' \in Seq(S!Packets)
  <2>1. g \in S!Packets /\ receiverQ' \in Seq(S!Packets)
    BY <1>1, <1>2
  <2> QED
    BY <2>1, TotalAssumption DEF S!Packets
<1>4. BufSize * flush_count \in Nat /\ R!Cumulative \in Nat
  BY StartType DEF Start
<1>6. R!UpdateBase \in 1..(BufSize + 1)
  BY NextBase
<1>7. R!Slot(g.seq) \in 1..BufSize /\ R!MarkSlot(g.seq) \in [1..BufSize -> Nat]
  <2>1. \A x \in Int : (x % BufSize) + 1 \in 1..BufSize
    BY <1>1
  <2> DEFINE x == g.seq - 1
  <2>3. x \in Int /\ R!Slot(g.seq) = (x % BufSize) + 1
    BY <1>3 DEF R!Slot
  <2> HIDE DEF x
  <2>2. R!Slot(g.seq) \in 1..BufSize
    BY <2>1, <2>3
  <2> QED
    BY <1>1, <1>3, <2>2 DEF R!MarkSlot
<1>8. ASSUME R!ReceiverTypeOK', NEW r \in S!Acks, agentQ' = Append(agentQ, r)
      PROVE  TypeOK'
  <2>1. agentQ' \in Seq(S!Packets \cup S!Acks)
    BY <1>1, <1>8
  <2> QED
    BY <1>2, <1>3, <1>8, <2>1 DEF TypeOK, sVars, S!SenderTypeOK, G!AgentTypeOK
<1>9. ASSUME NEW buf \in [1..BufSize -> Nat], R!Flush(buf)
      PROVE  /\ buffer' \in [1..BufSize -> Nat] /\ rbase' \in 1..(BufSize + 1)
             /\ flush_count' \in Nat /\ file' \in Seq(Nat)
  <2>1. R!Filled(buf) \in Seq(Nat)
    BY FilledType
  <2> QED
    BY <1>1, <1>9, <2>1 DEF R!Flush
<1>10. ASSUME NEW ack \in Nat, NEW sack \in Nat, R!SendSACK(ack, sack), R!ReceiverTypeOK'
       PROVE  TypeOK'
  <2> DEFINE r == [ackNumber |-> ack, sackNumber |-> sack, finack |-> FALSE]
  <2>1. r \in S!Acks /\ agentQ' = Append(agentQ, r)
    BY <1>10 DEF S!Acks, R!SendSACK
  <2> QED
    BY <1>8, <1>10, <2>1
<1>11. CASE R!RecvCorrupt
  BY <1>1, <1>4, <1>10, <1>11 DEF R!RecvCorrupt, R!receiverVars, R!ReceiverTypeOK
<1>12. CASE R!RecvInOrder
  <2>1. BufSize * flush_count + R!UpdateBase - 1 \in Nat
    BY <1>4, <1>6
  <2>2. R!ReceiverTypeOK'
    <3>1. CASE R!Flush(R!MarkSlot(g.seq))
      BY <1>1, <1>7, <1>9, <1>12, <3>1 DEF R!RecvInOrder, R!ReceiverTypeOK
    <3>2. CASE /\ buffer' = R!MarkSlot(g.seq) /\ rbase' = R!UpdateBase
               /\ UNCHANGED <<flush_count, file>>
      BY <1>1, <1>6, <1>7, <1>12, <3>2 DEF R!RecvInOrder, R!ReceiverTypeOK
    <3> QED
      BY <1>12, <3>1, <3>2 DEF R!RecvInOrder, R!Seg
  <2> QED
    BY <1>3, <1>10, <1>12, <2>1, <2>2 DEF R!RecvInOrder, R!Seg
<1>13. CASE R!RecvFin
  <2> DEFINE r == [ackNumber |-> 0, sackNumber |-> 0, finack |-> TRUE]
  <2>1. r \in S!Acks /\ agentQ' = Append(agentQ, r)
    BY <1>13 DEF R!RecvFin, S!Acks
  <2>2. R!ReceiverTypeOK'
    BY <1>1, <1>9, <1>13 DEF R!RecvFin, R!ReceiverTypeOK
  <2> QED
    BY <1>8, <2>1, <2>2
<1>14. CASE R!RecvOverBuffer
  BY <1>1, <1>4, <1>10, <1>14 DEF R!RecvOverBuffer, R!receiverVars, R!ReceiverTypeOK
<1>15. CASE R!RecvOutOfOrder
  <2>1. R!ReceiverTypeOK' /\ R!SendSACK(R!Cumulative, g.seq)
    BY <1>1, <1>7, <1>15 DEF R!RecvOutOfOrder, R!ReceiverTypeOK, R!Seg
  <2> QED
    BY <1>3, <1>4, <1>10, <2>1
<1> QED
  BY <1>11, <1>12, <1>13, <1>14, <1>15 DEF Receiver, R!ReceiveDataPacket

LEMMA AgentTypes ==
    ASSUME TypeOK, AgentStep
    PROVE  TypeOK'
<1> DEFINE m == Head(agentQ)
<1>1. /\ agentQ # <<>> /\ agentQ' = Tail(agentQ) /\ UNCHANGED <<sVars, rVars>>
      /\ agentQ \in Seq(S!Packets \cup S!Acks) /\ receiverQ \in Seq(S!Packets)
      /\ senderQ \in Seq(S!Acks) /\ agent \in {"up", "finished", "aborted"}
  BY DEF AgentStep, Forward, ForwardAck, Drop, Corrupt, G!AgentForward, G!AgentForwardAck,
         G!AgentDrop, G!AgentCorrupt, G!GTake, TypeOK, G!AgentTypeOK
<1>2. agentQ' \in Seq(S!Packets \cup S!Acks) /\ m \in S!Packets \cup S!Acks
  BY <1>1
<1>3. S!SenderTypeOK' /\ R!ReceiverTypeOK'
  BY <1>1 DEF TypeOK, sVars, rVars, S!SenderTypeOK, R!ReceiverTypeOK
<1>4. CASE Forward
  <2>1. m \in S!Packets
    BY <1>2, <1>4, Origin DEF Forward, G!AgentForward, G!Msg
  <2> QED
    BY <1>1, <1>2, <1>3, <1>4, <2>1 DEF Forward, G!AgentForward, G!Msg, TypeOK, G!AgentTypeOK
<1>5. CASE ForwardAck
  <2>1. m \in S!Acks
    BY <1>2, <1>5, Origin DEF ForwardAck, G!AgentForwardAck, G!Msg
  <2> QED
    BY <1>1, <1>2, <1>3, <1>5, <2>1 DEF ForwardAck, G!AgentForwardAck, G!Msg, TypeOK, G!AgentTypeOK
<1>6. CASE Drop
  BY <1>1, <1>2, <1>3, <1>6 DEF Drop, G!AgentDrop, TypeOK, G!AgentTypeOK
<1>7. CASE Corrupt
  <2>1. m \in S!Packets
    BY <1>2, <1>7, Origin DEF Corrupt, G!AgentCorrupt, G!Msg, G!IsData
  <2>2. [m EXCEPT !.bad = TRUE] \in S!Packets
    BY <2>1 DEF S!Packets
  <2> QED
    BY <1>1, <1>2, <1>3, <1>7, <2>2 DEF Corrupt, G!AgentCorrupt, G!Msg, TypeOK, G!AgentTypeOK
<1> QED
  BY <1>4, <1>5, <1>6, <1>7 DEF AgentStep

\* The variables of the three programs and the messages have their types.
THEOREM TypeCorrect == Spec => []TypeOK
<1>1. Init => TypeOK
  BY InitTypes
<1>2. TypeOK /\ [Next]_vars => TypeOK'
  <2>1. ASSUME TypeOK, UNCHANGED vars PROVE TypeOK'
    BY <2>1 DEF vars, sVars, rVars, TypeOK, S!SenderTypeOK, R!ReceiverTypeOK, G!AgentTypeOK
  <2> QED
    BY <2>1, SenderTypes, ReceiverTypes, AgentTypes DEF Next
<1> QED
  BY <1>1, <1>2, PTL DEF Spec
------------------------------------------------------------------------------
\* What the receiver does with a segment.

\* What has been said of the buffer, of the buffer after a step.
LEMMA HeldNext ==
    /\ TypeOK' /\ Buffered' => Gapless'
    /\ TypeOK' /\ Buffered' /\ ~endflag' =>
          /\ Arrived' = (1..Start') \cup {Start' + i : i \in {j \in 1..BufSize : buffer'[j] # 0}}
          /\ Top' = Start' + rbase' - 1
    /\ TypeOK' /\ Buffered' /\ endflag' => Arrived' = 1..Total /\ Top' = Total
<1>1. /\ TypeOK /\ Buffered => Gapless
      /\ TypeOK /\ Buffered /\ ~endflag =>
          /\ Arrived = (1..Start) \cup {Start + i : i \in {j \in 1..BufSize : buffer[j] # 0}}
          /\ Top = Start + rbase - 1
      /\ TypeOK /\ Buffered /\ endflag => Arrived = 1..Total /\ Top = Total
  BY NothingMissing, ArrivedIs, ArrivedAtEnd
<1>2. ( /\ TypeOK /\ Buffered => Gapless
        /\ TypeOK /\ Buffered /\ ~endflag =>
          /\ Arrived = (1..Start) \cup {Start + i : i \in {j \in 1..BufSize : buffer[j] # 0}}
          /\ Top = Start + rbase - 1
        /\ TypeOK /\ Buffered /\ endflag => Arrived = 1..Total /\ Top = Total )'
  BY <1>1, PTL
<1> QED
  BY <1>2

\* The final segment finds all others there.
LEMMA FinLast ==
    ASSUME TypeOK, Buffered, Ending, Known, spc # "sending" \/ \E g \in Segments : g.fin
    PROVE  Marked = 1..Total /\ Arrived = 1..Total /\ Top = Total
<1>1. S!AllSent /\ Gapless /\ Total \in Nat
  BY NothingMissing, StartType DEF Ending
<1>2. Marked = 1..Total
  BY <1>1 DEF S!AllSent, Marked
<1>3. Arrived = 1..Total
  BY <1>1, <1>2 DEF Known, Gapless
<1>4. Top = Total
  <2>1. Top \in Nat /\ 1..Top \subseteq 1..Total /\ Top + 1 \notin 1..Total
    BY <1>1, <1>3 DEF Gapless
  <2>2. Top # 0 => Top \in 1..Top
    BY <2>1
  <2> QED
    BY <1>1, <2>1, <2>2
<1> QED
  BY <1>2, <1>3, <1>4

LEMMA InOrderData ==
    ASSUME TypeOK, TypeOK', Buffered, Ending, R!RecvInOrder, Head(receiverQ) \in Segments
    PROVE  /\ Buffered' /\ ~endflag /\ ~endflag'
           /\ Head(receiverQ).seq = Top + 1 /\ Top + 1 \in 1..Total
           /\ Arrived' = Arrived \cup {Top + 1}
           /\ R!SendSACK(Top', Top + 1)
<1> DEFINE g == Head(receiverQ)
           u == R!UpdateBase
<1>1. /\ ~endflag /\ ~endflag' /\ ~g.fin /\ g.seq = R!Cumulative + 1
      /\ R!SendSACK(Start + u - 1, g.seq)
      /\ IF R!IsBufferFull(R!MarkSlot(g.seq))
         THEN R!Flush(R!MarkSlot(g.seq))
         ELSE /\ buffer' = R!MarkSlot(g.seq) /\ rbase' = u
              /\ flush_count' = flush_count /\ file' = file
  BY DEF R!RecvInOrder, R!Take, R!Seg, R!InOrder, Start
<1>2. /\ Start \in Nat /\ BufSize \in Nat \ {0} /\ Total \in Nat \ {0} /\ flush_count \in Nat
      /\ R!Cumulative = Start + rbase - 1 /\ R!NULL = 0 /\ buffer \in [1..BufSize -> Nat]
  BY StartType DEF TypeOK, R!ReceiverTypeOK
<1>3. /\ file = [i \in 1..Start |-> i] /\ Len(file) = Start /\ Start <= Total
      /\ rbase \in 1..BufSize /\ buffer[rbase] = 0
      /\ \A i \in 1..BufSize : buffer[i] # 0 => buffer[i] = Start + i /\ Start + i <= Total
      /\ \A i \in 1..(rbase - 1) : buffer[i] # 0
  BY <1>1, <1>2 DEF Buffered, Start
<1>4. /\ Arrived = (1..Start) \cup {Start + i : i \in {j \in 1..BufSize : buffer[j] # 0}}
      /\ Top = Start + rbase - 1
  BY <1>1, ArrivedIs
<1>5. g.seq = Start + rbase /\ g.seq = Top + 1 /\ g.seq \in 1..Total
  <2>1. g.seq # Total + 1 /\ g.seq \in 1..(Total + 1)
    BY <1>1, SegmentType DEF Ending
  <2> QED
    BY <1>1, <1>2, <1>3, <1>4, <2>1
<1> DEFINE marked == [buffer EXCEPT ![rbase] = Start + rbase]
<1>6. R!MarkSlot(g.seq) = marked
  BY <1>3, <1>5, SlotIs DEF R!MarkSlot
<1>7. \A i \in 1..BufSize :
        /\ marked[i] # 0 <=> i = rbase \/ buffer[i] # 0
        /\ marked[i] # 0 => marked[i] = Start + i /\ Start + i <= Total
  BY <1>2, <1>3, <1>5
<1>8. /\ u \in (rbase + 1)..(BufSize + 1)
      /\ \A i \in (rbase + 1)..(u - 1) : buffer[i] # 0
      /\ u <= BufSize => buffer[u] = 0
  BY <1>2, <1>3, NextBase
<1>17. marked \in [1..BufSize -> Nat]
  BY <1>2, <1>3
<1> HIDE DEF marked, u
<1>9. \A i \in 1..(u - 1) : marked[i] # 0
  <2>1. \A i \in 1..(u - 1) : i \in 1..BufSize
    BY <1>2, <1>8
  <2>2. \A i \in 1..(u - 1) : i \in 1..(rbase - 1) \/ i = rbase \/ i \in (rbase + 1)..(u - 1)
    BY <1>2, <1>3, <1>8
  <2> QED
    BY <1>3, <1>7, <1>8, <2>1, <2>2
<1>10. CASE R!IsBufferFull(marked)
  <2>1. u = BufSize + 1
    <3>1. \A i \in 1..BufSize : marked[i] # 0
      BY <1>2, <1>10 DEF R!IsBufferFull
    <3>2. ~(u <= BufSize)
      <4>1. u <= BufSize => u \in 1..BufSize /\ u # rbase
        BY <1>2, <1>3, <1>8
      <4> QED
        BY <1>7, <1>8, <3>1, <4>1
    <3> QED
      BY <1>2, <1>8, <3>2
  <2>2. /\ file' = file \o R!Filled(marked) /\ buffer' = [i \in 1..BufSize |-> 0]
        /\ flush_count' = flush_count + 1 /\ rbase' = 1
    BY <1>1, <1>2, <1>6, <1>10 DEF R!Flush
  <2>3. file' = [i \in 1..(Start + BufSize) |-> i]
    <3>1. \A i \in 1..BufSize : marked[i] = Start + i
      BY <1>2, <1>7, <1>10 DEF R!IsBufferFull
    <3>2. \A i \in (BufSize + 1)..BufSize : marked[i] = 0
      BY <1>2
    <3>3. BufSize \in 0..BufSize
      BY <1>2
    <3> QED
      BY <1>1, <2>2, <3>1, <3>2, <3>3, Delivers
  <2>4. Start' = Start + BufSize
    <3>1. Start' = BufSize * (flush_count + 1)
      BY <2>2 DEF Start
    <3> QED
      BY <1>2, <3>1 DEF Start
  <2>5. Start + BufSize <= Total
    BY <1>2, <1>7, <1>10 DEF R!IsBufferFull
  <2>6. Buffered'
    <3>1. Len(file') = Start' /\ file' = [i \in 1..Len(file') |-> i]
      BY <1>2, <2>3, <2>4
    <3>2. Len(file') = BufSize * flush_count' /\ Len(file') <= Total
      BY <2>4, <2>5, <3>1 DEF Start
    <3> QED
      BY <1>1, <1>2, <2>2, <3>1, <3>2 DEF Buffered, R!NULL
  <2>7. /\ Arrived' = (1..Start') \cup {Start' + i : i \in {j \in 1..BufSize : buffer'[j] # 0}}
        /\ Top' = Start' + rbase' - 1
    BY <1>1, <2>6, HeldNext
  <2>8. Arrived' = 1..(Start + BufSize) /\ Top' = Start + BufSize
    <3>1. \A j \in 1..BufSize : buffer'[j] = 0
      BY <2>2
    <3>2. {Start' + i : i \in {j \in 1..BufSize : buffer'[j] # 0}} = {}
      BY <3>1
    <3> QED
      BY <1>2, <2>2, <2>4, <2>7, <3>2
  <2>9. Arrived \cup {Start + rbase} = 1..(Start + BufSize)
    <3>1. \A j \in 1..BufSize : j = rbase \/ buffer[j] # 0
      BY <1>2, <1>7, <1>10 DEF R!IsBufferFull
    <3>2. ASSUME NEW k \in 1..(Start + BufSize) PROVE k \in Arrived \cup {Start + rbase}
      <4>1. CASE k \in 1..Start
        BY <1>4, <4>1
      <4>2. CASE k \notin 1..Start
        <5>1. k - Start \in 1..BufSize /\ k = Start + (k - Start)
          BY <1>2, <4>2
        <5> QED
          BY <1>4, <3>1, <5>1
      <4> QED
        BY <4>1, <4>2
    <3>3. ASSUME NEW k \in Arrived \cup {Start + rbase} PROVE k \in 1..(Start + BufSize)
      <4>1. \A j \in 1..BufSize : Start + j \in 1..(Start + BufSize)
        BY <1>2
      <4>2. 1..Start \subseteq 1..(Start + BufSize)
        BY <1>2
      <4> QED
        BY <1>3, <1>4, <4>1, <4>2
    <3> QED
      BY <3>2, <3>3
  <2> QED
    BY <1>1, <1>2, <1>5, <2>1, <2>6, <2>8, <2>9
<1>11. CASE ~R!IsBufferFull(marked)
  <2>1. /\ buffer' = marked /\ rbase' = u /\ flush_count' = flush_count /\ file' = file
        /\ Start' = Start
    BY <1>1, <1>6, <1>11 DEF Start, u
  <2>2. u \in 1..BufSize
    <3>1. PICK i \in 1..BufSize : marked[i] = 0
      BY <1>2, <1>11 DEF R!IsBufferFull
    <3>2. ~(i \in 1..(u - 1))
      BY <1>9, <3>1
    <3> QED
      BY <1>2, <1>3, <1>8, <3>1, <3>2
  <2>3. marked[u] = 0
    BY <1>2, <1>3, <1>7, <1>8, <2>2
  <2>4. Buffered'
    <3>1. file' = [i \in 1..Len(file') |-> i] /\ Len(file') = BufSize * flush_count'
          /\ Len(file') <= Total
      BY <1>3, <2>1 DEF Start
    <3>2. \A i \in 1..BufSize : buffer'[i] # 0 =>
             buffer'[i] = BufSize * flush_count' + i /\ buffer'[i] <= Total
      BY <1>7, <2>1 DEF Start
    <3>3. \A i \in 1..(rbase' - 1) : buffer'[i] # 0
      BY <1>9, <2>1
    <3> QED
      BY <1>1, <1>2, <2>1, <2>2, <2>3, <3>1, <3>2, <3>3 DEF Buffered, R!NULL
  <2>5. /\ Arrived' = (1..Start) \cup {Start + i : i \in {j \in 1..BufSize : marked[j] # 0}}
        /\ Top' = Start + u - 1
    BY <1>1, <2>1, <2>4, HeldNext
  <2>6. Arrived' = Arrived \cup {Start + rbase}
    <3>1. {j \in 1..BufSize : marked[j] # 0} = {j \in 1..BufSize : buffer[j] # 0} \cup {rbase}
      BY <1>3, <1>7
    <3> QED
      BY <1>4, <2>5, <3>1
  <2> QED
    BY <1>1, <1>5, <2>4, <2>5, <2>6 DEF u
<1> QED
  BY <1>10, <1>11

LEMMA OutOfOrderData ==
    ASSUME TypeOK, TypeOK', Buffered, Ending, Known, InWindow,
           R!RecvOutOfOrder, Head(receiverQ) \in Segments
    PROVE  /\ Buffered' /\ ~endflag /\ ~endflag'
           /\ Head(receiverQ).seq \in OnWire /\ Head(receiverQ).seq # Top + 1
           /\ Arrived' = Arrived \cup {Head(receiverQ).seq} /\ Top' = Top
           /\ R!SendSACK(Top, Head(receiverQ).seq)
<1> DEFINE g == Head(receiverQ)
<1>1. /\ ~endflag /\ endflag' = endflag /\ g.seq # R!Cumulative + 1
      /\ ~(g.seq > BufSize * (flush_count + 1))
      /\ buffer' = R!MarkSlot(g.seq) /\ R!SendSACK(R!Cumulative, g.seq)
      /\ rbase' = rbase /\ flush_count' = flush_count /\ file' = file
  BY DEF R!RecvOutOfOrder, R!Take, R!Seg, R!InOrder, R!IsOverBuffer
<1>2. /\ Start \in Nat /\ BufSize \in Nat \ {0} /\ Total \in Nat \ {0} /\ flush_count \in Nat
      /\ R!Cumulative = Start + rbase - 1 /\ R!NULL = 0 /\ buffer \in [1..BufSize -> Nat]
  BY StartType DEF TypeOK, R!ReceiverTypeOK
<1>3. /\ file = [i \in 1..Start |-> i] /\ Len(file) = Start /\ Start <= Total
      /\ rbase \in 1..BufSize /\ buffer[rbase] = 0
      /\ \A i \in 1..BufSize : buffer[i] # 0 => buffer[i] = Start + i /\ Start + i <= Total
      /\ \A i \in 1..(rbase - 1) : buffer[i] # 0
  BY <1>1, <1>2 DEF Buffered, Start
<1>4. /\ Arrived = (1..Start) \cup {Start + i : i \in {j \in 1..BufSize : buffer[j] # 0}}
      /\ Top = Start + rbase - 1
  BY <1>1, ArrivedIs
\* It is a segment the receiver does not have: of the window.
<1>5. g.seq \in 1..Total /\ g.seq \in OnWire
  <2>1. g.seq \in 1..(Total + 1) /\ (g.fin <=> g.seq = Total + 1)
    BY SegmentType DEF Ending
  <2>2. ~g.fin
    <3>1. g.fin => Top = Total
      BY FinLast
    <3> QED
      BY <1>1, <1>2, <1>4, <2>1, <3>1
  <2> QED
    BY <1>2, <2>1, <2>2 DEF OnWire
<1>6. g.seq \notin Arrived
  BY <1>5 DEF InWindow
<1>7. g.seq > Start /\ g.seq <= Start + BufSize
  <2>1. BufSize * (flush_count + 1) = Start + BufSize
    BY <1>2 DEF Start
  <2> QED
    BY <1>1, <1>2, <1>4, <1>5, <1>6, <2>1
<1> DEFINE s == g.seq - Start
<1>8. s \in 1..BufSize /\ g.seq = Start + s /\ s # rbase
  <2>1. g.seq \in Nat /\ rbase \in Nat /\ g.seq # Start + rbase
    BY <1>1, <1>2, <1>3, <1>5
  <2> DEFINE x == g.seq
  <2>2. x \in Nat /\ x # Start + rbase /\ x > Start /\ x <= Start + BufSize
    BY <1>7, <2>1
  <2> HIDE DEF x
  <2>3. x - Start \in 1..BufSize /\ x = Start + (x - Start) /\ x - Start # rbase
    BY <1>2, <2>1, <2>2
  <2> QED
    BY <2>3 DEF x
<1> DEFINE marked == [buffer EXCEPT ![s] = Start + s]
<1>9. buffer' = marked
  <2>1. R!Slot(g.seq) = s
    BY <1>8, SlotIs
  <2> QED
    BY <1>1, <1>8, <2>1 DEF R!MarkSlot
<1>10. Start + s <= Total /\ Start + s # 0
  BY <1>2, <1>5, <1>8
<1> HIDE DEF s
<1>11. \A i \in 1..BufSize :
        /\ marked[i] # 0 <=> i = s \/ buffer[i] # 0
        /\ marked[i] # 0 => marked[i] = Start + i /\ Start + i <= Total
  BY <1>2, <1>3, <1>8, <1>10
<1> HIDE DEF marked
<1>12. Buffered'
  <2>1. file' = [i \in 1..Len(file') |-> i] /\ Len(file') = BufSize * flush_count'
        /\ Len(file') <= Total
    BY <1>1, <1>3 DEF Start
  <2>2. \A i \in 1..BufSize : buffer'[i] # 0 =>
           buffer'[i] = BufSize * flush_count' + i /\ buffer'[i] <= Total
    BY <1>1, <1>9, <1>11 DEF Start
  <2>3. \A i \in 1..(rbase' - 1) : buffer'[i] # 0
    <3>1. \A i \in 1..(rbase - 1) : i \in 1..BufSize
      BY <1>2, <1>3
    <3> QED
      BY <1>1, <1>3, <1>9, <1>11, <3>1
  <2>4. buffer'[rbase'] = 0
    BY <1>1, <1>3, <1>8, <1>9, <1>11
  <2> QED
    BY <1>1, <1>2, <1>3, <2>1, <2>2, <2>3, <2>4 DEF Buffered, R!NULL
<1>13. /\ Arrived' = (1..Start) \cup {Start + i : i \in {j \in 1..BufSize : marked[j] # 0}}
       /\ Top' = Start + rbase - 1
  <2>1. Start' = Start
    BY <1>1 DEF Start
  <2> QED
    BY <1>1, <1>9, <1>12, <2>1, HeldNext
<1>14. Arrived' = Arrived \cup {Start + s}
  <2>1. {j \in 1..BufSize : marked[j] # 0} = {j \in 1..BufSize : buffer[j] # 0} \cup {s}
    BY <1>8, <1>11
  <2> QED
    BY <1>4, <1>13, <2>1
<1> QED
  BY <1>1, <1>2, <1>4, <1>5, <1>8, <1>12, <1>13, <1>14

LEMMA FinData ==
    ASSUME TypeOK, TypeOK', Buffered, Ending, Known, R!RecvFin, Head(receiverQ) \in Segments
    PROVE  Buffered' /\ ~endflag /\ endflag' /\ Arrived' = Arrived /\ Top' = Top
<1> DEFINE g == Head(receiverQ)
<1>1. /\ ~endflag /\ endflag' /\ g.fin /\ g.seq = R!Cumulative + 1
      /\ file' = file \o R!Filled(buffer) /\ buffer' = [i \in 1..BufSize |-> 0] /\ rbase' = 1
  BY DEF R!RecvFin, R!Take, R!Seg, R!InOrder, R!Flush, R!NULL
<1>2. /\ Start \in Nat /\ BufSize \in Nat \ {0} /\ Total \in Nat \ {0}
      /\ rbase \in 1..(BufSize + 1) /\ R!NULL = 0
  BY StartType
<1>3. /\ rbase \in 1..BufSize /\ buffer[rbase] = 0
      /\ \A i \in 1..BufSize : buffer[i] # 0 => buffer[i] = Start + i /\ Start + i <= Total
      /\ \A i \in 1..(rbase - 1) : buffer[i] # 0
  BY <1>1, <1>2 DEF Buffered, Start
<1>4. Arrived = 1..Total /\ Top = Total
  BY <1>1, FinLast
<1>5. Total = Start + (rbase - 1)
  BY <1>1, <1>2, <1>4, ArrivedIs
<1> DEFINE m == rbase - 1
<1>6. m \in 0..BufSize /\ \A i \in 1..m : buffer[i] = Start + i
  <2>1. \A i \in 1..m : i \in 1..BufSize
    BY <1>2, <1>3
  <2> QED
    BY <1>2, <1>3, <2>1
<1>7. \A i \in (m + 1)..BufSize : buffer[i] = 0
  <2>1. \A i \in (m + 1)..BufSize : i \in 1..BufSize /\ (i = rbase \/ ~(Start + i <= Total))
    BY <1>2, <1>3, <1>5
  <2> QED
    BY <1>3, <2>1
<1> HIDE DEF m
<1>8. file' = [i \in 1..(Start + m) |-> i]
  BY <1>1, <1>6, <1>7, Delivers
<1>9. file' = [i \in 1..Total |-> i] /\ Len(file') = Total
  BY <1>2, <1>5, <1>8 DEF m
<1>10. Buffered'
  BY <1>1, <1>2, <1>9 DEF Buffered, R!NULL
<1> QED
  BY <1>1, <1>4, <1>10, HeldNext

\* Nothing is kept of a corrupted segment or of one above the window.
LEMMA OtherData ==
    ASSUME TypeOK, Buffered, R!RecvCorrupt \/ R!RecvOverBuffer
    PROVE  /\ Buffered' /\ ~endflag /\ ~endflag' /\ Arrived' = Arrived /\ Top' = Top
           /\ R!SendSACK(Top, Top)
<1>1. /\ ~endflag /\ UNCHANGED R!receiverVars
      /\ R!SendSACK(R!Cumulative, R!Cumulative)
  BY DEF R!RecvCorrupt, R!RecvOverBuffer, R!Take
<1>2. UNCHANGED <<buffer, rbase, flush_count, file, endflag>>
  BY <1>1 DEF R!receiverVars
<1>3. Top = R!Cumulative
  BY <1>1 DEF Top
<1>4. Buffered' /\ Arrived' = Arrived /\ Top' = Top
  BY <1>2 DEF Buffered, Arrived, Held, Top, R!Cumulative
<1> QED
  BY <1>1, <1>2, <1>3, <1>4

------------------------------------------------------------------------------
\* The receiver takes a segment and answers it.

\* Segment g is taken off the way, answer r is the last one.
Gone(g) ==
    /\ g \in Segments /\ Segments = {g} \cup Segments'
    /\ SegmentOrder = SegmentOrder' \cup ({g} \X Segments')

Last(r) ==
    /\ r \in S!Acks /\ Answers' = Answers \cup {r}
    /\ AnswerOrder' = AnswerOrder \cup (Answers \X {r})

\* r says up to where nothing is missing, and of g only if it has been kept.
Answering(g, r) ==
    /\ r.ackNumber = Top'
    /\ \/ /\ r.sackNumber = Top /\ Arrived' = Arrived
          /\ g.seq \in OnWire \/ Top = Total
       \/ r.sackNumber = g.seq /\ g.seq \in OnWire /\ Arrived' = Arrived \cup {g.seq}

\* The receiver's numbers before and after.
LEMMA TopMoves ==
    ASSUME TypeOK, Gapless, Gapless', Known, InWindow, NEW g, NEW r, Answering(g, r), r \in S!Acks
    PROVE  /\ Top \in Nat /\ Top' \in Nat /\ Top <= Top' /\ Marked \subseteq Arrived
           /\ Arrived \subseteq Arrived' /\ Top + 1 \notin Arrived /\ Top' + 1 \notin Arrived'
           /\ Top \in Arrived \cup {0} /\ Top' \in Arrived' \cup {0}
           /\ \A a \in Answers : a.sackNumber \in Arrived \cup {0}
           /\ 0 \notin Arrived' /\ \A k \in Arrived' : k \in Nat
           /\ g.seq \in OnWire => g.seq \notin Arrived /\ g.seq \in Nat /\ g.seq > Top
           /\ Arrived' = Arrived => Top' = Top
           /\ Top' # Top => /\ r.sackNumber = g.seq /\ g.seq = Top + 1 /\ g.seq \in OnWire
                            /\ Arrived' = Arrived \cup {g.seq}
           /\ sbase \in Nat /\ sbase - 1 <= Top
<1>1. /\ Top \in Nat /\ Top' \in Nat /\ Arrived \subseteq 1..Total /\ Arrived' \subseteq 1..Total
      /\ 1..Top \subseteq Arrived /\ 1..Top' \subseteq Arrived'
      /\ Top + 1 \notin Arrived /\ Top' + 1 \notin Arrived'
  BY DEF Gapless
<1>2. /\ Marked \subseteq Arrived /\ \A a \in Answers : a.sackNumber \in Arrived \cup {0}
      /\ sbase - 1 <= Top /\ sbase \in Nat
  BY FreeType DEF Known
<1>3. Arrived' = Arrived \/ (g.seq \in OnWire /\ r.sackNumber = g.seq /\ Arrived' = Arrived \cup {g.seq})
  BY DEF Answering
<1>4. g.seq \in OnWire => g.seq \notin Arrived /\ g.seq \in Nat /\ g.seq > Top
  <2>1. g.seq \in OnWire => g.seq \in 1..Total /\ g.seq \notin Arrived
    BY FreeType, TotalAssumption DEF InWindow
  <2> QED
    BY <1>1, <2>1, TotalAssumption
<1>5. Top <= Top'
  <2>1. CASE Top' < Top
    <3> DEFINE p == Top
               q == Top'
    <3>2. p \in Nat /\ q \in Nat /\ q < p
      BY <1>1, <2>1
    <3> HIDE DEF p, q
    <3>3. q + 1 \in 1..p
      BY <3>2
    <3>1. Top' + 1 \in 1..Top
      BY <3>3 DEF p, q
    <3> QED
      BY <1>1, <1>3, <3>1
  <2> QED
    BY <1>1, <2>1
<1>6. Top' # Top => Top + 1 \in Arrived'
  BY <1>1, <1>5
<1>7. Top \in Arrived \cup {0} /\ Top' \in Arrived' \cup {0}
  <2>1. /\ Top = 0 \/ Top \in 1..Top
        /\ Top' = 0 \/ Top' \in 1..Top'
    BY <1>1
  <2> QED
    BY <1>1, <2>1
<1>8. 0 \notin Arrived' /\ \A k \in Arrived' : k \in Nat
  BY <1>1, TotalAssumption
<1> QED
  BY <1>1, <1>2, <1>3, <1>4, <1>5, <1>6, <1>7, <1>8

LEMMA AnswerGiven ==
    ASSUME TypeOK, Gapless, Gapless', Answered, InWindow, NEW g, NEW r, Answering(g, r), Last(r),
           Marked' = Marked, sbase' = sbase
    PROVE  Answered'
<1>1. /\ Top \in Nat /\ Top' \in Nat /\ Top <= Top' /\ Marked \subseteq Arrived
      /\ Arrived \subseteq Arrived' /\ Top' + 1 \notin Arrived'
      /\ Top \in Arrived \cup {0} /\ Top' \in Arrived' \cup {0}
      /\ \A a \in Answers : a.sackNumber \in Arrived \cup {0}
      /\ 0 \notin Arrived' /\ \A k \in Arrived' : k \in Nat
      /\ g.seq \in OnWire => g.seq \notin Arrived /\ g.seq \in Nat /\ g.seq > Top
      /\ Arrived' = Arrived => Top' = Top
      /\ Top' # Top => /\ r.sackNumber = g.seq /\ g.seq = Top + 1 /\ g.seq \in OnWire
                       /\ Arrived' = Arrived \cup {g.seq}
      /\ sbase \in Nat /\ sbase - 1 <= Top
  BY TopMoves DEF Answered, Last
<1>2. /\ r.ackNumber = Top' /\ r.sackNumber \in Nat /\ r \in Answers'
      /\ Answers' = Answers \cup {r} /\ AnswerOrder' = AnswerOrder \cup (Answers \X {r})
  BY DEF Answering, Last, S!Acks
<1>3. /\ Arrived = Marked \cup ({a.sackNumber : a \in Answers} \ {0})
      /\ 1..(sbase - 1) \subseteq Marked
      /\ sbase - 1 <= Top /\ sbase \notin Marked
      /\ sbase - 1 = Top \/ \E a \in Answers : a.ackNumber = Top
  BY DEF Answered, Known
<1>4. ASSUME NEW a \in Answers
      PROVE  /\ a.ackNumber \in Nat /\ a.sackNumber \in Nat
             /\ sbase - 1 <= a.ackNumber /\ a.ackNumber <= Top
             /\ a.ackNumber + 1 \notin Marked /\ a.sackNumber # a.ackNumber + 1
             /\ a.sackNumber \in Marked \cup {0} => a.ackNumber = a.sackNumber
  BY AnswerType DEF Answered, AnswerTrue
<1>5. \/ r.sackNumber = Top /\ Arrived' = Arrived
      \/ r.sackNumber = g.seq /\ g.seq \in OnWire /\ Arrived' = Arrived \cup {g.seq}
  BY DEF Answering
<1>6. Known'
  <2>1. Arrived' = Marked \cup ({a.sackNumber : a \in Answers'} \ {0})
    <3>1. {a.sackNumber : a \in Answers'} = {a.sackNumber : a \in Answers} \cup {r.sackNumber}
      BY <1>2
    <3>2. g.seq \in OnWire => g.seq # 0
      BY <1>1
    <3> QED
      BY <1>1, <1>3, <1>5, <3>1, <3>2
  <2> QED
    BY <1>1, <1>2, <1>3, <2>1 DEF Known
<1>7. AnswerTrue'
  <2> SUFFICES ASSUME NEW a \in Answers'
               PROVE  /\ sbase - 1 <= a.ackNumber /\ a.ackNumber <= Top'
                      /\ a.ackNumber + 1 \notin Marked /\ a.sackNumber # a.ackNumber + 1
                      /\ a.sackNumber \in Marked \cup {0} => a.ackNumber = a.sackNumber
    BY DEF AnswerTrue
  <2>1. CASE a \in Answers
    BY <1>1, <1>4, <2>1
  <2>2. CASE a = r
    <3>1. r.sackNumber # Top' + 1
      <4>1. r.sackNumber = Top => r.sackNumber \in Arrived' \cup {0}
        BY <1>1
      <4>2. r.sackNumber \in Arrived' \cup {0}
        BY <1>5, <4>1
      <4> QED
        BY <1>1, <4>2
    <3>2. r.sackNumber \in Marked \cup {0} => r.ackNumber = r.sackNumber
      BY <1>1, <1>2, <1>5
    <3> QED
      BY <1>1, <1>2, <2>2, <3>1, <3>2
  <2> QED
    BY <1>2, <2>1, <2>2
<1>8. AnswersGrow'
  <2> SUFFICES ASSUME NEW x \in AnswerOrder'
               PROVE  /\ x[1].ackNumber <= x[2].ackNumber
                      /\ x[1].sackNumber # x[2].ackNumber + 1
                      /\ \/ x[2].sackNumber > x[1].ackNumber
                         \/ x[2].sackNumber = x[2].ackNumber /\ x[2].ackNumber = x[1].ackNumber
                      /\ x[1].sackNumber = x[2].sackNumber => x[2].ackNumber = x[2].sackNumber
    BY DEF AnswersGrow
  <2>1. CASE x \in AnswerOrder
    BY <2>1 DEF Answered, AnswersGrow
  <2>2. CASE x \in Answers \X {r}
    <3>1. x[1] \in Answers /\ x[2] = r
      BY <2>2
    <3> DEFINE a == x[1]
    <3> HIDE DEF a
    <3>2. /\ a \in Answers /\ x[1] = a /\ a.ackNumber \in Nat /\ a.ackNumber <= Top
          /\ a.sackNumber \in Arrived \cup {0}
      BY <1>1, <1>4, <3>1 DEF a
    <3>3. a.ackNumber <= r.ackNumber
      BY <1>1, <1>2, <3>2
    <3>4. a.sackNumber # r.ackNumber + 1
      BY <1>1, <1>2, <3>2
    <3>5. \/ r.sackNumber > a.ackNumber
          \/ r.sackNumber = r.ackNumber /\ r.ackNumber = a.ackNumber
      BY <1>1, <1>2, <1>5, <3>2
    <3>6. a.sackNumber = r.sackNumber => r.ackNumber = r.sackNumber
      <4>1. CASE r.sackNumber = Top /\ Arrived' = Arrived
        BY <1>1, <1>2, <4>1
      <4>2. CASE r.sackNumber = g.seq /\ g.seq \in OnWire
        <5>1. g.seq # 0 /\ g.seq \notin Arrived
          BY <1>1, <4>2
        <5> QED
          BY <3>2, <4>2, <5>1
      <4> QED
        BY <1>5, <4>1, <4>2
    <3> QED
      BY <3>1, <3>2, <3>3, <3>4, <3>5, <3>6
  <2> QED
    BY <1>2, <2>1, <2>2
<1>9. Raised'
\* Who raised the base has still done so.
  <2>1. ASSUME NEW b \in Answers, Raises(b) PROVE Raises(b)'
    <3>1. b.ackNumber <= Top /\ r.ackNumber >= b.ackNumber
      BY <1>1, <1>2, <1>4
    <3>2. \A x \in Answers' : x.sackNumber = b.sackNumber => x.ackNumber >= b.ackNumber
      BY <1>2, <2>1, <3>1 DEF Raises
    <3> QED
      BY <2>1, <3>2 DEF Raises
  <2> SUFFICES ASSUME NEW a \in Answers', ~(a.ackNumber < sbase)
               PROVE  \E b \in Answers' : b.ackNumber = a.ackNumber /\ Raises(b)'
    BY DEF Raised
  <2>2. ASSUME NEW c \in Answers, ~(c.ackNumber < sbase)
        PROVE  \E b \in Answers' : b.ackNumber = c.ackNumber /\ Raises(b)'
    <3>1. PICK b \in Answers : b.ackNumber = c.ackNumber /\ Raises(b)
      BY <2>2 DEF Answered, Raised
    <3> QED
      BY <1>2, <2>1, <3>1
  <2>3. CASE a \in Answers
    BY <2>2, <2>3
  <2>4. CASE a = r /\ Top' = Top
    <3>1. sbase - 1 # Top
      BY <1>1, <1>2, <2>4
    <3>2. PICK c \in Answers : c.ackNumber = Top
      BY <1>3, <3>1
    <3> QED
      BY <1>2, <2>2, <2>4, <3>2
  <2>5. CASE a = r /\ Top' # Top
    <3>1. r.sackNumber = Top + 1 /\ Top + 1 \notin Arrived
      BY <1>1, <2>5
    <3>2. r.sackNumber <= r.ackNumber /\ r.sackNumber \notin Marked \cup {0}
      BY <1>1, <1>2, <2>5, <3>1
    <3>3. \A x \in Answers' : x.sackNumber = r.sackNumber => x.ackNumber >= r.ackNumber
      <4>1. \A x \in Answers : x.sackNumber # r.sackNumber
        BY <1>1, <3>1
      <4> QED
        BY <1>1, <1>2, <4>1
    <3>4. Raises(r)'
      BY <3>2, <3>3 DEF Raises
    <3> QED
      BY <1>2, <2>5, <3>4
  <2> QED
    BY <1>2, <2>3, <2>4, <2>5
<1>10. MarkedBefore'
  <2> SUFFICES ASSUME NEW a \in Answers', a.ackNumber # a.sackNumber,
                      a.ackNumber \notin Marked \cup {0}
               PROVE  \E b \in Answers' : b.sackNumber = a.ackNumber /\ <<b, a>> \in AnswerOrder'
    BY DEF MarkedBefore
  <2>1. CASE a \in Answers
    <3>1. PICK b \in Answers : b.sackNumber = a.ackNumber /\ <<b, a>> \in AnswerOrder
      BY <2>1 DEF Answered, MarkedBefore
    <3> QED
      BY <1>2, <3>1
  <2>2. CASE a = r
    <3>1. Top' \in Arrived
      BY <1>1, <1>2, <1>5, <2>2
    <3>2. PICK b \in Answers : b.sackNumber = Top'
      BY <1>2, <1>3, <2>2, <3>1
    <3>3. <<b, r>> \in Answers \X {r}
      OBVIOUS
    <3> QED
      BY <1>2, <2>2, <3>2, <3>3
  <2> QED
    BY <1>2, <2>1, <2>2
<1> QED
  BY <1>6, <1>7, <1>8, <1>9, <1>10 DEF Answered

\* The order of a segment and what comes after it.
LEMMA GoneOrder ==
    ASSUME TypeOK, InSequence, NEW g, Gone(g)
    PROVE  /\ OnWire' \subseteq OnWire /\ WireOrder' \subseteq WireOrder
           /\ \A k \in OnWire' : k # g.seq /\ (g.seq < k \/ Retransmitted(k))
<1>1. OnWire' \subseteq OnWire /\ WireOrder' \subseteq WireOrder
  BY DEF Gone, OnWire, WireOrder
<1>2. ASSUME NEW k \in OnWire' PROVE k # g.seq /\ (g.seq < k \/ Retransmitted(k))
  <2>1. PICK m \in Segments' : k = m.seq
    BY DEF OnWire
  <2>2. <<g, m>> \in SegmentOrder
    BY <2>1 DEF Gone
  <2>3. <<g.seq, m.seq>> \in WireOrder
    BY <2>2 DEF WireOrder
  <2>4. g.seq < k \/ (Retransmitted(k) /\ g.seq # k)
    BY <2>1, <2>3 DEF InSequence
  <2>5. g.seq \in Nat
    BY SegmentType, TotalAssumption DEF Gone
  <2> QED
    BY <2>4, <2>5
<1> QED
  BY <1>1, <1>2

LEMMA AnswerSent ==
    ASSUME TypeOK, Gapless, Gapless', Answered, Sent, NEW g, NEW r, Answering(g, r), Last(r), Gone(g),
           Marked' = Marked, Window' = Window, sbase' = sbase, dup_ack' = dup_ack
    PROVE  Sent'
<1>1. /\ Top \in Nat /\ Top' \in Nat /\ Top <= Top' /\ Marked \subseteq Arrived
      /\ Arrived \subseteq Arrived' /\ Top + 1 \notin Arrived /\ Top' + 1 \notin Arrived'
      /\ g.seq \in OnWire => g.seq \notin Arrived /\ g.seq \in Nat /\ g.seq > Top
      /\ Top' # Top => g.seq \in OnWire /\ Arrived' = Arrived \cup {g.seq}
      /\ sbase \in Nat /\ sbase - 1 <= Top
  BY TopMoves DEF Answered, Last, Sent
<1>2. /\ r.ackNumber = Top' /\ Answers' = Answers \cup {r}
      /\ AnswerOrder' = AnswerOrder \cup (Answers \X {r})
  BY DEF Answering, Last
<1>3. /\ OnWire' \subseteq OnWire /\ WireOrder' \subseteq WireOrder
      /\ \A k \in OnWire' : k # g.seq /\ (g.seq < k \/ Retransmitted(k))
  BY GoneOrder DEF Sent
<1>4. \/ Arrived' = Arrived /\ (g.seq \in OnWire \/ Top = Total)
      \/ g.seq \in OnWire /\ Arrived' = Arrived \cup {g.seq}
  BY DEF Answering
<1>5. /\ OnWire \cap Arrived = {} /\ OnWire \subseteq Window /\ Arrived \ Marked \subseteq Window
      /\ Window \subseteq Free /\ Free = (1..Total) \ Marked /\ Total \in Nat
  BY FreeType, TotalAssumption DEF Sent, InWindow
<1>6. InWindow'
  BY <1>3, <1>4, <1>5 DEF InWindow
<1>7. InSequence'
  BY <1>3 DEF Sent, InSequence, Retransmitted
\* Only for the next one can the receiver answer a second time now.
<1>8. ASSUME NEW c, Duplicate(c)', ~Duplicate(c)
      PROVE  c = Top /\ Top' = Top
  <2>1. ASSUME NEW a \in Answers, a.ackNumber = c, r.ackNumber = c PROVE c = Top /\ Top' = Top
    <3>1. a.ackNumber \in Nat /\ a.ackNumber <= Top
      BY AnswerType DEF Answered, AnswerTrue
    <3> QED
      BY <1>1, <1>2, <2>1, <3>1
  <2>2. CASE \E x \in AnswerOrder' : x[1].ackNumber = c /\ x[2].ackNumber = c
    <3>1. PICK x \in AnswerOrder' : x[1].ackNumber = c /\ x[2].ackNumber = c
      BY <2>2
    <3>2. x \notin AnswerOrder
      BY <1>8, <3>1 DEF Duplicate
    <3>3. x[1] \in Answers /\ x[2] = r
      BY <1>2, <3>2
    <3> QED
      BY <2>1, <3>1, <3>3
  <2>3. CASE sbase = c + 1 /\ (dup_ack > 0 \/ \E a \in Answers' : a.ackNumber = c)
    <3>1. r.ackNumber = c
      BY <1>2, <1>8, <2>3 DEF Duplicate
    <3>2. c \in Nat /\ c = Top'
      BY <1>1, <1>2, <3>1
    <3> DEFINE p == Top
               q == Top'
    <3>3. p \in Nat /\ q \in Nat /\ p <= q /\ sbase \in Nat /\ sbase - 1 <= p
          /\ sbase = c + 1 /\ c = q
      BY <1>1, <2>3, <3>2
    <3> HIDE DEF p, q
    <3>4. c = p /\ q = p
      BY <3>3
    <3> QED
      BY <3>4 DEF p, q
  <2> QED
    BY <1>8, <2>2, <2>3 DEF Duplicate
<1>9. LostBefore'
  <2> SUFFICES ASSUME NEW k \in OnWire' \cup Arrived', Duplicate(k - 1)', ~Retransmitted(k)
               PROVE  FALSE
    BY DEF LostBefore, Retransmitted
  <2>1. k \in OnWire \cup Arrived
    BY <1>3, <1>4
  <2>2. ~Duplicate(k - 1)
    BY <2>1 DEF Sent, LostBefore
  <2>3. k - 1 = Top /\ Top' = Top
    BY <1>8, <2>2
  <2>4. k \in Nat
    BY <1>5, <2>1, FreeType DEF Gapless
  <2>5. k = Top + 1
    BY <1>1, <2>3, <2>4
  <2>6. k \in OnWire' /\ g.seq < k
    BY <1>1, <1>3, <2>3, <2>5
  <2>7. g.seq \in OnWire
    BY <1>1, <1>3, <1>4, <1>5, <2>5, <2>6
  <2> QED
    BY <1>1, <2>5, <2>6, <2>7
<1>10. SentBefore'
  <2> SUFFICES ASSUME NEW c \in 0..(Total - 1), Duplicate(c)'
               PROVE  c + 1 \in Marked \cup Window
    BY DEF SentBefore
  <2>1. CASE Duplicate(c)
    BY <2>1 DEF Sent, SentBefore
  <2>2. CASE ~Duplicate(c)
    <3>1. c = Top /\ Top' = Top /\ Top # Total
      BY <1>5, <1>8, <2>2
    <3>2. g.seq \in Window /\ g.seq \in Nat /\ g.seq > Top
      BY <1>1, <1>4, <1>5, <3>1
    <3>3. Top + 1 \in Free /\ Top + 1 <= g.seq
      BY <1>1, <1>5, <3>1, <3>2
    <3>4. Top + 1 \in Window
      BY <3>2, <3>3, WindowDown
    <3> QED
      BY <3>1, <3>4
  <2> QED
    BY <2>1, <2>2
<1> QED
  BY <1>6, <1>7, <1>9, <1>10 DEF Sent

\* Nothing that the answers speak of changes.
LEMMA AnsweredSame ==
    ASSUME Answered, Answers' = Answers, AnswerOrder' = AnswerOrder, Marked' = Marked,
           sbase' = sbase, Arrived' = Arrived, Top' = Top
    PROVE  Answered'
<1>1. Known' /\ AnswerTrue'
  BY DEF Answered, Known, AnswerTrue
<1>2. AnswersGrow' /\ MarkedBefore'
  BY DEF Answered, AnswersGrow, MarkedBefore
<1>3. Raised'
  BY DEF Answered, Raised, Raises
<1> QED
  BY <1>1, <1>2, <1>3 DEF Answered

\* A reply at the end counts as an answer unless it is the finack.
LEMMA LastReply ==
    ASSUME NEW r, Replies' = Replies \cup {r}, ReplyOrder' = ReplyOrder \cup (Replies \X {r})
    PROVE  /\ ~r.finack => /\ Answers' = Answers \cup {r}
                           /\ AnswerOrder' = AnswerOrder \cup (Answers \X {r})
           /\ r.finack => Answers' = Answers /\ AnswerOrder' = AnswerOrder
<1>1. /\ Answers' = {a \in Replies \cup {r} : ~a.finack}
      /\ AnswerOrder' = {x \in ReplyOrder \cup (Replies \X {r}) : ~x[1].finack /\ ~x[2].finack}
  BY DEF Answers, AnswerOrder
<1>2. CASE ~r.finack
  <2>1. Answers' = Answers \cup {r}
    BY <1>1, <1>2 DEF Answers
  <2>2. {x \in Replies \X {r} : ~x[1].finack /\ ~x[2].finack} = Answers \X {r}
    BY <1>2 DEF Answers
  <2> QED
    BY <1>1, <1>2, <2>1, <2>2 DEF AnswerOrder
<1>3. CASE r.finack
  <2>1. Answers' = Answers
    BY <1>1, <1>3 DEF Answers
  <2>2. {x \in Replies \X {r} : ~x[1].finack /\ ~x[2].finack} = {}
    BY <1>3
  <2> QED
    BY <1>1, <1>3, <2>1, <2>2 DEF AnswerOrder
<1> QED
  BY <1>2, <1>3

LEMMA ReceiverStep ==
    ASSUME TypeOK, TypeOK', Buffered, Ending, Answered, Sent, Receiver
    PROVE  Buffered' /\ Ending' /\ Answered' /\ Sent'
<1> DEFINE g == Head(receiverQ)
<1>1. /\ UNCHANGED <<sVars, agent, senderQ>> /\ receiverQ # <<>> /\ receiverQ' = Tail(receiverQ)
      /\ ~endflag /\ R!ReceiveDataPacket
  BY DEF Receiver, R!ReceiveDataPacket, R!RecvCorrupt, R!RecvInOrder, R!RecvFin,
         R!RecvOverBuffer, R!RecvOutOfOrder, R!Take
<1>2. /\ spc' = spc /\ sbase' = sbase /\ acked' = acked /\ cwnd' = cwnd /\ dup_ack' = dup_ack
      /\ agent' = agent /\ senderQ' = senderQ
  BY <1>1 DEF sVars
<1>3. Marked' = Marked /\ Window' = Window /\ (S!AllSent)' = S!AllSent
  BY <1>2 DEF Marked, Window, Free, S!AllSent
<1>4. Known /\ InWindow /\ Gapless
  BY NothingMissing DEF Answered, Sent
<1>5. \E r \in S!Acks : agentQ' = Append(agentQ, r)
  <2>1. Start \in Nat /\ R!Cumulative \in Nat /\ R!UpdateBase \in Nat \ {0}
    BY NextBase, StartType
  <2>2. g.seq \in Nat
    <3>1. g \in S!Packets
      BY <1>1 DEF TypeOK
    <3> QED
      BY <3>1, TotalAssumption DEF S!Packets
  <2>3. ASSUME NEW ack \in Nat, NEW sack \in Nat, R!SendSACK(ack, sack)
        PROVE  \E r \in S!Acks : agentQ' = Append(agentQ, r)
    <3>1. [ackNumber |-> ack, sackNumber |-> sack, finack |-> FALSE] \in S!Acks
      BY DEF S!Acks
    <3> QED
      BY <2>3, <3>1 DEF R!SendSACK
  <2>4. CASE R!RecvFin
    <3>1. [ackNumber |-> 0, sackNumber |-> 0, finack |-> TRUE] \in S!Acks
      BY DEF S!Acks
    <3> QED
      BY <2>4, <3>1 DEF R!RecvFin
  <2>5. CASE R!RecvInOrder
    <3>1. R!SendSACK(Start + R!UpdateBase - 1, g.seq) /\ Start + R!UpdateBase - 1 \in Nat
      BY <2>1, <2>5 DEF R!RecvInOrder, R!Seg, Start
    <3> QED
      BY <2>2, <2>3, <3>1
  <2>6. CASE R!RecvOutOfOrder
    BY <2>1, <2>2, <2>3, <2>6 DEF R!RecvOutOfOrder, R!Seg
  <2>7. CASE R!RecvCorrupt \/ R!RecvOverBuffer
    BY <2>1, <2>3, <2>7 DEF R!RecvCorrupt, R!RecvOverBuffer
  <2> QED
    BY <1>1, <2>4, <2>5, <2>6, <2>7 DEF R!ReceiveDataPacket
<1>6. PICK r \in S!Acks : agentQ' = Append(agentQ, r)
  BY <1>5
<1>7. /\ g \in Segments /\ Segments = {g} \cup Segments'
      /\ SegmentOrder = SegmentOrder' \cup ({g} \X Segments')
      /\ Replies' = Replies \cup {r} /\ ReplyOrder' = ReplyOrder \cup (Replies \X {r})
  BY <1>1, <1>2, <1>6, ReceiverTakes
<1>8. Gone(g) /\ g \in Segments
  BY <1>7 DEF Gone
<1>9. ASSUME NEW ack, NEW sack, R!SendSACK(ack, sack)
      PROVE  r.ackNumber = ack /\ r.sackNumber = sack /\ ~r.finack
  <2> DEFINE t == [ackNumber |-> ack, sackNumber |-> sack, finack |-> FALSE]
  <2>1. Append(agentQ, r) = Append(agentQ, t)
    BY <1>6, <1>9 DEF R!SendSACK
  <2> HIDE DEF t
  <2>2. r = t
    <3>1. agentQ \in Seq(Messages)
      BY Ways
    <3>2. /\ Append(agentQ, r)[Len(agentQ) + 1] = r
          /\ Append(agentQ, t)[Len(agentQ) + 1] = t
      BY <3>1
    <3> QED
      BY <2>1, <3>2
  <2> QED
    BY <2>2 DEF t
\* What is true at the end, before the answer says it is.
<1>10. ASSUME Buffered', endflag' <=> r.finack, endflag' => g.fin
       PROVE  Ending'
  <2>1. ~endflag /\ spc # "done" /\ \A a \in Replies : ~a.finack
    BY <1>1 DEF Ending
  <2>2. /\ \A m \in Segments' : ~m.ack /\ (m.fin <=> m.seq = Total + 1)
        /\ (\E m \in Segments' : m.fin) => spc # "sending"
    BY <1>7 DEF Ending
  <2>3. endflag' => spc # "sending"
    BY <1>7, <1>10 DEF Ending
  <2>4. (\E a \in Replies' : a.finack) => endflag'
    BY <1>7, <1>10, <2>1
  <2> QED
    BY <1>2, <1>3, <2>1, <2>2, <2>3, <2>4 DEF Ending
<1>11. ASSUME Buffered', ~endflag', ~r.finack, Answering(g, r)
       PROVE  Ending' /\ Answered' /\ Sent'
  <2>1. Gapless'
    BY <1>11, HeldNext
  <2>2. Last(r)
    BY <1>6, <1>7, <1>11, LastReply DEF Last
  <2>3. Answered'
    BY <1>2, <1>3, <1>4, <1>11, <2>1, <2>2, AnswerGiven
  <2>4. Sent'
    BY <1>2, <1>3, <1>4, <1>8, <1>11, <2>1, <2>2, AnswerSent
  <2> QED
    BY <1>10, <1>11, <2>3, <2>4
<1>12. CASE R!RecvInOrder
  <2>1. /\ Buffered' /\ ~endflag' /\ g.seq = Top + 1 /\ Top + 1 \in 1..Total
        /\ Arrived' = Arrived \cup {Top + 1} /\ R!SendSACK(Top', Top + 1)
    BY <1>8, <1>12, InOrderData
  <2>2. r.ackNumber = Top' /\ r.sackNumber = Top + 1 /\ ~r.finack
    BY <1>9, <2>1
  <2>3. g.seq \in OnWire
    BY <1>8, <2>1, TotalAssumption DEF OnWire
  <2>4. Answering(g, r)
    BY <2>1, <2>2, <2>3 DEF Answering
  <2> QED
    BY <1>11, <2>1, <2>2, <2>4
<1>13. CASE R!RecvOutOfOrder
  <2>1. /\ Buffered' /\ ~endflag' /\ g.seq \in OnWire
        /\ Arrived' = Arrived \cup {g.seq} /\ Top' = Top /\ R!SendSACK(Top, g.seq)
    BY <1>4, <1>8, <1>13, OutOfOrderData
  <2>2. r.ackNumber = Top' /\ r.sackNumber = g.seq /\ ~r.finack
    BY <1>9, <2>1
  <2>3. Answering(g, r)
    BY <2>1, <2>2 DEF Answering
  <2> QED
    BY <1>11, <2>1, <2>2, <2>3
<1>14. CASE R!RecvCorrupt \/ R!RecvOverBuffer
  <2>1. Buffered' /\ ~endflag' /\ Arrived' = Arrived /\ Top' = Top /\ R!SendSACK(Top, Top)
    BY <1>14, OtherData
  <2>2. r.ackNumber = Top' /\ r.sackNumber = Top /\ ~r.finack
    BY <1>9, <2>1
  <2>3. g.seq \in OnWire \/ Top = Total
    <3>1. CASE g.fin
      BY <1>4, <1>8, <3>1, FinLast
    <3>2. CASE ~g.fin
      <4>1. g.seq # Total + 1
        BY <1>8, <3>2 DEF Ending
      <4> QED
        BY <1>8, <4>1 DEF OnWire
    <3> QED
      BY <3>1, <3>2
  <2>4. Answering(g, r)
    BY <2>1, <2>2, <2>3 DEF Answering
  <2> QED
    BY <1>11, <2>1, <2>2, <2>4
<1>15. CASE R!RecvFin
  <2>1. Buffered' /\ endflag' /\ Arrived' = Arrived /\ Top' = Top
    BY <1>4, <1>8, <1>15, FinData
  <2>2. r.finack /\ g.fin
    <3> DEFINE t == [ackNumber |-> 0, sackNumber |-> 0, finack |-> TRUE]
    <3>1. Append(agentQ, r) = Append(agentQ, t) /\ g.fin
      BY <1>6, <1>15 DEF R!RecvFin, R!Seg
    <3> HIDE DEF t
    <3>2. /\ Append(agentQ, r)[Len(agentQ) + 1] = r
          /\ Append(agentQ, t)[Len(agentQ) + 1] = t
      BY Ways
    <3>3. r = t
      BY <3>1, <3>2
    <3> QED
      BY <3>1, <3>3 DEF t
  <2>3. Ending'
    BY <1>10, <2>1, <2>2
  <2>4. Answers' = Answers /\ AnswerOrder' = AnswerOrder
    BY <1>7, <2>2, LastReply
  <2>5. Answered'
    BY <1>2, <1>3, <2>1, <2>4, AnsweredSame
  <2>6. OnWire' \subseteq OnWire /\ WireOrder' \subseteq WireOrder
    BY <1>8, GoneOrder DEF Sent
  <2>7. Sent'
    BY <1>2, <1>3, <2>1, <2>4, <2>6, SentLess
  <2> QED
    BY <2>1, <2>3, <2>5, <2>7
<1> QED
  BY <1>1, <1>12, <1>13, <1>14, <1>15 DEF R!ReceiveDataPacket

------------------------------------------------------------------------------
\* The agent.

LEMMA AgentKeeps ==
    ASSUME TypeOK, Buffered, Ending, Answered, Sent, AgentStep
    PROVE  Buffered' /\ Ending' /\ Answered' /\ Sent'
<1>1. /\ UNCHANGED <<sVars, rVars>> /\ agentQ # <<>>
  BY DEF AgentStep, Forward, ForwardAck, Drop, Corrupt, G!AgentForward, G!AgentForwardAck,
         G!AgentDrop, G!AgentCorrupt, G!GTake
<1>2. /\ spc' = spc /\ sbase' = sbase /\ acked' = acked /\ cwnd' = cwnd /\ dup_ack' = dup_ack
      /\ buffer' = buffer /\ rbase' = rbase /\ flush_count' = flush_count /\ file' = file
      /\ endflag' = endflag
  BY <1>1 DEF sVars, rVars
<1>3. /\ Marked' = Marked /\ Window' = Window /\ (S!AllSent)' = S!AllSent
      /\ Arrived' = Arrived /\ Top' = Top
  BY <1>2 DEF Marked, Window, Free, S!AllSent, Arrived, Held, Top, R!Cumulative
<1>4. /\ Replies' = Replies /\ ReplyOrder' = ReplyOrder
      /\ \A m \in Segments' : \E n \in Segments : Alike(m, n)
      /\ \A x \in SegmentOrder' :
           \E y \in SegmentOrder : x[1].seq = y[1].seq /\ x[2].seq = y[2].seq
  BY AgentMoves
<1>5. Answers' = Answers /\ AnswerOrder' = AnswerOrder
  BY <1>4 DEF Answers, AnswerOrder
<1>6. OnWire' \subseteq OnWire
  BY <1>4 DEF OnWire, Alike
<1>7. WireOrder' \subseteq WireOrder
  <2> SUFFICES ASSUME NEW x \in SegmentOrder'
               PROVE  <<x[1].seq, x[2].seq>> \in WireOrder
    BY DEF WireOrder
  <2>1. PICK y \in SegmentOrder : x[1].seq = y[1].seq /\ x[2].seq = y[2].seq
    BY <1>4
  <2> QED
    BY <2>1 DEF WireOrder
<1>8. Buffered'
  BY <1>2 DEF Buffered
<1>9. Answered'
  BY <1>2, <1>3, <1>5, AnsweredSame
<1>10. Sent'
  BY <1>2, <1>3, <1>5, <1>6, <1>7, SentLess
\* What it forwards does not look like an answer.
<1>11. agent' # "aborted"
  <2>1. agent # "aborted"
    BY DEF Ending
  <2>2. CASE Forward
    <3> DEFINE m == Head(agentQ)
    <3>1. m \in S!Packets
      <4>1. m \in Messages /\ ~G!FromReceiver(m)
        BY <1>1, <2>2, Ways DEF Forward, G!AgentForward, G!Msg
      <4> QED
        BY <4>1, Origin DEF Messages
    <3>2. m \in Entries(agentQ)
      <4>1. agentQ \in Seq(Messages)
        BY Ways
      <4> QED
        BY <1>1, <4>1, HeadFirst
    <3>3. m \in Entries(ToReceiver)
      <4>1. agentQ \in Seq(Messages) /\ receiverQ \in Seq(Messages)
        BY Ways
      <4>2. Entries(receiverQ \o agentQ) = Entries(receiverQ) \cup Entries(agentQ)
        BY <4>1, Joined
      <4> QED
        BY <3>2, <4>2 DEF ToReceiver
    <3>4. m \in Segments
      BY <3>1, <3>3 DEF Segments, Seen
    <3>5. ~m.ack
      BY <3>4 DEF Ending
    <3> QED
      BY <2>1, <2>2, <3>5 DEF Forward, G!AgentForward, G!Msg
  <2>3. CASE ForwardAck
    BY <2>1, <2>3 DEF ForwardAck, G!AgentForwardAck
  <2>4. CASE Drop \/ Corrupt
    BY <2>1, <2>4 DEF Drop, Corrupt, G!AgentDrop, G!AgentCorrupt
  <2> QED
    BY <2>2, <2>3, <2>4 DEF AgentStep
<1>12. Ending'
  <2>1. /\ \A m \in Segments' : ~m.ack /\ (m.fin <=> m.seq = Total + 1)
        /\ (\E m \in Segments' : m.fin) => \E m \in Segments : m.fin
    <3>1. ASSUME NEW m \in Segments'
          PROVE  ~m.ack /\ (m.fin <=> m.seq = Total + 1) /\ (m.fin => \E n \in Segments : n.fin)
      <4>1. PICK n \in Segments : Alike(m, n)
        BY <1>4
      <4> QED
        BY <4>1 DEF Ending, Alike
    <3> QED
      BY <3>1
  <2>2. (\E a \in Replies' : a.finack) => \E a \in Replies : a.finack
    BY <1>4
  <2> QED
    BY <1>2, <1>3, <1>11, <2>1, <2>2 DEF Ending
<1> QED
  BY <1>8, <1>9, <1>10, <1>12

------------------------------------------------------------------------------
\* The sender.

LEMMA BaseThere ==
    ASSUME TypeOK, Gapless, Known
    PROVE  /\ Top <= Total /\ sbase <= Total + 1
           /\ S!AllSent <=> sbase = Total + 1
           /\ S!AllSent <=> Marked = 1..Total
<1>1. /\ Top \in Nat /\ Arrived \subseteq 1..Total /\ 1..Top \subseteq Arrived
      /\ sbase \in Nat \ {0} /\ sbase - 1 <= Top /\ 1..(sbase - 1) \subseteq Marked
      /\ sbase \notin Marked /\ Marked \subseteq 1..Total /\ Total \in Nat \ {0}
  BY FreeType, TotalAssumption DEF Gapless, Known
<1>2. Top <= Total
  <2>1. Top = 0 \/ Top \in 1..Top
    BY <1>1
  <2> QED
    BY <1>1, <2>1
<1>3. S!AllSent <=> Marked = 1..Total
  BY DEF S!AllSent, Marked
<1>4. sbase = Total + 1 => Marked = 1..Total
  <2>1. sbase = Total + 1 => sbase - 1 = Total
    BY <1>1
  <2> QED
    BY <1>1, <2>1
<1>5. Marked = 1..Total => sbase = Total + 1
  BY <1>1, <1>2
<1> QED
  BY <1>1, <1>2, <1>3, <1>4, <1>5

\* What the sender does does not change what the receiver has.
LEMMA ReceiverSame ==
    ASSUME UNCHANGED rVars
    PROVE  /\ Buffered => Buffered'
           /\ Arrived' = Arrived /\ Top' = Top /\ endflag' = endflag
<1>1. UNCHANGED <<buffer, rbase, flush_count, file, endflag>>
  BY DEF rVars
<1> QED
  BY <1>1 DEF Buffered, Arrived, Held, Top, R!Cumulative

\* The segments of the transmit queue are those that are not marked.
LEMMA QueueIs ==
    ASSUME NEW base \in Nat \ {0}, NEW marks,
           \A k \in 1..(base - 1) : k <= Total => marks[k]
    PROVE  S!Unsacked(base, marks) = {k \in 1..Total : ~marks[k]}
<1>1. \A k \in 1..Total : k \in 1..(base - 1) \/ k \in base..Total
  BY TotalAssumption
<1>2. \A k \in base..Total : k \in 1..Total
  BY TotalAssumption
<1>3. \A k \in 1..(base - 1) : k \in 1..Total => marks[k]
  BY TotalAssumption
<1> QED
  BY <1>1, <1>2, <1>3 DEF S!Unsacked

\* Where in the queue those are that are sent.
LEMMA FreshOnes ==
    ASSUME NEW base, NEW marks, NEW num, NEW win, NEW k \in S!Fresh(num, base, marks, win),
           NEW queue, queue = S!Unsacked(base, marks)
    PROVE  k \in queue /\ Rank(queue, k) > win - num /\ Rank(queue, k) <= win
<1>1. k \in queue /\ S!Rank(queue, k) > win - num /\ S!Rank(queue, k) <= win
  BY DEF S!Fresh
<1>2. S!Rank(queue, k) = Rank(queue, k)
  BY SameSelection
<1> QED
  BY <1>1, <1>2

\* While it sends, the sender is at none of the steps of the end.
LEMMA StillSending ==
    ASSUME Ending, spc = "sending", spc' = spc, agent' = agent, endflag' = endflag,
           NEW w, Segments' = Segments \cup Entries(w), Replies' \subseteq Replies,
           \A m \in Entries(w) : ~m.ack /\ ~m.fin /\ m.seq # Total + 1
    PROVE  Ending'
<1>1. ~endflag /\ (\A m \in Segments : ~m.fin) /\ \A a \in Replies : ~a.finack
  BY DEF Ending
<1>2. \A m \in Segments' : ~m.ack /\ ~m.fin /\ m.seq # Total + 1
  BY <1>1 DEF Ending
<1> QED
  BY <1>1, <1>2 DEF Ending

LEMMA TimeoutKeeps ==
    ASSUME TypeOK, TypeOK', Buffered, Ending, Answered, Sent, Timely, SenderTimeout
    PROVE  Buffered' /\ Ending' /\ Answered' /\ Sent'
<1>1. Gapless /\ Known
  BY NothingMissing DEF Answered
<1>2. /\ InFlight = 0 /\ S!Timeout /\ UNCHANGED <<rVars, agent, receiverQ>>
  <2>1. ~S!NullDeref
    <3>1. ~S!AllSent => sbase <= Total
      BY <1>1, BaseThere, FreeType, TotalAssumption
    <3> QED
      BY <3>1 DEF S!NullDeref, S!InLoop, S!BaseExists
  <2> QED
    BY <2>1 DEF SenderTimeout, Timely
<1>3. agentQ = <<>> /\ receiverQ = <<>> /\ senderQ = <<>>
  <2>1. /\ agentQ \in Seq(Messages) /\ receiverQ \in Seq(Messages) /\ senderQ \in Seq(Messages)
    BY Ways
  <2>2. Len(agentQ) = 0 /\ Len(receiverQ) = 0 /\ Len(senderQ) = 0
    BY <1>2, <2>1 DEF InFlight
  <2> QED
    BY <2>1, <2>2
<1>4. Replies = {} /\ ReplyOrder = {} /\ Segments = {} /\ SegmentOrder = {}
  <2>1. ToSender = <<>> /\ ToReceiver = <<>>
    BY <1>3 DEF ToSender, ToReceiver
  <2>2. Entries(<<>>) = {} /\ Before(<<>>) = {}
    BY DEF Entries, Before
  <2> QED
    BY <2>1, <2>2 DEF Replies, ReplyOrder, Segments, SegmentOrder, Seen, Order
<1>5. /\ spc = "sending" /\ spc' = spc /\ sbase <= Total /\ sbase' = sbase /\ acked' = acked
      /\ cwnd' = 1 /\ dup_ack' = 0 /\ senderQ' = senderQ
      /\ agentQ' = agentQ \o <<S!Segment(sbase, acked)>>
  BY <1>2 DEF S!Timeout, S!InLoop, S!BaseExists, S!TransmitMissing
<1>6. /\ sbase \in Nat \ {0} /\ sbase \in 1..Total /\ sbase \notin Marked
      /\ 1..(sbase - 1) \subseteq Marked /\ Total \in Nat \ {0}
  BY <1>1, <1>5, FreeType, TotalAssumption DEF Known
<1> DEFINE m == S!Segment(sbase, acked)
           w == <<m>>
<1>7. m \in S!Packets /\ m.seq = sbase /\ ~m.ack /\ ~m.fin
  <2>1. acked \in [1..Total -> BOOLEAN] /\ ~acked[sbase]
    BY <1>6 DEF TypeOK, S!SenderTypeOK, Marked
  <2> QED
    BY <1>6, <2>1 DEF S!Segment, S!Packets
<1> HIDE DEF m
<1>8. w \in Seq(S!Packets) /\ Entries(w) = {m} /\ Before(w) = {}
  BY <1>7, Single
<1>9. agentQ' = agentQ \o w
  BY <1>5 DEF m
<1> HIDE DEF w
<1>10. /\ Segments' = {m} /\ SegmentOrder' = {} /\ Replies' = {} /\ ReplyOrder' = {}
  <2>1. /\ Segments' = Segments \cup Entries(w)
        /\ SegmentOrder' = SegmentOrder \cup Before(w) \cup (Segments \X Entries(w))
        /\ Replies' = Replies /\ ReplyOrder' = ReplyOrder
    BY <1>2, <1>5, <1>8, <1>9, SenderSends
  <2> QED
    BY <1>4, <1>8, <2>1
<1>11. Answers = {} /\ AnswerOrder = {} /\ Answers' = {} /\ AnswerOrder' = {}
  BY <1>4, <1>10 DEF Answers, AnswerOrder
<1>12. /\ Buffered' /\ Arrived' = Arrived /\ Top' = Top /\ endflag' = endflag
  BY <1>2, ReceiverSame
<1>13. Marked' = Marked /\ Free' = Free
  BY <1>5 DEF Marked, Free
<1>14. Answered'
  BY <1>5, <1>11, <1>12, <1>13, AnsweredSame
<1>15. Ending'
  <2>1. m.seq # Total + 1
    BY <1>6, <1>7
  <2> QED
    BY <1>2, <1>4, <1>5, <1>7, <1>8, <1>10, <1>12, <2>1, StillSending
<1>16. OnWire' = {sbase} /\ WireOrder' = {}
  <2>1. sbase # Total + 1
    BY <1>6
  <2> QED
    BY <1>7, <1>10, <2>1 DEF OnWire, WireOrder
<1>17. InWindow'
  <2>1. sbase \notin Arrived /\ Arrived = Marked
    <3>1. Arrived = Marked /\ sbase - 1 = Top
      BY <1>1, <1>11 DEF Known
    <3> QED
      BY <1>6, <3>1
  <2>2. sbase \in Window'
    <3>1. sbase \in Free /\ \A j \in Free : sbase <= j
      BY <1>6, FreeType
    <3>2. Rank(Free, sbase) = 1
      BY <3>1, FreeType, RankOfLeast
    <3> QED
      BY <1>5, <1>13, <3>1, <3>2 DEF Window
  <2> QED
    BY <1>12, <1>13, <1>16, <2>1, <2>2 DEF InWindow
<1>18. \A c : ~Duplicate(c)'
  BY <1>5, <1>11 DEF Duplicate
<1>19. Sent'
  BY <1>16, <1>17, <1>18 DEF Sent, InSequence, LostBefore, SentBefore
<1> QED
  BY <1>12, <1>14, <1>15, <1>19

\* The sender takes the first answer, and sends w.
LEMMA TakesAnswer ==
    ASSUME TypeOK, Ending, senderQ # <<>>, senderQ' = Tail(senderQ), receiverQ' = receiverQ,
           NEW w \in Seq(S!Packets), agentQ' = agentQ \o w, ~Head(senderQ).finack
    PROVE  /\ First(Head(senderQ)) /\ Replies' \subseteq Replies
           /\ Segments' = Segments \cup Entries(w)
           /\ SegmentOrder' = SegmentOrder \cup Before(w) \cup (Segments \X Entries(w))
<1> DEFINE h == Head(senderQ)
<1>1. /\ h \in Replies /\ Replies = {h} \cup Replies'
      /\ ReplyOrder = ReplyOrder' \cup ({h} \X Replies')
  BY SenderTakes
<1>2. /\ Segments' = Segments \cup Entries(w)
      /\ SegmentOrder' = SegmentOrder \cup Before(w) \cup (Segments \X Entries(w))
  BY SenderSends
<1>3. ReplyOrder' \subseteq Replies' \X Replies'
  BY BeforeEntries DEF ReplyOrder, Replies, Order, Seen
<1> HIDE DEF h
<1>6. ~h.finack
  BY DEF h
<1>4. /\ h \in Answers /\ Answers = {h} \cup Answers'
      /\ AnswerOrder' \subseteq Answers' \X Answers'
  BY <1>1, <1>3, <1>6 DEF Answers, AnswerOrder
<1>5. AnswerOrder = AnswerOrder' \cup ({h} \X Answers')
  <2>1. {x \in {h} \X Replies' : ~x[1].finack /\ ~x[2].finack} = {h} \X Answers'
    BY <1>6 DEF Answers
  <2> QED
    BY <1>1, <2>1 DEF AnswerOrder
<1> QED
  BY <1>1, <1>2, <1>4, <1>5 DEF First, h

\* While it sends, no finack is on its way.
LEMMA NoFinack ==
    ASSUME TypeOK, Ending, spc = "sending", senderQ # <<>>
    PROVE  ~Head(senderQ).finack
<1>1. senderQ \in Seq(S!Acks) /\ agentQ \in Seq(Messages) /\ senderQ \in Seq(Messages)
  BY Ways
<1>2. Head(senderQ) \in Entries(senderQ) /\ Head(senderQ) \in S!Acks
  BY <1>1, HeadFirst
<1>3. Entries(senderQ \o agentQ) = Entries(senderQ) \cup Entries(agentQ)
  BY <1>1, Joined
<1>4. Head(senderQ) \in Replies
  BY <1>2, <1>3 DEF Replies, Seen, ToSender
<1> QED
  BY <1>4 DEF Ending

\* What it marks: nothing new, or a segment of the window.
LEMMA Marks ==
    ASSUME TypeOK, TypeOK', Gapless, NEW s, s \in Marked \cup {0} \cup Window, s \in Arrived \cup {0},
           acked' = S!MarkSACK(s), cwnd' >= cwnd
    PROVE  /\ Marked' = Marked \cup ({s} \ {0})
           /\ Window \ {s} \subseteq Window'
           /\ s \in Marked \cup {0} => Marked' = Marked
           /\ s \in Window => \A k \in Free' : Rank(Free', k) >= cwnd =>
                                  k \in Free /\ k \notin Window /\ \A j \in Window : j < k
<1>1. /\ cwnd \in Nat /\ cwnd' \in Nat /\ acked \in [1..Total -> BOOLEAN]
      /\ \A k \in Free : Rank(Free, k) \in Nat
      /\ Window \subseteq Free /\ Total \in Nat \ {0}
  BY FreeType, TotalAssumption DEF TypeOK, S!SenderTypeOK
<1>2. CASE s \in Window
  <2>1. /\ Marked' = Marked \cup {s} /\ Free' = Free \ {s}
        /\ Window \ {s} \subseteq Window'
        /\ \A k \in Free' : Rank(Free', k) >= cwnd =>
                 k \notin Window /\ \A j \in Window : j < k
    BY <1>1, <1>2, WindowMoves
  <2>2. s # 0 /\ s \notin Marked
    BY <1>1, <1>2 DEF Free, Marked
  <2> QED
    BY <2>1, <2>2
<1>3. CASE s \in Marked \cup {0} /\ s \notin Window
  <2>1. Marked' = Marked /\ Free' = Free
    BY <1>1, <1>3 DEF Marked, Free, S!MarkSACK
  <2>2. Window \subseteq Window'
    BY <1>1, <2>1 DEF Window
  <2> QED
    BY <1>3, <2>1, <2>2
<1> QED
  BY <1>2, <1>3

LEMMA RankNext == TypeOK' => \A k \in Free' : Rank(Free', k) \in Nat
<1>1. TypeOK => \A k \in Free : Rank(Free, k) \in Nat
  BY FreeType
<1>2. (TypeOK => \A k \in Free : Rank(Free, k) \in Nat)'
  BY <1>1, PTL
<1> QED
  BY <1>2

LEMMA DupACKKeeps ==
    ASSUME TypeOK, TypeOK', Buffered, Ending, Answered, Sent, SenderDupACK
    PROVE  Buffered' /\ Ending' /\ Answered' /\ Sent'
<1> DEFINE h     == Head(senderQ)
           marks == S!MarkSACK(h.sackNumber)
           num   == IF sbase + cwnd - 1 >= Total \/ h.ackNumber = h.sackNumber THEN 0 ELSE 1
           v     == S!TransmitNew(num, sbase, marks, cwnd)
           u     == IF dup_ack = 2 THEN S!TransmitMissing(sbase, marks) ELSE <<>>
           w     == v \o u
<1>1. /\ senderQ # <<>> /\ senderQ' = Tail(senderQ) /\ spc = "sending" /\ ~S!AllSent
      /\ sbase <= Total /\ h.ackNumber < sbase
      /\ acked' = marks /\ dup_ack' = (IF dup_ack < 4 THEN dup_ack + 1 ELSE 4)
      /\ agentQ' = agentQ \o v \o u
      /\ spc' = spc /\ sbase' = sbase /\ cwnd' = cwnd
      /\ UNCHANGED <<rVars, agent, receiverQ>>
  BY DEF SenderDupACK, S!DupACK, S!InLoop, S!BaseExists
<1>2. Gapless /\ Known /\ InWindow
  BY NothingMissing DEF Answered, Sent
<1>3. /\ sbase \in Nat \ {0} /\ cwnd \in Nat \ {0} /\ dup_ack \in 0..4 /\ Total \in Nat \ {0}
      /\ acked \in [1..Total -> BOOLEAN] /\ sbase \in 1..Total
      /\ agentQ \in Seq(Messages)
  BY <1>1, TotalAssumption, Ways DEF TypeOK, S!SenderTypeOK
<1>4. marks \in [1..Total -> BOOLEAN]
  BY <1>3 DEF S!MarkSACK
<1>5. num \in Int /\ cwnd \in Int
  BY <1>3
<1>6. /\ v \in Seq(S!Packets)
      /\ \A m \in Entries(v) : ~m.ack /\ ~m.fin /\ m.seq \in S!Fresh(num, sbase, marks, cwnd)
      /\ \A x \in Before(v) : x[1].seq < x[2].seq
  <2> HIDE DEF num, marks
  <2> QED
    BY <1>3, <1>4, <1>5, Burst
<1> HIDE DEF v
<1>7. /\ u \in Seq(S!Packets) /\ Before(u) = {}
      /\ \A m \in Entries(u) : /\ dup_ack = 2 /\ m.seq = sbase /\ ~m.fin
                               /\ m.ack = marks[sbase]
  <2> DEFINE one == S!Segment(sbase, marks)
  <2>1. one \in S!Packets /\ one.seq = sbase /\ ~one.fin /\ one.ack = marks[sbase]
    BY <1>3, <1>4 DEF S!Segment, S!Packets
  <2> HIDE DEF one
  <2>2. <<one>> \in Seq(S!Packets) /\ Entries(<<one>>) = {one} /\ Before(<<one>>) = {}
    BY <2>1, Single
  <2>3. dup_ack = 2 => u = <<one>>
    BY DEF S!TransmitMissing, one
  <2>4. dup_ack # 2 => u = <<>> /\ Entries(u) = {} /\ Before(u) = {}
    BY DEF Entries, Before
  <2>5. <<>> \in Seq(S!Packets)
    OBVIOUS
  <2> HIDE DEF u
  <2> QED
    BY <2>1, <2>2, <2>3, <2>4, <2>5
<1> HIDE DEF u
<1>8. /\ w \in Seq(S!Packets) /\ Entries(w) = Entries(v) \cup Entries(u)
      /\ Before(w) = Before(v) \cup Before(u) \cup (Entries(v) \X Entries(u))
  BY <1>6, <1>7, Joined
<1>9. agentQ' = agentQ \o w
  <2>1. v \in Seq(Messages) /\ u \in Seq(Messages)
    BY <1>6, <1>7 DEF Messages
  <2>2. agentQ \in Seq(Messages)
    BY <1>3
  <2>3. (agentQ \o v) \o u = agentQ \o (v \o u)
    BY <2>1, <2>2
  <2> QED
    BY <1>1, <2>3
<1> HIDE DEF w
<1>10. ~h.finack
  BY <1>1, NoFinack
<1>11. /\ First(h) /\ Replies' \subseteq Replies
       /\ Segments' = Segments \cup Entries(w)
       /\ SegmentOrder' = SegmentOrder \cup Before(w) \cup (Segments \X Entries(w))
  BY <1>1, <1>8, <1>9, <1>10, TakesAnswer
<1>12. /\ h.ackNumber \in Nat /\ h.sackNumber \in Nat /\ sbase <= h.ackNumber + 1
       /\ h.sackNumber \in Marked \cup {0} \cup Window
       /\ h.sackNumber \in Arrived \cup {0}
  BY <1>2, <1>11, FirstAnswer
<1>13. h.ackNumber = sbase - 1 /\ sbase' = h.ackNumber + 1
  BY <1>1, <1>3, <1>12
<1> DEFINE s == h.sackNumber
<1>14. /\ Marked' = Marked \cup ({s} \ {0}) /\ Window \ {s} \subseteq Window'
       /\ s \in Window => \A k \in Free' : Rank(Free', k) >= cwnd =>
                                  k \in Free /\ k \notin Window /\ \A j \in Window : j < k
  BY <1>1, <1>2, <1>3, <1>12, Marks
<1>15. Buffered' /\ Arrived' = Arrived /\ Top' = Top /\ endflag' = endflag
  BY <1>1, ReceiverSame
<1>16. Answered'
  BY <1>2, <1>11, <1>13, <1>14, <1>15, AnswerTaken
<1>17. /\ 1..(sbase - 1) \subseteq Marked' /\ sbase \notin Marked'
       /\ 1..(sbase - 1) \subseteq Marked /\ sbase \notin Marked
  BY <1>1, <1>2, <1>16 DEF Answered, Known
<1>18. sbase \in Window /\ sbase \in Window'
  <2>1. sbase \in Window
    BY <1>1, <1>17, BaseInWindow
  <2>2. sbase \in Free' /\ \A j \in Free' : sbase <= j
    <3>1. Free' \subseteq 1..Total /\ \A j \in Free' : j \notin Marked'
      BY DEF Free, Marked
    <3>2. sbase \in Free'
      BY <1>3, <1>17 DEF Free, Marked
    <3> QED
      BY <1>3, <1>17, <3>1, <3>2
  <2>3. Free' \subseteq Nat
    BY <1>3 DEF Free
  <2>4. Rank(Free', sbase) = 1
    BY <2>2, <2>3, RankOfLeast
  <2>5. sbase \in Window'
    BY <1>1, <1>3, <2>2, <2>4 DEF Window
  <2> QED
    BY <2>1, <2>5
\* A new segment is sent only when a segment of the window has been marked.
<1>19. ASSUME NEW m \in Entries(v) PROVE Fresh(m.seq)
  <2>1. num = 1 /\ h.ackNumber # s
    <3>1. m.seq \in S!Fresh(num, sbase, marks, cwnd)
      BY <1>6
    <3>2. num # 0
      <4>1. ASSUME num = 0 PROVE FALSE
        <5> DEFINE k == m.seq
                   q == S!Unsacked(sbase, marks)
        <5>1. k \in S!Fresh(0, sbase, marks, cwnd) /\ q \subseteq 1..Total
          BY <1>3, <3>1, <4>1 DEF S!Unsacked
        <5>2. k \in q /\ Rank(q, k) > cwnd - 0 /\ Rank(q, k) <= cwnd
          <6> HIDE DEF k, q, marks
          <6>1. q = S!Unsacked(sbase, marks)
            BY DEF q
          <6> QED
            BY <5>1, <6>1, FreshOnes
        <5>3. IsFiniteSet(q) /\ q \subseteq Nat
          <6>1. IsFiniteSet(1..Total)
            BY <1>3, FS_Interval
          <6>2. 1..Total \subseteq Nat
            BY <1>3
          <6> QED
            BY <5>1, <6>1, <6>2, FS_Subset
        <5> HIDE DEF q, k
        <5>4. Rank(q, k) \in 1..Cardinality(q) /\ Cardinality(q) \in Nat
          BY <5>2, <5>3, RankGrows
        <5>6. Rank(q, k) > cwnd /\ Rank(q, k) <= cwnd /\ Rank(q, k) \in Nat
          BY <1>3, <5>2, <5>4
        <5> QED
          BY <1>3, <5>6
      <4> QED
        BY <4>1
    <3> QED
      BY <3>2
  <2>2. s \in Window
    <3>1. s \notin Marked \cup {0}
      <4>1. s \in Marked \cup {0} => h.ackNumber = s
        BY <1>11 DEF Answered, AnswerTrue, First
      <4> QED
        BY <2>1, <4>1
    <3> QED
      BY <1>12, <3>1
  <2>3. S!Unsacked(sbase, marks) = Free'
    <3>1. \A k \in 1..(sbase - 1) : k <= Total => marks[k]
      BY <1>1, <1>17 DEF Marked
    <3>2. Free' = {k \in 1..Total : ~marks[k]}
      BY <1>1 DEF Free
    <3> HIDE DEF marks
    <3> QED
      BY <1>3, <3>1, <3>2, QueueIs
  <2> DEFINE k == m.seq
  <2>4. k \in Free' /\ Rank(Free', k) > cwnd - 1 /\ Rank(Free', k) <= cwnd
    <3>1. k \in S!Fresh(1, sbase, marks, cwnd)
      BY <1>6, <2>1
    <3> HIDE DEF k, marks
    <3> QED
      BY <2>3, <3>1, FreshOnes
  <2>5. Rank(Free', k) \in Nat
    BY <2>4, RankNext
  <2>6. Rank(Free', k) >= cwnd
    BY <1>3, <2>4, <2>5
  <2>7. k \in Free /\ k \notin Window /\ \A j \in Window : j < k
    BY <1>14, <2>2, <2>4, <2>6
  <2>8. k \in Window'
    BY <1>1, <2>4 DEF Window
  <2> QED
    BY <2>7, <2>8 DEF Fresh
<1>20. ASSUME NEW m \in Entries(u) PROVE Again(m.seq) /\ m.seq = sbase /\ ~m.ack
  <2>1. dup_ack = 2 /\ m.seq = sbase /\ dup_ack' = 3 /\ m.ack = marks[sbase]
    BY <1>1, <1>7
  <2>2. ~marks[sbase]
    BY <1>1, <1>3, <1>4, <1>17 DEF Marked
  <2> QED
    BY <1>1, <1>18, <2>1, <2>2 DEF Again
<1>21. \A m \in Entries(w) : Fresh(m.seq) \/ Again(m.seq)
  BY <1>8, <1>19, <1>20
<1>22. ASSUME NEW x \in Before(w)
       PROVE  \/ x[1].seq < x[2].seq
              \/ Again(x[2].seq) /\ x[1].seq # x[2].seq
  <2>1. CASE x \in Before(v)
    BY <1>6, <2>1
  <2>2. CASE x \in Entries(v) \X Entries(u)
    <3>1. Fresh(x[1].seq) /\ Again(x[2].seq) /\ x[2].seq = sbase
      BY <1>19, <1>20, <2>2
    <3> QED
      BY <1>18, <3>1 DEF Fresh
  <2> QED
    BY <1>7, <1>8, <2>1, <2>2
<1>23. ASSUME NEW c \in Int, Duplicate(c)' PROVE Duplicate(c)
  <2>1. Answers' \subseteq Answers /\ AnswerOrder' \subseteq AnswerOrder /\ h \in Answers
    BY <1>11 DEF First
  <2>2. CASE sbase = c + 1
    <3>1. h.ackNumber = c
      BY <1>3, <1>13, <2>2
    <3> QED
      BY <2>1, <2>2, <3>1 DEF Duplicate
  <2> QED
    BY <1>1, <1>23, <2>1, <2>2 DEF Duplicate
<1>24. \A k : Retransmitted(k) => Retransmitted(k)'
  BY <1>1, <1>3 DEF Retransmitted
<1>25. \A m \in Segments : m.seq # Total + 1
  BY <1>1 DEF Ending
<1>26. Sent'
  <2> HIDE DEF s
  <2>1. s \in Arrived \cup {0}
    BY <1>12 DEF s
  <2> QED
    BY <1>8, <1>11, <1>14, <1>15, <1>21, <1>22, <1>23, <1>24, <1>25, <2>1, SentMore
<1>27. Ending'
  <2>1. \A m \in Entries(w) : ~m.ack /\ ~m.fin /\ m.seq # Total + 1
    <3>1. \A k : Fresh(k) \/ Again(k) => k \in 1..Total
      BY <1>3 DEF Fresh, Again, Free
    <3>2. \A m \in Entries(w) : m.seq \in 1..Total
      BY <1>21, <3>1
    <3>3. Total + 1 \notin 1..Total
      BY <1>3
    <3>4. \A m \in Entries(w) : ~m.ack /\ ~m.fin
      BY <1>6, <1>7, <1>8, <1>20
    <3> QED
      BY <3>2, <3>3, <3>4
  <2> QED
    BY <1>1, <1>11, <1>15, <2>1, StillSending
<1> QED
  BY <1>15, <1>16, <1>26, <1>27

LEMMA NewACKKeeps ==
    ASSUME TypeOK, TypeOK', Buffered, Ending, Answered, Sent, SenderNewACK
    PROVE  Buffered' /\ Ending' /\ Answered' /\ Sent'
<1> DEFINE h == Head(senderQ)
           s == h.sackNumber
           w == S!TransmitNew(1 + cwnd' - cwnd, sbase', acked', cwnd')
<1>1. Gapless /\ Known /\ InWindow
  BY NothingMissing DEF Answered, Sent
<1>2. S!NewACK /\ UNCHANGED <<rVars, agent, receiverQ>>
  <2>1. ~S!NullDeref
    <3>1. ~S!AllSent => sbase <= Total
      BY <1>1, BaseThere, FreeType, TotalAssumption
    <3> QED
      BY <3>1 DEF S!NullDeref, S!InLoop, S!BaseExists
  <2> QED
    BY <2>1 DEF SenderNewACK
<1>3. /\ senderQ # <<>> /\ senderQ' = Tail(senderQ) /\ spc = "sending" /\ spc' = spc
      /\ sbase <= Total /\ h.ackNumber >= sbase
      /\ acked' = S!MarkSACK(s) /\ sbase' = h.ackNumber + 1 /\ dup_ack' = 0
      /\ agentQ' = agentQ \o w /\ S!GrowWindow
      /\ UNCHANGED <<rVars, agent, receiverQ>>
  BY <1>2 DEF S!NewACK, S!InLoop, S!BaseExists, S!BaseAfter
<1>4. /\ sbase \in Nat \ {0} /\ cwnd \in Nat \ {0} /\ Total \in Nat \ {0}
      /\ sbase' \in Nat \ {0} /\ cwnd' \in Nat \ {0} /\ acked' \in [1..Total -> BOOLEAN]
      /\ Top \in Nat
  BY <1>1, TotalAssumption DEF TypeOK, S!SenderTypeOK, Gapless
<1>5. cwnd' = cwnd \/ cwnd' = cwnd + 1
  BY <1>3 DEF S!GrowWindow
<1>6. /\ w \in Seq(S!Packets)
      /\ \A m \in Entries(w) :
            ~m.ack /\ ~m.fin /\ m.seq \in S!Fresh(1 + cwnd' - cwnd, sbase', acked', cwnd')
      /\ \A x \in Before(w) : x[1].seq < x[2].seq
  <2>1. 1 + cwnd' - cwnd \in Int /\ cwnd' \in Int
    BY <1>4
  <2> QED
    BY <1>4, <2>1, Burst
<1> HIDE DEF w
<1>7. ~h.finack
  BY <1>3, NoFinack
<1>8. /\ First(h) /\ Replies' \subseteq Replies
      /\ Segments' = Segments \cup Entries(w)
      /\ SegmentOrder' = SegmentOrder \cup Before(w) \cup (Segments \X Entries(w))
  BY <1>3, <1>6, <1>7, TakesAnswer
<1>9. /\ h.ackNumber \in Nat /\ s \in Nat /\ h.ackNumber <= Top
      /\ s \in Marked \cup {0} => h.ackNumber = sbase - 1
      /\ s \in Marked \cup {0} \cup Window /\ s \in Arrived \cup {0}
  BY <1>1, <1>8, FirstAnswer
<1>10. s \in Window
  BY <1>3, <1>4, <1>9
<1>11. /\ Marked' = Marked \cup ({s} \ {0}) /\ Window \ {s} \subseteq Window'
       /\ \A k \in Free' : Rank(Free', k) >= cwnd =>
                                  k \in Free /\ k \notin Window /\ \A j \in Window : j < k
  <2>1. cwnd' >= cwnd
    BY <1>4, <1>5
  <2> HIDE DEF s
  <2>2. acked' = S!MarkSACK(s)
    BY <1>3
  <2> QED
    BY <1>1, <1>9, <1>10, <2>1, <2>2, Marks
<1>12. Buffered' /\ Arrived' = Arrived /\ Top' = Top /\ endflag' = endflag
  BY <1>3, ReceiverSame
<1>13. Answered'
  BY <1>1, <1>3, <1>8, <1>11, <1>12, AnswerTaken
<1>14. 1..(sbase' - 1) \subseteq Marked'
  BY <1>13 DEF Answered, Known
<1>15. ASSUME NEW m \in Entries(w) PROVE Fresh(m.seq)
  <2> DEFINE k == m.seq
             num == 1 + cwnd' - cwnd
  <2>1. S!Unsacked(sbase', acked') = Free'
    <3> DEFINE base  == sbase'
               marks == acked'
    <3>1. /\ base \in Nat \ {0} /\ \A j \in 1..(base - 1) : j <= Total => marks[j]
          /\ Free' = {j \in 1..Total : ~marks[j]}
      BY <1>4, <1>14 DEF Marked, Free
    <3> HIDE DEF base, marks
    <3>2. S!Unsacked(base, marks) = Free'
      BY <3>1, QueueIs
    <3> QED
      BY <3>2 DEF base, marks
  <2>2. k \in Free' /\ Rank(Free', k) > cwnd' - num /\ Rank(Free', k) <= cwnd'
    <3>1. k \in S!Fresh(num, sbase', acked', cwnd')
      BY <1>6
    <3> HIDE DEF k, num
    <3> QED
      BY <2>1, <3>1, FreshOnes
  <2>3. Rank(Free', k) \in Nat
    BY <2>2, RankNext
  <2>4. Rank(Free', k) >= cwnd
    BY <1>4, <2>2, <2>3
  <2>5. k \in Free /\ k \notin Window /\ \A j \in Window : j < k
    BY <1>11, <2>2, <2>4
  <2>6. k \in Window'
    BY <2>2 DEF Window
  <2> QED
    BY <2>5, <2>6 DEF Fresh
\* What has been acknowledged has arrived, and no answer for it is left.
<1>16. sbase \in Arrived /\ sbase \notin OnWire
  <2>1. sbase \in 1..Top
    BY <1>3, <1>4, <1>9
  <2> QED
    BY <1>1, <2>1 DEF Gapless, InWindow
<1>17. /\ Answers' \subseteq Answers /\ AnswerOrder' \subseteq AnswerOrder /\ h \in Answers
       /\ \A a \in Answers' : a.ackNumber \in Nat /\ <<h, a>> \in AnswerOrder
       /\ AnswerOrder' \subseteq Answers' \X Answers'
  BY <1>8, AnswerType DEF First
<1>18. ASSUME NEW a \in Answers' PROVE h.ackNumber <= a.ackNumber /\ a.ackNumber # sbase - 1
  <2>1. <<h, a>> \in AnswerOrder
    BY <1>17
  <2>2. h.ackNumber <= a.ackNumber
    BY <2>1 DEF Answered, AnswersGrow
  <2>3. a.ackNumber \in Nat
    BY <1>17
  <2> QED
    BY <1>3, <1>4, <1>9, <2>2, <2>3
<1>19. ASSUME NEW c \in Int, Duplicate(c)' PROVE Duplicate(c)
  <2>1. CASE sbase' = c + 1 /\ \E a \in Answers' : a.ackNumber = c
    <3>1. PICK a \in Answers' : a.ackNumber = c
      BY <2>1
    <3>2. h.ackNumber = c
      BY <1>3, <1>9, <2>1
    <3>3. <<h, a>> \in AnswerOrder
      BY <1>17
    <3> QED
      BY <3>1, <3>2, <3>3 DEF Duplicate
  <2> QED
    BY <1>3, <1>17, <1>19, <2>1 DEF Duplicate
<1>20. ASSUME NEW c, c = sbase - 1 PROVE ~Duplicate(c)'
  <2>1. ASSUME NEW x \in AnswerOrder' PROVE x[1].ackNumber # c
    <3>1. x[1] \in Answers'
      BY <1>17
    <3> QED
      BY <1>18, <1>20, <3>1
  <2>2. sbase' # c + 1
    BY <1>3, <1>4, <1>9, <1>20
  <2>3. ~(dup_ack' > 0) /\ ~\E a \in Answers' : sbase' = c + 1
    BY <1>3, <2>2
  <2> QED
    BY <2>1, <2>2, <2>3 DEF Duplicate
<1>21. \A k \in OnWire : Retransmitted(k) => Retransmitted(k)'
  BY <1>16 DEF Retransmitted
<1>22. \A k \in Arrived : Retransmitted(k) => Retransmitted(k)' \/ ~Duplicate(k - 1)'
  BY <1>20 DEF Retransmitted
<1>23. \A m \in Segments : m.seq # Total + 1
  BY <1>3 DEF Ending
<1>24. Sent'
  <2> HIDE DEF s
  <2>1. \A m \in Entries(w) : Fresh(m.seq) \/ Again(m.seq)
    BY <1>15
  <2>2. \A x \in Before(w) : \/ x[1].seq < x[2].seq
                             \/ Again(x[2].seq) /\ x[1].seq # x[2].seq
    BY <1>6
  <2>3. s \in Arrived \cup {0}
    BY <1>9
  <2> QED
    BY <1>6, <1>8, <1>11, <1>12, <1>19, <1>21, <1>22, <1>23, <2>1, <2>2, <2>3, SentMore
<1>25. Ending'
  <2>1. \A m \in Entries(w) : ~m.ack /\ ~m.fin /\ m.seq # Total + 1
    <3>1. \A k : Fresh(k) => k \in 1..Total
      BY DEF Fresh, Free
    <3>2. Total + 1 \notin 1..Total
      BY <1>4
    <3> QED
      BY <1>6, <1>15, <3>1, <3>2
  <2> QED
    BY <1>3, <1>8, <1>12, <2>1, StillSending
<1> QED
  BY <1>12, <1>13, <1>24, <1>25

LEMMA FinKeeps ==
    ASSUME TypeOK, Buffered, Ending, Answered, Sent, SenderFin
    PROVE  Buffered' /\ Ending' /\ Answered' /\ Sent'
<1> DEFINE m == S!FinSegment
           w == <<m>>
<1>1. /\ spc = "sending" /\ S!AllSent /\ spc' = "finwait" /\ agentQ' = Append(agentQ, m)
      /\ sbase' = sbase /\ acked' = acked /\ cwnd' = cwnd /\ dup_ack' = dup_ack
      /\ senderQ' = senderQ /\ UNCHANGED <<rVars, agent, receiverQ>>
  BY DEF SenderFin, S!SendFin
<1>2. Gapless /\ Known /\ InWindow
  BY NothingMissing DEF Answered, Sent
<1>3. m \in S!Packets /\ m.seq = Total + 1 /\ m.fin /\ ~m.ack /\ Total \in Nat \ {0}
  BY TotalAssumption DEF S!FinSegment, S!Packets
<1> HIDE DEF m
<1>4. w \in Seq(S!Packets) /\ Entries(w) = {m} /\ Before(w) = {}
  BY <1>3, Single
<1>5. agentQ' = agentQ \o w
  BY <1>1, Ways
<1> HIDE DEF w
\* Nothing is on its way.
<1>6. Segments = {} /\ SegmentOrder = {}
  <2>1. Free = {}
    BY <1>1, <1>2, BaseThere, FreeType
  <2>2. OnWire = {}
    BY <1>2, <2>1, FreeType DEF InWindow
  <2>3. ASSUME NEW n \in Segments PROVE FALSE
    <3>1. n.seq # Total + 1
      BY <1>1 DEF Ending
    <3> QED
      BY <2>2, <3>1 DEF OnWire
  <2>4. SegmentOrder \subseteq Segments \X Segments
    BY SegmentType
  <2> QED
    BY <2>3, <2>4
<1>7. /\ Segments' = {m} /\ SegmentOrder' = {} /\ Replies' = Replies /\ ReplyOrder' = ReplyOrder
  <2>1. /\ Segments' = Segments \cup Entries(w)
        /\ SegmentOrder' = SegmentOrder \cup Before(w) \cup (Segments \X Entries(w))
        /\ Replies' = Replies /\ ReplyOrder' = ReplyOrder
    BY <1>1, <1>4, <1>5, SenderSends
  <2> QED
    BY <1>4, <1>6, <2>1
<1>8. Answers' = Answers /\ AnswerOrder' = AnswerOrder
  BY <1>7 DEF Answers, AnswerOrder
<1>9. OnWire' = {} /\ WireOrder' = {}
  BY <1>3, <1>7 DEF OnWire, WireOrder
<1>10. Buffered' /\ Arrived' = Arrived /\ Top' = Top /\ endflag' = endflag
  BY <1>1, ReceiverSame
<1>11. Marked' = Marked /\ Window' = Window /\ (S!AllSent)'
  BY <1>1 DEF Marked, Window, Free, S!AllSent
<1>12. Answered'
  BY <1>1, <1>8, <1>10, <1>11, AnsweredSame
<1>13. Sent'
  BY <1>1, <1>8, <1>9, <1>10, <1>11, SentLess
<1>14. Ending'
  BY <1>1, <1>3, <1>7, <1>10, <1>11 DEF Ending
<1> QED
  BY <1>10, <1>12, <1>13, <1>14

LEMMA FinackKeeps ==
    ASSUME TypeOK, Buffered, Ending, Answered, Sent, SenderFinack
    PROVE  Buffered' /\ Ending' /\ Answered' /\ Sent'
<1> DEFINE h == Head(senderQ)
           w == <<>>
<1>1. /\ spc = "finwait" /\ senderQ # <<>> /\ senderQ' = Tail(senderQ) /\ agentQ' = agentQ
      /\ spc' = (IF h.finack THEN "done" ELSE spc)
      /\ sbase' = sbase /\ acked' = acked /\ cwnd' = cwnd /\ dup_ack' = dup_ack
      /\ UNCHANGED <<rVars, agent, receiverQ>>
  BY DEF SenderFinack, S!RecvFinack
<1>2. Gapless /\ Known /\ InWindow
  BY NothingMissing DEF Answered, Sent
<1>3. w \in Seq(S!Packets) /\ agentQ' = agentQ \o w /\ Entries(w) = {} /\ Before(w) = {}
  <2>1. Entries(w) = {} /\ Before(w) = {}
    BY DEF Entries, Before
  <2>2. agentQ \o <<>> = agentQ
    BY Ways
  <2> QED
    BY <1>1, <2>1, <2>2
<1> HIDE DEF w
<1>4. /\ Segments' = Segments /\ SegmentOrder' = SegmentOrder
  <2>1. /\ Segments' = Segments \cup Entries(w)
        /\ SegmentOrder' = SegmentOrder \cup Before(w) \cup (Segments \X Entries(w))
    BY <1>1, <1>3, SenderSends
  <2> QED
    BY <1>3, <2>1
<1>5. OnWire' = OnWire /\ WireOrder' = WireOrder
  BY <1>4 DEF OnWire, WireOrder
<1>6. /\ h \in Replies /\ Replies = {h} \cup Replies'
      /\ ReplyOrder = ReplyOrder' \cup ({h} \X Replies')
  BY <1>1, <1>3, SenderTakes
<1>7. Buffered' /\ Arrived' = Arrived /\ Top' = Top /\ endflag' = endflag
  BY <1>1, ReceiverSame
<1>8. Marked' = Marked /\ Window' = Window /\ S!AllSent /\ (S!AllSent)'
  BY <1>1 DEF Marked, Window, Free, S!AllSent, Ending
<1>9. Ending'
  <2>1. spc' = "done" => endflag
    BY <1>1, <1>6 DEF Ending
  <2>2. spc' \in {"finwait", "done"}
    BY <1>1
  <2> QED
    BY <1>1, <1>4, <1>6, <1>7, <1>8, <2>1, <2>2 DEF Ending
<1>10. Answered' /\ Answers' \subseteq Answers /\ AnswerOrder' \subseteq AnswerOrder
  <2>1. CASE h.finack
    <3> HIDE DEF h
    <3>1. Answers' = Answers
      BY <1>6, <2>1 DEF Answers
    <3>2. AnswerOrder' = AnswerOrder
      <4>1. {x \in {h} \X Replies' : ~x[1].finack /\ ~x[2].finack} = {}
        BY <2>1
      <4> QED
        BY <1>6, <4>1 DEF AnswerOrder
    <3> QED
      BY <1>1, <1>7, <1>8, <3>1, <3>2, AnsweredSame
  <2>2. CASE ~h.finack
    <3>1. First(h)
      BY <1>1, <1>3, <2>2, TakesAnswer
    <3>2. /\ h.sackNumber \in Marked \cup {0} => h.ackNumber = sbase - 1
          /\ h.sackNumber \in Marked \cup {0} \cup Window
          /\ h.ackNumber \in Nat
      BY <1>2, <3>1, FirstAnswer
    <3>3. Window = {}
      BY <1>2, <1>8, BaseThere, FreeType
    <3>4. h.sackNumber \in Marked \cup {0} /\ h.ackNumber = sbase - 1
      BY <3>2, <3>3
    <3>5. sbase' = h.ackNumber + 1
      BY <1>1, <3>2, <3>4, FreeType
    <3>6. Marked' = Marked \cup ({h.sackNumber} \ {0})
      BY <1>8, <3>4
    <3>7. Answered'
      BY <1>2, <1>7, <3>1, <3>5, <3>6, AnswerTaken
    <3> QED
      BY <3>1, <3>7 DEF First
  <2> QED
    BY <2>1, <2>2
<1>11. Sent'
  BY <1>1, <1>5, <1>7, <1>8, <1>10, SentLess
<1> QED
  BY <1>7, <1>9, <1>10, <1>11

------------------------------------------------------------------------------
\* The invariant.

\* The first segment of the first window is on its way, and nothing else has happened.
LEMMA InitHolds == Init => TInv
<1> SUFFICES ASSUME Init PROVE TInv
  OBVIOUS
<1>1. TypeOK
  BY InitTypes
<1> DEFINE none == [k \in 1..Total |-> FALSE]
           w    == S!TransmitNew(1, 1, none, 1)
<1>2. /\ spc = "sending" /\ sbase = 1 /\ acked = none /\ cwnd = 1 /\ dup_ack = 0
      /\ buffer = [i \in 1..BufSize |-> 0] /\ rbase = 1 /\ flush_count = 0 /\ file = <<>>
      /\ endflag = FALSE /\ agent = "up" /\ agentQ = w /\ receiverQ = <<>> /\ senderQ = <<>>
  BY DEF Init, S!SInit, R!RInit, G!GInit, S!InitialBurst, R!NULL
<1>3. Total \in Nat \ {0} /\ BufSize \in Nat \ {0} /\ R!NULL = 0
  BY TotalAssumption, StartType, <1>1
<1>4. none \in [1..Total -> BOOLEAN]
  OBVIOUS
<1>5. /\ w \in Seq(S!Packets)
      /\ \A m \in Entries(w) : ~m.ack /\ ~m.fin /\ m.seq \in S!Fresh(1, 1, none, 1)
      /\ \A x \in Before(w) : x[1].seq < x[2].seq
  <2> HIDE DEF none
  <2> QED
    BY <1>4, Burst
<1> HIDE DEF w
<1>6. Marked = {} /\ Free = 1..Total
  BY <1>2 DEF Marked, Free
<1>7. \A m \in Entries(w) : m.seq \in Window
  <2>1. S!Unsacked(1, none) = Free
    <3>1. Free = {k \in 1..Total : ~none[k]}
      BY <1>2 DEF Free
    <3>2. \A k \in 1..(1 - 1) : k <= Total => none[k]
      OBVIOUS
    <3> HIDE DEF none
    <3> QED
      BY <3>1, <3>2, QueueIs
  <2>2. ASSUME NEW k \in S!Fresh(1, 1, none, 1) PROVE k \in Window
    <3> HIDE DEF none
    <3>1. k \in Free /\ Rank(Free, k) <= 1
      BY <2>1, FreshOnes
    <3> QED
      BY <1>2, <3>1 DEF Window
  <2> QED
    BY <1>5, <2>2
<1>8. w \in Seq(Messages)
  BY <1>5 DEF Messages
<1>9. Segments = Entries(w) /\ SegmentOrder = Before(w)
  <2>1. ToReceiver = w
    BY <1>2, <1>8 DEF ToReceiver
  <2>2. Entries(w) \subseteq S!Packets
    BY <1>5 DEF Entries
  <2>3. Before(w) \subseteq Entries(w) \X Entries(w)
    BY BeforeEntries
  <2> QED
    BY <2>1, <2>2, <2>3 DEF Segments, SegmentOrder, Seen, Order
<1>10. Replies = {} /\ ReplyOrder = {}
  <2>1. ToSender = w
    BY <1>2, <1>8 DEF ToSender
  <2>2. \A m \in Entries(w) : m \notin S!Acks
    BY <1>5, Origin DEF Entries
  <2>3. Before(w) \subseteq Entries(w) \X Entries(w)
    BY BeforeEntries
  <2> QED
    BY <2>1, <2>2, <2>3 DEF Replies, ReplyOrder, Seen, Order
<1>11. Answers = {} /\ AnswerOrder = {}
  BY <1>10 DEF Answers, AnswerOrder
<1>12. Arrived = {} /\ Top = 0
  <2>1. Len(file) = 0
    BY <1>2
  <2>2. Held = {0}
    BY <1>2, <1>3, <2>1 DEF Held
  <2>3. R!Cumulative = 0
    BY <1>2, <1>3 DEF R!Cumulative
  <2> QED
    BY <1>2, <1>3, <2>2, <2>3 DEF Arrived, Top
<1>13. Buffered
  <2>1. Len(file) = 0 /\ file = [i \in 1..0 |-> i]
    BY <1>2
  <2> QED
    BY <1>2, <1>3, <2>1 DEF Buffered
<1>14. Ending
  <2>1. \A m \in Segments : ~m.ack /\ ~m.fin /\ m.seq # Total + 1
    <3>1. \A k \in Window : k # Total + 1
      BY <1>3, <1>6 DEF Window
    <3> QED
      BY <1>5, <1>7, <1>9, <3>1
  <2> QED
    BY <1>2, <1>10, <2>1 DEF Ending
<1>15. Known
  BY <1>2, <1>6, <1>11, <1>12 DEF Known
<1>16. AnswerTrue /\ AnswersGrow /\ Raised /\ MarkedBefore
  BY <1>11 DEF AnswerTrue, AnswersGrow, Raised, MarkedBefore
<1>17. InWindow
  <2>1. OnWire \subseteq Window
    BY <1>7, <1>9 DEF OnWire
  <2> QED
    BY <1>12, <2>1 DEF InWindow
<1>18. InSequence
  BY <1>5, <1>9 DEF InSequence, WireOrder
<1>19. LostBefore /\ SentBefore
  <2>1. \A c : ~Duplicate(c)
    BY <1>2, <1>11 DEF Duplicate
  <2> QED
    BY <2>1 DEF LostBefore, SentBefore
<1> QED
  BY <1>1, <1>13, <1>14, <1>15, <1>16, <1>17, <1>18, <1>19 DEF TInv

LEMMA TInvParts == TInv <=> TypeOK /\ Buffered /\ Ending /\ Answered /\ Sent
BY DEF TInv, Answered, Sent

LEMMA StepHolds ==
    ASSUME TInv, Timely, [Next]_vars
    PROVE  TInv'
<1>1. TypeOK /\ Buffered /\ Ending /\ Answered /\ Sent
  BY TInvParts
<1>2. CASE Next
  <2>1. TypeOK'
    BY <1>1, <1>2, SenderTypes, ReceiverTypes, AgentTypes DEF Next
  <2>2. Buffered' /\ Ending' /\ Answered' /\ Sent'
    BY <1>1, <1>2, <2>1, TimeoutKeeps, DupACKKeeps, NewACKKeeps, FinKeeps, FinackKeeps,
       ReceiverStep, AgentKeeps DEF Next, Sender
  <2> QED
    BY <2>1, <2>2 DEF TInv, Answered, Sent
<1>3. CASE UNCHANGED vars
  <2>1. /\ UNCHANGED <<sVars, rVars, agent, agentQ, receiverQ, senderQ>>
        /\ UNCHANGED <<spc, sbase, acked, cwnd, frac, thresh, dup_ack, state>>
        /\ UNCHANGED <<buffer, rbase, flush_count, file, endflag>>
    BY <1>3 DEF vars, sVars, rVars
  <2>2. TypeOK'
    BY <1>1, <2>1 DEF TypeOK, S!SenderTypeOK, R!ReceiverTypeOK, G!AgentTypeOK
  <2>3. /\ Buffered' /\ Arrived' = Arrived /\ Top' = Top
    BY <1>1, <2>1, ReceiverSame
  <2>4. /\ Replies' = Replies /\ ReplyOrder' = ReplyOrder
        /\ Segments' = Segments /\ SegmentOrder' = SegmentOrder
    BY <2>1 DEF Replies, ReplyOrder, Segments, SegmentOrder, ToSender, ToReceiver
  <2>5. /\ Answers' = Answers /\ AnswerOrder' = AnswerOrder /\ OnWire' = OnWire
        /\ WireOrder' = WireOrder
    BY <2>4 DEF Answers, AnswerOrder, OnWire, WireOrder
  <2>6. Marked' = Marked /\ Window' = Window /\ (S!AllSent)' = S!AllSent
    BY <2>1 DEF Marked, Window, Free, S!AllSent
  <2>7. Ending'
    BY <1>1, <2>1, <2>4, <2>6 DEF Ending
  <2>8. Answered' /\ Sent'
    BY <1>1, <2>1, <2>3, <2>5, <2>6, AnsweredSame, SentLess
  <2> QED
    BY <2>2, <2>3, <2>7, <2>8 DEF TInv, Answered, Sent
<1> QED
  BY <1>2, <1>3

\* The inductive invariant, with a timer that only fires when nothing is on its way.
THEOREM Invariance ==
    ASSUME Timely
    PROVE  Spec => []TInv
<1>1. Init => TInv
  BY InitHolds
<1>2. TInv /\ [Next]_vars => TInv'
  BY StepHolds
<1> QED
  BY <1>1, <1>2, PTL DEF Spec

\* The sender takes nothing for received that the receiver does not hold.
THEOREM NothingPhantom ==
    ASSUME Timely
    PROVE  Spec => []NoPhantomAck
<1>1. TInv => NoPhantomAck
  <2> SUFFICES ASSUME TInv, NEW k \in 1..Total, acked[k] \/ k < sbase
               PROVE  k \in Held
    BY DEF NoPhantomAck
  <2>1. TypeOK /\ Known
    BY DEF TInv
  <2>2. k \in Marked
    <3>1. k < sbase => k \in 1..(sbase - 1)
      BY <2>1, FreeType, TotalAssumption
    <3> QED
      BY <2>1, <3>1 DEF Known, Marked
  <2> QED
    BY <2>1, <2>2 DEF Known, Arrived
<1> QED
  BY <1>1, Invariance, PTL

\* The receiver's buffer is the window after what it has handed over.
THEOREM SlotsAreRight ==
    ASSUME Timely
    PROVE  Spec => []BufferIsWindow
<1>1. TInv => BufferIsWindow
  <2> SUFFICES ASSUME TInv, NEW i \in 1..BufSize
               PROVE  /\ buffer[i] # R!NULL => buffer[i] = BufSize * flush_count + i
                      /\ i < rbase => buffer[i] # R!NULL
    BY DEF BufferIsWindow
  <2>1. TypeOK /\ Buffered
    BY DEF TInv
  <2>2. rbase \in Nat /\ BufSize \in Nat
    BY <2>1, StartType
  <2>3. CASE endflag
    BY <2>1, <2>2, <2>3 DEF Buffered
  <2>4. CASE ~endflag
    <3>1. i < rbase => i \in 1..(rbase - 1)
      BY <2>2
    <3> QED
      BY <2>1, <2>4, <3>1 DEF Buffered
  <2> QED
    BY <2>3, <2>4
<1> QED
  BY <1>1, Invariance, PTL

\* No program ends in an error.
THEOREM AllStayUp ==
    ASSUME Timely
    PROVE  Spec => []NobodyCrashes
<1>1. TInv => NobodyCrashes
  BY DEF TInv, Ending, NobodyCrashes
<1> QED
  BY <1>1, Invariance, PTL

\* The final segment finds the file complete.
THEOREM EndIsComplete ==
    ASSUME Timely
    PROVE  Spec => []FinMeansComplete
<1>1. TInv => FinMeansComplete
  BY DEF TInv, Buffered, FinMeansComplete
<1> QED
  BY <1>1, Invariance, PTL

------------------------------------------------------------------------------
\* The refinement.

\* What the receiver flushes comes behind what it has handed over.
LEMMA FileGrows ==
    ASSUME TypeOK, TypeOK', Receiver
    PROVE  file' = file \/ Len(file') >= Len(file)
<1>1. file \in Seq(Nat) /\ buffer \in [1..BufSize -> Nat]
  BY StartType
<1>2. ASSUME NEW buf \in [1..BufSize -> Nat], R!Flush(buf)
      PROVE  Len(file') >= Len(file)
  <2> DEFINE more == R!Filled(buf)
  <2>1. more \in Seq(Nat) /\ file' = file \o more
    BY <1>2, FilledType DEF R!Flush
  <2> HIDE DEF more
  <2>2. Len(file') = Len(file) + Len(more) /\ Len(more) \in Nat /\ Len(file) \in Nat
    BY <1>1, <2>1
  <2> QED
    BY <2>2
<1>3. CASE R!RecvInOrder
  <2>1. R!MarkSlot(R!Seg.seq) \in [1..BufSize -> Nat]
    <3>1. R!Seg.seq \in Nat
      <4>1. R!Seg \in S!Packets
        BY <1>3 DEF R!RecvInOrder, R!Take, R!Seg, TypeOK
      <4> QED
        BY <4>1, TotalAssumption DEF S!Packets
    <3> QED
      BY <1>1, <3>1 DEF R!MarkSlot
  <2> QED
    BY <1>2, <1>3, <2>1 DEF R!RecvInOrder
<1>4. CASE R!RecvFin
  BY <1>1, <1>2, <1>4 DEF R!RecvFin
<1>5. CASE R!RecvCorrupt \/ R!RecvOverBuffer \/ R!RecvOutOfOrder
  BY <1>5 DEF R!RecvCorrupt, R!RecvOverBuffer, R!RecvOutOfOrder, R!receiverVars
<1> QED
  BY <1>3, <1>4, <1>5 DEF Receiver, R!ReceiveDataPacket

\* A step delivers some segments, ends the transfer, or is none of the abstract one.
LEMMA StepRefines ==
    ASSUME TInv, TInv', [Next]_vars
    PROVE  [File!Next]_<<file, spc = "done">>
<1>1. /\ TypeOK /\ Buffered /\ Ending /\ TypeOK' /\ Buffered' /\ Ending'
  BY DEF TInv
<1>2. CASE Receiver
  <2>1. spc' = spc
    BY <1>2 DEF Receiver, sVars
  <2>2. CASE file' # file
    <3>1. file \in Seq(Nat) /\ Total \in Nat /\ Len(file) \in Nat
      BY <1>1, StartType
    <3>2. /\ Len(file) >= 0 /\ Len(file') >= Len(file) /\ Len(file') \in Nat
      BY <1>1, <1>2, <2>2, <3>1, FileGrows DEF TypeOK, R!ReceiverTypeOK
    <3>3. /\ file = [i \in 1..Len(file) |-> i] /\ file' = [i \in 1..Len(file') |-> i]
          /\ Len(file') <= Total
      <4>1. file = [i \in 1..Len(file) |-> i] /\ file' = [i \in 1..Len(file') |-> i]
        BY <1>1 DEF Buffered
      <4>2. endflag' => Len(file') = Total
        BY <1>1 DEF Buffered
      <4>3. ~endflag' => Len(file') <= Total
        BY <1>1 DEF Buffered
      <4>4. Total <= Total
        BY <3>1
      <4>5. Len(file') <= Total
        BY <4>2, <4>3, <4>4
      <4> QED
        BY <4>1, <4>5
    <3> DEFINE n == Len(file')
               p == Len(file)
    <3>4. n # p
      BY <2>2, <3>3
    <3>8. n \in Nat /\ p \in Nat /\ Total \in Nat /\ n >= p /\ n <= Total
      BY <3>1, <3>2, <3>3
    <3>5. n \in (Len(file) + 1)..Total
      <4> HIDE DEF n, p
      <4>1. n \in (p + 1)..Total
        BY <3>4, <3>8
      <4> QED
        BY <4>1 DEF p
    <3>6. file' = [i \in 1..n |-> i]
      BY <3>3
    <3> HIDE DEF n
    <3>7. \E k \in (Len(file) + 1)..Total : file' = [i \in 1..k |-> i]
      BY <3>5, <3>6
    <3> QED
      BY <2>1, <3>7 DEF File!Next, File!Deliver
  <2> QED
    BY <2>1, <2>2
<1>3. CASE Sender
  <2>1. file' = file /\ endflag' = endflag
    BY <1>3 DEF Sender, SenderTimeout, SenderDupACK, SenderNewACK, SenderFin, SenderFinack, rVars
  <2>2. CASE spc' = "done"
    <3>1. Len(file) = Total
      BY <1>1, <2>1, <2>2 DEF Ending, Buffered
    <3> QED
      BY <2>1, <2>2, <3>1 DEF File!Next, File!Finish
  <2>3. CASE spc' # "done"
    <3>1. spc # "done"
      BY <1>3, <2>3 DEF Sender, SenderTimeout, SenderDupACK, SenderNewACK, SenderFin, SenderFinack,
         S!Timeout, S!DupACK, S!NewACK, S!NullDeref, S!SendFin, S!RecvFinack, S!InLoop
    <3> QED
      BY <2>1, <2>3, <3>1
  <2> QED
    BY <2>2, <2>3
<1>4. CASE AgentStep
  BY <1>4 DEF AgentStep, Forward, ForwardAck, Drop, Corrupt, sVars, rVars
<1>5. CASE UNCHANGED vars
  BY <1>5 DEF vars, sVars, rVars
<1> QED
  BY <1>2, <1>3, <1>4, <1>5 DEF Next

\* The transport hands over the segments in order, each once, and only finishes
\* when it has handed over all of them.
THEOREM Refinement ==
    ASSUME Timely
    PROVE  Spec => Reliable
<1>1. Init => File!Init
  BY DEF Init, S!SInit, R!RInit, File!Init
<1>2. TInv /\ TInv' /\ [Next]_vars => [File!Next]_<<file, spc = "done">>
  BY StepRefines
<1>3. Spec => []TInv
  BY Invariance
<1> QED
  BY <1>1, <1>2, <1>3, PTL DEF Spec, Reliable, File!Spec

==============================================================================
