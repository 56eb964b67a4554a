----------------------------- MODULE SackInvariant -----------------------------
(***************************************************************************)
(* The inductive invariant of SackTransport while its timer never fires     *)
(* before what was sent has been answered or lost (Spurious = FALSE).       *)
(* agentQ carries both directions, so the way to the sender is senderQ and  *)
(* then agentQ, the way to the receiver receiverQ and then agentQ.          *)
(***************************************************************************)
EXTENDS SackTransport, Selection

ToSender == senderQ \o agentQ
ToReceiver == receiverQ \o agentQ

\* The messages of a kind on a way, and which is before which.
Seen(way, kind) == Entries(way) \cap kind
Order(way, kind) == Before(way) \cap (kind \X kind)

\* What the receiver sent and is on its way, and which is before which.
Replies == Seen(ToSender, S!Acks)
ReplyOrder == Order(ToSender, S!Acks)

\* The same without finacks.
Answers == {a \in Replies : ~a.finack}
AnswerOrder == {x \in ReplyOrder : ~x[1].finack /\ ~x[2].finack}

\* Segments on their way, and the numbers of which is before which.
Segments == Seen(ToReceiver, S!Packets)
SegmentOrder == Order(ToReceiver, S!Packets)
OnWire == {m.seq : m \in Segments} \ {Total + 1}
WireOrder == {<<x[1].seq, x[2].seq>> : x \in SegmentOrder}

\* What the sender has marked, what it has not, and the first of that.
Marked == {k \in 1..Total : acked[k]}
Free == {k \in 1..Total : ~acked[k]}
Window == {k \in Free : Rank(Free, k) <= cwnd}

\* What the receiver has, and up to where nothing is missing.
Arrived == Held \ {R!NULL}
Top == IF endflag THEN Total ELSE R!Cumulative

------------------------------------------------------------------------------
\* The file is what was flushed, the buffer the window after it.
Buffered ==
    /\ file = [i \in 1..Len(file) |-> i]
    /\ endflag => /\ Len(file) = Total /\ rbase = 1
                  /\ \A i \in 1..BufSize : buffer[i] = R!NULL
    /\ ~endflag =>
          /\ Len(file) = BufSize * flush_count /\ Len(file) <= Total
          /\ rbase \in 1..BufSize /\ buffer[rbase] = R!NULL
          /\ \A i \in 1..BufSize : buffer[i] # R!NULL =>
                buffer[i] = BufSize * flush_count + i /\ buffer[i] <= Total
          /\ \A i \in 1..(rbase - 1) : buffer[i] # R!NULL

\* The final segment is sent when all others are marked, and nothing is after it.
Ending ==
    /\ \A m \in Segments : ~m.ack /\ (m.fin <=> m.seq = Total + 1)
    /\ (\E m \in Segments : m.fin) \/ endflag => spc # "sending"
    /\ spc # "sending" => S!AllSent
    /\ (\E a \in Replies : a.finack) \/ spc = "done" => endflag
    /\ spc # "crashed" /\ agent # "aborted"

\* The sender's marks and the answers on their way are what the receiver has; its
\* base is where an answer said that something is missing.
Known ==
    /\ Arrived = Marked \cup ({a.sackNumber : a \in Answers} \ {0})
    /\ 1..(sbase - 1) \subseteq Marked
    /\ sbase - 1 <= Top /\ sbase \notin Marked
    /\ sbase - 1 = Top \/ \E a \in Answers : a.ackNumber = Top

\* One answer: a segment just marked for the first time, or the base again.
AnswerTrue ==
    \A a \in Answers :
        /\ sbase - 1 <= a.ackNumber /\ a.ackNumber <= Top
        /\ a.ackNumber + 1 \notin Marked /\ a.sackNumber # a.ackNumber + 1
        /\ a.sackNumber \in Marked \cup {0} => a.ackNumber = a.sackNumber

\* Two answers: the base never goes back, and what one has acknowledged is not
\* marked by a later one.
AnswersGrow ==
    \A x \in AnswerOrder :
        /\ x[1].ackNumber <= x[2].ackNumber
        /\ x[1].sackNumber # x[2].ackNumber + 1
        /\ \/ x[2].sackNumber > x[1].ackNumber
           \/ x[2].sackNumber = x[2].ackNumber /\ x[2].ackNumber = x[1].ackNumber
        /\ x[1].sackNumber = x[2].sackNumber => x[2].ackNumber = x[2].sackNumber

\* The answer that raised the base is on its way with the segment that raised it.
Raises(b) ==
    /\ b.sackNumber <= b.ackNumber /\ b.sackNumber \notin Marked \cup {0}
    /\ \A x \in Answers : x.sackNumber = b.sackNumber => x.ackNumber >= b.ackNumber

Raised ==
    \A a \in Answers :
        a.ackNumber < sbase \/ \E b \in Answers : b.ackNumber = a.ackNumber /\ Raises(b)

\* What an answer acknowledges with another segment than it marks was marked before.
MarkedBefore ==
    \A a \in Answers :
        a.ackNumber # a.sackNumber =>
            \/ a.ackNumber \in Marked \cup {0}
            \/ \E b \in Answers : b.sackNumber = a.ackNumber /\ <<b, a>> \in AnswerOrder

\* On their way are segments of the window that have not arrived, each once and in
\* order, but for the one at the base when it was sent again.
Retransmitted(k) == k = sbase /\ dup_ack >= 3

InWindow ==
    /\ OnWire \cap Arrived = {}
    /\ OnWire \cup (Arrived \ Marked) \subseteq Window

InSequence ==
    \A x \in WireOrder :
        x[1] < x[2] \/ (Retransmitted(x[2]) /\ x[1] # x[2])

\* The receiver has answered twice for want of segment c + 1.
Duplicate(c) ==
    \/ \E x \in AnswerOrder : x[1].ackNumber = c /\ x[2].ackNumber = c
    \/ sbase = c + 1 /\ (dup_ack > 0 \/ \E a \in Answers : a.ackNumber = c)

\* It has only done so for segments that were lost.
LostBefore ==
    \A k \in OnWire \cup Arrived : Retransmitted(k) \/ ~Duplicate(k - 1)

\* It has only done so for segments that had been sent.
SentBefore ==
    \A c \in 0..(Total - 1) : Duplicate(c) => c + 1 \in Marked \cup Window

TInv ==
    /\ TypeOK /\ Buffered /\ Ending /\ Known /\ AnswerTrue /\ AnswersGrow /\ Raised
    /\ MarkedBefore /\ InWindow /\ InSequence /\ LostBefore /\ SentBefore
================================================================================
