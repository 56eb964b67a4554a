----------------------------- MODULE SackSender -----------------------------
(***************************************************************************)
(* The sender of Computer-Network/hw3/hw3/sender.cpp: a SACK transport with *)
(* slow start and congestion avoidance, one timer and one UDP socket.       *)
(*                                                                         *)
(* A data segment on the wire is [seq, fin, bad, ack]: its number, whether  *)
(* it is the final segment, whether the agent corrupted it, and head.ack,   *)
(* which the sender ALSO uses as its private "this one was sacked" mark.    *)
(***************************************************************************)
EXTENDS Integers, Sequences, Selection

CONSTANTS
    Total,        \* total_segments: segments of the file
    InitThresh    \* the slow-start threshold init() sets (16 in the code)

VARIABLES
    spc,        \* where main() is: "sending", "finwait", "done" or "crashed"
    sbase,      \* base
    acked,      \* transmit_queue[k-1]->head.ack, per segment
    cwnd,       \* (int)cwnd
    frac,       \* cwnd = cwnd + frac / cwnd: increments since it last grew
    thresh, dup_ack,
    state,      \* "SLOWSTART" or "CONGESTIONAVOID"
    agentQ,     \* the agent's socket: what is sent is appended here
    senderQ     \* the sender's socket: acks not received yet

senderVars == <<spc, sbase, acked, cwnd, frac, thresh, dup_ack, state>>

Segment(k, marks) ==
    [seq |-> k, fin |-> FALSE, bad |-> FALSE, ack |-> marks[k]]

FinSegment == [seq |-> Total + 1, fin |-> TRUE, bad |-> FALSE, ack |-> FALSE]

Packets == [seq : 1..(Total + 1), fin : BOOLEAN, bad : BOOLEAN, ack : BOOLEAN]
Acks == [ackNumber : Nat, sackNumber : Nat, finack : BOOLEAN]

\* successfully_sent == total_segments: the counter counts the marks.
AllSent == \A k \in 1..Total : acked[k]

\* The segments from the base that are not sacked: the window is the first of them.
Unsacked(base, marks) == {k \in base..Total : ~marks[k]}

\* The last num positions of a window of win segments, as far as there are so many.
Fresh(num, base, marks, win) ==
    LET queue == Unsacked(base, marks)
    IN  {k \in queue : Rank(queue, k) > win - num /\ Rank(queue, k) <= win}

TransmitNew(num, base, marks, win) ==
    Selected([k \in 1..Total |-> Segment(k, marks)], Fresh(num, base, marks, win))

\* Mutant: nothing is sent again.
TransmitNothing(base, marks) == <<>>

\* The first segment of the transmit queue, whatever its mark says.
TransmitMissing(base, marks) == <<Segment(base, marks)>>

\* Mutant: the border check excludes the last segment.
MarkSACKShort(seq) == [k \in 1..Total |-> acked[k] \/ (k = seq /\ k < Total)]

MarkSACK(seq) == [k \in 1..Total |-> acked[k] \/ k = seq]

SInit ==
    /\ spc = "sending"
    /\ sbase = 1
    /\ acked = [k \in 1..Total |-> FALSE]
    /\ cwnd = 1 /\ frac = 0
    /\ thresh = InitThresh
    /\ dup_ack = 0
    /\ state = "SLOWSTART"

\* What init() puts on the wire before the loop starts.
InitialBurst == TransmitNew(1, 1, [k \in 1..Total |-> FALSE], 1)

\* main() is in its loop, past the exit test, and transmit_queue[base-1] is a
\* segment: the slots above total_segments are NULL.
InLoop == spc = "sending" /\ ~AllSent
BaseExists == sbase <= Total

\* Mutant: the threshold is not kept above 0.
ThreshAfterHalf == cwnd \div 2

ThreshAfter == IF cwnd < 4 THEN 1 ELSE cwnd \div 2

Timeout ==
    /\ InLoop /\ BaseExists
    /\ thresh' = ThreshAfter
    /\ cwnd' = 1 /\ frac' = 0
    /\ dup_ack' = 0
    /\ state' = "SLOWSTART"
    /\ agentQ' = agentQ \o TransmitMissing(sbase, acked)
    /\ UNCHANGED <<spc, sbase, acked, senderQ>>

\* dup_ack is compared with 3 only: 4 stands for every larger count.
DupACK ==
    LET a     == Head(senderQ)
        marks == MarkSACK(a.sackNumber)
        num   == IF \/ sbase + cwnd - 1 >= Total
                    \/ a.ackNumber = a.sackNumber
                 THEN 0 ELSE 1
    IN  /\ InLoop /\ BaseExists
        /\ senderQ # <<>>
        /\ a.ackNumber < sbase
        /\ senderQ' = Tail(senderQ)
        /\ dup_ack' = IF dup_ack < 4 THEN dup_ack + 1 ELSE 4
        /\ acked' = marks
        /\ agentQ' = agentQ \o TransmitNew(num, sbase, marks, cwnd)
                            \o (IF dup_ack = 2 THEN TransmitMissing(sbase, marks)
                                               ELSE <<>>)
        /\ UNCHANGED <<spc, sbase, cwnd, frac, thresh, state>>

LeavesSlowStart(win) == win >= thresh

\* The window grows by one per new ack in slow start, by 1/cwnd otherwise.
GrowWindow ==
    \/ /\ state = "SLOWSTART"
       /\ cwnd' = cwnd + 1 /\ frac' = frac
       /\ state' = IF LeavesSlowStart(cwnd + 1) THEN "CONGESTIONAVOID" ELSE state
    \/ /\ state = "CONGESTIONAVOID"
       /\ IF frac + 1 >= cwnd THEN cwnd' = cwnd + 1 /\ frac' = 0
                              ELSE cwnd' = cwnd /\ frac' = frac + 1
       /\ state' = state

\* Mutant: the base goes up one segment, marked or not.
BaseAfterOne(ack) == sbase + 1

BaseAfter(ack) == ack + 1

NewACK ==
    LET a == Head(senderQ)
    IN  /\ InLoop /\ BaseExists
        /\ senderQ # <<>>
        /\ a.ackNumber >= sbase
        /\ senderQ' = Tail(senderQ)
        /\ dup_ack' = 0
        /\ acked' = MarkSACK(a.sackNumber)
        /\ sbase' = BaseAfter(a.ackNumber)
        /\ GrowWindow
        /\ agentQ' = agentQ \o
                TransmitNew(1 + cwnd' - cwnd, sbase', acked', cwnd')
        /\ UNCHANGED <<spc, thresh>>

\* Every use of transmit_queue[base-1] when base has passed the last segment:
\* the ack comparison, and the printf of transmitMissing on a timeout.
NullDeref ==
    /\ InLoop /\ ~BaseExists
    /\ spc' = "crashed"
    /\ UNCHANGED <<sbase, acked, cwnd, frac, thresh, dup_ack, state,
                   agentQ, senderQ>>

SendFin ==
    /\ spc = "sending" /\ AllSent
    /\ spc' = "finwait"
    /\ agentQ' = Append(agentQ, FinSegment)
    /\ UNCHANGED <<sbase, acked, cwnd, frac, thresh, dup_ack, state, senderQ>>

\* The last loop of main(): every answer before the finack is thrown away.
RecvFinack ==
    /\ spc = "finwait"
    /\ senderQ # <<>>
    /\ senderQ' = Tail(senderQ)
    /\ spc' = IF Head(senderQ).finack THEN "done" ELSE spc
    /\ UNCHANGED <<sbase, acked, cwnd, frac, thresh, dup_ack, state, agentQ>>

SenderTypeOK ==
    /\ spc \in {"sending", "finwait", "done", "crashed"}
    /\ sbase \in Nat \ {0}
    /\ acked \in [1..Total -> BOOLEAN]
    /\ cwnd \in Nat \ {0} /\ frac \in 0..(cwnd - 1)
    /\ thresh \in Nat \ {0}
    /\ dup_ack \in 0..4
    /\ state \in {"SLOWSTART", "CONGESTIONAVOID"}
=============================================================================
