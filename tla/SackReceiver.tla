---------------------------- MODULE SackReceiver ----------------------------
(***************************************************************************)
(* The receiver of Computer-Network/hw3/hw3/receiver.cpp: a buffer of       *)
(* BufSize slots that is flushed to the file when it is full or when the    *)
(* final segment arrives.  Payloads are their segment numbers.              *)
(***************************************************************************)
EXTENDS Integers, Sequences, Selection

CONSTANTS BufSize    \* MAX_SEG_BUF_SIZE

VARIABLES
    buffer,       \* buffer[i]: the number of the segment in slot i, or NULL
    rbase,        \* base: first unsacked slot, 1..BufSize+1
    flush_count,
    file,         \* file_arr: the numbers of the segments delivered, in order
    endflag,
    receiverQ,    \* the receiver's socket
    agentQ        \* the agent's socket, where the answers go

receiverVars == <<buffer, rbase, flush_count, file, endflag>>

NULL == 0

RInit ==
    /\ buffer = [i \in 1..BufSize |-> NULL]
    /\ rbase = 1
    /\ flush_count = 0
    /\ file = <<>>
    /\ endflag = FALSE

Cumulative == BufSize * flush_count + rbase - 1
Slot(seq) == ((seq - 1) % BufSize) + 1
\* Mutant: off by one.
IsOverBufferLate(seq) == seq > BufSize * (flush_count + 1) + 1
IsOverBuffer(seq) == seq > BufSize * (flush_count + 1)
\* Mutant: looks at the last slot only.
IsBufferFullLast(buf) == buf[BufSize] # NULL
IsBufferFull(buf) == \A i \in 1..BufSize : buf[i] # NULL

\* markSACK writes whatever number it is given, in or out of the window.
MarkSlot(seq) == [buffer EXCEPT ![Slot(seq)] = seq]

\* The first empty slot above the base, which the caller is about to fill.
UpdateBase ==
    LET empty == {i \in (rbase + 1)..BufSize : buffer[i] = NULL}
    IN  IF empty = {} THEN BufSize + 1
        ELSE CHOOSE i \in empty : \A j \in empty : i <= j

\* Mutant: the loop stops before the last slot.
FilledShort(buf) == Selected(buf, {i \in 1..(BufSize - 1) : buf[i] # NULL})

Filled(buf) == Selected(buf, {i \in 1..BufSize : buf[i] # NULL})

Flush(buf) ==
    /\ file' = file \o Filled(buf)
    /\ buffer' = [i \in 1..BufSize |-> NULL]
    /\ flush_count' = flush_count + 1
    /\ rbase' = 1

SendSACK(ack, sack) ==
    agentQ' = Append(agentQ, [ackNumber |-> ack, sackNumber |-> sack,
                              finack |-> FALSE])

Take == /\ ~endflag
        /\ receiverQ # <<>>
        /\ receiverQ' = Tail(receiverQ)
Seg == Head(receiverQ)
InOrder == Seg.seq = Cumulative + 1

RecvCorrupt ==
    /\ Take
    /\ Seg.bad /\ ~Seg.fin
    /\ SendSACK(Cumulative, Cumulative)
    /\ UNCHANGED receiverVars

RecvInOrder ==
    /\ Take
    /\ ~Seg.bad /\ ~Seg.fin /\ InOrder
    /\ SendSACK(BufSize * flush_count + UpdateBase - 1, Seg.seq)
    /\ IF IsBufferFull(MarkSlot(Seg.seq))
       THEN Flush(MarkSlot(Seg.seq))
       ELSE /\ buffer' = MarkSlot(Seg.seq)
            /\ rbase' = UpdateBase
            /\ UNCHANGED <<flush_count, file>>
    /\ UNCHANGED endflag

RecvFin ==
    /\ Take
    /\ Seg.fin /\ InOrder
    /\ agentQ' = Append(agentQ, [ackNumber |-> 0, sackNumber |-> 0,
                                 finack |-> TRUE])
    /\ endflag' = TRUE
    /\ Flush(buffer)

\* Mutant: a segment beyond the buffer is dropped but sacked.
RecvOverBufferSacked ==
    /\ Take
    /\ ~(Seg.bad /\ ~Seg.fin) /\ ~InOrder
    /\ IsOverBuffer(Seg.seq)
    /\ SendSACK(Cumulative, Seg.seq)
    /\ UNCHANGED receiverVars

RecvOverBuffer ==
    /\ Take
    /\ ~(Seg.bad /\ ~Seg.fin) /\ ~InOrder
    /\ IsOverBuffer(Seg.seq)
    /\ SendSACK(Cumulative, Cumulative)
    /\ UNCHANGED receiverVars

RecvOutOfOrder ==
    /\ Take
    /\ ~(Seg.bad /\ ~Seg.fin) /\ ~InOrder
    /\ ~IsOverBuffer(Seg.seq)
    /\ buffer' = MarkSlot(Seg.seq)
    /\ SendSACK(Cumulative, Seg.seq)
    /\ UNCHANGED <<rbase, flush_count, file, endflag>>

ReceiveDataPacket ==
    \/ RecvCorrupt \/ RecvInOrder \/ RecvFin
    \/ RecvOverBuffer \/ RecvOutOfOrder

ReceiverTypeOK ==
    /\ buffer \in [1..BufSize -> Nat]
    /\ rbase \in 1..(BufSize + 1)
    /\ flush_count \in Nat
    /\ file \in Seq(Nat)
    /\ endflag \in BOOLEAN
=============================================================================
