---------------------------- MODULE SackTransport ----------------------------
(***************************************************************************)
(* The three programs of Computer-Network/hw3 together: sender.cpp,         *)
(* agent.cpp and receiver.cpp over their UDP sockets.                       *)
(***************************************************************************)
EXTENDS Integers, Sequences

CONSTANTS
    Total, InitThresh, BufSize,
    Spurious,      \* may the timer fire while messages are still on their way?
    MaxInFlight    \* bound: no timeout while this many messages are queued

ASSUME TotalAssumption == Total \in Nat \ {0}
ASSUME ThreshAssumption == InitThresh \in Nat \ {0}
ASSUME BufAssumption == BufSize \in Nat \ {0}
ASSUME SpuriousAssumption == Spurious \in BOOLEAN
ASSUME MaxInFlightAssumption == MaxInFlight \in Nat \ {0}

VARIABLES
    spc, sbase, acked, cwnd, frac, thresh, dup_ack, state,
    buffer, rbase, flush_count, file, endflag,
    agent, agentQ, receiverQ, senderQ

S == INSTANCE SackSender
R == INSTANCE SackReceiver
G == INSTANCE SackAgent

sVars == <<spc, sbase, acked, cwnd, frac, thresh, dup_ack, state>>
rVars == <<buffer, rbase, flush_count, file, endflag>>
vars == <<sVars, rVars, agent, agentQ, receiverQ, senderQ>>

Init ==
    /\ S!SInit /\ R!RInit /\ G!GInit
    /\ agentQ = S!InitialBurst
    /\ receiverQ = <<>>
    /\ senderQ = <<>>

InFlight == Len(agentQ) + Len(receiverQ) + Len(senderQ)

\* The timer is 1000 ms and a round trip on one host a fraction of one, so it
\* fires when everything sent has been answered or lost; it is Spurious when a
\* message was delayed that long.
SenderTimeout ==
    /\ Spurious \/ InFlight = 0
    /\ InFlight < MaxInFlight
    /\ IF S!BaseExists THEN S!Timeout ELSE S!NullDeref
    /\ UNCHANGED <<rVars, agent, receiverQ>>

SenderDupACK == S!DupACK /\ UNCHANGED <<rVars, agent, receiverQ>>

\* Past the last segment there is nothing to compare the answer with.
SenderNewACK ==
    /\ IF S!BaseExists \/ senderQ = <<>> THEN S!NewACK ELSE S!NullDeref
    /\ UNCHANGED <<rVars, agent, receiverQ>>

SenderFin == S!SendFin /\ UNCHANGED <<rVars, agent, receiverQ>>
SenderFinack == S!RecvFinack /\ UNCHANGED <<rVars, agent, receiverQ>>

Sender ==
    \/ SenderTimeout \/ SenderDupACK \/ SenderNewACK
    \/ SenderFin \/ SenderFinack

Receiver == R!ReceiveDataPacket /\ UNCHANGED <<sVars, agent, senderQ>>

Forward == G!AgentForward /\ UNCHANGED <<sVars, rVars>>
ForwardAck == G!AgentForwardAck /\ UNCHANGED <<sVars, rVars>>
Drop == G!AgentDrop /\ UNCHANGED <<sVars, rVars>>
Corrupt == G!AgentCorrupt /\ UNCHANGED <<sVars, rVars>>

AgentStep == Forward \/ ForwardAck \/ Drop \/ Corrupt

Next == Sender \/ Receiver \/ AgentStep

Spec == Init /\ [][Next]_vars

\* Each program keeps running while it has something to do, and the agent,
\* whose error rate is below 1, forwards the segment at the base in the end if
\* it is offered again and again.
Fairness ==
    /\ WF_vars(Sender)
    /\ WF_vars(Receiver)
    /\ WF_vars(AgentStep)
    /\ SF_vars(Forward /\ Head(agentQ).seq = sbase)

FairSpec == Spec /\ Fairness

------------------------------------------------------------------------------
\* The type invariant of the three programs and the three queues.
TypeOK ==
    /\ S!SenderTypeOK /\ R!ReceiverTypeOK /\ G!AgentTypeOK
    /\ agentQ \in Seq(S!Packets \cup S!Acks)
    /\ receiverQ \in Seq(S!Packets)
    /\ senderQ \in Seq(S!Acks)

\* Segments the receiver holds: handed over, or in a slot of the buffer.
Held == {file[i] : i \in 1..Len(file)} \cup {buffer[i] : i \in 1..BufSize}

\* The sender never believes in a segment the receiver does not hold: neither
\* by a selective mark nor by the cumulative base.
NoPhantomAck ==
    \A k \in 1..Total : (acked[k] \/ k < sbase) => k \in Held

\* Every slot in use holds the segment of the current window that belongs in
\* it, and the slots below the base are all in use.
BufferIsWindow ==
    \A i \in 1..BufSize :
        /\ buffer[i] # R!NULL => buffer[i] = BufSize * flush_count + i
        /\ i < rbase => buffer[i] # R!NULL

\* No program ends in an error: the sender never uses transmit_queue[base-1] past
\* the last segment, and sends no segment with head.ack set, which the agent takes
\* for an answer ("Receive ack segment from sender").
NobodyCrashes == spc # "crashed" /\ agent # "aborted"

\* The final segment ends the transfer with the complete file: isAllReceived
\* ("True if every packet is received ... when you receive FIN, no matter what").
FinMeansComplete == endflag => file = [i \in 1..Total |-> i]

\* The detailed protocol implements the abstract transfer.
File == INSTANCE ReliableFile WITH finished <- (spc = "done")
Reliable == File!Spec

\* The sender gets its finack in the end.
Terminates == <>(spc = "done")
==============================================================================
