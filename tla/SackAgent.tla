------------------------------ MODULE SackAgent ------------------------------
(***************************************************************************)
(* The agent of Computer-Network/hw3/hw3/agent.cpp, through which sender    *)
(* and receiver talk.  One UDP socket, so one queue, for both directions:   *)
(* data segments are dropped, corrupted or forwarded, the final segment and *)
(* the answers of the receiver are always forwarded.                        *)
(***************************************************************************)
EXTENDS Integers, Sequences

VARIABLES
    agent,       \* "up", "finished" (after the finack) or "aborted" (exit(1))
    agentQ, receiverQ, senderQ

FromReceiver(m) == "finack" \in DOMAIN m

GInit == agent = "up"

GTake == /\ agent = "up"
         /\ agentQ # <<>>
         /\ agentQ' = Tail(agentQ)
Msg == Head(agentQ)
IsData == ~FromReceiver(Msg) /\ ~Msg.ack

\* A segment of the sender goes on unchanged; with head.ack set it is taken for
\* an answer ("Receive ack segment from sender") and the agent exits.
AgentForward ==
    /\ GTake
    /\ ~FromReceiver(Msg)
    /\ agent' = IF Msg.ack THEN "aborted" ELSE agent
    /\ receiverQ' = IF Msg.ack THEN receiverQ ELSE Append(receiverQ, Msg)
    /\ UNCHANGED senderQ

AgentDrop ==
    /\ GTake
    /\ IsData /\ ~Msg.fin
    /\ UNCHANGED <<agent, receiverQ, senderQ>>

AgentCorrupt ==
    /\ GTake
    /\ IsData /\ ~Msg.fin
    /\ receiverQ' = Append(receiverQ, [Msg EXCEPT !.bad = TRUE])
    /\ UNCHANGED <<agent, senderQ>>

AgentForwardAck ==
    /\ GTake
    /\ FromReceiver(Msg)
    /\ senderQ' = Append(senderQ, Msg)
    /\ agent' = IF Msg.finack THEN "finished" ELSE agent
    /\ UNCHANGED receiverQ

AgentTypeOK == agent \in {"up", "finished", "aborted"}
=============================================================================
