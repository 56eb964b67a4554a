----------------------------- MODULE ReliableFile -----------------------------
(***************************************************************************)
(* What the transport of Computer-Network/hw3 promises: the receiver hands  *)
(* the segments 1, 2, ..., Total to the application in order, each once, a  *)
(* few at a time, and the sender may finish only when all have been handed  *)
(* over.                                                                    *)
(***************************************************************************)
EXTENDS Integers, Sequences

CONSTANT Total

VARIABLES file, finished

Init == file = <<>> /\ finished = FALSE

Deliver ==
    /\ \E n \in (Len(file) + 1)..Total : file' = [i \in 1..n |-> i]
    /\ UNCHANGED finished

Finish ==
    /\ Len(file) = Total
    /\ finished' = TRUE
    /\ UNCHANGED file

Next == Deliver \/ Finish

Spec == Init /\ [][Next]_<<file, finished>>
===============================================================================
