------------------------------- MODULE BoundedFifo -------------------------------
(***************************************************************************)
(* What a pipe promises (Operating-System/mp4, kernel/pipe.c): bytes come   *)
(* out once, in the order they went in, at most Size of them wait, nothing  *)
(* goes in once its read end is closed, and an end once closed stays so     *)
(* until the pipe is gone.                                                  *)
(***************************************************************************)
EXTENDS Integers, Sequences

CONSTANTS Byte, Size

VARIABLES queue, open   \* open: the ends that are open

Init == queue = <<>> /\ open = {}

Create ==
    /\ open = {} /\ open' = {"r", "w"}
    /\ queue = <<>> /\ UNCHANGED queue

Put(b) ==
    /\ open = {"r", "w"} /\ Len(queue) < Size
    /\ queue' = Append(queue, b) /\ UNCHANGED open

Get(n) ==
    /\ "r" \in open /\ n \in 1..Len(queue)
    /\ queue' = SubSeq(queue, n + 1, Len(queue)) /\ UNCHANGED open

Close(e) ==
    /\ e \in open /\ open' = open \ {e}
    /\ IF open' = {} THEN queue' = <<>> ELSE UNCHANGED queue

Next ==
    \/ Create
    \/ \E b \in Byte : Put(b)
    \/ \E n \in 1..Size : Get(n)
    \/ \E e \in {"r", "w"} : Close(e)

Spec == Init /\ [][Next]_<<queue, open>>
================================================================================
