------------------------------ MODULE AtomicDisk ------------------------------
(***************************************************************************)
(* What the xv6 log promises the file system: system calls update a common  *)
(* view of the disk, and what survives a crash is the view at some moment   *)
(* when no system call was in progress, so each of them entirely or not at  *)
(* all ("never ... write an uncommitted system call's updates", log.c:12).  *)
(***************************************************************************)
EXTENDS Integers

CONSTANTS Blocks, Data

VARIABLES
    durable,    \* contents after a crash at this moment
    view,       \* contents the running system calls see
    active      \* system calls in progress

Init ==
    /\ durable \in [Blocks -> Data]
    /\ view = durable
    /\ active = 0

Begin == active' = active + 1 /\ UNCHANGED <<durable, view>>

Write ==
    /\ active > 0
    /\ \E b \in Blocks, v \in Data : view' = [view EXCEPT ![b] = v]
    /\ UNCHANGED <<durable, active>>

End ==
    /\ active > 0
    /\ active' = active - 1
    /\ UNCHANGED <<durable, view>>

Sync ==
    /\ active = 0
    /\ durable' = view
    /\ UNCHANGED <<view, active>>

Crash ==
    /\ view' = durable
    /\ active' = 0
    /\ UNCHANGED durable

Next == Begin \/ Write \/ End \/ Sync \/ Crash

Spec == Init /\ [][Next]_<<durable, view, active>>
===============================================================================
