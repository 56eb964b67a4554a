---------------------------- MODULE MCSignalThreads ----------------------------
(* Instances of SignalThreads for TLC: the program's three threads. *)
EXTENDS SignalThreads

MCOrder == <<"fibonacci", "collatz", "max_subarray">>
================================================================================
