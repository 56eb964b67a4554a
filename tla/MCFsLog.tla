------------------------------- MODULE MCFsLog -------------------------------
(* Instances of FsLog for TLC: processes and blocks are interchangeable. *)
EXTENDS FsLogInvariant, TLC

CONSTANTS p1, p2, p3, b1, b2, b3, d1, d2
Sym2 == Permutations({p1, p2}) \cup Permutations({b1, b2, b3})
==============================================================================
