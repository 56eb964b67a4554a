--------------------------- MODULE MCSackTransport ---------------------------
(* Instances of SackTransport small enough for TLC. *)
EXTENDS SackTransport
==============================================================================
