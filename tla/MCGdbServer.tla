----------------------------- MODULE MCGdbServer -----------------------------
(* Instances of GdbServer for TLC.                                         *)
EXTENDS GdbServer

Region(a, n) == [addr |-> a, n_bytes |-> n]

(* Two overlapping regions, and one that reaches past the end of memory.   *)
MCRegions == {Region(0, 1), Region(0, 2), Region(1, 2)}
=============================================================================
