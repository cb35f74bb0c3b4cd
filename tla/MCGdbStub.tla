------------------------------ MODULE MCGdbStub ------------------------------
(* Instances of GdbStub for TLC: the configurations differ in their bounds *)
(* and in what they check.                                                 *)
EXTENDS GdbStub
=============================================================================
