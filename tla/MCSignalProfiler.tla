--------------------------- MODULE MCSignalProfiler --------------------------
(* Instances of SignalProfiler for TLC: threads are interchangeable.       *)
EXTENDS SignalProfiler, TLC

Symmetry == Permutations(Threads)

(* With a second of two microseconds: a frequency the timer can have, one  *)
(* too many, one that setitimer refuses, and zero.                         *)
MCFrequencies == {1, 3, -1, 0}
=============================================================================
