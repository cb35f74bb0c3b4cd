-------------------------------- MODULE Sums ---------------------------------
(***************************************************************************)
(* The sum of a sequence of numbers, as a function of how many of them     *)
(* have been added.                                                        *)
(***************************************************************************)
EXTENDS Naturals, Sequences

PartialSums(s) ==
  LET p[i \in 0 .. Len(s)] == IF i = 0 THEN 0 ELSE p[i - 1] + s[i] IN p

Sum(s) == PartialSums(s)[Len(s)]
=============================================================================
