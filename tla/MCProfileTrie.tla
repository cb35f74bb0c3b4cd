---------------------------- MODULE MCProfileTrie ----------------------------
(* Instances of ProfileTrie for TLC.                                       *)
EXTENDS ProfileTrie
=============================================================================
