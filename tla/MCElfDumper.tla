---- MODULE MCElfDumper ----
(* ElfDumper with four pages of four words, any of which may be zero but   *)
(* the first three: data in the first page is rejected.                    *)
EXTENDS ElfDumper

MCPages == 4
MCWords == 4
MCRegisters == <<9, 2>>
MCMemories == {m \in [0 .. 15 -> {0, 1}] : m[0] = 0 /\ m[1] = 0 /\ m[2] = 0}
====
