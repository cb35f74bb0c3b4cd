------------------------------ MODULE ElfDumper ------------------------------
(***************************************************************************)
(* ElfDumper of ckb-vm-debug-utils: a system call that writes the machine  *)
(* (memory, registers, program counter) as an ELF file which, when it is   *)
(* loaded and run, goes on where the dumped program was.                   *)
(*                                                                         *)
(* Addresses count the 64-bit words the dumper works with.  The first word *)
(* of page p is p * Words.  The loader (external, ckb-vm) takes the LOAD   *)
(* segments in order: it clears the pages a segment touches, copies the    *)
(* data and makes the pages executable if the segment is.                  *)
(***************************************************************************)
EXTENDS Naturals, Integers, Sequences, FiniteSetsExt, SequencesExt

CONSTANTS Pages,      (* RISCV_PAGES                                        *)
          Words,      (* words in a page                                    *)
          Gap,        (* maximum_zero_gap                                   *)
          Registers,  (* the values of the registers 1, 2, ...              *)
          A0,         (* the register the restoring code uses as its base   *)
          CodeLen,    (* words of the restoring code, without its jump      *)
          Reach,      (* a JAL reaches -Reach .. Reach - 1 (2^20 bytes)     *)
          Address,    (* registers hold addresses modulo Address (2^64)     *)
          Memories,   (* contents of the memory                             *)
          Targets     (* values of the program counter                      *)

Words64 == 0 .. Pages * Words - 1
Slots == Len(Registers)

ASSUME PagesAssumption == Pages \in Nat \ {0} /\ Words \in Nat \ {0} /\ Gap \in Nat
ASSUME RegistersAssumption == Registers \in Seq(Nat) /\ A0 \in 1 .. Slots
ASSUME CodeAssumption == CodeLen \in Nat /\ Slots + CodeLen < Words
ASSUME AddressAssumption ==
  /\ Reach \in Nat \ {0}
  /\ Address \in Nat /\ Address % (2 * Reach) = 0 /\ Pages * Words < Address
ASSUME MemoriesAssumption == Memories \subseteq [Words64 -> Nat]
ASSUME TargetsAssumption == Targets \subseteq Words64

VARIABLES memory,      (* its content ...                                   *)
          executable,  (* ... and the pages that hold code                  *)
          pc,
          page, start, (* how far the scan has come                         *)
          segments,
          phase        (* "scanning", "dumped" or "error"                   *)

vars == <<memory, executable, pc, page, start, segments, phase>>
machine == <<memory, executable, pc>>

-----------------------------------------------------------------------------
Segment(s, data, x) == [start |-> s, data |-> data, executable |-> x]

End(seg) == seg.start + Len(seg.data)
first_page(seg) == seg.start \div Words
first_page_address(seg) == first_page(seg) * Words
last_page(seg) == (End(seg) - 1) \div Words

(* The first word from a on, below end, that is zero or is not; or end.    *)
NextWord(a, end, zero) == Min({b \in a .. end : b = end \/ (memory[b] = 0) = zero})

Run(a, b) == [i \in 1 .. b - a |-> memory[a + i - 1]]

(* Mutant: code and data may share a segment.                              *)
Joins_AnyFlag(seg, s) == s - End(seg) <= Gap \/ page = last_page(seg)

(* "See if we can append to last segment".                                 *)
Joins(seg, s) ==
  /\ seg.executable = executable[page]
  /\ s - End(seg) <= Gap \/ page = last_page(seg)

(* "Fill in gap first".                                                    *)
Filled(seg, s) == seg.data \o [i \in 1 .. s - End(seg) |-> 0]

(* The segments after the run of words from s to e.                        *)
WithRun(s, e) ==
  IF segments # <<>> /\ Joins(Last(segments), s)
    THEN Append(Front(segments),
                Segment(Last(segments).start, Filled(Last(segments), s) \o Run(s, e), executable[page]))
    ELSE Append(segments, Segment(s, Run(s, e), executable[page]))

(* One turn of the loop over a page: skip zeros, then append a run.        *)
ScanRun ==
  /\ phase = "scanning" /\ page < Pages /\ start < (page + 1) * Words
  /\ LET end == (page + 1) * Words
         s == NextWord(start, end, FALSE)
         e == NextWord(s, end, TRUE)
     IN /\ start' = e
        /\ segments' = IF s < end THEN WithRun(s, e) ELSE segments
  /\ UNCHANGED <<machine, page, phase>>

ScanNextPage ==
  /\ phase = "scanning" /\ page < Pages /\ start = (page + 1) * Words
  /\ page' = page + 1
  /\ UNCHANGED <<machine, start, segments, phase>>

-----------------------------------------------------------------------------
(* The code that restores the registers, in the page below the first       *)
(* segment, and its jump to the program counter.                           *)

register_buffer_start == first_page_address(segments[1]) - Words
register_entrypoint == register_buffer_start + Slots
jump_instruction_pc == register_entrypoint + CodeLen

jump_offset(target) == (target - jump_instruction_pc) % Address

(* The bits above the 21 of a JAL are all clear or all set.                *)
Masked(offset) == offset \div (2 * Reach) \in {0, Address \div (2 * Reach) - 1}

(* The immediate of the JAL: the low 21 bits.                              *)
Encoded(offset) == offset % (2 * Reach)

(* The registers in order, the code (its first word stands for the lot),   *)
(* and the jump.                                                           *)
RegisterBuffer(target) ==
  Registers \o [i \in 1 .. CodeLen |-> 1] \o <<Encoded(jump_offset(target))>>

(* There must be room for the code, and the jump must be encodable.        *)
Dumpable(target) ==
  /\ segments # <<>> /\ segments[1].start > Words
  /\ Masked(jump_offset(target))

Dump(target) ==
  /\ phase = "scanning" /\ page = Pages
  /\ Dumpable(target)
  /\ pc' = target
  /\ segments' = Append(segments, Segment(register_buffer_start, RegisterBuffer(target), TRUE))
  /\ phase' = "dumped"
  /\ UNCHANGED <<memory, executable, page, start>>

(* Not dumpable, or the file cannot be written.                            *)
DumpFails(target) ==
  /\ phase = "scanning" /\ page = Pages
  /\ pc' = target
  /\ phase' = "error"
  /\ UNCHANGED <<memory, executable, page, start, segments>>

Init ==
  /\ memory \in Memories
  /\ executable \in [0 .. Pages - 1 -> BOOLEAN]
  /\ pc = 0
  /\ page = 0 /\ start = 0
  /\ segments = <<>>
  /\ phase = "scanning"

Over == phase # "scanning" /\ UNCHANGED vars

(* The program counter matters only when the scan is over: it is chosen    *)
(* then.                                                                   *)
Next ==
  \/ ScanRun
  \/ ScanNextPage
  \/ \E target \in Targets : Dump(target) \/ DumpFails(target)
  \/ Over

Spec == Init /\ [][Next]_vars

-----------------------------------------------------------------------------
(* Loading and running the file.                                           *)

Touches(seg, p) == p \in first_page(seg) .. last_page(seg)

(* The last segment that touches the page decides.                         *)
Owner(p) == LET T == {i \in DOMAIN segments : Touches(segments[i], p)}
            IN IF T = {} THEN {} ELSE {segments[Max(T)]}

LoadedWord(a) ==
  LET in == {seg \in Owner(a \div Words) : seg.start <= a /\ a < End(seg)}
  IN IF in = {} THEN 0 ELSE LET seg == CHOOSE seg \in in : TRUE IN seg.data[a - seg.start + 1]

(* The entry point of the file is the restoring code.                      *)
RestoreSegment == Last(segments)
Entrypoint == RestoreSegment.start + Slots

(* auipc a0, 0; addi a0, a0, -256: one word below the first slot.          *)
Base == Entrypoint - (Slots + 1)

(* Mutant: the registers are loaded in ascending order.                    *)
LoadOrder_Ascending == [i \in 1 .. Slots |-> i]

(* The base register is loaded last.                                       *)
LoadOrder ==
  [k \in 1 .. Slots |-> IF k = Slots THEN A0 ELSE IF k < A0 THEN k ELSE k + 1]

(* One load, i words above what the base register then holds.              *)
LoadRegister(regs, i) ==
  [regs EXCEPT ![i] = IF regs[A0] + i \in Words64 THEN LoadedWord(regs[A0] + i) ELSE -1]

(* The registers after the first k loads.                                  *)
RegistersAfter[k \in 0 .. Slots] ==
  IF k = 0
    THEN [i \in 1 .. Slots |-> IF i = A0 THEN Base ELSE -1]
    ELSE LoadRegister(RegistersAfter[k - 1], LoadOrder[k])

RestoredRegisters == RegistersAfter[Slots]

(* Where the JAL leads: its immediate is a signed number of 21 bits.       *)
Jal == Last(RestoreSegment.data)
JumpPc == Entrypoint + CodeLen
JumpTarget == JumpPc + (IF Jal < Reach THEN Jal ELSE Jal - 2 * Reach)

-----------------------------------------------------------------------------
(* Properties.                                                             *)

SegmentType == [start : Words64, data : Seq(Nat), executable : BOOLEAN]

TypeOK ==
  /\ memory \in [Words64 -> Nat]
  /\ executable \in [0 .. Pages - 1 -> BOOLEAN]
  /\ pc \in Words64
  /\ page \in 0 .. Pages /\ start \in page * Words .. (page + 1) * Words
  /\ segments \in Seq(SegmentType)
  /\ phase \in {"scanning", "dumped", "error"}

(* Loading the file gives back every word of the memory, and every page    *)
(* that holds anything is executable if and only if it was (its other      *)
(* flags are not in the file); only the page of the restoring code         *)
(* differs, and that was empty.                                            *)
RestoresMemory ==
  phase = "dumped" =>
    \A a \in Words64 :
      IF a \div Words = first_page(RestoreSegment)
        THEN memory[a] = 0
        ELSE /\ LoadedWord(a) = memory[a]
             /\ memory[a] # 0 => \A seg \in Owner(a \div Words) : seg.executable = executable[a \div Words]

(* Running the restoring code gives back every register, although it needs *)
(* one of them to find the others, and leads back to the program as long   *)
(* as that is within the reach of a JAL.                                   *)
RestoresExecution ==
  phase = "dumped" =>
    /\ RestoredRegisters = Registers
    /\ pc - JumpPc \in -Reach .. Reach - 1 => JumpTarget = pc
=============================================================================
