----------------------------- MODULE MachineSget -----------------------------
(***************************************************************************)
(* machine_sget of ckb-debugger/src/main.rs: before a debugger is attached *)
(* the script and the scripts it spawns are executed up to the N-th exec   *)
(* or spawn system call (--gdb-specify-depth), with a stack of callers     *)
(* kept by hand.                                                           *)
(*                                                                         *)
(* Scripts are numbered in the order in which they start, the first is 0.  *)
(* What a script does is external: any instruction, any system call.  The  *)
(* system call spawn (external, ckb-script) runs the child under the       *)
(* caller's remaining cycles and suspends it when they are used up; here   *)
(* nothing remains, so it is suspended before its first instruction.       *)
(***************************************************************************)
EXTENDS Naturals, Integers, Sequences, FiniteSetsExt, SequencesExt, Sums

CONSTANTS Depth,     (* gdb-specify-depth                                   *)
          MaxCycles, (* max-cycles                                          *)
          Ecall,     (* cycles of an ECALL (500)                            *)
          Costs,     (* cycles of other instructions                        *)
          Word       (* cycles are counted modulo Word (2^64)               *)

ASSUME DepthAssumption == Depth \in Nat
ASSUME CyclesAssumption ==
  /\ MaxCycles \in Nat /\ Ecall \in Nat \ {0} /\ Word \in Nat
  /\ Ecall <= MaxCycles /\ 2 * MaxCycles < Word
  /\ Costs \subseteq 1 .. Ecall

VARIABLES phase,        (* "searching", "attached", "error" or "panicked"   *)
          specify,
          machine,      (* the machine that runs                            *)
          machine_vec,  (* its callers, the first script first              *)
          spawn_data,   (* of the last spawn: the script it started         *)
          newest,       (* the script started last                          *)
          failed,       (* an exec has returned an error to its script      *)
          answered      (* the last spawn answered: whose, with whose data  *)

vars == <<phase, specify, machine, machine_vec, spawn_data, newest, failed, answered>>
ghosts == <<newest, failed, answered>>

(* spawn and caller tell which script a machine was spawned for, and by    *)
(* which; exec changes neither.                                            *)
Machine(n, spawn, caller, cycles, max) ==
  [script |-> n, spawn |-> spawn, caller |-> caller, cycles |-> cycles, max |-> max,
   running |-> TRUE]

None == -1
Unanswered == [spawn |-> None, data |-> None]

-----------------------------------------------------------------------------
(* machine.step: the cycles are added, and must not exceed the limit,      *)
(* before the instruction is executed.                                     *)
Affords(c) == machine.cycles + c <= machine.max

Stepped(c) == [machine EXCEPT !.cycles = @ + c]

Running == phase = "searching" /\ specify # 0 /\ machine.running

(* Any instruction but the two system calls.                               *)
Step(c) ==
  /\ Running
  /\ Affords(c)
  /\ machine' = Stepped(c)
  /\ UNCHANGED <<phase, specify, machine_vec, spawn_data, newest, failed, answered>>

(* The system call exit.                                                   *)
Exit ==
  /\ Running
  /\ Affords(Ecall)
  /\ machine' = [Stepped(Ecall) EXCEPT !.running = FALSE]
  /\ UNCHANGED <<phase, specify, machine_vec, spawn_data, newest, failed, answered>>

(* A step that fails, for want of cycles or any other reason.              *)
Fails ==
  /\ Running
  /\ phase' = "error"
  /\ UNCHANGED <<specify, machine, machine_vec, spawn_data, ghosts>>

(* Mutant: only the calls of the first script count.                       *)
Counted_FirstOnly == IF machine_vec = <<>> THEN specify - 1 ELSE specify

Counted == specify - 1

Attach == phase' = IF specify' = 0 THEN "attached" ELSE phase

(* exec replaces the script, or returns an error to it; either way it is   *)
(* counted.                                                                *)
Exec(ok) ==
  /\ Running
  /\ Affords(Ecall)
  /\ machine' = IF ok THEN [Stepped(Ecall) EXCEPT !.script = newest + 1] ELSE Stepped(Ecall)
  /\ newest' = IF ok THEN newest + 1 ELSE newest
  /\ failed' = (failed \/ ~ok)
  /\ specify' = Counted
  /\ Attach
  /\ UNCHANGED <<machine_vec, spawn_data, answered>>

(* Mutant: the child may use the cycles of the system call once more.      *)
CyclesDiff_NoEcall == (machine.max - machine.cycles) % Word

(* The child's budget.  u64 subtraction wraps in a release build.          *)
CyclesDiff == (machine.max - Ecall - machine.cycles) % Word

Caller == [machine EXCEPT !.cycles = @ + Ecall]

(* spawn: the caller waits in machine_vec and the child runs.  The cycles  *)
(* are set so that the system call is always affordable ...                *)
Spawn ==
  /\ Running
  /\ machine.max >= Ecall
  /\ machine_vec' = Append(machine_vec, Caller)
  /\ machine' = Machine(newest + 1, newest + 1, machine.script, 0, CyclesDiff)
  /\ spawn_data' = newest + 1
  /\ newest' = newest + 1
  /\ specify' = Counted
  /\ Attach
  /\ UNCHANGED <<failed, answered>>

(* ... unless the limit is below an ECALL (the sum overflows), or spawn    *)
(* returns an error: then there is no suspended machine to unwrap.         *)
SpawnPanics ==
  /\ Running
  /\ phase' = "panicked"
  /\ UNCHANGED <<specify, machine, machine_vec, spawn_data, ghosts>>

(* Mutant: the callers are a queue.                                        *)
Popped_First == [resumed |-> Head(machine_vec), rest |-> Tail(machine_vec)]

(* Mutant: the caller is looked at, not popped.                            *)
Popped_Kept == [resumed |-> Last(machine_vec), rest |-> machine_vec]

(* machine_vec.pop()                                                       *)
Popped == [resumed |-> Last(machine_vec), rest |-> Front(machine_vec)]

(* A child has exited: its caller goes on, and update_caller_machine       *)
(* writes the answer where spawn_data says; no cycles are added.           *)
Return ==
  /\ phase = "searching" /\ specify # 0 /\ ~machine.running
  /\ machine_vec # <<>>
  /\ machine' = Popped.resumed
  /\ machine_vec' = Popped.rest
  /\ answered' = [spawn |-> machine.spawn, data |-> spawn_data]
  /\ UNCHANGED <<phase, specify, spawn_data, newest, failed>>

(* The answer does not fit into the caller's memory at that place, or the  *)
(* first script has exited and there is no caller: unwrap panics.          *)
ReturnPanics ==
  /\ phase = "searching" /\ specify # 0 /\ ~machine.running
  /\ phase' = "panicked"
  /\ UNCHANGED <<specify, machine, machine_vec, spawn_data, ghosts>>

Init ==
  /\ specify = Depth
  /\ phase = IF Depth = 0 THEN "attached" ELSE "searching"
  /\ \E transferred \in {0} \cup Costs : machine = Machine(0, None, None, transferred, MaxCycles)
  /\ machine_vec = <<>>
  /\ spawn_data = None
  /\ newest = 0 /\ failed = FALSE
  /\ answered = Unanswered

Over == phase # "searching" /\ UNCHANGED vars

Search ==
  \/ \E c \in Costs : Step(c)
  \/ Exit
  \/ Fails
  \/ \E ok \in BOOLEAN : Exec(ok)
  \/ Spawn
  \/ SpawnPanics
  \/ Return
  \/ ReturnPanics

Next == Search \/ Over

Spec == Init /\ [][Next]_vars

(* One thread, which does nothing else.                                    *)
FairSpec == Spec /\ WF_vars(Search)

-----------------------------------------------------------------------------
(* Properties.                                                             *)

Script == Nat \cup {None}
MachineType ==
  [script : Nat, spawn : Script, caller : Script, cycles : Nat, max : Nat, running : BOOLEAN]

TypeOK ==
  /\ phase \in {"searching", "attached", "error", "panicked"}
  /\ specify \in 0 .. Depth
  /\ machine \in MachineType
  /\ machine_vec \in Seq(MachineType)
  /\ spawn_data \in Script
  /\ newest \in Nat /\ failed \in BOOLEAN
  /\ answered \in [spawn : Script, data : Script]

(* With depth N the debugger is attached to the N-th script, in the order  *)
(* in which scripts start, at any nesting of exec and spawn and after any  *)
(* number of children that have already exited.                            *)
AttachedIsNth == phase = "attached" /\ ~failed => machine.script = Depth

(* When a child exits it is its own caller that goes on.                   *)
ResumesTheCaller ==
  [][Len(machine_vec') < Len(machine_vec) => machine'.script = machine.caller]_vars

(* The running machine and the callers that wait for it.                   *)
Live == {machine} \cup Range(machine_vec)
LiveCycles == machine.cycles + Sum([i \in DOMAIN machine_vec |-> machine_vec[i].cycles])

(* The running machine and its waiting callers together stay within the    *)
(* limit, as long as each of them stays within the one it was given.  A    *)
(* spawn that its caller cannot pay for breaks that condition, as do the   *)
(* bytes that system calls transfer, which the code charges without a look *)
(* at the limit and which are left out here.                               *)
LiveWithinBudget == (\A m \in Live : m.cycles <= m.max) => LiveCycles <= MaxCycles

(* The search ends, whatever the scripts do: cycles are limited.           *)
SearchEnds == <>(phase # "searching")

(* The answer of a child is written where the spawn that started it asked. *)
AnswersGoToTheirSpawn == answered.spawn = answered.data
=============================================================================
