----------------------------- MODULE DebugTarget -----------------------------
(***************************************************************************)
(* What a debugger expects of a debug target, whichever of the two servers *)
(* of ckb-vm-debug-utils serves it: the program moves only between a       *)
(* resume and the stop that answers it, it does not run over a breakpoint, *)
(* and breakpoints come and go only on request.                            *)
(***************************************************************************)
CONSTANT Pc        (* program addresses *)

VARIABLES pc,      (* where the program is                                 *)
          bps,     (* the set of breakpoint addresses                      *)
          target   (* "halted", "resumed" (no instruction yet), "running"  *)
                   (* or "detached" (the debugger has left)                *)

vars == <<pc, bps, target>>

Init ==
  /\ pc \in Pc
  /\ bps = {}
  /\ target = "halted"

Insert(a) == target = "halted" /\ bps' = bps \cup {a} /\ UNCHANGED <<pc, target>>

Remove(a) == target = "halted" /\ bps' = bps \ {a} /\ UNCHANGED <<pc, target>>

(* The debugger may set the program counter of a halted target.            *)
SetPc == target = "halted" /\ pc' \in Pc /\ UNCHANGED <<bps, target>>

Resume == target = "halted" /\ target' = "resumed" /\ UNCHANGED <<pc, bps>>

(* The instruction a resume starts with is executed even at a breakpoint;  *)
(* any other is not.  A single step may halt the target again at once.     *)
Execute ==
  /\ target = "resumed" \/ (target = "running" /\ pc \notin bps)
  /\ pc' \in Pc
  /\ target' \in {"running", "halted"}
  /\ UNCHANGED bps

Halt == target # "halted" /\ target' = "halted" /\ UNCHANGED <<pc, bps>>

Detach == target = "halted" /\ target' = "detached" /\ UNCHANGED <<pc, bps>>

(* Without a debugger the program runs to its end, breakpoints or not.     *)
RunOn == target = "detached" /\ pc' \in Pc /\ UNCHANGED <<bps, target>>

Next ==
  \/ \E a \in Pc : Insert(a) \/ Remove(a)
  \/ SetPc
  \/ Resume
  \/ Execute
  \/ Halt
  \/ Detach
  \/ RunOn

Spec == Init /\ [][Next]_vars
=============================================================================
