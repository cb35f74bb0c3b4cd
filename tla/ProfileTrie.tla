----------------------------- MODULE ProfileTrie -----------------------------
(***************************************************************************)
(* The profiler of ckb-vm-pprof (Profile and PProfMachine of lib.rs): it   *)
(* watches the jumps of a program, guesses from them alone which are calls *)
(* and which are returns, and charges every instruction to a node of a     *)
(* tree of calls.                                                          *)
(*                                                                         *)
(* Parent pointers never change, so the current node is modelled by its    *)
(* path from the root; id numbers the nodes in order of creation.          *)
(* Addresses count instructions: the link of a jump at pc is pc + 1.       *)
(* The program (external) is a set of addresses with function symbols, a   *)
(* set of jumps that leave a return address, and any control flow over     *)
(* them; act and stack are what it really does, unknown to the profiler.   *)
(***************************************************************************)
EXTENDS Naturals, Sequences, FiniteSetsExt, SequencesExt, Sums

CONSTANTS Addr,       (* program addresses                                 *)
          Funs,       (* cache_fun: the addresses of function symbols      *)
          CallSites,  (* jumps that leave a return address                 *)
          Entry,      (* the program's entry point                         *)
          Sbrk,       (* sbrk_addr: the address of _sbrk, 0 without one    *)
          Word,       (* registers hold 0 .. Word - 1 (2^64)               *)
          Args,       (* values of A0 at a call                            *)
          Ends,       (* values of the symbol _end                         *)
          Costs,      (* cycles of an instruction                          *)
          MaxNodes,   (* bound: nodes of the tree                          *)
          MaxCycles,  (* bound: cycles in the tree                         *)
          MaxFaults   (* bound: kinds of faults a program goes on after    *)

ASSUME AddrAssumption == Addr \subseteq Nat \ {0} /\ Entry \in Addr
ASSUME FunsAssumption == Funs \subseteq Addr
ASSUME SbrkAssumption == Sbrk \in Nat /\ Sbrk # Entry
ASSUME WordAssumption ==
  Word \in Nat \ {0} /\ Args \subseteq 0 .. Word - 1 /\ Ends \subseteq 0 .. Word - 1
ASSUME CostsAssumption == Costs \subseteq Nat

VARIABLES path,          (* trie_node and its ancestors, the root first    *)
          cycles,        (* cycles of every node                           *)
          sbrk_heap,
          status,        (* "running", "exited", "error" or "panicked"     *)
          reset_signal,  (* exec has replaced the program                  *)
          pc,            (* the program ...                                *)
          act,           (* its current activation: function and argument  *)
          stack,         (* its return addresses, with what they return to *)
          brk,           (* the end of its heap                            *)
          total,         (* cycles of the instructions executed            *)
          faults         (* what it has done that the profiler mistakes    *)

profile == <<path, cycles, sbrk_heap>>
program == <<pc, act, stack, brk, faults>>
vars == <<profile, status, reset_signal, program, total>>

Activation(f, a0) == [fn |-> f, a0 |-> a0]
Root == [addr |-> Entry, link |-> 0, a0 |-> 0, id |-> 1]
Current == path[Len(path)]

-----------------------------------------------------------------------------
(* What Profile::step does to the tree.                                    *)

(* Mutant: the cycles replace those the node has.                          *)
Charged_Replaced(c) == [cycles EXCEPT ![Current.id] = c]

Charged(c) == [cycles EXCEPT ![Current.id] = @ + c]

(* The closure call: a new child even if the function was called before.   *)
call(addr, a0, c) ==
  /\ path' = Append(path, [addr |-> addr, link |-> pc + 1, a0 |-> a0, id |-> Len(cycles) + 1])
  /\ cycles' = Append(Charged(c), 0)
  /\ UNCHANGED sbrk_heap

Matches(addr) == {i \in DOMAIN path : path[i].link = addr}

(* Mutant: the walk goes on to the outermost frame with the link.          *)
Found_Outermost(addr) == Min(Matches(addr))

(* The walk up to the first frame with the link.                           *)
Found(addr) == Max(Matches(addr))

(* Mutant: the heap ends where _sbrk says it ended before.                 *)
NewHeap_Old(a0) == a0

(* Mutant: the sum of a negative increment does not wrap.                  *)
NewHeap_NoWrap(a0) == Current.a0 + a0

(* sbrk_or_skip, with the value _sbrk returns.                             *)
NewHeap(a0) == (Current.a0 + a0) % Word

(* The closure quit_or_skip: drop the frames from the one found upwards;   *)
(* nothing without one.                                                    *)
quit_or_skip(addr, a0, c) ==
  /\ cycles' = Charged(c)
  /\ IF Matches(addr) = {}
       THEN UNCHANGED <<path, sbrk_heap>>
       ELSE /\ sbrk_heap' = IF Current.addr = Sbrk THEN NewHeap(a0) ELSE sbrk_heap
            /\ path' = IF Found(addr) = 1 THEN path ELSE SubSeq(path, 1, Found(addr) - 1)

(* unimplemented!(): the frame found is the root.                          *)
Panics(addr) == addr \notin Funs /\ Matches(addr) # {} /\ Found(addr) = 1

(* JAL, JALR and the two far jumps, whatever the program means by them.    *)
Jump(addr, a0, c) ==
  IF addr \in Funs THEN call(addr, a0, c) ELSE quit_or_skip(addr, a0, c)

-----------------------------------------------------------------------------
(* PProfMachine::run, one instruction at a time: profile.step, then        *)
(* machine.step.                                                           *)

Stepping(c) ==
  /\ status = "running" /\ ~reset_signal
  /\ Len(cycles) < MaxNodes
  /\ Cardinality(faults) <= MaxFaults
  /\ total + c <= MaxCycles
  /\ total' = total + c

Jumped(addr, a0, c) ==
  /\ Jump(addr, a0, c)
  /\ pc' = addr
  /\ status' = IF Panics(addr) THEN "panicked" ELSE status
  /\ UNCHANGED reset_signal

If(cond, x) == IF cond THEN {x} ELSE {}

(* A call: the program pushes the return address.  The profiler knows only *)
(* functions that have a symbol.                                           *)
Call(addr, a0, c) ==
  /\ Stepping(c)
  /\ pc \in CallSites
  /\ Jumped(addr, a0, c)
  /\ act' = Activation(addr, a0)
  /\ stack' = Append(stack, [link |-> pc + 1, depth |-> Len(path), act |-> act])
  /\ faults' = faults \cup If(addr \notin Funs, "symbol")
  /\ UNCHANGED brk

(* A tail call: the caller's return address stays in place.                *)
TailCall(addr, a0, c) ==
  /\ Stepping(c)
  /\ pc \notin CallSites
  /\ addr \in Funs
  /\ Jumped(addr, a0, c)
  /\ act' = Activation(addr, a0)
  /\ UNCHANGED <<stack, brk, faults>>

(* A return, with r in A0.  _sbrk returns the old end of the heap and      *)
(* moves it by its argument, or fails and returns -1.                      *)
Return(r, failed, c) ==
  /\ Stepping(c)
  /\ pc \notin CallSites
  /\ stack # <<>>
  /\ Jumped(Last(stack).link, r, c)
  /\ act' = Last(stack).act
  /\ stack' = Front(stack)
  /\ faults' = faults \cup If(Last(stack).link \in Funs, "entry") \cup If(failed, "sbrk")
  /\ IF act.fn = Sbrk /\ ~failed
       THEN r = brk /\ brk' = (brk + act.a0) % Word
       ELSE (failed => act.fn = Sbrk /\ r = Word - 1) /\ UNCHANGED brk

(* A jump inside a function, or a wild one; 0 is the link of the root.  It *)
(* is a fault if the profiler takes it for a return: if it lands behind    *)
(* any jump on the profiler's path, be that jump a call or a tail call.    *)
LocalJump(addr, a0, c) ==
  /\ Stepping(c)
  /\ pc \notin CallSites
  /\ addr \notin Funs
  /\ Jumped(addr, a0, c)
  /\ faults' = faults \cup If(Matches(addr) # {}, "jump")
  /\ UNCHANGED <<act, stack, brk>>

(* Any other instruction, branches included: the tree keeps its shape.     *)
Plain(addr, c) ==
  /\ Stepping(c)
  /\ pc \notin CallSites
  /\ cycles' = Charged(c)
  /\ pc' = addr
  /\ UNCHANGED <<path, sbrk_heap, status, reset_signal, act, stack, brk, faults>>

(* An ECALL that ends the program, or replaces it (exec): the profile of   *)
(* the old program is thrown away before the next instruction.             *)
Exit(c) ==
  /\ Stepping(c)
  /\ pc \notin CallSites
  /\ cycles' = Charged(c)
  /\ status' = "exited"
  /\ UNCHANGED <<path, sbrk_heap, reset_signal, program>>

Exec(end, c) ==
  /\ Stepping(c)
  /\ pc \notin CallSites
  /\ cycles' = Charged(c)
  /\ reset_signal' = TRUE
  /\ pc' = Entry /\ act' = Activation(Entry, 0) /\ stack' = <<>> /\ brk' = end
  /\ faults' = {}
  /\ UNCHANGED <<path, sbrk_heap, status>>

(* run, at the head of its loop.  Profile::new is unwrapped there; a       *)
(* program that exec has loaded is taken to be one it can read.            *)
NewProfile ==
  /\ status = "running" /\ reset_signal
  /\ reset_signal' = FALSE
  /\ path' = <<Root>> /\ cycles' = <<0>> /\ sbrk_heap' = brk
  /\ total' = 0
  /\ UNCHANGED <<status, program>>

(* The stack pointer is checked before an instruction; an instruction may  *)
(* also fail to decode, or, after the tree has changed, to execute.        *)
Overlap ==
  /\ status = "running" /\ ~reset_signal
  /\ \E sp \in 0 .. Word - 1 : sp < sbrk_heap
  /\ status' = "error"
  /\ UNCHANGED <<profile, reset_signal, program, total>>

DecodeFails ==
  /\ status = "running" /\ ~reset_signal
  /\ status' = "error"
  /\ UNCHANGED <<profile, reset_signal, program, total>>

ExecuteFails(c) ==
  /\ Stepping(c)
  /\ \/ cycles' = Charged(c) /\ UNCHANGED <<path, sbrk_heap>>
     \/ \E addr \in Addr, a0 \in Args : ~Panics(addr) /\ Jump(addr, a0, c)
  /\ status' = "error"
  /\ UNCHANGED <<reset_signal, program>>

Init ==
  /\ path = <<Root>> /\ cycles = <<0>>
  /\ brk \in Ends /\ sbrk_heap = brk
  /\ status = "running" /\ reset_signal = FALSE
  /\ pc = Entry /\ act = Activation(Entry, 0) /\ stack = <<>>
  /\ total = 0
  /\ faults = {}

Over == status # "running" /\ UNCHANGED vars

Next ==
  \/ \E c \in Costs :
       \/ \E addr \in Addr, a0 \in Args :
            Call(addr, a0, c) \/ TailCall(addr, a0, c)
       \/ \E addr \in Addr \cup {0}, a0 \in Args : LocalJump(addr, a0, c)
       \/ \E r \in 0 .. Word - 1, failed \in BOOLEAN : Return(r, failed, c)
       \/ \E addr \in Addr : Plain(addr, c)
       \/ \E end \in Ends : Exec(end, c)
       \/ Exit(c)
       \/ ExecuteFails(c)
  \/ NewProfile
  \/ Overlap
  \/ DecodeFails
  \/ Over

Spec == Init /\ [][Next]_vars

-----------------------------------------------------------------------------
(* Properties.                                                             *)

Frame == [addr : Addr, link : Nat, a0 : 0 .. Word - 1, id : Nat \ {0}]

TypeOK ==
  /\ path \in Seq(Frame) /\ path # <<>>
  /\ cycles \in Seq(Nat)
  /\ \A i \in DOMAIN path : path[i].id \in DOMAIN cycles
  /\ sbrk_heap \in 0 .. Word - 1
  /\ status \in {"running", "exited", "error", "panicked"}
  /\ reset_signal \in BOOLEAN
  /\ pc \in Nat
  /\ act \in [fn : Addr, a0 : 0 .. Word - 1]
  /\ stack \in Seq([link : Nat, depth : Nat, act : [fn : Addr, a0 : 0 .. Word - 1]])
  /\ brk \in 0 .. Word - 1
  /\ total \in Nat
  /\ faults \subseteq {"symbol", "entry", "jump", "sbrk"}

(* The program keeps to what the profiler can read off its jumps: every    *)
(* called function has a symbol, no return address is one, and jumps       *)
(* inside a function avoid the return addresses of the calls in progress.  *)
Disciplined == faults \subseteq {"sbrk"}

(* Through recursion, tail calls and returns over several frames, the      *)
(* current node is that of the function the program executes, so that its  *)
(* instructions are charged to it, and the walk up never reaches the root. *)
ChargesTheRunningFunction ==
  Disciplined /\ ~reset_signal =>
    /\ status = "running" => Current.addr = act.fn
    /\ status # "panicked"

(* No cycle is lost or counted twice: the nodes of the tree, the ones      *)
(* already left included, add up to the instructions executed since the    *)
(* program was loaded (exec starts a new tree).                            *)
CyclesConserved == ~reset_signal => Sum(cycles) = total

(* The heap the stack must not reach ends where the program's heap ends,   *)
(* although the profiler only sees the arguments and results of _sbrk; an  *)
(* increment may be negative.  (A failing _sbrk misleads it.)              *)
HeapIsBreak ==
  faults = {} /\ status = "running" /\ ~reset_signal => sbrk_heap = brk
=============================================================================
