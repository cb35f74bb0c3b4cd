------------------------------ MODULE GdbServer ------------------------------
(***************************************************************************)
(* GdbHandler of ckb-vm-debug-utils (gdbserver.rs): the handler behind     *)
(* "ckb-debugger --mode gdb".  It owns the VM, a list of breakpoints and a *)
(* list of write watchpoints, and runs the VM inside vcont.                *)
(*                                                                         *)
(* The VM is external: an instruction moves the program counter, may write *)
(* one memory cell, may end the program, or fails.  General registers have *)
(* no part in the handler's control and are left out (with Error(2), the   *)
(* answer to an unknown register number), and so is the kind of a          *)
(* breakpoint or watchpoint.                                               *)
(***************************************************************************)
EXTENDS Naturals, Sequences, FiniteSets

CONSTANTS Pc,          (* program addresses                                *)
          Addr,        (* mapped memory cells                              *)
          Val,         (* what a cell holds                                *)
          Zero,        (* the initial content of memory                    *)
          Conditions,  (* what breakpoint conditions evaluate to; "none"   *)
                       (* for a breakpoint without any                     *)
          Regions,     (* the memory regions a debugger watches, as        *)
                       (* records [addr, n_bytes]                          *)
          MaxWatch     (* bound: watchpoints in the list                   *)

ASSUME ZeroAssumption == Zero \in Val
ASSUME AddrAssumption == Addr \subseteq Nat
ASSUME PcAssumption == Pc \subseteq Nat
ASSUME ConditionsAssumption == Conditions \subseteq {"none", "true", "false"}
ASSUME RegionsAssumption == Regions \subseteq [addr : Nat, n_bytes : Nat]

VARIABLES pc, mem, running,  (* the VM                                     *)
          stuck,             (* the instruction at pc fails                *)
          breakpoints,       (* a Vec asked only for membership            *)
          watchpoints,       (* Vec<WatchPointStatus>                      *)
          vcont,             (* the request being served, or Idle          *)
          first,             (* vcont has not stepped the VM yet           *)
          reply,             (* the last answer                            *)
          dirty              (* history: the last instruction has changed  *)
                             (* a region whose content was known           *)

vm == <<pc, mem, running, stuck>>
vars == <<pc, mem, running, stuck, breakpoints, watchpoints, vcont, first, reply, dirty>>

Idle == [kind |-> "idle", start |-> 0, end |-> 0]
Breakpoint == [addr : Pc, cond : Conditions]

Request ==
  [kind : {"continue", "step", "other"}, start : {0}, end : {0}]
    \cup [kind : {"range"}, start : Pc, end : Pc]

-----------------------------------------------------------------------------
(* Watchpoints.                                                            *)

Cells(r) == r.addr .. (r.addr + r.n_bytes - 1)
Readable(r) == Cells(r) \subseteq Addr
Content(m, r) == [i \in 1 .. r.n_bytes |-> m[r.addr + i - 1]]

NewWatch(r) ==
  [addr |-> r.addr, n_bytes |-> r.n_bytes,
   data |-> [i \in 1 .. r.n_bytes |-> Zero], has_data |-> FALSE]

(* Mutant: only the first byte of the region is compared.                  *)
Changed_FirstByte(w) == w.has_data /\ mem[w.addr] # w.data[1]

(* has_change: the first look at a region only takes its content down.     *)
Changed(w) == w.has_data /\ Content(mem, w) # w.data
Looked(w) == [w EXCEPT !.data = Content(mem, w), !.has_data = TRUE]

(* at_watchpoint looks at all of them, up to the first that cannot be read *)
(* (the "?" operator).                                                     *)
Unreadable == \E i \in 1 .. Len(watchpoints) : ~Readable(watchpoints[i])
ReadableUpTo(i) == \A j \in 1 .. i : Readable(watchpoints[j])
Rechecked ==
  [i \in 1 .. Len(watchpoints) |->
     IF ReadableUpTo(i) THEN Looked(watchpoints[i]) ELSE watchpoints[i]]

(* Mutant: the result of the last watchpoint replaces those before it.     *)
AtWatchpoint_LastOnly ==
  watchpoints # <<>> /\ Changed(watchpoints[Len(watchpoints)])

AtWatchpoint == \E i \in 1 .. Len(watchpoints) : Changed(watchpoints[i])

(* Conditions and commands of a breakpoint are stored and never looked at. *)
AtBreakpoint == \E b \in breakpoints : b.addr = pc

-----------------------------------------------------------------------------
(* The VM (external): machine.step().                                      *)

Writes == {mem} \cup {[mem EXCEPT ![a] = v] : a \in Addr, v \in Val}

(* The instruction at pc executes; it may be the one that ends the program *)
(* (a program that has ended does not start again).                        *)
VmStep(m) ==
  /\ ~stuck
  /\ pc' \in Pc
  /\ m \in Writes
  /\ mem' = m
  /\ running' \in {running, FALSE}
  /\ dirty' = \E i \in 1 .. Len(watchpoints) :
                /\ Readable(watchpoints[i])
                /\ watchpoints'[i].has_data
                /\ watchpoints'[i].data = Content(mem, watchpoints[i])
                /\ watchpoints'[i].data # Content(m, watchpoints[i])
  /\ UNCHANGED stuck

(* The instruction fails, and goes on failing until the debugger changes   *)
(* something.                                                              *)
VmFails ==
  /\ stuck' = TRUE
  /\ dirty' = FALSE
  /\ UNCHANGED <<pc, mem, running>>

-----------------------------------------------------------------------------
(* The handler's methods; gdb waits for the answer to one before it sends  *)
(* the next.                                                               *)

Ready == vcont = Idle

Answer(r) == vcont' = Idle /\ reply' = r

InsertSoftwareBreakpoint(b) ==
  /\ Ready
  /\ breakpoints' = breakpoints \cup {b}
  /\ Answer("ok")
  /\ UNCHANGED <<vm, watchpoints, first, dirty>>

(* The z0 packet carries no conditions: retain(|b| b != &breakpoint) with  *)
(* conditions None.                                                        *)
Removed(a) == [addr |-> a, cond |-> "none"]
RemoveSoftwareBreakpoint(a) ==
  /\ Ready
  /\ breakpoints' = breakpoints \ {Removed(a)}
  /\ Answer("ok")
  /\ UNCHANGED <<vm, watchpoints, first, dirty>>

InsertWriteWatchpoint(r) ==
  /\ Ready
  /\ Len(watchpoints) < MaxWatch
  /\ watchpoints' = Append(watchpoints, NewWatch(r))
  /\ Answer("ok")
  /\ UNCHANGED <<vm, breakpoints, first, dirty>>

(* The entries of other regions.                                           *)
Kept(r) ==
  {i \in DOMAIN watchpoints : watchpoints[i].addr # r.addr \/ watchpoints[i].n_bytes # r.n_bytes}

(* Vec::retain keeps them in their order.                                  *)
RemoveWriteWatchpoint(r) ==
  /\ Ready
  /\ \E f \in [1 .. Cardinality(Kept(r)) -> Kept(r)] :
       /\ \A i, j \in DOMAIN f : i < j => f[i] < f[j]
       /\ watchpoints' = [i \in DOMAIN f |-> watchpoints[f[i]]]
  /\ Answer("ok")
  /\ UNCHANGED <<vm, breakpoints, first, dirty>>

(* write_register on the program counter.                                  *)
WriteRegister(p) ==
  /\ Ready
  /\ pc' = p
  /\ stuck' = FALSE
  /\ Answer("ok")
  /\ UNCHANGED <<mem, running, breakpoints, watchpoints, first, dirty>>

(* write_memory: Error(4) outside memory.                                  *)
WriteMemory(a, v) ==
  /\ Ready
  /\ IF a \in Addr
       THEN mem' = [mem EXCEPT ![a] = v] /\ stuck' = FALSE /\ Answer("ok")
       ELSE UNCHANGED <<mem, stuck>> /\ Answer("error4")
  /\ UNCHANGED <<pc, running, breakpoints, watchpoints, first, dirty>>

(* vcont looks at the first request of the list only.                      *)
VCont(r) ==
  /\ Ready
  /\ vcont' = r
  /\ first' = TRUE
  /\ UNCHANGED <<vm, breakpoints, watchpoints, reply, dirty>>

(* C, S and t are advertised, and refused.                                 *)
VContUnsupported ==
  /\ vcont.kind = "other"
  /\ Answer("error5")
  /\ first' = FALSE
  /\ UNCHANGED <<vm, breakpoints, watchpoints, dirty>>

(* Continue and RangeStep step the VM once before they look at anything,   *)
(* not even at running; Step does nothing to a VM that has stopped.        *)
FirstStep ==
  /\ first
  /\ vcont.kind \in {"continue", "step", "range"}
  /\ vcont.kind = "step" => running
  /\ first' = FALSE
  /\ UNCHANGED <<breakpoints, watchpoints>>
  /\ \/ (\E m \in Writes : VmStep(m)) /\ UNCHANGED <<vcont, reply>>
     \/ VmFails /\ Answer("signal5")

(* Mutant: the loop does not look at breakpoints.                          *)
LoopGoesOn_OverBreakpoints ==
  /\ vcont.kind = "range" => vcont.start <= pc /\ pc < vcont.end
  /\ running

(* The condition of the two while loops.                                   *)
LoopGoesOn ==
  /\ vcont.kind = "range" => vcont.start <= pc /\ pc < vcont.end
  /\ ~AtBreakpoint
  /\ running

Looping == ~first /\ vcont.kind \in {"continue", "range"} /\ LoopGoesOn

(* One round of the loop: look at the watchpoints, then step.              *)
LoopStep ==
  /\ Looping
  /\ ~Unreadable /\ ~AtWatchpoint
  /\ watchpoints' = Rechecked
  /\ \/ (\E m \in Writes : VmStep(m)) /\ UNCHANGED <<vcont, reply>>
     \/ VmFails /\ Answer("signal5")
  /\ UNCHANGED <<breakpoints, first>>

WatchStop ==
  /\ Looping
  /\ ~Unreadable /\ AtWatchpoint
  /\ watchpoints' = Rechecked
  /\ Answer("signal5")
  /\ dirty' = FALSE
  /\ UNCHANGED <<vm, breakpoints, first>>

(* A watchpoint that cannot be read fails the whole request; the ones      *)
(* before it have been looked at all the same.                             *)
WatchError ==
  /\ Looping
  /\ Unreadable
  /\ watchpoints' = Rechecked
  /\ Answer("error3")
  /\ dirty' = FALSE
  /\ UNCHANGED <<vm, breakpoints, first>>

(* The loop has ended, or there is none (Step).                            *)
VContDone ==
  /\ \/ ~first /\ vcont.kind \in {"continue", "range"} /\ ~LoopGoesOn
     \/ vcont.kind = "step" /\ (~first \/ ~running)
  /\ Answer(IF running THEN "signal5" ELSE "exited")
  /\ first' = FALSE
  /\ UNCHANGED <<vm, breakpoints, watchpoints, dirty>>

Init ==
  /\ pc \in Pc
  /\ mem = [a \in Addr |-> Zero]
  /\ running = TRUE
  /\ stuck = FALSE
  /\ breakpoints = {}
  /\ watchpoints = <<>>
  /\ vcont = Idle
  /\ first = FALSE
  /\ reply = "none"
  /\ dirty = FALSE

Next ==
  \/ \E b \in Breakpoint : InsertSoftwareBreakpoint(b)
  \/ \E a \in Pc : RemoveSoftwareBreakpoint(a) \/ WriteRegister(a)
  \/ \E r \in Regions : InsertWriteWatchpoint(r) \/ RemoveWriteWatchpoint(r)
  \/ \E r \in Regions, v \in Val : WriteMemory(r.addr, v)
  \/ \E r \in Request : VCont(r)
  \/ VContUnsupported
  \/ FirstStep
  \/ LoopStep
  \/ WatchStop
  \/ WatchError
  \/ VContDone

Spec == Init /\ [][Next]_vars

-----------------------------------------------------------------------------
(* Properties.                                                             *)

WatchPointStatus == [addr : Nat, n_bytes : Nat, data : Seq(Val), has_data : BOOLEAN]

TypeOK ==
  /\ pc \in Pc
  /\ mem \in [Addr -> Val]
  /\ running \in BOOLEAN /\ stuck \in BOOLEAN /\ first \in BOOLEAN /\ dirty \in BOOLEAN
  /\ breakpoints \subseteq Breakpoint
  /\ watchpoints \in Seq(WatchPointStatus)
  /\ vcont \in Request \cup {Idle}
  /\ reply \in {"none", "ok", "signal5", "exited", "error3", "error4", "error5"}

(* No instruction is executed between a change of a watched region and the *)
(* stop it causes: once an instruction of a continue or range step has     *)
(* changed a region whose content the handler knew, the VM stands still    *)
(* until the request is answered.  (The handler does not know the content  *)
(* of a region after a single step or a write_memory: such a change goes   *)
(* unnoticed when the next instruction undoes it.)                         *)
NoStepPastChange ==
  [][dirty /\ ~first /\ vcont.kind \in {"continue", "range"} => UNCHANGED vm]_vars

(* The handler never forgets a change silently: whenever it replaces what  *)
(* it knew of a watched region by something else, it answers the request   *)
(* in the same step, whatever the other watchpoints of the list say.       *)
BaselineMovesOnlyWithAnswer ==
  [][vcont # Idle /\ (\E i \in 1 .. Len(watchpoints) :
        watchpoints[i].has_data /\ watchpoints'[i].data # watchpoints[i].data)
     => vcont' = Idle]_vars

(* GdbHandler is a debug target: seen without watchpoints and conditions   *)
(* it runs only when resumed and does not run over breakpoints.            *)
Target == INSTANCE DebugTarget
            WITH bps <- {b.addr : b \in breakpoints},
                 target <- IF vcont = Idle THEN "halted"
                           ELSE IF first THEN "resumed" ELSE "running"
ImplementsTarget == Target!Spec
=============================================================================
