------------------------------- MODULE GdbStub -------------------------------
(***************************************************************************)
(* GdbStubHandler and its event loop (gdbstub.rs of ckb-vm-debug-utils),   *)
(* the handler behind "ckb-debugger --mode gdb_gdbstub".  The gdbstub      *)
(* crate owns the protocol: between stops it calls the handler's methods,  *)
(* and after a resume it calls wait_for_stop_reason until the target has   *)
(* stopped.  It is external, and so are gdb and the VM.                    *)
(***************************************************************************)
EXTENDS Naturals, Sequences, SequencesExt

CONSTANTS Pc,           (* program addresses                               *)
          Ecalls,       (* those that hold an ECALL instruction            *)
          Addr,         (* memory addresses of loads and stores            *)
          Syscalls,     (* system call numbers, the values of register a7  *)
          PollInterval, (* steps between two looks at the connection: 1024 *)
          MaxIncoming,  (* bound: unread bytes from gdb                    *)
          MaxPoints     (* bound: entries of breakpoints and watchpoints   *)

ASSUME EcallsAssumption == Ecalls \subseteq Pc
ASSUME PcAssumption == Pc \subseteq Nat
ASSUME PollAssumption == PollInterval \in Nat \ {0}

VARIABLES pc, a7, running,       (* the VM                                 *)
          reset_signal,          (* exec has replaced the program          *)
          stale,                 (* the decoder caches the old program     *)
          exec_mode, breakpoints, watchpoints, catch_syscalls,
          memory_reads, memory_writes,
          phase,                 (* "idle", "waiting" (execute is about to *)
                                 (* be called), "loop" (inside it),        *)
                                 (* "detached", "ended", "panicked"        *)
          executed_cycles,       (* counted modulo PollInterval            *)
          incoming,              (* bytes from gdb not read yet            *)
          stop,                  (* the last stop reason                   *)
          fresh,                 (* nothing executed since the resume      *)
          ranStale               (* an instruction came from a stale cache *)

vm == <<pc, a7, running, reset_signal, stale, ranStale>>
points == <<breakpoints, watchpoints, catch_syscalls>>
accesses == <<memory_reads, memory_writes>>
vars == <<vm, exec_mode, points, accesses, phase, executed_cycles, incoming, stop, fresh>>

ExecMode == [kind : {"step", "continue"}, start : {0}, end : {0}]
              \cup [kind : {"range"}, start : Pc, end : Pc]
Continue == [kind |-> "continue", start |-> 0, end |-> 0]

WatchKind == {"read", "write"}
Watchpoint == [addr : Addr, kind : WatchKind]

Stop(k, a) == [kind |-> k, addr |-> a]
NoStop == Stop("none", {})

FirstIndex(s, x) == CHOOSE i \in DOMAIN s : s[i] = x /\ \A j \in 1 .. i - 1 : s[j] # x

-----------------------------------------------------------------------------
(* Between stops: the methods the gdbstub crate calls.                     *)

Idle == phase = "idle"
UnchangedRun == UNCHANGED <<vm, exec_mode, accesses, executed_cycles, incoming, stop, fresh>>

AddSwBreakpoint(a) ==
  /\ Idle
  /\ Len(breakpoints) < MaxPoints
  /\ breakpoints' = Append(breakpoints, a)
  /\ UNCHANGED <<watchpoints, catch_syscalls, phase>>
  /\ UnchangedRun

(* The first entry with the address goes; without one, nothing does.       *)
RemoveSwBreakpoint(a) ==
  /\ Idle
  /\ breakpoints' = IF a \in Range(breakpoints)
                      THEN RemoveAt(breakpoints, FirstIndex(breakpoints, a))
                      ELSE breakpoints
  /\ UNCHANGED <<watchpoints, catch_syscalls, phase>>
  /\ UnchangedRun

AddHwWatchpoint(w) ==
  /\ Idle
  /\ Len(watchpoints) < MaxPoints
  /\ watchpoints' = Append(watchpoints, w)
  /\ UNCHANGED <<breakpoints, catch_syscalls, phase>>
  /\ UnchangedRun

(* The position is looked up in watchpoints, and the entry at it removed   *)
(* from breakpoints.                                                       *)
RemoveHwWatchpoint(w) ==
  /\ Idle
  /\ w \in Range(watchpoints)
  /\ LET pos == FirstIndex(watchpoints, w) IN
       /\ pos <= Len(breakpoints)
       /\ breakpoints' = RemoveAt(breakpoints, pos)
  /\ UNCHANGED <<watchpoints, catch_syscalls, phase>>
  /\ UnchangedRun

(* Vec::remove with an index out of bounds panics.                         *)
RemoveHwWatchpointPanics(w) ==
  /\ Idle
  /\ w \in Range(watchpoints)
  /\ FirstIndex(watchpoints, w) > Len(breakpoints)
  /\ phase' = "panicked"
  /\ UNCHANGED points
  /\ UnchangedRun

(* None, All and Filter(numbers) as the set of numbers they let through.   *)
CatchSyscalls(filter) ==
  /\ Idle
  /\ catch_syscalls' = filter
  /\ UNCHANGED <<breakpoints, watchpoints, phase>>
  /\ UnchangedRun

(* write_register(s) and write_addrs: only the program counter matters.    *)
WritePc(p) ==
  /\ Idle
  /\ pc' = p
  /\ UNCHANGED <<a7, running, reset_signal, stale, ranStale>>
  /\ UNCHANGED <<exec_mode, points, accesses, phase, executed_cycles, incoming, stop, fresh>>

(* resume, step and resume_range_step set the mode; the gdbstub crate then *)
(* calls wait_for_stop_reason.                                             *)
Resume(m) ==
  /\ Idle
  /\ exec_mode' = m
  /\ phase' = "waiting"
  /\ fresh' = TRUE
  /\ stop' = NoStop
  /\ UNCHANGED <<vm, points, accesses, executed_cycles, incoming>>

(* The debugger leaves (run_till_exited follows), or kills the target.     *)
Disconnect(p) ==
  /\ Idle
  /\ phase' = p
  /\ UNCHANGED points
  /\ UnchangedRun

(* A byte that arrives between stops goes to the protocol, whatever it is. *)
IdleByte ==
  /\ Idle
  /\ incoming # <<>>
  /\ incoming' = Tail(incoming)
  /\ UNCHANGED <<vm, exec_mode, points, accesses, phase, executed_cycles, stop, fresh>>

-----------------------------------------------------------------------------
(* gdb sends ^C while the target runs, or bytes that are read before it    *)
(* and mean nothing to a running target, such as an acknowledgement.       *)
PeerByte(b) ==
  /\ phase \in {"waiting", "loop"}
  /\ Len(incoming) < MaxIncoming
  /\ incoming' = Append(incoming, b)
  /\ UNCHANGED <<vm, exec_mode, points, accesses, phase, executed_cycles, stop, fresh>>

(* The connection breaks while the target runs: when execute looks at it,  *)
(* peek fails, which counts as data; read fails too, the session ends.     *)
ConnectionLost ==
  /\ phase = "waiting" \/ (phase = "loop" /\ executed_cycles = 0)
  /\ phase' = "ended"
  /\ UNCHANGED points
  /\ UnchangedRun

(* VmEvent::IncomingData: one byte is read; ^C stops the target through    *)
(* on_interrupt, any other byte goes to the protocol and execute is called *)
(* again.                                                                  *)
IncomingData ==
  /\ incoming' = Tail(incoming)
  /\ IF Head(incoming) = "^C"
       THEN phase' = "idle" /\ stop' = Stop("sigint", {})
       ELSE phase' = "waiting" /\ UNCHANGED stop

(* execute looks at the connection before anything else.                   *)
ExecuteEntry ==
  /\ phase = "waiting"
  /\ IF incoming # <<>>
       THEN IncomingData /\ UNCHANGED executed_cycles
       ELSE phase' = "loop" /\ executed_cycles' = 0 /\ UNCHANGED <<incoming, stop>>
  /\ UNCHANGED <<vm, exec_mode, points, accesses, fresh>>

-----------------------------------------------------------------------------
(* One call of step().                                                     *)

(* Mutant: the decoder cache survives the reset signal.                    *)
StaleAtDecode_NotReset == stale

(* reset_instructions_cache, when the VM signals a reset.                  *)
StaleAtDecode == stale /\ ~reset_signal

(* Mutant: the filter is inverted.                                         *)
Filtered_Inverted(n) == n \notin catch_syscalls

Filtered(n) == n \in catch_syscalls

(* Mutant: the breakpoint is looked for before the step, not after it.     *)
AtBreakpoint_Before(p) == pc \in Range(breakpoints)

AtBreakpoint(p) == p \in Range(breakpoints)

WriteEvent(r, w) == Stop("watchwrite", w)

(* The event after an instruction that led to p, with a7 = n, the accesses *)
(* r and w and, as next_opcode sees it, an ECALL at p or not.              *)
VmEvent(p, n, r, w, ecall) ==
  CASE ecall /\ Filtered(n) -> Stop("syscall", {n})
    [] ~(ecall /\ Filtered(n)) /\ AtBreakpoint(p) -> Stop("break", {})
    [] ~(ecall /\ Filtered(n)) /\ ~AtBreakpoint(p) /\ w # {} -> WriteEvent(r, w)
    [] ~(ecall /\ Filtered(n)) /\ ~AtBreakpoint(p) /\ w = {} /\ r # {} -> Stop("watchread", r)
    [] OTHER -> NoStop

(* Mutant: nobody looks at the connection while the target runs.           *)
PollDue_Never(c) == FALSE

PollDue(c) == c % PollInterval = 0

InRange(p) == exec_mode.start <= p /\ p < exec_mode.end

(* What execute does with the outcome of step().                           *)
Dispatch(event, p) ==
  \/ /\ event # NoStop
     /\ phase' = "idle" /\ stop' = event
     /\ UNCHANGED <<executed_cycles, incoming>>
  \/ /\ event = NoStop
     /\ exec_mode.kind = "step" \/ (exec_mode.kind = "range" /\ ~InRange(p))
     /\ phase' = "idle" /\ stop' = Stop("donestep", {})
     /\ UNCHANGED <<executed_cycles, incoming>>
  \/ /\ event = NoStop
     /\ exec_mode.kind = "continue" \/ (exec_mode.kind = "range" /\ InRange(p))
     /\ executed_cycles' = (executed_cycles + 1) % PollInterval
     /\ IF PollDue(executed_cycles + 1) /\ incoming # <<>>
          THEN IncomingData
          ELSE UNCHANGED <<phase, incoming, stop>>

(* The instruction at pc (external).  An ECALL reaches memory behind the   *)
(* handler's back; it may replace the program (exec) or end it.  Any other *)
(* instruction makes at most one load and one store.                       *)
Instruction(p, n, r, w, exec, exit) ==
  /\ IF pc \in Ecalls THEN r = {} /\ w = {} ELSE ~exec /\ ~exit
  /\ pc' = p /\ a7' = n
  /\ running' = ~exit
  /\ memory_reads' = r /\ memory_writes' = w

Singletons(S) == {{}} \cup {{x} : x \in S}

LoopStep ==
  /\ phase = "loop"
  /\ running
  /\ \E p \in Pc, n \in Syscalls, r, w \in Singletons(Addr), exec, exit, ecall \in BOOLEAN :
       /\ Instruction(p, n, r, w, exec, exit)
       /\ reset_signal' = exec
       /\ stale' = (StaleAtDecode \/ exec)
       /\ stale' \/ ecall = (p \in Ecalls)
       /\ Dispatch(VmEvent(p, n, r, w, ecall), p)
  /\ ranStale' = (ranStale \/ StaleAtDecode)
  /\ fresh' = FALSE
  /\ UNCHANGED <<exec_mode, points>>

(* The program has ended: the crate reports the exit and the session ends  *)
(* (run_till_exited has nothing left to run).                              *)
LoopExited ==
  /\ phase = "loop"
  /\ ~running
  /\ phase' = "ended"
  /\ stop' = Stop("exited", {})
  /\ UNCHANGED <<vm, exec_mode, points, accesses, executed_cycles, incoming, fresh>>

(* VmEvent::Error: the instruction fails and the session ends with it.     *)
LoopError ==
  /\ phase = "loop"
  /\ running
  /\ phase' = "ended"
  /\ stop' = Stop("error", {})
  /\ UNCHANGED <<vm, exec_mode, points, accesses, executed_cycles, incoming, fresh>>

(* run_till_exited calls step_inner, which knows no reset signal.          *)
DetachedStep ==
  /\ phase = "detached"
  /\ running
  /\ \E p \in Pc, n \in Syscalls, r, w \in Singletons(Addr), exec, exit \in BOOLEAN :
       /\ Instruction(p, n, r, w, exec, exit)
       /\ reset_signal' = (reset_signal \/ exec)
       /\ stale' = (stale \/ exec)
  /\ ranStale' = (ranStale \/ stale)
  /\ UNCHANGED <<exec_mode, points, phase, executed_cycles, incoming, stop, fresh>>

DetachedEnds ==
  /\ phase = "detached"
  /\ phase' = "ended"
  /\ UNCHANGED points
  /\ UnchangedRun

Init ==
  /\ pc \in Pc /\ a7 \in Syscalls
  /\ running = TRUE /\ reset_signal = FALSE /\ stale = FALSE /\ ranStale = FALSE
  /\ exec_mode = Continue
  /\ breakpoints = <<>> /\ watchpoints = <<>> /\ catch_syscalls = {}
  /\ memory_reads = {} /\ memory_writes = {}
  /\ phase = "idle"
  /\ executed_cycles = 0
  /\ incoming = <<>>
  /\ stop = NoStop
  /\ fresh = FALSE

Server == ExecuteEntry \/ LoopStep \/ LoopExited \/ LoopError

Over == phase \in {"ended", "panicked"} /\ UNCHANGED vars

Next ==
  \/ \E a \in Pc : AddSwBreakpoint(a) \/ RemoveSwBreakpoint(a) \/ WritePc(a)
  \/ \E w \in Watchpoint :
       AddHwWatchpoint(w) \/ RemoveHwWatchpoint(w) \/ RemoveHwWatchpointPanics(w)
  \/ \E f \in SUBSET Syscalls : CatchSyscalls(f)
  \/ \E m \in ExecMode : Resume(m)
  \/ \E p \in {"detached", "ended"} : Disconnect(p)
  \/ IdleByte
  \/ \E b \in {"^C", "other"} : PeerByte(b)
  \/ ConnectionLost
  \/ Server
  \/ DetachedStep
  \/ DetachedEnds
  \/ Over

Spec == Init /\ [][Next]_vars

(* The thread that serves gdb runs the loop without waiting for anybody.   *)
FairSpec == Spec /\ WF_vars(Server)

-----------------------------------------------------------------------------
(* Properties.                                                             *)

StopReason ==
  [kind : {"none", "break", "donestep", "sigint", "exited", "error"}, addr : {{}}]
    \cup [kind : {"syscall"}, addr : {{n} : n \in Syscalls}]
    \cup [kind : {"watchread", "watchwrite"}, addr : {{a} : a \in Addr}]

TypeOK ==
  /\ pc \in Pc /\ a7 \in Syscalls
  /\ running \in BOOLEAN /\ reset_signal \in BOOLEAN /\ stale \in BOOLEAN
  /\ exec_mode \in ExecMode
  /\ breakpoints \in Seq(Pc) /\ watchpoints \in Seq(Watchpoint)
  /\ catch_syscalls \subseteq Syscalls
  /\ memory_reads \in Singletons(Addr) /\ memory_writes \in Singletons(Addr)
  /\ phase \in {"idle", "waiting", "loop", "detached", "ended", "panicked"}
  /\ executed_cycles \in 0 .. PollInterval - 1
  /\ incoming \in Seq({"^C", "other"})
  /\ stop \in StopReason
  /\ fresh \in BOOLEAN /\ ranStale \in BOOLEAN

(* GdbStubHandler is a debug target: whatever the order of its checks, it  *)
(* executes nothing while it is stopped, and a breakpoint that the program *)
(* reaches stops it before the instruction there, across looks at the      *)
(* connection and range steps.                                             *)
Mode == CASE phase = "detached" -> "detached"
          [] phase \in {"idle", "ended", "panicked"} -> "halted"
          [] OTHER -> IF fresh THEN "resumed" ELSE "running"
Target == INSTANCE DebugTarget WITH bps <- Range(breakpoints), target <- Mode
ImplementsTarget == Target!Spec

(* A system call that gdb catches is never executed before gdb has seen    *)
(* it: the target does not run on at an ECALL it has reached with a caught *)
(* number in a7.  (Right after exec the opcode is read from the old        *)
(* program, and a call at the new entry point can be missed.)              *)
CaughtBeforeExecuted ==
  phase \in {"waiting", "loop"} /\ ~fresh /\ ~stale
    => ~(pc \in Ecalls /\ a7 \in catch_syscalls)

(* Under the debugger no instruction comes from the cache of a program     *)
(* that exec has replaced; run_till_exited gives no such guarantee.        *)
StaleOnlyDetached == ranStale => phase \in {"detached", "ended"}

(* ^C stops a running target, even one that loops forever and even behind  *)
(* other unread bytes: execute looks at the connection again and again.    *)
Busy == phase \in {"waiting", "loop"}
InterruptHonoured == (Busy /\ "^C" \in Range(incoming)) ~> ~Busy

(* The protocol's Continue runs "until breakpoint, signal or exit": a      *)
(* watchpoint stop presupposes a watchpoint on the address.                *)
WatchStopsAreAskedFor ==
  /\ \A a \in stop.addr : stop.kind = "watchwrite" =>
       [addr |-> a, kind |-> "write"] \in Range(watchpoints)
  /\ \A a \in stop.addr : stop.kind = "watchread" =>
       [addr |-> a, kind |-> "read"] \in Range(watchpoints)
=============================================================================
