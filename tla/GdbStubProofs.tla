---------------------------- MODULE GdbStubProofs ----------------------------
(***************************************************************************)
(* GdbStubHandler implements the debug target, catches system calls before *)
(* they are executed and never runs a stale program under the debugger:    *)
(* for every program, every set of points and every polling interval.      *)
(***************************************************************************)
EXTENDS GdbStub, WellFoundedInduction, TLAPS

(* A target that has run on since its resume is not at a breakpoint.       *)
NotAtBreakpoint ==
  phase \in {"waiting", "loop"} /\ ~fresh => pc \notin Range(breakpoints)

(* Until the debugger leaves, a cache that is stale is about to be reset.  *)
StaleIsReset == phase \notin {"detached", "ended"} /\ stale => reset_signal

IInv == TypeOK /\ NotAtBreakpoint /\ CaughtBeforeExecuted /\ StaleIsReset /\ StaleOnlyDetached

-----------------------------------------------------------------------------
(* A set of numbers that is not empty has a least element.                 *)
LEMMA Least ==
  ASSUME NEW T \in SUBSET Nat, T # {}
  PROVE  \E x \in T : \A y \in T : x <= y
<1> DEFINE R == {ss \in Nat \X Nat : ss[1] < ss[2]}
<1>1. IsWellFoundedOn(R, Nat)
  BY NatLessThanWellFounded, Zenon DEF OpToRel
<1>2. \E x \in T : \A y \in T : ~(<<y, x>> \in R)
  BY <1>1, WFMin, Zenon
<1>3. PICK x \in T : \A y \in T : ~(<<y, x>> \in R)
  BY <1>2
<1>4. \A y \in T : x <= y
  <2> TAKE y \in T
  <2>1. x \in Nat /\ y \in Nat
    OBVIOUS
  <2>2. y < x => <<y, x>> \in R
    BY <2>1
  <2> QED BY <1>3, <2>1, <2>2
<1> QED BY <1>4

(* Removing an entry of a list.                                            *)
LEMMA RemovedAt ==
  ASSUME NEW S, NEW s \in Seq(S), NEW i \in 1 .. Len(s)
  PROVE  /\ RemoveAt(s, i) \in Seq(S)
         /\ Range(RemoveAt(s, i)) \in {Range(s), Range(s) \ {s[i]}}
<1> DEFINE a == SubSeq(s, 1, i - 1)
           b == SubSeq(s, i + 1, Len(s))
           r == RemoveAt(s, i)
<1>1. /\ a \in Seq(S) /\ Len(a) = i - 1
      /\ \A j \in 1 .. i - 1 : a[j] = s[j]
  OBVIOUS
<1>2. /\ b \in Seq(S) /\ Len(b) = Len(s) - i
      /\ \A j \in 1 .. Len(s) - i : b[j] = s[j + i]
  OBVIOUS
<1>3. r = a \o b
  BY DEF RemoveAt
<1> HIDE DEF a, b, r
<1>4. r \in Seq(S) /\ Len(r) = Len(s) - 1
  BY <1>1, <1>2, <1>3
<1>5. \A j \in 1 .. i - 1 : r[j] = s[j]
  BY <1>1, <1>2, <1>3
<1>6. \A j \in i .. Len(s) - 1 : r[j] = s[j + 1]
  <2> TAKE j \in i .. Len(s) - 1
  <2>1. r[j] = b[j - (i - 1)]
    BY <1>1, <1>2, <1>3
  <2>2. j - (i - 1) \in 1 .. Len(s) - i /\ j - (i - 1) + i = j + 1
    OBVIOUS
  <2> QED BY <1>2, <2>1, <2>2
<1>7. Range(r) \subseteq Range(s)
  <2> SUFFICES ASSUME NEW j \in 1 .. Len(s) - 1 PROVE r[j] \in Range(s)
    BY <1>4 DEF Range
  <2>1. j \in 1 .. i - 1 \/ j \in i .. Len(s) - 1
    OBVIOUS
  <2> QED BY <1>5, <1>6, <2>1 DEF Range
<1>8. \A x \in Range(s) : x # s[i] => x \in Range(r)
  <2> SUFFICES ASSUME NEW x \in Range(s), x # s[i] PROVE x \in Range(r)
    OBVIOUS
  <2>1. PICK j \in 1 .. Len(s) : x = s[j]
    BY DEF Range
  <2>2. CASE j < i
    BY <1>4, <1>5, <2>1, <2>2 DEF Range
  <2>3. CASE j > i
    <3>1. j - 1 \in i .. Len(s) - 1 /\ j - 1 \in 1 .. Len(r) /\ r[j - 1] = s[j]
      BY <1>4, <1>6, <2>1, <2>3
    <3> QED BY <1>4, <2>1, <3>1 DEF Range
  <2> QED BY <2>1, <2>2, <2>3
<1>9. RemoveAt(s, i) = r
  BY DEF r
<1> QED BY <1>4, <1>7, <1>8, <1>9

(* An entry that is there has a first position.                            *)
LEMMA FirstIndexIsIndex ==
  ASSUME NEW S, NEW s \in Seq(S), NEW x \in Range(s)
  PROVE  FirstIndex(s, x) \in 1 .. Len(s) /\ s[FirstIndex(s, x)] = x
<1> DEFINE T == {i \in DOMAIN s : s[i] = x}
<1>1. DOMAIN s = 1 .. Len(s) /\ T \in SUBSET Nat /\ T # {}
  BY DEF Range
<1>2. PICK i \in T : \A j \in T : i <= j
  BY <1>1, Least
<1>3. \A j \in 1 .. i - 1 : s[j] # x
  BY <1>1, <1>2
<1>4. \E k \in DOMAIN s : s[k] = x /\ \A j \in 1 .. k - 1 : s[j] # x
  BY <1>1, <1>2, <1>3
<1> QED BY <1>1, <1>4 DEF FirstIndex

-----------------------------------------------------------------------------
(* The stop reasons; that of a target which goes on is none of the others. *)
LEMMA StopReasons ==
  /\ \A k \in {"none", "break", "donestep", "sigint", "exited", "error"} : Stop(k, {}) \in StopReason
  /\ NoStop \in StopReason
  /\ \A n \in Syscalls : Stop("syscall", {n}) \in StopReason
  /\ \A k \in {"watchread", "watchwrite"}, a \in Addr : Stop(k, {a}) \in StopReason
  /\ \A k \in {"break", "syscall", "watchread", "watchwrite"} : \A S : Stop(k, S) # NoStop
<1>1. \A k \in {"none", "break", "donestep", "sigint", "exited", "error"} : Stop(k, {}) \in StopReason
  BY DEF StopReason, Stop
<1>2. NoStop \in StopReason
  BY <1>1 DEF NoStop
<1>3. \A n \in Syscalls : Stop("syscall", {n}) \in StopReason
  BY DEF StopReason, Stop
<1>4. \A k \in {"watchread", "watchwrite"}, a \in Addr : Stop(k, {a}) \in StopReason
  BY DEF StopReason, Stop
<1>5. ASSUME NEW k \in {"break", "syscall", "watchread", "watchwrite"}, NEW S PROVE Stop(k, S) # NoStop
  <2>1. Stop(k, S).kind = k /\ NoStop.kind = "none" /\ k # "none"
    BY DEF Stop, NoStop
  <2> QED BY <2>1
<1> QED BY <1>1, <1>2, <1>3, <1>4, <1>5

(* The invariant holds when gdb connects.                                  *)
LEMMA InitInv == Init => IInv
<1> SUFFICES ASSUME Init PROVE IInv
  OBVIOUS
<1>1. exec_mode \in ExecMode /\ stop \in StopReason /\ executed_cycles \in 0 .. PollInterval - 1
  BY PollAssumption DEF Init, ExecMode, Continue, StopReason, NoStop, Stop
<1>2. Range(breakpoints) = {} /\ breakpoints \in Seq(Pc) /\ watchpoints \in Seq(Watchpoint)
      /\ incoming \in Seq({"^C", "other"})
  BY DEF Init, Range
<1> QED
  BY <1>1, <1>2 DEF Init, IInv, TypeOK, NotAtBreakpoint, CaughtBeforeExecuted, StaleIsReset,
     StaleOnlyDetached, Singletons

(* What the crate calls between stops changes nothing that matters to a    *)
(* running target: the target is not running.                              *)
LEMMA IdleInv ==
  ASSUME IInv,
         \/ \E a \in Pc : AddSwBreakpoint(a) \/ RemoveSwBreakpoint(a) \/ WritePc(a)
         \/ \E w \in Watchpoint :
              AddHwWatchpoint(w) \/ RemoveHwWatchpoint(w) \/ RemoveHwWatchpointPanics(w)
         \/ \E f \in SUBSET Syscalls : CatchSyscalls(f)
         \/ \E m \in ExecMode : Resume(m)
         \/ \E p \in {"detached", "ended"} : Disconnect(p)
         \/ IdleByte
  PROVE  IInv'
<1> USE DEF IInv, TypeOK, NotAtBreakpoint, CaughtBeforeExecuted, StaleIsReset, StaleOnlyDetached,
        Idle, UnchangedRun, vm, accesses, points
<1>1. ASSUME NEW a \in Pc, AddSwBreakpoint(a) PROVE IInv'
  BY <1>1 DEF AddSwBreakpoint
<1>2. ASSUME NEW a \in Pc, RemoveSwBreakpoint(a) PROVE IInv'
  <2>1. breakpoints' \in Seq(Pc)
    BY <1>2, FirstIndexIsIndex, RemovedAt DEF RemoveSwBreakpoint
  <2> QED BY <1>2, <2>1 DEF RemoveSwBreakpoint
<1>3. ASSUME NEW a \in Pc, WritePc(a) PROVE IInv'
  BY <1>3 DEF WritePc
<1>4. ASSUME NEW w \in Watchpoint, AddHwWatchpoint(w) PROVE IInv'
  BY <1>4 DEF AddHwWatchpoint
<1>5. ASSUME NEW w \in Watchpoint, RemoveHwWatchpoint(w) PROVE IInv'
  <2>1. FirstIndex(watchpoints, w) \in 1 .. Len(breakpoints)
    BY <1>5, FirstIndexIsIndex DEF RemoveHwWatchpoint
  <2>2. breakpoints' \in Seq(Pc)
    BY <1>5, <2>1, RemovedAt DEF RemoveHwWatchpoint
  <2> QED BY <1>5, <2>2 DEF RemoveHwWatchpoint
<1>6. ASSUME NEW w \in Watchpoint, RemoveHwWatchpointPanics(w) PROVE IInv'
  BY <1>6 DEF RemoveHwWatchpointPanics
<1>7. ASSUME NEW f \in SUBSET Syscalls, CatchSyscalls(f) PROVE IInv'
  BY <1>7 DEF CatchSyscalls
<1>8. ASSUME NEW m \in ExecMode, Resume(m) PROVE IInv'
  BY <1>8, StopReasons DEF Resume
<1>9. ASSUME NEW p \in {"detached", "ended"}, Disconnect(p) PROVE IInv'
  BY <1>9 DEF Disconnect
<1>10. CASE IdleByte
  BY <1>10 DEF IdleByte
<1> QED BY <1>1, <1>2, <1>3, <1>4, <1>5, <1>6, <1>7, <1>8, <1>9, <1>10

(* The connection, as seen from the running target.                        *)
LEMMA ConnectionInv ==
  ASSUME IInv, (\E b \in {"^C", "other"} : PeerByte(b)) \/ ConnectionLost \/ ExecuteEntry
  PROVE  IInv'
<1> USE DEF IInv, TypeOK, NotAtBreakpoint, CaughtBeforeExecuted, StaleIsReset, StaleOnlyDetached,
        UnchangedRun, vm, accesses, points
<1>1. ASSUME NEW b \in {"^C", "other"}, PeerByte(b) PROVE IInv'
  BY <1>1 DEF PeerByte
<1>2. CASE ConnectionLost
  BY <1>2 DEF ConnectionLost
<1>3. CASE ExecuteEntry
  <2>1. CASE incoming # <<>>
    <3>1. /\ incoming' = Tail(incoming)
          /\ phase' \in {"idle", "waiting"} /\ stop' \in {stop, Stop("sigint", {})}
          /\ UNCHANGED <<vm, exec_mode, points, accesses, fresh, executed_cycles>>
          /\ phase = "waiting"
      BY <1>3, <2>1 DEF ExecuteEntry, IncomingData
    <3>2. stop' \in StopReason
      BY <3>1, StopReasons
    <3>3. incoming' \in Seq({"^C", "other"})
      BY <2>1, <3>1
    <3> QED BY <3>1, <3>2, <3>3
  <2>2. CASE incoming = <<>>
    BY <1>3, <2>2, PollAssumption DEF ExecuteEntry
  <2> QED BY <2>1, <2>2
<1> QED BY <1>1, <1>2, <1>3

(* The event of a step is a stop reason, and is there whenever the target  *)
(* has come to a breakpoint or a caught call.                              *)
LEMMA VmEventFacts ==
  ASSUME NEW p \in Pc, NEW n \in Syscalls, NEW r \in Singletons(Addr), NEW w \in Singletons(Addr),
         NEW ecall \in BOOLEAN
  PROVE  /\ VmEvent(p, n, r, w, ecall) \in StopReason
         /\ VmEvent(p, n, r, w, ecall) = NoStop =>
              p \notin Range(breakpoints) /\ ~(ecall /\ n \in catch_syscalls)
<1> DEFINE e == VmEvent(p, n, r, w, ecall)
<1>1. CASE ecall /\ Filtered(n)
  <2>1. e = Stop("syscall", {n})
    BY <1>1 DEF VmEvent
  <2> QED BY <2>1, StopReasons
<1>2. CASE ~(ecall /\ Filtered(n)) /\ AtBreakpoint(p)
  <2>1. e = Stop("break", {})
    BY <1>2 DEF VmEvent
  <2> QED BY <2>1, StopReasons
<1>3. CASE ~(ecall /\ Filtered(n)) /\ ~AtBreakpoint(p) /\ w # {}
  <2>1. e = Stop("watchwrite", w)
    BY <1>3 DEF VmEvent, WriteEvent
  <2>2. PICK a \in Addr : w = {a}
    BY <1>3 DEF Singletons
  <2> QED BY <2>1, <2>2, StopReasons
<1>4. CASE ~(ecall /\ Filtered(n)) /\ ~AtBreakpoint(p) /\ w = {} /\ r # {}
  <2>1. e = Stop("watchread", r)
    BY <1>4 DEF VmEvent
  <2>2. PICK a \in Addr : r = {a}
    BY <1>4 DEF Singletons
  <2> QED BY <2>1, <2>2, StopReasons
<1>5. CASE ~(ecall /\ Filtered(n)) /\ ~AtBreakpoint(p) /\ w = {} /\ r = {}
  <2>1. e = NoStop
    BY <1>5 DEF VmEvent
  <2> QED BY <1>5, <2>1, StopReasons DEF AtBreakpoint, Filtered
<1> QED BY <1>1, <1>2, <1>3, <1>4, <1>5

(* One call of step under the debugger: the cache is reset before a stale  *)
(* instruction can come from it, and a target that goes on has come to     *)
(* neither a breakpoint nor, as far as it can decode, a caught call.       *)
LEMMA LoopStepInv ==
  ASSUME IInv, LoopStep
  PROVE  IInv'
<1>1. PICK p \in Pc, n \in Syscalls, r \in Singletons(Addr), w \in Singletons(Addr),
           exec \in BOOLEAN, exit \in BOOLEAN, ecall \in BOOLEAN :
        /\ Instruction(p, n, r, w, exec, exit)
        /\ reset_signal' = exec
        /\ stale' = (StaleAtDecode \/ exec)
        /\ stale' \/ ecall = (p \in Ecalls)
        /\ Dispatch(VmEvent(p, n, r, w, ecall), p)
  BY DEF LoopStep
<1> DEFINE e == VmEvent(p, n, r, w, ecall)
<1>2. /\ e \in StopReason
      /\ e = NoStop => p \notin Range(breakpoints) /\ ~(ecall /\ n \in catch_syscalls)
  BY VmEventFacts
<1> HIDE DEF e
<1>3. /\ phase = "loop"
      /\ pc' = p /\ a7' = n /\ running' = ~exit /\ memory_reads' = r /\ memory_writes' = w
      /\ fresh' = FALSE /\ ranStale' = (ranStale \/ StaleAtDecode)
      /\ UNCHANGED <<exec_mode, breakpoints, watchpoints, catch_syscalls>>
  BY <1>1 DEF LoopStep, Instruction, points
<1>4. StaleAtDecode = FALSE
  BY <1>3 DEF IInv, TypeOK, StaleIsReset, StaleAtDecode
<1>5. ranStale = FALSE
  BY <1>3 DEF IInv, TypeOK, StaleOnlyDetached
<1>6. stale' = exec /\ reset_signal' = exec /\ ranStale' = FALSE
  BY <1>1, <1>3, <1>4, <1>5
<1>7. /\ phase' \in {"idle", "waiting", "loop"}
      /\ executed_cycles' \in 0 .. PollInterval - 1
      /\ incoming' \in Seq({"^C", "other"})
      /\ stop' \in StopReason
      /\ phase' # "idle" => e = NoStop
  <2>0. Dispatch(e, p)
    BY <1>1 DEF e
  <2> USE <1>2, <1>3, StopReasons DEF IInv, TypeOK
  <2>1. CASE /\ e # NoStop
             /\ phase' = "idle" /\ stop' = e
             /\ UNCHANGED <<executed_cycles, incoming>>
    BY <2>1
  <2>2. CASE /\ e = NoStop
             /\ phase' = "idle" /\ stop' = Stop("donestep", {})
             /\ UNCHANGED <<executed_cycles, incoming>>
    BY <2>2
  <2>3. CASE /\ e = NoStop
             /\ executed_cycles' = (executed_cycles + 1) % PollInterval
             /\ IF PollDue(executed_cycles + 1) /\ incoming # <<>>
                  THEN IncomingData
                  ELSE UNCHANGED <<phase, incoming, stop>>
    <3>1. executed_cycles' \in 0 .. PollInterval - 1
      BY <2>3, PollAssumption
    <3>2. CASE PollDue(executed_cycles + 1) /\ incoming # <<>>
      <4>1. /\ incoming' = Tail(incoming)
            /\ phase' \in {"idle", "waiting"} /\ stop' \in {stop, Stop("sigint", {})}
        BY <2>3, <3>2 DEF IncomingData
      <4>2. stop' \in StopReason
        BY <4>1
      <4>3. incoming' \in Seq({"^C", "other"})
        BY <3>2, <4>1
      <4> QED BY <2>3, <3>1, <4>1, <4>2, <4>3
    <3>3. CASE ~(PollDue(executed_cycles + 1) /\ incoming # <<>>)
      BY <2>3, <3>1, <3>3
    <3> QED BY <3>2, <3>3
  <2> QED BY <2>0, <2>1, <2>2, <2>3 DEF Dispatch
<1>8. TypeOK'
  BY <1>3, <1>6, <1>7 DEF IInv, TypeOK
<1>9. NotAtBreakpoint'
  BY <1>2, <1>3, <1>7 DEF NotAtBreakpoint
<1>10. CaughtBeforeExecuted'
  BY <1>1, <1>2, <1>3, <1>7 DEF CaughtBeforeExecuted
<1>11. StaleIsReset' /\ StaleOnlyDetached'
  BY <1>6 DEF StaleIsReset, StaleOnlyDetached
<1> QED BY <1>8, <1>9, <1>10, <1>11 DEF IInv

(* The end of a session, and the program that runs on without one.         *)
LEMMA EndInv ==
  ASSUME IInv, LoopExited \/ LoopError \/ DetachedStep \/ DetachedEnds
  PROVE  IInv'
<1> USE StopReasons DEF IInv, TypeOK, NotAtBreakpoint, CaughtBeforeExecuted, StaleIsReset,
        StaleOnlyDetached, vm, accesses, points
<1>1. CASE LoopExited
  BY <1>1 DEF LoopExited
<1>2. CASE LoopError
  BY <1>2 DEF LoopError
<1>3. CASE DetachedStep
  BY <1>3 DEF DetachedStep, Instruction
<1>4. CASE DetachedEnds
  BY <1>4 DEF DetachedEnds, UnchangedRun
<1> QED BY <1>1, <1>2, <1>3, <1>4

(* Every step keeps the invariant.                                         *)
LEMMA StepInv == IInv /\ [Next]_vars => IInv'
<1> SUFFICES ASSUME IInv, [Next]_vars PROVE IInv'
  OBVIOUS
<1>1. CASE UNCHANGED vars
  BY <1>1 DEF vars, vm, points, accesses, IInv, TypeOK, NotAtBreakpoint, CaughtBeforeExecuted,
     StaleIsReset, StaleOnlyDetached
<1> QED BY <1>1, IdleInv, ConnectionInv, LoopStepInv, EndInv DEF Next, Server, Over

(* So it always holds.                                                     *)
LEMMA InvHolds == Spec => []IInv
  BY InitInv, StepInv, PTL DEF Spec

(* The variables of the handler always have their types.                   *)
THEOREM TypeCorrect == Spec => []TypeOK
<1>1. IInv => TypeOK
  BY DEF IInv
<1> QED BY <1>1, InvHolds, PTL

(* A caught system call is never executed before gdb has seen it, for      *)
(* every program, filter and polling interval.                             *)
THEOREM CallsAreCaught == Spec => []CaughtBeforeExecuted
<1>1. IInv => CaughtBeforeExecuted
  BY DEF IInv
<1> QED BY <1>1, InvHolds, PTL

(* Under the debugger no instruction comes from a stale cache, for every   *)
(* sequence of exec calls.                                                 *)
THEOREM NeverStaleUnderGdb == Spec => []StaleOnlyDetached
<1>1. IInv => StaleOnlyDetached
  BY DEF IInv
<1> QED BY <1>1, InvHolds, PTL

-----------------------------------------------------------------------------
(* The refinement of DebugTarget.                                          *)

(* The target as the mapping sees it, before and after a step.             *)
LEMMA Mapped ==
  ASSUME IInv, IInv'
  PROVE  /\ phase = "detached" => Mode = "detached"
         /\ phase \in {"idle", "ended", "panicked"} => Mode = "halted"
         /\ phase \in {"waiting", "loop"} => Mode = IF fresh THEN "resumed" ELSE "running"
         /\ phase' = "detached" => Mode' = "detached"
         /\ phase' \in {"idle", "ended", "panicked"} => Mode' = "halted"
         /\ phase' \in {"waiting", "loop"} => Mode' = IF fresh' THEN "resumed" ELSE "running"
  BY DEF IInv, TypeOK, Mode

(* The entries of a list that has grown.                                   *)
LEMMA AppendedRange ==
  ASSUME NEW S, NEW s \in Seq(S), NEW x \in S
  PROVE  Range(Append(s, x)) = Range(s) \cup {x}
<1> DEFINE t == Append(s, x)
<1>1. /\ DOMAIN t = 1 .. Len(s) + 1 /\ DOMAIN s = 1 .. Len(s)
      /\ \A i \in 1 .. Len(s) : t[i] = s[i]
      /\ t[Len(s) + 1] = x
      /\ Len(s) \in Nat
  OBVIOUS
<1> HIDE DEF t
<1>2. Range(t) \subseteq Range(s) \cup {x}
  BY <1>1 DEF Range
<1>3. Range(s) \subseteq Range(t) /\ x \in Range(t)
  BY <1>1 DEF Range
<1>4. Range(t) = Range(s) \cup {x}
  BY <1>2, <1>3
<1> QED BY <1>4 DEF t

(* A request between stops is one of the debugger's, or changes nothing    *)
(* the abstract target has.                                                *)
LEMMA IdleImplements ==
  ASSUME IInv, IInv',
         \/ \E a \in Pc : AddSwBreakpoint(a) \/ RemoveSwBreakpoint(a) \/ WritePc(a)
         \/ \E w \in Watchpoint :
              AddHwWatchpoint(w) \/ RemoveHwWatchpoint(w) \/ RemoveHwWatchpointPanics(w)
         \/ \E f \in SUBSET Syscalls : CatchSyscalls(f)
         \/ \E m \in ExecMode : Resume(m)
         \/ \E p \in {"detached", "ended"} : Disconnect(p)
         \/ IdleByte
  PROVE  [Target!Next]_(Target!vars)
<1> USE Mapped DEF Idle, UnchangedRun, vm, accesses, points
<1> DEFINE Goal == [Target!Next]_(Target!vars)
<1>0. breakpoints \in Seq(Pc) /\ watchpoints \in Seq(Watchpoint) /\ pc' \in Pc
  BY DEF IInv, TypeOK
<1>1. ASSUME NEW a \in Pc, AddSwBreakpoint(a) PROVE Goal
  <2>1. Range(breakpoints') = Range(breakpoints) \cup {a}
    BY <1>0, <1>1, AppendedRange DEF AddSwBreakpoint
  <2>2. Target!Insert(a)
    BY <1>1, <2>1 DEF AddSwBreakpoint, Target!Insert
  <2> QED BY <2>2 DEF Target!Next
<1>2. ASSUME NEW a \in Pc, RemoveSwBreakpoint(a) PROVE Goal
  <2>1. Range(breakpoints') \in {Range(breakpoints), Range(breakpoints) \ {a}}
    BY <1>0, <1>2, FirstIndexIsIndex, RemovedAt DEF RemoveSwBreakpoint
  <2>2. pc' = pc /\ Mode = "halted" /\ Mode' = "halted"
    BY <1>2 DEF RemoveSwBreakpoint
  <2>3. Target!Remove(a) \/ UNCHANGED Target!vars
    BY <2>1, <2>2 DEF Target!Remove, Target!vars
  <2> QED BY <2>3 DEF Target!Next
<1>3. ASSUME NEW a \in Pc, WritePc(a) PROVE Goal
  <2>1. Target!SetPc
    BY <1>3 DEF WritePc, Target!SetPc
  <2> QED BY <2>1 DEF Target!Next
<1>4. ASSUME NEW w \in Watchpoint, AddHwWatchpoint(w) PROVE Goal
  BY <1>4 DEF AddHwWatchpoint, Target!vars
<1>5. ASSUME NEW w \in Watchpoint, RemoveHwWatchpoint(w) PROVE Goal
  <2> DEFINE i == FirstIndex(watchpoints, w)
  <2>1. i \in 1 .. Len(breakpoints) /\ breakpoints' = RemoveAt(breakpoints, i)
    BY <1>0, <1>5, FirstIndexIsIndex DEF RemoveHwWatchpoint
  <2> HIDE DEF i
  <2>2. Range(breakpoints') \in {Range(breakpoints), Range(breakpoints) \ {breakpoints[i]}}
    BY <1>0, <2>1, RemovedAt
  <2>3. breakpoints[i] \in Pc
    BY <1>0, <2>1
  <2>4. pc' = pc /\ Mode = "halted" /\ Mode' = "halted"
    BY <1>5 DEF RemoveHwWatchpoint
  <2>5. Target!Remove(breakpoints[i]) \/ UNCHANGED Target!vars
    BY <2>2, <2>4 DEF Target!Remove, Target!vars
  <2> QED BY <2>3, <2>5 DEF Target!Next
<1>6. ASSUME NEW w \in Watchpoint, RemoveHwWatchpointPanics(w) PROVE Goal
  BY <1>6 DEF RemoveHwWatchpointPanics, Target!vars
<1>7. ASSUME NEW f \in SUBSET Syscalls, CatchSyscalls(f) PROVE Goal
  BY <1>7 DEF CatchSyscalls, Target!vars
<1>8. ASSUME NEW m \in ExecMode, Resume(m) PROVE Goal
  <2>1. Target!Resume
    BY <1>8 DEF Resume, Target!Resume
  <2> QED BY <2>1 DEF Target!Next
<1>9. ASSUME NEW p \in {"detached", "ended"}, Disconnect(p) PROVE Goal
  <2>1. Target!Detach \/ UNCHANGED Target!vars
    BY <1>9 DEF Disconnect, Target!Detach, Target!vars
  <2> QED BY <2>1 DEF Target!Next
<1>10. CASE IdleByte
  BY <1>10 DEF IdleByte, Target!vars
<1> QED BY <1>1, <1>2, <1>3, <1>4, <1>5, <1>6, <1>7, <1>8, <1>9, <1>10

(* The loop executes only what the abstract target may execute: it calls   *)
(* step at a breakpoint only right after the resume.                       *)
LEMMA LoopImplements ==
  ASSUME IInv, IInv', LoopStep
  PROVE  Target!Execute
<1>1. /\ phase = "loop" /\ fresh' = FALSE /\ breakpoints' = breakpoints
  BY DEF LoopStep, points
<1>2. phase' \in {"idle", "waiting", "loop"}
  BY <1>1 DEF LoopStep, Dispatch, IncomingData
<1>3. Mode' \in {"running", "halted"}
  BY <1>1, <1>2, Mapped
<1>4. Mode = "resumed" \/ (Mode = "running" /\ pc \notin Range(breakpoints))
  BY <1>1, Mapped DEF IInv, NotAtBreakpoint
<1>5. pc' \in Pc
  BY DEF IInv, TypeOK
<1> QED BY <1>1, <1>3, <1>4, <1>5 DEF Target!Execute

(* Every other step halts the target, lets it run on without a debugger,   *)
(* or leaves it as it is.                                                  *)
LEMMA RestImplements ==
  ASSUME IInv, IInv',
         \/ \E b \in {"^C", "other"} : PeerByte(b)
         \/ ConnectionLost \/ ExecuteEntry \/ LoopExited \/ LoopError
         \/ DetachedStep \/ DetachedEnds
  PROVE  [Target!Next]_(Target!vars)
<1> USE Mapped DEF UnchangedRun, vm, accesses, points
<1> DEFINE Goal == [Target!Next]_(Target!vars)
<1>1. ASSUME NEW b \in {"^C", "other"}, PeerByte(b) PROVE Goal
  BY <1>1 DEF PeerByte, Target!vars
<1>2. CASE ExecuteEntry
  <2>1. /\ phase = "waiting" /\ phase' \in {"idle", "waiting", "loop"}
        /\ UNCHANGED <<pc, breakpoints, fresh>>
    BY <1>2 DEF ExecuteEntry, IncomingData
  <2>2. Target!Halt \/ UNCHANGED Target!vars
    BY <2>1 DEF Target!Halt, Target!vars
  <2> QED BY <2>2 DEF Target!Next
<1>3. CASE ConnectionLost \/ LoopExited \/ LoopError \/ DetachedEnds
  <2>1. /\ phase \in {"waiting", "loop", "detached"} /\ phase' = "ended"
        /\ UNCHANGED <<pc, breakpoints, fresh>>
    BY <1>3 DEF ConnectionLost, LoopExited, LoopError, DetachedEnds
  <2>2. Target!Halt
    BY <2>1 DEF Target!Halt
  <2> QED BY <2>2 DEF Target!Next
<1>4. CASE DetachedStep
  <2>1. phase = "detached" /\ UNCHANGED <<phase, breakpoints>> /\ pc' \in Pc
    BY <1>4 DEF DetachedStep, IInv, TypeOK
  <2>2. Target!RunOn
    BY <2>1 DEF Target!RunOn
  <2> QED BY <2>2 DEF Target!Next
<1> QED BY <1>1, <1>2, <1>3, <1>4

(* GdbStubHandler implements the debug target.                             *)
THEOREM IsADebugTarget == Spec => ImplementsTarget
<1>1. Init => Target!Init
  <2> SUFFICES ASSUME Init PROVE Target!Init
    OBVIOUS
  <2>1. Range(breakpoints) = {} /\ Mode = "halted" /\ pc \in Pc
    BY DEF Init, Range, Mode
  <2> QED BY <2>1 DEF Target!Init
<1>2. IInv /\ IInv' /\ [Next]_vars => [Target!Next]_(Target!vars)
  <2> SUFFICES ASSUME IInv, IInv', [Next]_vars PROVE [Target!Next]_(Target!vars)
    OBVIOUS
  <2>1. CASE UNCHANGED vars
    BY <2>1 DEF vars, vm, points, Mode, Target!vars
  <2>2. CASE LoopStep
    BY <2>2, LoopImplements DEF Target!Next
  <2> QED BY <2>1, <2>2, IdleImplements, RestImplements DEF Next, Server, Over
<1> QED BY <1>1, <1>2, InvHolds, PTL DEF Spec, ImplementsTarget, Target!Spec
=============================================================================
