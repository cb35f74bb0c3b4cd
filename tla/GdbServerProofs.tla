--------------------------- MODULE GdbServerProofs ---------------------------
(***************************************************************************)
(* GdbHandler implements the debug target, executes nothing between a      *)
(* change of a watched region and the stop it causes, and forgets no       *)
(* change silently: for every memory, program and list of watchpoints.     *)
(***************************************************************************)
EXTENDS GdbServer, FiniteSetTheorems, TLAPS

(* While vcont loops, a change the last instruction has made can still be  *)
(* seen by at_watchpoint.                                                  *)
ChangeIsVisible ==
  dirty /\ ~first /\ vcont.kind \in {"continue", "range"} => AtWatchpoint

IInv == TypeOK /\ ChangeIsVisible

-----------------------------------------------------------------------------
(* What a readable region holds is a sequence of values.                   *)
LEMMA ContentType ==
  ASSUME NEW m \in [Addr -> Val], NEW w \in WatchPointStatus, Readable(w)
  PROVE  Content(m, w) \in Seq(Val)
<1>1. w.addr \in Nat /\ w.n_bytes \in Nat
  BY DEF WatchPointStatus
<1>2. ASSUME NEW i \in 1 .. w.n_bytes PROVE m[w.addr + i - 1] \in Val
  <2>1. w.addr + i - 1 \in w.addr .. (w.addr + w.n_bytes - 1)
    BY <1>1
  <2>2. w.addr + i - 1 \in Addr
    BY <2>1 DEF Readable, Cells
  <2> QED BY <2>2
<1> QED BY <1>1, <1>2 DEF Content

(* A round of at_watchpoint keeps the regions of the list.                 *)
LEMMA RecheckedFacts ==
  ASSUME TypeOK
  PROVE  /\ Rechecked \in Seq(WatchPointStatus)
         /\ Len(Rechecked) = Len(watchpoints)
         /\ \A i \in 1 .. Len(watchpoints) :
              /\ Rechecked[i].addr = watchpoints[i].addr
              /\ Rechecked[i].n_bytes = watchpoints[i].n_bytes
<1>0. watchpoints \in Seq(WatchPointStatus) /\ Len(watchpoints) \in Nat
  BY DEF TypeOK
<1>1. ASSUME NEW i \in 1 .. Len(watchpoints)
      PROVE  /\ Rechecked[i] \in WatchPointStatus
             /\ Rechecked[i].addr = watchpoints[i].addr
             /\ Rechecked[i].n_bytes = watchpoints[i].n_bytes
  <2>1. watchpoints[i] \in WatchPointStatus
    BY <1>0
  <2>2. CASE ReadableUpTo(i)
    <3>1. Readable(watchpoints[i])
      BY <2>2 DEF ReadableUpTo
    <3>2. Content(mem, watchpoints[i]) \in Seq(Val)
      BY <2>1, <3>1, ContentType DEF TypeOK
    <3>3. Rechecked[i] = Looked(watchpoints[i])
      BY <2>2 DEF Rechecked
    <3> QED BY <2>1, <3>2, <3>3 DEF Looked, WatchPointStatus
  <2>3. CASE ~ReadableUpTo(i)
    BY <2>1, <2>3 DEF Rechecked
  <2> QED BY <2>2, <2>3
<1>2. /\ DOMAIN Rechecked = 1 .. Len(watchpoints)
      /\ Rechecked = [i \in 1 .. Len(watchpoints) |-> Rechecked[i]]
  BY DEF Rechecked
<1> HIDE DEF Rechecked
<1>3. Rechecked \in Seq(WatchPointStatus) /\ Len(Rechecked) = Len(watchpoints)
  BY <1>0, <1>1, <1>2
<1> QED BY <1>1, <1>3

(* What execution of an instruction keeps.                                 *)
LEMMA VmStepFacts ==
  ASSUME TypeOK, NEW m \in Writes, VmStep(m)
  PROVE  /\ pc' \in Pc /\ mem' \in [Addr -> Val] /\ running' \in BOOLEAN /\ stuck' \in BOOLEAN
         /\ dirty' \in BOOLEAN
<1>1. mem' \in [Addr -> Val]
  BY DEF TypeOK, VmStep, Writes
<1>2. dirty' \in BOOLEAN
  BY Zenon DEF VmStep
<1> QED BY <1>1, <1>2 DEF TypeOK, VmStep

(* The handler starts without points.                                      *)
LEMMA InitInv == Init => IInv
<1> SUFFICES ASSUME Init PROVE IInv
  OBVIOUS
<1>1. TypeOK
  <2>1. mem \in [Addr -> Val] /\ watchpoints \in Seq(WatchPointStatus)
    BY ZeroAssumption DEF Init
  <2>2. vcont \in Request \cup {Idle} /\ reply = "none" /\ breakpoints \subseteq Breakpoint
    BY DEF Init
  <2> QED BY <2>1, <2>2 DEF Init, TypeOK
<1>2. ChangeIsVisible
  BY DEF Init, ChangeIsVisible
<1> QED BY <1>1, <1>2 DEF IInv

(* The methods that answer at once.                                        *)
LEMMA ReadyInv ==
  ASSUME IInv,
         \/ \E b \in Breakpoint : InsertSoftwareBreakpoint(b)
         \/ \E a \in Pc : RemoveSoftwareBreakpoint(a) \/ WriteRegister(a)
         \/ \E r \in Regions : InsertWriteWatchpoint(r) \/ RemoveWriteWatchpoint(r)
         \/ \E r \in Regions, v \in Val : WriteMemory(r.addr, v)
         \/ \E r \in Request : VCont(r)
         \/ VContUnsupported
         \/ VContDone
  PROVE  IInv'
<1> USE DEF IInv, TypeOK, Ready, Answer, vm
<1>1. ASSUME vcont' = Idle \/ first' PROVE ChangeIsVisible'
  BY <1>1 DEF ChangeIsVisible, Idle
<1>2. ASSUME NEW b \in Breakpoint, InsertSoftwareBreakpoint(b) PROVE IInv'
  BY <1>1, <1>2 DEF InsertSoftwareBreakpoint
<1>3. ASSUME NEW a \in Pc, RemoveSoftwareBreakpoint(a) PROVE IInv'
  BY <1>1, <1>3 DEF RemoveSoftwareBreakpoint
<1>4. ASSUME NEW a \in Pc, WriteRegister(a) PROVE IInv'
  BY <1>1, <1>4 DEF WriteRegister
<1>5. ASSUME NEW r \in Regions, InsertWriteWatchpoint(r) PROVE IInv'
  <2>1. NewWatch(r) \in WatchPointStatus
    <3>1. r.addr \in Nat /\ r.n_bytes \in Nat
      BY RegionsAssumption
    <3>2. [i \in 1 .. r.n_bytes |-> Zero] \in Seq(Val)
      BY <3>1, ZeroAssumption
    <3> QED BY <3>1, <3>2 DEF NewWatch, WatchPointStatus
  <2>2. watchpoints' \in Seq(WatchPointStatus)
    BY <1>5, <2>1 DEF InsertWriteWatchpoint
  <2> QED BY <1>1, <1>5, <2>2 DEF InsertWriteWatchpoint
<1>6. ASSUME NEW r \in Regions, RemoveWriteWatchpoint(r) PROVE IInv'
  <2>1. PICK f \in [1 .. Cardinality(Kept(r)) -> Kept(r)] :
               watchpoints' = [i \in DOMAIN f |-> watchpoints[f[i]]]
    BY <1>6 DEF RemoveWriteWatchpoint
  <2>2. watchpoints' \in Seq(WatchPointStatus)
    <3>1. Kept(r) \subseteq 1 .. Len(watchpoints) /\ Len(watchpoints) \in Nat
      BY DEF Kept
    <3>2. Cardinality(Kept(r)) \in Nat
      <4>1. IsFiniteSet(1 .. Len(watchpoints))
        BY <3>1, FS_Interval
      <4>2. IsFiniteSet(Kept(r))
        BY <3>1, <4>1, FS_Subset
      <4> QED BY <4>2, FS_CardinalityType
    <3>3. \A i \in 1 .. Cardinality(Kept(r)) : watchpoints[f[i]] \in WatchPointStatus
      BY <3>1
    <3> QED BY <2>1, <3>2, <3>3
  <2> QED BY <1>1, <1>6, <2>2 DEF RemoveWriteWatchpoint
<1>7. ASSUME NEW r \in Regions, NEW v \in Val, WriteMemory(r.addr, v) PROVE IInv'
  BY <1>1, <1>7 DEF WriteMemory
<1>8. ASSUME NEW r \in Request, VCont(r) PROVE IInv'
  BY <1>1, <1>8 DEF VCont
<1>9. CASE VContUnsupported
  BY <1>1, <1>9 DEF VContUnsupported
<1>10. CASE VContDone
  BY <1>1, <1>10 DEF VContDone
<1> QED BY <1>2, <1>3, <1>4, <1>5, <1>6, <1>7, <1>8, <1>9, <1>10

(* An instruction marked as a change leaves one that at_watchpoint sees.   *)
LEMMA DirtyIsVisible ==
  ASSUME TypeOK, NEW m \in Writes, VmStep(m), dirty',
         watchpoints' = watchpoints \/ watchpoints' = Rechecked
  PROVE  AtWatchpoint'
<1>1. PICK i \in 1 .. Len(watchpoints) :
        watchpoints'[i].has_data /\ watchpoints'[i].data # Content(m, watchpoints[i])
  BY DEF VmStep
<1>2. /\ Len(watchpoints') = Len(watchpoints)
      /\ watchpoints'[i].addr = watchpoints[i].addr /\ watchpoints'[i].n_bytes = watchpoints[i].n_bytes
  BY RecheckedFacts
<1>3. mem' = m
  BY DEF VmStep
<1>4. Content(mem', watchpoints'[i]) = Content(m, watchpoints[i])
  BY <1>2, <1>3 DEF Content
<1> QED BY <1>1, <1>2, <1>4 DEF AtWatchpoint, Changed

(* The steps of the running VM.                                            *)
LEMMA RunInv ==
  ASSUME IInv, FirstStep \/ LoopStep \/ WatchStop \/ WatchError
  PROVE  IInv'
<1>0. TypeOK
  BY DEF IInv
<1>1. ASSUME vcont' = Idle PROVE ChangeIsVisible'
  BY <1>1 DEF ChangeIsVisible, Idle
<1>2. CASE FirstStep \/ LoopStep
  <2>1. /\ watchpoints' = watchpoints \/ watchpoints' = Rechecked
        /\ UNCHANGED breakpoints /\ first' \in BOOLEAN
        /\ \/ (\E m \in Writes : VmStep(m)) /\ UNCHANGED <<vcont, reply>>
           \/ VmFails /\ Answer("signal5")
    BY <1>0, <1>2 DEF FirstStep, LoopStep, TypeOK
  <2>2. watchpoints' \in Seq(WatchPointStatus)
    BY <1>0, <2>1, RecheckedFacts DEF TypeOK
  <2>3. ASSUME NEW m \in Writes, VmStep(m), UNCHANGED <<vcont, reply>> PROVE IInv'
    <3>1. TypeOK'
      BY <1>0, <2>1, <2>2, <2>3, VmStepFacts DEF TypeOK
    <3>2. ChangeIsVisible'
      BY <1>0, <2>1, <2>3, DirtyIsVisible DEF ChangeIsVisible
    <3> QED BY <3>1, <3>2 DEF IInv
  <2>4. CASE VmFails /\ Answer("signal5")
    BY <1>0, <1>1, <2>1, <2>2, <2>4 DEF IInv, TypeOK, VmFails, Answer
  <2> QED BY <2>1, <2>3, <2>4
<1>3. CASE WatchStop \/ WatchError
  <2>1. /\ watchpoints' = Rechecked /\ vcont' = Idle /\ dirty' = FALSE
        /\ reply' \in {"signal5", "error3"}
        /\ UNCHANGED <<pc, mem, running, stuck, breakpoints, first>>
    BY <1>3 DEF WatchStop, WatchError, Answer, vm
  <2>2. watchpoints' \in Seq(WatchPointStatus)
    BY <1>0, <2>1, RecheckedFacts
  <2> QED BY <1>0, <1>1, <2>1, <2>2 DEF IInv, TypeOK
<1> QED BY <1>2, <1>3

(* Every step keeps the invariant.                                         *)
LEMMA StepInv == IInv /\ [Next]_vars => IInv'
<1> SUFFICES ASSUME IInv, [Next]_vars PROVE IInv'
  OBVIOUS
<1>1. CASE UNCHANGED vars
  BY <1>1 DEF vars, IInv, TypeOK, ChangeIsVisible, AtWatchpoint, Changed, Content
<1> QED BY <1>1, ReadyInv, RunInv DEF Next

(* So it always holds.                                                     *)
LEMMA InvHolds == Spec => []IInv
  BY InitInv, StepInv, PTL DEF Spec

(* The variables of the handler always have their types.                   *)
THEOREM TypeCorrect == Spec => []TypeOK
<1>1. IInv => TypeOK
  BY DEF IInv
<1> QED BY <1>1, InvHolds, PTL

-----------------------------------------------------------------------------
(* The action properties.                                                  *)

(* Nothing is executed between a change of a watched region and the answer *)
(* it causes, for every list of watchpoints.                               *)
THEOREM StopsAtTheChange == Spec => NoStepPastChange
<1> DEFINE A == dirty /\ ~first /\ vcont.kind \in {"continue", "range"} => UNCHANGED vm
<1>1. IInv /\ [Next]_vars => [A]_vars
  <2> SUFFICES ASSUME IInv, Next, dirty, ~first, vcont.kind \in {"continue", "range"}
               PROVE  UNCHANGED vm
    OBVIOUS
  <2>1. AtWatchpoint /\ ~Ready
    BY DEF IInv, ChangeIsVisible, Ready, Idle
  <2> QED
    BY <2>1 DEF Next, InsertSoftwareBreakpoint, RemoveSoftwareBreakpoint, WriteRegister,
       InsertWriteWatchpoint, RemoveWriteWatchpoint, WriteMemory, VCont, VContUnsupported,
       FirstStep, LoopStep, WatchStop, WatchError, VContDone
<1> QED BY <1>1, InvHolds, PTL DEF Spec, NoStepPastChange

(* What the handler knows of a region changes only in a step that answers  *)
(* the request, whatever the other watchpoints of the list say.            *)
THEOREM NoChangeIsForgotten == Spec => BaselineMovesOnlyWithAnswer
<1> DEFINE A == vcont # Idle /\ (\E i \in 1 .. Len(watchpoints) :
                   watchpoints[i].has_data /\ watchpoints'[i].data # watchpoints[i].data)
                => vcont' = Idle
<1>1. IInv /\ [Next]_vars => [A]_vars
  <2> SUFFICES ASSUME IInv, Next, vcont # Idle, NEW i \in 1 .. Len(watchpoints),
                      watchpoints[i].has_data, watchpoints'[i].data # watchpoints[i].data
               PROVE  vcont' = Idle
    BY DEF vars
  <2>1. ~Ready /\ watchpoints' # watchpoints
    BY DEF Ready
  <2>2. CASE LoopStep
    <3>1. ~Changed(watchpoints[i]) /\ Readable(watchpoints[i]) /\ watchpoints' = Rechecked
      BY <2>2 DEF LoopStep, AtWatchpoint, Unreadable
    <3>2. ReadableUpTo(i)
      BY <2>2 DEF LoopStep, Unreadable, ReadableUpTo
    <3>3. watchpoints'[i] = Looked(watchpoints[i])
      BY <3>1, <3>2 DEF Rechecked
    <3>4. watchpoints[i] \in WatchPointStatus
      BY DEF IInv, TypeOK
    <3>5. watchpoints'[i].data = Content(mem, watchpoints[i])
      BY <3>3, <3>4 DEF Looked, WatchPointStatus
    <3> QED BY <3>1, <3>5 DEF Changed
  <2> QED
    BY <2>1, <2>2 DEF Next, InsertSoftwareBreakpoint, RemoveSoftwareBreakpoint, WriteRegister,
       InsertWriteWatchpoint, RemoveWriteWatchpoint, WriteMemory, VCont, VContUnsupported,
       FirstStep, WatchStop, WatchError, VContDone, Answer
<1> QED BY <1>1, InvHolds, PTL DEF Spec, BaselineMovesOnlyWithAnswer

-----------------------------------------------------------------------------
(* The refinement of DebugTarget.                                          *)

(* Every step of the handler is one of the target or changes nothing of it. *)
LEMMA StepRefines == IInv /\ IInv' /\ [Next]_vars => [Target!Next]_(Target!vars)
<1> SUFFICES ASSUME IInv, IInv', [Next]_vars PROVE [Target!Next]_(Target!vars)
  OBVIOUS
<1> DEFINE Goal == [Target!Next]_(Target!vars)
<1> USE DEF Ready, Answer, vm
<1>0. pc \in Pc /\ pc' \in Pc /\ breakpoints \subseteq Breakpoint
  BY DEF IInv, TypeOK
<1>1. CASE UNCHANGED vars
  BY <1>1 DEF vars, Target!vars
<1>2. ASSUME NEW b \in Breakpoint, InsertSoftwareBreakpoint(b) PROVE Goal
  <2>1. b.addr \in Pc /\ {c.addr : c \in breakpoints'} = {c.addr : c \in breakpoints} \cup {b.addr}
    BY <1>2 DEF InsertSoftwareBreakpoint, Breakpoint
  <2>2. Target!Insert(b.addr)
    BY <1>2, <2>1 DEF InsertSoftwareBreakpoint, Target!Insert
  <2> QED BY <2>1, <2>2 DEF Target!Next
<1>3. ASSUME NEW a \in Pc, RemoveSoftwareBreakpoint(a) PROVE Goal
  <2> DEFINE old == {c.addr : c \in breakpoints}
             new == {c.addr : c \in breakpoints'}
  <2>1. breakpoints' = breakpoints \ {Removed(a)} /\ Removed(a).addr = a
    BY <1>3 DEF RemoveSoftwareBreakpoint, Removed
  <2>2. new \subseteq old /\ \A x \in old : x # a => x \in new
    BY <2>1
  <2>3. new = old \/ new = old \ {a}
    BY <2>2
  <2>4. Target!Remove(a) \/ UNCHANGED Target!vars
    BY <1>3, <2>3 DEF RemoveSoftwareBreakpoint, Target!Remove, Target!vars
  <2> QED BY <2>4 DEF Target!Next
<1>4. ASSUME NEW a \in Pc, WriteRegister(a) PROVE Goal
  <2>1. Target!SetPc
    BY <1>4 DEF WriteRegister, Target!SetPc
  <2> QED BY <2>1 DEF Target!Next
<1>5. CASE \E r \in Regions : InsertWriteWatchpoint(r) \/ RemoveWriteWatchpoint(r)
  BY <1>5 DEF InsertWriteWatchpoint, RemoveWriteWatchpoint, Target!vars
<1>6. CASE \E r \in Regions, v \in Val : WriteMemory(r.addr, v)
  BY <1>6 DEF WriteMemory, Target!vars
<1>7. ASSUME NEW r \in Request, VCont(r) PROVE Goal
  <2>1. r # Idle
    BY DEF Request, Idle
  <2>2. Target!Resume
    BY <1>7, <2>1 DEF VCont, Target!Resume
  <2> QED BY <2>2 DEF Target!Next
<1>8. CASE VContUnsupported \/ WatchStop \/ WatchError \/ VContDone
  <2>1. vcont # Idle /\ vcont' = Idle /\ UNCHANGED <<pc, breakpoints>>
    BY <1>8 DEF VContUnsupported, WatchStop, WatchError, VContDone, Looping, Idle
  <2>2. Target!Halt
    BY <2>1 DEF Target!Halt
  <2> QED BY <2>2 DEF Target!Next
<1>9. CASE FirstStep
  <2>1. vcont # Idle /\ first /\ ~first' /\ UNCHANGED breakpoints /\ (vcont' = vcont \/ vcont' = Idle)
    BY <1>9 DEF FirstStep, Idle
  <2>2. Target!Execute
    BY <1>0, <2>1 DEF Target!Execute
  <2> QED BY <2>2 DEF Target!Next
<1>10. CASE LoopStep
  <2>1. vcont # Idle /\ ~first /\ UNCHANGED <<first, breakpoints>> /\ (vcont' = vcont \/ vcont' = Idle)
        /\ ~AtBreakpoint
    BY <1>10 DEF LoopStep, Looping, LoopGoesOn, Idle
  <2>2. Target!Execute
    BY <1>0, <2>1 DEF Target!Execute, AtBreakpoint
  <2> QED BY <2>2 DEF Target!Next
<1> QED BY <1>1, <1>2, <1>3, <1>4, <1>5, <1>6, <1>7, <1>8, <1>9, <1>10 DEF Next

(* GdbHandler implements the debug target.                                 *)
THEOREM IsADebugTarget == Spec => ImplementsTarget
<1>1. Init => Target!Init
  BY DEF Init, Target!Init
<1> QED BY <1>1, StepRefines, InvHolds, PTL DEF Spec, ImplementsTarget, Target!Spec
=============================================================================
