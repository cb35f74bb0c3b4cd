------------------------- MODULE SignalProfilerProofs ------------------------
(***************************************************************************)
(* The mutex protects PROFILER, SIGPROF never kills the process, a ticking *)
(* timer has an owner, and a start that no other start overlapped is in    *)
(* force and sampled: for any number of threads and any frequencies.       *)
(***************************************************************************)
EXTENDS SignalProfiler, TLAPS

(* As long as the default action is in force nobody has come further than  *)
(* installing the handler, so nothing ticks and nothing is stored.         *)
DefaultMeansQuiet ==
  disposition = "default" =>
    /\ ~timer /\ ~pending
    /\ PROFILER = None
    /\ \A t \in Threads : at[t] \notin {"arm", "store", "storing", "saving", "ignoring", "clearing"}

(* Whoever is past the check of stop has found a profiler and holds the    *)
(* mutex, so the profiler is still there.                                  *)
SaverHasProfiler ==
  \A t \in Threads : at[t] \in {"saving", "ignoring", "clearing"} => PROFILER # None

IInv == TypeOK /\ DefaultMeansQuiet /\ SaverHasProfiler /\ TimerHasOwner /\ NeverKilled

(* The invariant holds before anybody has started a profiler.             *)
LEMMA InitInv == Init => IInv
<1> SUFFICES ASSUME Init PROVE IInv
  OBVIOUS
<1>1. frequency \in [Threads -> Int]
  BY DEF Init
<1>2. TypeOK
  BY <1>1, NoneAssumption DEF Init, TypeOK, Step, Critical
<1>3. DefaultMeansQuiet /\ SaverHasProfiler /\ TimerHasOwner /\ NeverKilled
  BY NoneAssumption DEF Init, DefaultMeansQuiet, SaverHasProfiler, TimerHasOwner, NeverKilled
<1> QED BY <1>2, <1>3 DEF IInv

(* Every step of every thread, of the timer and of the kernel keeps it.    *)
LEMMA StepInv == IInv /\ [Next]_vars => IInv'
<1> SUFFICES ASSUME IInv, [Next]_vars PROVE IInv'
  OBVIOUS
<1> USE NoneAssumption DEF IInv, TypeOK, DefaultMeansQuiet, SaverHasProfiler, TimerHasOwner,
        NeverKilled, Step, Critical, Runs, Goto, Holder
<1>1. CASE Tick
  BY <1>1 DEF Tick
<1>2. ASSUME NEW t \in Threads, Start(t) PROVE IInv'
  <2>1. CASE CallStart(t)
    BY <2>1 DEF CallStart
  <2>2. CASE CheckLock(t)
    <3>1. TypeOK'
      BY <2>2 DEF CheckLock, Lock, Free
    <3>2. DefaultMeansQuiet'
      BY <2>2 DEF CheckLock, Lock, Free
    <3>3. SaverHasProfiler'
      BY <2>2 DEF CheckLock, Lock, Free
    <3>4. TimerHasOwner'
      BY <2>2 DEF CheckLock, Lock, Free
    <3>5. NeverKilled'
      BY <2>2 DEF CheckLock, Lock, Free
    <3> QED BY <3>1, <3>2, <3>3, <3>4, <3>5
  <2>3. CASE Check(t)
    <3>1. TypeOK'
      <4>1. overlapped' \subseteq Threads
        BY <2>3 DEF Check, Starters
      <4>2. \A u \in Threads : u # t => at[u] \notin Critical /\ handler[u] # "sample"
        BY <2>3 DEF Check
      <4>3. at' \in [Threads -> Step] /\ at'[t] \in {"idle", "build"}
        BY <2>3 DEF Check
      <4> QED BY <2>3, <4>1, <4>2, <4>3 DEF Check
    <3>2. DefaultMeansQuiet'
      BY <2>3 DEF Check, AlreadyStarted, PastCheck
    <3>3. SaverHasProfiler'
      BY <2>3 DEF Check, AlreadyStarted, PastCheck
    <3>4. TimerHasOwner'
      BY <2>3 DEF Check, AlreadyStarted, PastCheck
    <3>5. NeverKilled'
      BY <2>3 DEF Check, AlreadyStarted, PastCheck
    <3> QED BY <3>1, <3>2, <3>3, <3>4, <3>5
  <2>4. CASE Build(t)
    BY <2>4 DEF Build
  <2>5. CASE Install(t)
    BY <2>5 DEF Install
  <2>6. CASE Arm(t)
    <3>1. PICK f \in Frequencies :
            \/ f = 0 /\ Goto(t, "dead") /\ UNCHANGED <<timer, frequency>>
            \/ /\ f # 0
               /\ timer' = TimerAfterSet(Interval(f))
               /\ frequency' = [frequency EXCEPT ![t] = f]
               /\ Goto(t, "store")
      BY <2>6 DEF Arm
    <3>2. TimerAfterSet(Interval(f)) \in BOOLEAN
      BY Zenon DEF TimerAfterSet
    <3>3. CASE f = 0
      BY <2>6, <3>1, <3>3 DEF Arm
    <3>4. CASE f # 0
      BY <2>6, <3>1, <3>2, <3>4, FrequencyAssumption DEF Arm
    <3> QED BY <3>3, <3>4
  <2>7. CASE StoreLock(t)
    <3>1. TypeOK'
      BY <2>7 DEF StoreLock, Lock, Free
    <3>2. DefaultMeansQuiet'
      BY <2>7 DEF StoreLock, Lock, Free
    <3>3. SaverHasProfiler'
      BY <2>7 DEF StoreLock, Lock, Free
    <3>4. TimerHasOwner'
      BY <2>7 DEF StoreLock, Lock, Free
    <3>5. NeverKilled'
      BY <2>7 DEF StoreLock, Lock, Free
    <3> QED BY <3>1, <3>2, <3>3, <3>4, <3>5
  <2>8. CASE Store(t)
    <3>1. TypeOK'
      BY <2>8 DEF Store, TimerAfterDrop
    <3>2. DefaultMeansQuiet'
      BY <2>8 DEF Store, TimerAfterDrop
    <3>3. SaverHasProfiler'
      BY <2>8 DEF Store, TimerAfterDrop
    <3>4. TimerHasOwner'
      BY <2>8 DEF Store, TimerAfterDrop
    <3>5. NeverKilled'
      BY <2>8 DEF Store, TimerAfterDrop
    <3> QED BY <3>1, <3>2, <3>3, <3>4, <3>5
  <2> QED BY <1>2, <2>1, <2>2, <2>3, <2>4, <2>5, <2>6, <2>7, <2>8 DEF Start
<1>3. ASSUME NEW t \in Threads, Stop(t) PROVE IInv'
  <2>1. CASE CallStop(t)
    BY <2>1 DEF CallStop
  <2>2. CASE StopLock(t)
    <3>1. TypeOK'
      BY <2>2 DEF StopLock, Lock, Free
    <3>2. DefaultMeansQuiet'
      BY <2>2 DEF StopLock, Lock, Free
    <3>3. SaverHasProfiler'
      BY <2>2 DEF StopLock, Lock, Free
    <3>4. TimerHasOwner'
      BY <2>2 DEF StopLock, Lock, Free
    <3>5. NeverKilled'
      BY <2>2 DEF StopLock, Lock, Free
    <3> QED BY <3>1, <3>2, <3>3, <3>4, <3>5
  <2>3. CASE StopCheck(t)
    BY <2>3 DEF StopCheck
  <2>4. CASE Save(t)
    <3>1. TypeOK'
      <4>1. \A u \in Threads : u # t => at[u] \notin Critical /\ handler[u] # "sample"
        BY <2>4 DEF Save
      <4>2. CASE Goto(t, "ignoring") /\ UNCHANGED <<lock, poisoned>>
        BY <2>4, <4>1, <4>2 DEF Save
      <4>3. CASE Goto(t, "dead") /\ lock' = None /\ poisoned' = TRUE
        BY <2>4, <4>1, <4>3 DEF Save
      <4> QED BY <2>4, <4>2, <4>3 DEF Save
    <3>2. DefaultMeansQuiet'
      BY <2>4 DEF Save
    <3>3. SaverHasProfiler'
      BY <2>4 DEF Save
    <3>4. TimerHasOwner'
      BY <2>4 DEF Save
    <3>5. NeverKilled'
      BY <2>4 DEF Save
    <3> QED BY <3>1, <3>2, <3>3, <3>4, <3>5
  <2>5. CASE Ignore(t)
    <3>1. TypeOK'
      <4>1. \A u \in Threads : u # t => at[u] \notin Critical /\ handler[u] # "sample"
        BY <2>5 DEF Ignore
      <4>2. CASE /\ disposition' = Uninstalled
                 /\ pending' = (pending /\ Uninstalled # "ignore")
                 /\ Goto(t, "clearing")
                 /\ UNCHANGED lock
        BY <2>5, <4>1, <4>2 DEF Ignore, Uninstalled
      <4>3. CASE Goto(t, "idle") /\ lock' = None /\ UNCHANGED <<disposition, pending>>
        BY <2>5, <4>1, <4>3 DEF Ignore
      <4> QED BY <2>5, <4>2, <4>3 DEF Ignore
    <3>2. DefaultMeansQuiet'
      BY <2>5 DEF Ignore, Uninstalled
    <3>3. SaverHasProfiler'
      BY <2>5 DEF Ignore, Uninstalled
    <3>4. TimerHasOwner'
      BY <2>5 DEF Ignore, Uninstalled
    <3>5. NeverKilled'
      BY <2>5 DEF Ignore, Uninstalled
    <3> QED BY <3>1, <3>2, <3>3, <3>4, <3>5
  <2>6. CASE Clear(t)
    <3>1. TypeOK'
      BY <2>6 DEF Clear, TimerAfterDrop
    <3>2. DefaultMeansQuiet'
      BY <2>6 DEF Clear, TimerAfterDrop
    <3>3. SaverHasProfiler'
      BY <2>6 DEF Clear, TimerAfterDrop
    <3>4. TimerHasOwner'
      BY <2>6 DEF Clear, TimerAfterDrop
    <3>5. NeverKilled'
      BY <2>6 DEF Clear, TimerAfterDrop
    <3> QED BY <3>1, <3>2, <3>3, <3>4, <3>5
  <2> QED BY <1>3, <2>1, <2>2, <2>3, <2>4, <2>5, <2>6 DEF Stop
<1>4. ASSUME NEW t \in Threads, Signal(t) PROVE IInv'
  <2>1. CASE Deliver(t)
    BY <2>1 DEF Deliver
  <2>2. CASE HandlerLock(t)
    <3>1. TypeOK'
      BY <2>2 DEF HandlerLock, Free
    <3>2. DefaultMeansQuiet'
      BY <2>2 DEF HandlerLock, Free
    <3>3. SaverHasProfiler'
      BY <2>2 DEF HandlerLock, Free
    <3>4. TimerHasOwner'
      BY <2>2 DEF HandlerLock, Free
    <3>5. NeverKilled'
      BY <2>2 DEF HandlerLock, Free
    <3> QED BY <3>1, <3>2, <3>3, <3>4, <3>5
  <2>3. CASE Sample(t)
    BY <2>3 DEF Sample
  <2>4. CASE SamplePanics(t)
    BY <2>4 DEF SamplePanics
  <2> QED BY <1>4, <2>1, <2>2, <2>3, <2>4 DEF Signal
<1>5. CASE UNCHANGED vars
  BY <1>5 DEF vars
<1> QED BY <1>1, <1>2, <1>3, <1>4, <1>5 DEF Next

(* So it always holds.                                                     *)
LEMMA InvHolds == Spec => []IInv
  BY InitInv, StepInv, PTL DEF Spec

(* For any number of threads the variables have their types, and the       *)
(* mutex is held by whoever is in a critical section.                      *)
THEOREM TypesAndMutex == Spec => []TypeOK
<1>1. IInv => TypeOK
  BY DEF IInv
<1> QED BY <1>1, InvHolds, PTL

(* For any number of threads SIGPROF never meets its default action.       *)
THEOREM NoThreadKillsTheProcess == Spec => []NeverKilled
<1>1. IInv => NeverKilled
  BY DEF IInv
<1> QED BY <1>1, InvHolds, PTL

(* For any number of threads a ticking timer has an owner.                 *)
THEOREM NoOrphanTimer == Spec => []TimerHasOwner
<1>1. IInv => TimerHasOwner
  BY DEF IInv
<1> QED BY <1>1, InvHolds, PTL

-----------------------------------------------------------------------------
(* Starts that no other start overlapped.                                  *)

(* The timer feeds the profiler of t, if it can have the frequency.        *)
Fed(t) == Interval(frequency[t]) > 0 => timer

(* Past the check such a start is alone and there is still no profiler;    *)
(* once it has set the timer, nobody else changes it.                      *)
CleanStart ==
  \A t \in Threads \ overlapped : at[t] \in PastCheck =>
    /\ PROFILER = None
    /\ \A u \in Threads : at[u] \in PastCheck => u = t
    /\ at[t] \in {"store", "storing"} => Fed(t)

(* While its profiler is stored nobody is past the check.                  *)
CleanStored ==
  \A t \in Threads \ overlapped : PROFILER = t =>
    /\ \A u \in Threads : at[u] \notin PastCheck
    /\ Fed(t)

(* A start is in force only as long as a profiler is stored, its own if    *)
(* nothing overlapped it.                                                  *)
StartedIsStored ==
  \A t \in started : PROFILER # None /\ (t \notin overlapped => PROFILER = t)

CleanInv == CleanStart /\ CleanStored /\ StartedIsStored

(* Nobody has started anything at first.                                   *)
LEMMA InitClean == Init => CleanInv
  BY NoneAssumption DEF Init, CleanInv, CleanStart, CleanStored, StartedIsStored, PastCheck

(* A step that moves one thread, but not past the check, and touches       *)
(* neither the profiler nor the timer keeps it.                            *)
LEMMA QuietStep ==
  ASSUME IInv, CleanInv, UNCHANGED <<PROFILER, timer, frequency, started, overlapped>>,
         \A t \in Threads : at'[t] \in PastCheck => at[t] \in PastCheck,
         \A t \in Threads : at'[t] \in {"store", "storing"} => at[t] \in {"store", "storing"}
  PROVE  CleanInv'
<1>1. CleanStart'
  BY DEF CleanInv, CleanStart, Fed
<1>2. CleanStored'
  BY DEF CleanInv, CleanStored, Fed
<1>3. StartedIsStored'
  BY DEF CleanInv, StartedIsStored
<1> QED BY <1>1, <1>2, <1>3 DEF CleanInv

(* A thread past the check has nobody clean beside it, neither on the way  *)
(* nor stored nor in force.                                                *)
LEMMA AloneOrNotClean ==
  ASSUME IInv, CleanInv, NEW t \in Threads, at[t] \in PastCheck
  PROVE  /\ \A u \in Threads \ overlapped : u # t => at[u] \notin PastCheck
         /\ PROFILER \in Threads => PROFILER \in overlapped
         /\ started \subseteq overlapped
<1>1. \A u \in Threads \ overlapped : u # t => at[u] \notin PastCheck
  BY DEF CleanInv, CleanStart
<1>2. PROFILER \in Threads => PROFILER \in overlapped
  BY DEF CleanInv, CleanStored
<1>3. started \subseteq Threads
  BY DEF IInv, TypeOK
<1>4. started \subseteq overlapped
  BY <1>2, <1>3 DEF CleanInv, StartedIsStored
<1> QED BY <1>1, <1>2, <1>4

(* A thread past the check may do what it likes to the timer and the       *)
(* frequency of its own Timer, if it is fed afterwards.                    *)
LEMMA StarterStep ==
  ASSUME IInv, CleanInv, NEW t \in Threads, at[t] \in PastCheck,
         NEW to, at' = [at EXCEPT ![t] = to],
         UNCHANGED <<PROFILER, started, overlapped>>,
         t \notin overlapped /\ to \in {"store", "storing"} => Fed(t)'
  PROVE  CleanInv'
<1>0. at \in [Threads -> Step] /\ PROFILER \in Threads \cup {None}
  BY DEF IInv, TypeOK
<1>1. CleanStart'
  <2> SUFFICES ASSUME NEW u \in Threads \ overlapped, at'[u] \in PastCheck
               PROVE  /\ PROFILER = None
                      /\ \A v \in Threads : at'[v] \in PastCheck => v = u
                      /\ at'[u] \in {"store", "storing"} => Fed(u)'
    BY DEF CleanStart
  <2>1. u = t
    BY <1>0, AloneOrNotClean
  <2>2. PROFILER = None /\ \A v \in Threads : at[v] \in PastCheck => v = u
    BY <2>1 DEF CleanInv, CleanStart
  <2> QED BY <1>0, <2>1, <2>2
<1>2. CleanStored'
  BY AloneOrNotClean DEF CleanStored
<1>3. StartedIsStored'
  BY DEF CleanInv, StartedIsStored
<1> QED BY <1>1, <1>2, <1>3 DEF CleanInv

(* Every step of a start keeps it.                                         *)
LEMMA StartSteps ==
  ASSUME IInv, CleanInv, NEW t \in Threads, Start(t)
  PROVE  CleanInv'
<1> USE NoneAssumption DEF Runs, Goto, PastCheck
<1>0. /\ at \in [Threads -> Step] /\ started \subseteq Threads /\ timer \in BOOLEAN
      /\ overlapped \subseteq Threads /\ PROFILER \in Threads \cup {None}
      /\ frequency \in [Threads -> Int]
  BY DEF IInv, TypeOK
<1>1. CASE CallStart(t)
  BY <1>0, <1>1, QuietStep DEF CallStart
<1>2. CASE CheckLock(t)
  BY <1>0, <1>2, QuietStep DEF CheckLock, Lock
<1>3. CASE Check(t)
  <2>1. CASE AlreadyStarted
    BY <1>0, <1>3, <2>1, QuietStep DEF Check
  <2>2. CASE ~AlreadyStarted
    <3>1. /\ PROFILER = None /\ PROFILER' = None
          /\ at' = [at EXCEPT ![t] = "build"]
          /\ started' = started
          /\ overlapped' = IF Starters = {} THEN overlapped \ {t} ELSE overlapped \cup {t} \cup Starters
      BY <1>3, <2>2 DEF Check, AlreadyStarted
    <3>2. started = {}
      BY <3>1 DEF CleanInv, StartedIsStored
    <3>3. StartedIsStored' /\ CleanStored'
      BY <1>0, <3>1, <3>2 DEF StartedIsStored, CleanStored, Starters
    <3>4. CASE Starters = {}
      <4>1. \A u \in Threads : at'[u] \in PastCheck => u = t /\ at'[u] = "build"
        BY <1>0, <3>1, <3>4 DEF Starters
      <4> QED BY <3>1, <3>3, <4>1 DEF CleanInv, CleanStart
    <3>5. CASE Starters # {}
      <4>1. \A u \in Threads : at'[u] \in PastCheck => u \in overlapped'
        BY <1>0, <3>1, <3>5 DEF Starters
      <4> QED BY <3>3, <4>1 DEF CleanInv, CleanStart
    <3> QED BY <3>4, <3>5
  <2> QED BY <2>1, <2>2
<1>4. CASE Build(t)
  BY <1>0, <1>4, QuietStep DEF Build
<1>5. CASE Install(t)
  BY <1>0, <1>5, QuietStep DEF Install
<1>6. CASE Arm(t)
  <2>1. PICK f \in Frequencies :
          \/ f = 0 /\ Goto(t, "dead") /\ UNCHANGED <<timer, frequency>>
          \/ /\ f # 0
             /\ timer' = TimerAfterSet(Interval(f))
             /\ frequency' = [frequency EXCEPT ![t] = f]
             /\ Goto(t, "store")
    BY <1>6 DEF Arm
  <2>2. at[t] = "arm" /\ UNCHANGED <<PROFILER, started, overlapped>>
    BY <1>6 DEF Arm
  <2>3. CASE f = 0
    BY <2>1, <2>2, <2>3, StarterStep
  <2>4. CASE f # 0
    <3>1. frequency'[t] = f
      BY <1>0, <2>1, <2>4
    <3>2. Interval(f) > 0 => timer'
      BY <2>1, <2>4, Zenon DEF TimerAfterSet
    <3>3. Fed(t)'
      BY <3>1, <3>2 DEF Fed
    <3> QED BY <2>1, <2>2, <2>4, <3>3, StarterStep
  <2> QED BY <2>3, <2>4
<1>7. CASE StoreLock(t)
  <2>1. at[t] = "store" /\ UNCHANGED <<PROFILER, frequency, started, overlapped>>
    BY <1>7 DEF StoreLock, Lock
  <2>2. CASE poisoned
    <3>1. at' = [at EXCEPT ![t] = "dead"]
      BY <1>7, <2>2 DEF StoreLock, Lock
    <3> QED BY <2>1, <3>1, StarterStep
  <2>3. CASE ~poisoned
    <3>1. UNCHANGED timer
      BY <1>0, <1>7, <2>3 DEF StoreLock
    <3>2. at' = [at EXCEPT ![t] = "storing"]
      BY <1>7, <2>3 DEF StoreLock, Lock
    <3>3. t \notin overlapped => Fed(t)
      BY <2>1 DEF CleanInv, CleanStart
    <3>4. t \notin overlapped => Fed(t)'
      BY <2>1, <3>1, <3>3 DEF Fed
    <3> QED BY <2>1, <3>2, <3>4, StarterStep
  <2> QED BY <2>2, <2>3
<1>8. CASE Store(t)
  <2>1. /\ at[t] = "storing" /\ at' = [at EXCEPT ![t] = "idle"] /\ PROFILER' = t
        /\ timer' = (timer /\ PROFILER = None) /\ started' = started \cup {t}
        /\ UNCHANGED <<frequency, overlapped>>
    BY <1>8 DEF Store, TimerAfterDrop
  <2>2. /\ \A u \in Threads \ overlapped : u # t => at[u] \notin PastCheck
        /\ started \subseteq overlapped
    BY <2>1, AloneOrNotClean
  <2>3. \A u \in Threads \ overlapped : at'[u] \notin PastCheck
    BY <1>0, <2>1, <2>2
  <2>4. CleanStart'
    BY <2>1, <2>3 DEF CleanStart
  <2>5. StartedIsStored'
    BY <1>0, <2>1, <2>2 DEF StartedIsStored
  <2>6. CleanStored'
    <3> SUFFICES ASSUME t \notin overlapped
                 PROVE  (\A u \in Threads : at'[u] \notin PastCheck) /\ Fed(t)'
      BY <2>1 DEF CleanStored
    <3>1. PROFILER = None /\ (\A u \in Threads : at[u] \in PastCheck => u = t) /\ Fed(t)
      BY <2>1 DEF CleanInv, CleanStart
    <3>2. \A u \in Threads : at'[u] \notin PastCheck
      BY <1>0, <2>1, <3>1
    <3>3. timer' = timer
      BY <1>0, <2>1, <3>1
    <3>4. Fed(t)'
      BY <2>1, <3>1, <3>3 DEF Fed
    <3> QED BY <3>2, <3>4
  <2> QED BY <2>4, <2>5, <2>6 DEF CleanInv
<1> QED BY <1>1, <1>2, <1>3, <1>4, <1>5, <1>6, <1>7, <1>8 DEF Start

(* Every step keeps it.                                                    *)
LEMMA StepClean == IInv /\ CleanInv /\ [Next]_vars => CleanInv'
<1> SUFFICES ASSUME IInv, CleanInv, [Next]_vars PROVE CleanInv'
  OBVIOUS
<1> USE NoneAssumption DEF Runs, Goto, PastCheck
<1>0. at \in [Threads -> Step]
  BY DEF IInv, TypeOK
<1>1. CASE Tick
  BY <1>1, QuietStep DEF Tick
<1>2. ASSUME NEW t \in Threads, Start(t) PROVE CleanInv'
  BY <1>2, StartSteps
<1>3. ASSUME NEW t \in Threads, Stop(t) PROVE CleanInv'
  <2>1. CASE CallStop(t)
    BY <1>0, <2>1, QuietStep DEF CallStop
  <2>2. CASE StopLock(t)
    BY <1>0, <2>2, QuietStep DEF StopLock, Lock
  <2>3. CASE StopCheck(t)
    BY <1>0, <2>3, QuietStep DEF StopCheck
  <2>4. CASE Save(t)
    BY <1>0, <2>4, QuietStep DEF Save
  <2>5. CASE Ignore(t)
    BY <1>0, <2>5, QuietStep DEF Ignore
  <2>6. CASE Clear(t)
    <3>1. at[t] = "clearing" /\ PROFILER # None
      BY <2>6 DEF Clear, IInv, SaverHasProfiler
    <3>2. /\ at' = [at EXCEPT ![t] = "idle"] /\ PROFILER' = None /\ started' = {}
          /\ UNCHANGED overlapped
      BY <2>6 DEF Clear
    <3>3. \A u \in Threads \ overlapped : at[u] \notin PastCheck
      BY <3>1 DEF CleanInv, CleanStart
    <3>4. \A u \in Threads \ overlapped' : at'[u] \notin PastCheck
      BY <1>0, <3>2, <3>3
    <3> QED BY <3>2, <3>4 DEF CleanInv, CleanStart, CleanStored, StartedIsStored
  <2> QED BY <1>3, <2>1, <2>2, <2>3, <2>4, <2>5, <2>6 DEF Stop
<1>4. ASSUME NEW t \in Threads, Signal(t) PROVE CleanInv'
  BY <1>4, QuietStep DEF Signal, Deliver, HandlerLock, Sample, SamplePanics
<1>5. CASE UNCHANGED vars
  BY <1>5, QuietStep DEF vars
<1> QED BY <1>1, <1>2, <1>3, <1>4, <1>5 DEF Next

(* For any number of threads and any frequencies: a start that returned Ok *)
(* and was not overlapped by another is in force until a stop, whatever    *)
(* other starts did before, and the timer feeds its profiler if it can     *)
(* have the frequency.                                                     *)
THEOREM StoredProfilerIsSampled == Spec => []StoredIsSampled
<1>1. IInv /\ CleanInv => StoredIsSampled
  <2> SUFFICES ASSUME IInv, CleanInv, NEW t \in started \ overlapped
               PROVE  PROFILER = t /\ (Interval(frequency[t]) > 0 => timer)
    BY DEF StoredIsSampled
  <2>1. PROFILER = t /\ t \in Threads \ overlapped
    BY DEF IInv, TypeOK, CleanInv, StartedIsStored
  <2> QED BY <2>1 DEF CleanInv, CleanStored, Fed
<1> QED BY <1>1, InitClean, StepClean, InvHolds, PTL DEF Spec
=============================================================================
