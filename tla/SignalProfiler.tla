--------------------------- MODULE SignalProfiler ---------------------------
(***************************************************************************)
(* The life of the profiler of ckb-vm-signal-profiler: start_profiler and  *)
(* stop_profiler on any thread, the mutex around the global PROFILER, the  *)
(* process-wide profiling timer, and the SIGPROF handler, which runs on    *)
(* top of whatever its thread was doing and takes the same mutex.          *)
(*                                                                         *)
(* The kernel (external) delivers a pending SIGPROF to any thread that is  *)
(* not already in the handler.  What a sample contains is left out.        *)
(***************************************************************************)
EXTENDS Integers

CONSTANTS Threads, None,
          Second,       (* 10^6 microseconds                               *)
          Frequencies   (* what callers ask for; frequency_per_sec is an   *)
                        (* i32 that nobody checks                          *)

ASSUME NoneAssumption ==
  /\ None \notin Threads
  /\ None \notin [thread : Threads, level : {"own", "handler"}]

ASSUME FrequencyAssumption == Second \in Nat \ {0} /\ Frequencies \subseteq Int

VARIABLES PROFILER,    (* None, or the thread whose profiler is stored     *)
          lock,        (* None, or who holds the mutex: [thread, level]    *)
          poisoned,    (* a thread has panicked with the mutex             *)
          disposition, (* of SIGPROF: "default", "handler" or "ignore"     *)
          timer,       (* ITIMER_PROF is armed                             *)
          pending,     (* a SIGPROF waits for delivery                     *)
          at,          (* per thread: where its own code is                *)
          handler,     (* per thread: where perf_signal_handler is         *)
          process,     (* "up", "killed" (default action) or "aborted"     *)
          frequency,   (* per thread: of the Timer it has built last, or 0 *)
          started,     (* threads whose start has succeeded since a stop   *)
          overlapped   (* threads whose last start was past the check      *)
                       (* together with another                            *)

vars == <<PROFILER, lock, poisoned, disposition, timer, pending, at, handler, process,
          frequency, started, overlapped>>

Step ==
  {"idle", "dead",
   "check", "checking",                                  (* is_profiler_started *)
   "build", "install", "arm", "store", "storing",        (* start_profiler      *)
   "stop", "stopping", "saving", "ignoring", "clearing"} (* stop_profiler       *)

-----------------------------------------------------------------------------
(* The thread's own code runs when no handler sits on top of it.           *)

Runs(t, step) == process = "up" /\ at[t] = step /\ handler[t] = "none"
Goto(t, step) == at' = [at EXCEPT ![t] = step]
Holder(t, level) == [thread |-> t, level |-> level]

(* Mutant: the mutex does not keep anybody out.                            *)
Free_Always == TRUE

Free == lock = None

(* PROFILER.lock().expect(...): waits, or panics on a poisoned mutex.      *)
Lock(t, from, to) ==
  /\ Runs(t, from)
  /\ Free
  /\ IF poisoned
       THEN Goto(t, "dead") /\ UNCHANGED lock
       ELSE Goto(t, to) /\ lock' = Holder(t, "own")

(* A user calls start_profiler or stop_profiler.                           *)
CallStart(t) ==
  /\ Runs(t, "idle")
  /\ Goto(t, "check")
  /\ UNCHANGED <<PROFILER, lock, poisoned, disposition, timer, pending, handler, process, frequency, started, overlapped>>

CallStop(t) ==
  /\ Runs(t, "idle")
  /\ Goto(t, "stop")
  /\ UNCHANGED <<PROFILER, lock, poisoned, disposition, timer, pending, handler, process, frequency, started, overlapped>>

CheckLock(t) ==
  /\ Lock(t, "check", "checking")
  /\ UNCHANGED <<PROFILER, poisoned, disposition, timer, pending, handler, process, frequency, started, overlapped>>

(* Mutant: a second start is not refused.                                  *)
AlreadyStarted_Never == FALSE

AlreadyStarted == PROFILER # None

PastCheck == {"build", "install", "arm", "store", "storing"}

Starters == {u \in Threads : at[u] \in PastCheck}

(* is_profiler_started gives the mutex back before start_profiler goes on, *)
(* so that this start may run beside others.                               *)
Check(t) ==
  /\ Runs(t, "checking")
  /\ lock' = None
  /\ IF AlreadyStarted
       THEN Goto(t, "idle") /\ UNCHANGED overlapped
       ELSE /\ Goto(t, "build")
            /\ overlapped' = IF Starters = {} THEN overlapped \ {t}
                                              ELSE overlapped \cup {t} \cup Starters
  /\ UNCHANGED <<PROFILER, poisoned, disposition, timer, pending, handler, process, frequency, started>>

(* build_context fails on a program without debug information.             *)
Build(t) ==
  /\ Runs(t, "build")
  /\ \E next \in {"idle", "install"} : Goto(t, next)
  /\ UNCHANGED <<PROFILER, lock, poisoned, disposition, timer, pending, handler, process, frequency, started, overlapped>>

Install(t) ==
  /\ Runs(t, "install")
  /\ \/ disposition' = "handler" /\ Goto(t, "arm")
     \/ UNCHANGED disposition /\ Goto(t, "idle")   (* sigaction fails *)
  /\ UNCHANGED <<PROFILER, lock, poisoned, timer, pending, handler, process, frequency, started, overlapped>>

(* The period in microseconds; the division truncates towards zero.        *)
Interval(f) == IF f > 0 THEN Second \div f ELSE -(Second \div (-f))

(* setitimer (external): zero disarms the timer, whoever has armed it, and *)
(* a negative time is refused; the result is thrown away.                  *)
TimerAfterSet(interval) == interval > 0 \/ (interval < 0 /\ timer)

(* Timer::new.  A frequency of 0 is a division by zero: the thread panics  *)
(* before the timer is touched.                                            *)
Arm(t) ==
  /\ Runs(t, "arm")
  /\ \E f \in Frequencies :
       \/ /\ f = 0
          /\ Goto(t, "dead")
          /\ UNCHANGED <<timer, frequency>>
       \/ /\ f # 0
          /\ timer' = TimerAfterSet(Interval(f))
          /\ frequency' = [frequency EXCEPT ![t] = f]
          /\ Goto(t, "store")
  /\ UNCHANGED <<PROFILER, lock, poisoned, disposition, pending, handler, process, started, overlapped>>

(* A panic here drops the new profiler, and the timer with it.             *)
StoreLock(t) ==
  /\ Lock(t, "store", "storing")
  /\ timer' = (timer /\ ~poisoned)
  /\ UNCHANGED <<PROFILER, poisoned, disposition, pending, handler, process, frequency, started, overlapped>>

(* Mutant: dropping a profiler leaves the timer alone.                     *)
TimerAfterDrop_Armed(old) == timer

(* Drop of Timer: setitimer with zeros, whoever armed the timer last.      *)
TimerAfterDrop(old) == timer /\ old = None

(* The assignment drops the profiler it replaces.                          *)
Store(t) ==
  /\ Runs(t, "storing")
  /\ PROFILER' = t
  /\ timer' = TimerAfterDrop(PROFILER)
  /\ lock' = None
  /\ started' = started \cup {t}
  /\ Goto(t, "idle")
  /\ UNCHANGED <<poisoned, disposition, pending, handler, process, frequency, overlapped>>

StopLock(t) ==
  /\ Lock(t, "stop", "stopping")
  /\ UNCHANGED <<PROFILER, poisoned, disposition, timer, pending, handler, process, frequency, started, overlapped>>

StopCheck(t) ==
  /\ Runs(t, "stopping")
  /\ IF PROFILER = None
       THEN lock' = None /\ Goto(t, "idle")
       ELSE UNCHANGED lock /\ Goto(t, "saving")
  /\ UNCHANGED <<PROFILER, poisoned, disposition, timer, pending, handler, process, frequency, started, overlapped>>

(* The report is built and written with the mutex held; a write that fails *)
(* panics and poisons it.                                                  *)
Save(t) ==
  /\ Runs(t, "saving")
  /\ \/ Goto(t, "ignoring") /\ UNCHANGED <<lock, poisoned>>
     \/ Goto(t, "dead") /\ lock' = None /\ poisoned' = TRUE
  /\ UNCHANGED <<PROFILER, disposition, timer, pending, handler, process, frequency, started, overlapped>>

(* Mutant: the default action is restored instead.                         *)
Uninstalled_Default == "default"

Uninstalled == "ignore"

(* Ignoring a signal also discards a pending one.  When signal() fails,    *)
(* stop gives up and the profiler stays.                                   *)
Ignore(t) ==
  /\ Runs(t, "ignoring")
  /\ \/ /\ disposition' = Uninstalled
        /\ pending' = (pending /\ Uninstalled # "ignore")
        /\ Goto(t, "clearing")
        /\ UNCHANGED lock
     \/ /\ Goto(t, "idle")
        /\ lock' = None
        /\ UNCHANGED <<disposition, pending>>
  /\ UNCHANGED <<PROFILER, poisoned, timer, handler, process, frequency, started, overlapped>>

Clear(t) ==
  /\ Runs(t, "clearing")
  /\ PROFILER' = None
  /\ timer' = TimerAfterDrop(PROFILER)
  /\ lock' = None
  /\ started' = {}
  /\ Goto(t, "idle")
  /\ UNCHANGED <<poisoned, disposition, pending, handler, process, frequency, overlapped>>

-----------------------------------------------------------------------------
(* The timer expires; signals of one kind do not queue.                    *)
Tick ==
  /\ process = "up" /\ timer
  /\ pending' = TRUE
  /\ UNCHANGED <<PROFILER, lock, poisoned, disposition, timer, at, handler, process, frequency, started, overlapped>>

(* A thread that has panicked in start or stop is still a thread.          *)
Deliver(t) ==
  /\ process = "up" /\ pending
  /\ handler[t] = "none"
  /\ pending' = FALSE
  /\ \/ /\ disposition = "handler"
        /\ handler' = [handler EXCEPT ![t] = "lock"] /\ UNCHANGED process
     \/ /\ disposition = "default"
        /\ process' = "killed" /\ UNCHANGED handler
     \/ /\ disposition = "ignore"
        /\ UNCHANGED <<handler, process>>
  /\ UNCHANGED <<PROFILER, lock, poisoned, disposition, timer, at, frequency, started, overlapped>>

(* The handler locks PROFILER like everybody else; a panic in an extern    *)
(* "C" function aborts the process.                                        *)
HandlerLock(t) ==
  /\ process = "up" /\ handler[t] = "lock"
  /\ Free
  /\ IF poisoned
       THEN process' = "aborted" /\ UNCHANGED <<lock, handler>>
       ELSE lock' = Holder(t, "handler") /\ handler' = [handler EXCEPT ![t] = "sample"]
                                         /\ UNCHANGED process
  /\ UNCHANGED <<PROFILER, poisoned, disposition, timer, pending, at, frequency, started, overlapped>>

(* It unwinds the stack and records a sample, if there is a profiler: a    *)
(* stopped profiler leaves late signals nothing to do.                     *)
Sample(t) ==
  /\ process = "up" /\ handler[t] = "sample"
  /\ lock' = None
  /\ handler' = [handler EXCEPT ![t] = "none"]
  /\ UNCHANGED <<PROFILER, poisoned, disposition, timer, pending, at, process, frequency, started, overlapped>>

(* The unwinder panics on frames it does not understand and on memory it   *)
(* cannot load, again inside the extern "C" function.                      *)
SamplePanics(t) ==
  /\ process = "up" /\ handler[t] = "sample"
  /\ PROFILER # None
  /\ process' = "aborted"
  /\ UNCHANGED <<PROFILER, lock, poisoned, disposition, timer, pending, at, handler, frequency, started, overlapped>>

Init ==
  /\ PROFILER = None /\ lock = None /\ poisoned = FALSE
  /\ disposition = "default" /\ timer = FALSE /\ pending = FALSE
  /\ at = [t \in Threads |-> "idle"]
  /\ handler = [t \in Threads |-> "none"]
  /\ process = "up"
  /\ frequency = [t \in Threads |-> 0]
  /\ started = {} /\ overlapped = {}

Start(t) == CallStart(t) \/ CheckLock(t) \/ Check(t) \/ Build(t) \/ Install(t) \/ Arm(t)
              \/ StoreLock(t) \/ Store(t)
Stop(t) == CallStop(t) \/ StopLock(t) \/ StopCheck(t) \/ Save(t) \/ Ignore(t) \/ Clear(t)
Signal(t) == Deliver(t) \/ HandlerLock(t) \/ Sample(t) \/ SamplePanics(t)

Next == Tick \/ \E t \in Threads : Start(t) \/ Stop(t) \/ Signal(t)

Spec == Init /\ [][Next]_vars

-----------------------------------------------------------------------------
(* Properties.                                                             *)

Critical == {"checking", "storing", "stopping", "saving", "ignoring", "clearing"}

(* Types, and the mutex: PROFILER is only touched by who holds it.         *)
TypeOK ==
  /\ PROFILER \in Threads \cup {None}
  /\ lock \in [thread : Threads, level : {"own", "handler"}] \cup {None}
  /\ poisoned \in BOOLEAN /\ timer \in BOOLEAN /\ pending \in BOOLEAN
  /\ disposition \in {"default", "handler", "ignore"}
  /\ at \in [Threads -> Step]
  /\ handler \in [Threads -> {"none", "lock", "sample"}]
  /\ process \in {"up", "killed", "aborted"}
  /\ frequency \in [Threads -> Int]
  /\ started \subseteq Threads /\ overlapped \subseteq Threads
  /\ \A t \in Threads : at[t] \in Critical => lock = Holder(t, "own")
  /\ \A t \in Threads : handler[t] = "sample" => lock = Holder(t, "handler")

(* No SIGPROF ever meets the default action, which kills the process: the  *)
(* handler is there before the timer, and what stop puts in its place      *)
(* swallows the signals that are still on their way, whatever starts and   *)
(* stops overlap.                                                          *)
NeverKilled == process # "killed"

(* A ticking timer belongs to a stored profiler or to a start that is      *)
(* about to store one: no failure and no overlap of starts and stops       *)
(* leaves signals behind without a profiler.                               *)
TimerHasOwner ==
  timer => PROFILER # None \/ \E t \in Threads : at[t] \in {"store", "storing"}

(* A start that has returned Ok and had no other start beside it is in     *)
(* force until a stop: the stored profiler is its own, and the timer feeds *)
(* it if the timer can run at the frequency asked for (1 to 10^6 a second: *)
(* of the others, 0 panics, a larger one disarms the timer and a negative  *)
(* one leaves it as it was).  Starts that overlapped before, failed or     *)
(* panicked, and stops at any moment, do not spoil it.                     *)
StoredIsSampled ==
  \A t \in started \ overlapped :
    PROFILER = t /\ (Interval(frequency[t]) > 0 => timer)
=============================================================================
