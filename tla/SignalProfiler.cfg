\* Three threads that start and stop as they like.  A handler that
\* interrupts its own thread in the mutex waits for itself: the system may stop.
SPECIFICATION Spec
CONSTANTS
  Threads = {t1, t2, t3}
  None = None
  Second = 2
  Frequencies <- MCFrequencies
SYMMETRY Symmetry
CHECK_DEADLOCK FALSE
INVARIANTS
  TypeOK
  NeverKilled
  TimerHasOwner
  StoredIsSampled
