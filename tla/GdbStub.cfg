\* Both kinds of points, caught calls, exec and interrupts.
SPECIFICATION FairSpec
CONSTANTS
  Pc = {0, 1}
  Ecalls = {1}
  Addr = {0}
  Syscalls = {1, 2}
  PollInterval = 2
  MaxIncoming = 2
  MaxPoints = 1
INVARIANTS
  CaughtBeforeExecuted
  StaleOnlyDetached
PROPERTIES
  ImplementsTarget
  InterruptHonoured
