\* Watchpoint stops against the list of watchpoints.
SPECIFICATION Spec
CONSTANTS
  Pc = {0, 1}
  Ecalls = {1}
  Addr = {0, 1}
  Syscalls = {1}
  PollInterval = 2
  MaxIncoming = 0
  MaxPoints = 1
INVARIANTS
  WatchStopsAreAskedFor
