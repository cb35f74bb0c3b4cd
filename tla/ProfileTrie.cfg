\* Functions at 2 and 4 (_sbrk), a call at 2, other jumps at 1, 3 and 4; one
\* argument is -1; instructions of one and of two cycles.
SPECIFICATION Spec
CONSTANTS
  Addr = {1, 2, 3, 4}
  Funs = {2, 4}
  CallSites = {2}
  Entry = 1
  Sbrk = 4
  Word = 4
  Args = {1, 3}
  Ends = {1}
  Costs = {1, 2}
  MaxNodes = 5
  MaxCycles = 7
  MaxFaults = 1
INVARIANTS
  TypeOK
  ChargesTheRunningFunction
  HeapIsBreak
  CyclesConserved
