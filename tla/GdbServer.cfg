\* Breakpoints with and without a condition, up to two watchpoints.
SPECIFICATION Spec
CONSTANTS
  Pc = {0, 1}
  Addr = {0, 1}
  Val = {0, 1}
  Zero = 0
  Conditions = {"none", "false"}
  Regions <- MCRegions
  MaxWatch = 2
INVARIANTS
PROPERTIES
  NoStepPastChange
  BaselineMovesOnlyWithAnswer
  ImplementsTarget
