SPECIFICATION Spec
CONSTANTS
  Pages <- MCPages
  Words <- MCWords
  Gap = 1
  Registers <- MCRegisters
  A0 = 1
  CodeLen = 1
  Reach = 8
  Address = 64
  Memories <- MCMemories
  Targets = {1, 9, 14}
INVARIANTS
  RestoresMemory
  RestoresExecution
