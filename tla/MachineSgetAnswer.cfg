SPECIFICATION Spec
CONSTANTS
  Depth <- MCDepth
  MaxCycles <- MCMax
  Ecall <- MCEcall
  Costs <- MCCosts
  Word <- MCWord
INVARIANT
  AnswersGoToTheirSpawn
