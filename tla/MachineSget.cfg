SPECIFICATION FairSpec
CONSTANTS
  Depth <- MCDepth
  MaxCycles <- MCMax
  Ecall <- MCEcall
  Costs <- MCCosts
  Word <- MCWord
INVARIANTS
  AttachedIsNth
  LiveWithinBudget
PROPERTY
  ResumesTheCaller
  SearchEnds
