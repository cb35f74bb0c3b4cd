SPECIFICATION Spec
CONSTANTS
  f = f
  raw = raw
  norm = norm
  samples = samples
  EmptyString = EmptyString
  Unknown = Unknown
  String <- MCString
  Units <- MCUnits
  Normal <- MCNormal
  Stacks <- MCStacks
  Lines = {0, 1, 2}
  Cycles = {0, 2}
  MaxGiven = 3
INVARIANTS
  ProfileIsWellFormed
  ProfileIsFaithful
