SPECIFICATION Spec
CONSTANTS
  o1 = o1
  o2 = o2
  o3 = o3
  h1 = h1
  h2 = h2
  Opaque = Opaque
  Empty = Empty
  OutPoint <- MCOutPoint
  Hash <- MCHash
  Files <- MCFiles
INVARIANTS
  CheckedIsReady
  LoadedIsResolvable
  CellsAreOfTheFile
