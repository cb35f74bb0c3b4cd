SPECIFICATION Spec
CHECK_DEADLOCK FALSE
CONSTANTS
  FileNames <- MCFileNames
  Fds <- MCFds
  MaxFile = 2
  Sessions <- MCSessions
  Values <- MCValues
INVARIANTS
  CalledAsAsked
  AnswersTellResultsApart
  OneFrame
  PanicsOnlyAsKnown
  FilesAsGdbBelieves
PROPERTY
  EveryRequestIsAnswered
