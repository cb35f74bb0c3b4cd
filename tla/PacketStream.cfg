SPECIFICATION FairSpec
CONSTANTS
  Cmd = Cmd
  NoAckWord = NoAckWord
  Word = {Cmd, NoAckWord}
  Messages <- MCMessages
  Capacity = 6
  MaxStream = 9
INVARIANTS
  TypeOK
  BufferIsWindow
  ExecutedInOrder
  ModeIsAnnounced
  RepliesInOrder
  DroppedOnlyIfUnframeable
PROPERTIES
  ImplementsCursor
  EverythingIsConsumed
