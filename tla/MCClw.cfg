SPECIFICATION FairSpec
CONSTANTS
  Commands <- MCCommands
  ReadSize = 2
  PtySize = 3
  PipeSize = 3
  MaxRemovals = 2
  MayFail = TRUE
CHECK_DEADLOCK FALSE
INVARIANTS
  LostOnlyAtHangUp
  ImportedWhenOver
PROPERTIES
  KeepsPromise
  EndsWithCommand
