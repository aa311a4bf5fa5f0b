CONSTANTS
  Rows <- CrashRows
  Plays <- TwoPhases
  OptionSet <- CrashOptions
  MaxRuns = 2
  MaxCrashes = 1
  MaxFlaps = 1
SPECIFICATION FairSpec
INVARIANTS
  CompletedWasScanned
  CompletedNotRepeated
  EverySourceCompleted
  NoScanAfterRuntimeError
PROPERTIES
