CONSTANTS
  Rows <- CheckRows
  Plays <- StagePlays
  OptionSet <- CrashOptions
  MaxRuns = 1
  MaxCrashes = 0
  MaxFlaps = 0
SPECIFICATION Spec
INVARIANTS
  StageDisableSticks
