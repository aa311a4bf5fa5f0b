CONSTANTS
  Rows <- OneIface
  Plays <- FailingPlays
  OptionSet <- IntraOptions
  MaxRuns = 1
  MaxCrashes = 0
  MaxFlaps = 0
SPECIFICATION Spec
INVARIANTS
  Deconfigured
