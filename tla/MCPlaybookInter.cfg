CONSTANTS
  Rows <- InterRows
  Plays <- InterPlays
  OptionSet <- InterOptions
  MaxRuns = 1
  MaxCrashes = 0
  MaxFlaps = 0
SPECIFICATION Spec
INVARIANTS
  TypeOK
  OneVlanActive
  BaseDeconfigured
  PhaseDisableHolds
PROPERTIES
  NumberingIsReproducible
