CONSTANTS
  Rows <- TwoIfaces
  Plays <- PlainPlays
  OptionSet <- IntraBoth
  MaxRuns = 1
  MaxCrashes = 0
  MaxFlaps = 0
SPECIFICATION FairSpec
INVARIANTS
  RunnerExclusive
  DryRunHarmless
  Deconfigured
  ScansRunConfigured
  EverySourceCompleted
PROPERTIES
  Termination
