CONSTANTS
  Slots = {s1}
  Devices = {"d1", "d2"}
  Names = {"a", "b"}
  Paths <- ThreePaths
  Contents = {c1, c2}
  Absent = Absent
  Tools = {NoTool, t1}
  NoTool = NoTool
  MaxTime = 2
  Ahead = 1
  MaxCommits = 3
  Ops <- AllOps
  Wipes = FALSE
  MayCrash = FALSE
SPECIFICATION Spec
INVARIANTS
  ListingIsExact
  PermanentMeansGone
PROPERTIES
  KeepsPromise
