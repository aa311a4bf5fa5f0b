CONSTANTS
  Slots = {s1}
  Devices = {"d1", "d2"}
  Names = {"a", "b"}
  Paths <- TwoPaths
  Contents = {c1}
  Absent = Absent
  Tools = {NoTool}
  NoTool = NoTool
  MaxTime = 1
  Ahead = 0
  MaxCommits = 3
  Ops <- AllOps
  Wipes = TRUE
  MayCrash = FALSE
SPECIFICATION Spec
INVARIANTS
  PermanentMeansGone
