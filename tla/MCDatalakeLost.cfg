CONSTANTS
  Slots = {s1, s2}
  Devices = {"d1", "d2"}
  Names = {"a", "b"}
  Paths <- TwoPaths
  Contents = {c1}
  Absent = Absent
  Tools = {NoTool}
  NoTool = NoTool
  MaxTime = 1
  Ahead = 0
  MaxCommits = 3
  Ops = {"initialize", "insert", "list"}
  Wipes = FALSE
  MayCrash = FALSE
SPECIFICATION Spec
INVARIANTS
  InsertIsListed
