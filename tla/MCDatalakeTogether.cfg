CONSTANTS
  Slots = {s1, s2}
  Devices = {"d1", "d2"}
  Names = {"a", "b"}
  Paths <- TwoPaths
  Contents = {c1}
  Absent = Absent
  Tools = {NoTool}
  NoTool = NoTool
  MaxTime = 0
  Ahead = 0
  MaxCommits = 2
  Ops = {"initialize", "insert", "purge", "list"}
  Wipes = TRUE
  MayCrash = TRUE
SPECIFICATION Spec
PROPERTIES
  CommittedIsKept
