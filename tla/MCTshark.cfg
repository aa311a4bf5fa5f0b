CONSTANTS
  Modes = {"file", "pipe"}
  Metadata = {TRUE, FALSE}
  Endings = {"complete", "abrupt", "trailing"}
  MaxPackets = 4
  MayFail = TRUE
SPECIFICATION LiveSpec
INVARIANTS
  TypeOK
  NothingLost
  SuccessStoresAll
  StopTimeIsFinal
  BadFileLeavesNoTrace
PROPERTIES
  KeepsPromise
  StoredInRealTime
  EndsWithInput
