SPECIFICATION FairSpec
CONSTANTS
  Calls <- SessionCalls
  Tool <- SessionTool
  Runaway = {"region", "zonal"}
  Progress = {"region", "zonal"}
  Readers = {"region"}
  ScriptNames = {1}
  Panics = {"region"}
  Parallel = TRUE
INVARIANTS
  TypeOK
  AnswerOwn
  HandleHolds
  WatchdogOfHolder
PROPERTY AnsweredUnlessWedged
