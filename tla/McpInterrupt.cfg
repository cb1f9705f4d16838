SPECIFICATION Spec
CONSTANTS
  Calls <- LookupCalls
  Tool <- LookupTool
  Runaway = {}
  Progress = {}
  Readers = {}
  ScriptNames = {}
  Panics = {}
  Parallel = TRUE
INVARIANT FastNeverInterrupted
