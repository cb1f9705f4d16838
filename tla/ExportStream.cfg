SPECIFICATION FairSpec
CONSTANTS
  Jobs <- MCJobs
  MaxVolume = 4
  ElementBytes = 2
  MaxMemory = 9
  ChannelSize = 1
INVARIANTS
  TypeOK
  ExportExact
  NothingLeftBehind
  MemoryBounded
PROPERTIES
  ArrayContract
  ExportEnds
