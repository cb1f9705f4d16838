SPECIFICATION FairSpec
CONSTANTS
  Threads = {t1, t2, t3}
  MaxTasks = 3
  NumChunks = 3
  ChunkRows <- MCChunkRows
  VectorSize = 2
  MayMigrate = FALSE
INVARIANTS
  TypeOK
  VectorExact
  RowsAccounted
PROPERTIES
  DeliveryContract
  ScanEnds
