SPECIFICATION Spec
CONSTANTS
  Threads = {t1, t2, t3}
  MaxTasks = 2
  NumChunks = 3
  ChunkRows <- MCChunkRows
  VectorSize = 2
  MayMigrate = TRUE
SYMMETRY ThreadSymmetry
INVARIANTS
  RowInOnePlace
  DeliveredGapless
  MissingIsParked
