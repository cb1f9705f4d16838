SPECIFICATION FairSpec
CONSTANTS
  c1 = c1
  c2 = c2
  Procs <- MCProcs
  Jobs <- MCJobs
  Bins = 2
  MaxRows = 3
  MaxCols = 2
  MaxPoints = 2
INVARIANTS
  TypeOK
  SuccessHasResult
  OneDocument
  HeatmapTrue
  PictureWhole
PROPERTIES
  LostOnlyIfAgreed
  JsonEnds
