SPECIFICATION Spec
CONSTANTS
  Requests <- BandRequests
  HeaderWindow = 16384
  MaxChunkBytes = 1000
  MaxStrings = 10
  MaxCoordinates = 10
  VectorSize = 3
  MaxSearchArea = 1000
  OverflowChecks = FALSE
  U64 = 256
INVARIANT PlaceTrue
