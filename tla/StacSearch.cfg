SPECIFICATION Spec
CONSTANTS
  Searches <- MCSearches
  MaxPages = 3
INVARIANTS
  TypeOK
  SliceOfItsTime
  ReadAtItsTime
  ItemsOnce
  WholeUnlessCut
  JoinLosesNothing
  OneGrid
