SPECIFICATION Spec
CONSTANTS
  Searches <- PagedSearches
  MaxPages = 3
INVARIANT FullCollection
