SPECIFICATION Spec

CONSTANTS
  Iterations <- MCIterations
  Filters <- MCFilters
  Pages = 3
  Tokens <- MCTokens
  Contents <- MCContents
  MaxPages = 3
  MaxEdits = 1

INVARIANTS
  TypeOK
  EventsInOrder
  OnlySoundPages
  FiltersKept

PROPERTIES
  PagesAreOneWalk

\* An iteration that ended, failed or was left does nothing more.
CHECK_DEADLOCK FALSE
