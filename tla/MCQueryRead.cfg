SPECIFICATION FairSpec

CONSTANTS
  r1 = r1
  r2 = r2
  Readers = {r1, r2}
  Pages = 3
  Tokens <- MCTokens
  MaxQueryPolls = 2
  MaxResultPages = 3

INVARIANTS
  TypeOK
  OnlySucceededIsRead

PROPERTIES
  ResultIsOneWalk
  QuerySettles

\* A settled query with its readers at their end is the end.
CHECK_DEADLOCK FALSE
