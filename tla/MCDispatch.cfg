SPECIFICATION FairSpec

CONSTANTS
  MaxAttempts = 3
  InitialDelay = 1
  MaxDelay = 2
  JitterPercent = 50
  MaxTimer = 5
  Timeouts <- MCTimeouts
  RetryAfters <- MCRetryAfters
  ApiErrors <- MCApiErrors
  Horizon = 7

INVARIANTS
  TypeOK
  OutcomeTellsCause

PROPERTIES
  RetryAfterHonoured
  TimeoutHeaderSound
  SendsAreBounded
  CallSettles
