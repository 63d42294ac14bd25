SPECIFICATION Spec

CONSTANTS
  w1 = w1
  w2 = w2
  pin = pin
  twin = twin
  other = other
  Writers = {w1, w2}
  Intents <- MCIntents
  Pinned = {pin}
  Content <- MCContent
  StampInPlace = TRUE
  MaxAttempts = 2
  MaxCalls = 3


\* The application stops after MaxCalls calls.
CHECK_DEADLOCK FALSE

INVARIANT FreshKeyPerCall
