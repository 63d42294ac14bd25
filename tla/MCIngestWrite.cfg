SPECIFICATION Spec

CONSTANTS
  w1 = w1
  w2 = w2
  pin = pin
  twin = twin
  other = other
  Writers = {w1, w2}
  Intents <- MCIntents
  Pinned = {pin}
  Content <- MCContent
  StampInPlace = FALSE
  MaxAttempts = 2
  MaxCalls = 3

INVARIANTS
  TypeOK
  NeverMismatched
  FreshKeyPerCall

PROPERTY
  WrittenOnce

\* The application stops after MaxCalls calls.
CHECK_DEADLOCK FALSE
