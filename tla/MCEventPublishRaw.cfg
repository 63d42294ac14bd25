SPECIFICATION Spec

CONSTANTS
  r1 = r1
  r2 = r2
  Relays = {r1, r2}
  Rows = {1, 2, 3}
  Inputs <- MCInputs
  MaxBatch = 2
  MaxAttempts = 2
  MaxLate = 1

INVARIANTS
  RawPayloadRetained

\* With every row delivered or set aside the relays have nothing left to do.
CHECK_DEADLOCK FALSE
