SPECIFICATION Spec

CONSTANTS
  Sdks = {"go", "python"}
  MaxAttempts = 3
  Timeout = 4
  Deadlines = {6}
  AttemptLimits = {4, 99}
  Delays = {0, 1, 99}
  MaxChunks = 2
  MaxLag = 2
  Never = 99

INVARIANT TimeoutBoundsIO

\* A call that reported its outcome does nothing more.
CHECK_DEADLOCK FALSE
