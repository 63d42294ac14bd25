SPECIFICATION FairSpec

CONSTANTS
  Sdks = {"go", "python"}
  MaxAttempts = 3
  Timeout = 4
  Deadlines = {6}
  AttemptLimits = {4, 99}
  Delays = {0, 1, 99}
  MaxChunks = 2
  MaxLag = 2
  Never = 99

INVARIANTS
  TypeOK
  AtMostOneSendAfterCancel
  TimeoutIsTrue

PROPERTIES
  PortsAreBounded
  NoSendPastDeadline
  CallSettles

\* A call that reported its outcome does nothing more.
CHECK_DEADLOCK FALSE
