SPECIFICATION Spec

CONSTANTS
  MaxRows = 2
  MaxArrow = 7
  Nothing = Nothing
  MaxUint64 = 60
  LongestDuration = 50000000

INVARIANTS
  ReasonsDecideAlike
  ReasonIsNeverOverruled
  WaitsFollowSchedule
  AppendsAgree
  FollowUpIsSound
