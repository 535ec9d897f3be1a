SPECIFICATION Spec
CONSTANTS
  CapacityBytes = 7
  BytesPerFrame = 2
  MaxTime = 5
INVARIANTS AllowanceIsReal NeverAheadOfTime ThreadOwnsStream
PROPERTY ClearIsHonoured
CHECK_DEADLOCK FALSE
