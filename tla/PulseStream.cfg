SPECIFICATION Spec
CONSTANTS
  MaxFragment = 3
  MaxFrames = 5
  MaxDepth = 3
INVARIANTS
  CallbacksAreExclusive
  FramesAreReadOnce
PROPERTY
  WaitsEnd
CHECK_DEADLOCK FALSE
