SPECIFICATION Spec
CONSTANTS
  BufferFrames = 4
  PeriodSize = 2
  MaxSuspends = 1
INVARIANTS
  ThreadOwnsStream
  WritesFit
  PauseIsKnown
PROPERTIES
  DestroyCompletes
  KeepsCalling
  ClearIsHonoured
CHECK_DEADLOCK FALSE
