SPECIFICATION Spec
CONSTANT
  MaxPacket = 3
INVARIANTS
  ThreadOwnsStream
  PacketsAreReadWhole
PROPERTIES
  CallsComplete
  PauseTakesEffect
CHECK_DEADLOCK FALSE
