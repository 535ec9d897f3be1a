SPECIFICATION Spec
CONSTANTS
  MaxChanges = 2
  MaxFailures = 1
INVARIANTS NoLostRefresh DisconnectIsFinal
PROPERTIES ClientSeesDevices DisconnectIsReported ShowsInOrder
CHECK_DEADLOCK FALSE
