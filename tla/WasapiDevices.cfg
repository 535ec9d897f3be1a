SPECIFICATION Spec
CONSTANTS
  Endpoints = {e1, e2}
  MaxChanges = 1
INVARIANTS
  DefaultIsListed
  NotificationsFindContext
PROPERTIES
  DisconnectCompletes
  ClientSeesDevices
CHECK_DEADLOCK FALSE
