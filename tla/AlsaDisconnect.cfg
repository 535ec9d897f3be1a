SPECIFICATION Spec
CONSTANTS
  Files = {f1}
  EarlyDelete = FALSE
  MaxChanges = 0
PROPERTY DisconnectCompletes
