SPECIFICATION Spec
CONSTANTS
  Files = {f1, f2}
  EarlyDelete = FALSE
  MaxChanges = 3
INVARIANT NoLostChange
PROPERTIES ForcedScanIsMade ClientSeesDevices
