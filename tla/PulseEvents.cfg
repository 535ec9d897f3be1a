SPECIFICATION FairSpec
CONSTANT MaxChanges = 2
INVARIANTS NoLostScan ShownScansAreComplete
PROPERTIES ClientSeesDevices ShowsInOrder
