SPECIFICATION FairSpec
CONSTANT MaxChanges = 0
PROPERTY DisconnectIsReported
