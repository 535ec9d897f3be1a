SPECIFICATION Spec
CONSTANTS
  Devices = {d1, d2}
  Streams = {s1}
  MaxRefs = 2
  MaxRate = 4
  MaxChannels = 24
  Capabilities <- MCCapabilities
  available_backends <- MCBackends
SYMMETRY DeviceSymmetry
INVARIANTS
  RefCountsAreHolders
  ResourcesAreReleased
  DefaultsAreSupported
  NearestRateRoundsUp
CHECK_DEADLOCK FALSE
