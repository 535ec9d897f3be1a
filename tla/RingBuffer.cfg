SPECIFICATION Spec
CONSTANTS
  Capacity = 3
  HalfRange = 6
  Values = {a, b}
  ConcurrentClear = FALSE
INVARIANTS FillCountAsserts CountsAreConservative
PROPERTY RefinesFifo
