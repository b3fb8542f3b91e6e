SPECIFICATION Spec
CONSTANTS
  P = 19
  W = 7
  P1I = 13797
  R2 = 17
  A = 16
  B = 7
  Root = 2
  Samples = {7, 19}
  Leftovers = {0, 127}
  MaxCalls = 3
INVARIANTS Reduced ReachesPower
PROPERTIES IsFieldRing Ends
CHECK_DEADLOCK FALSE
