SPECIFICATION Spec
CONSTANTS
  Seeds <- MCSeeds
  Shifts = {0, 1, 2, 3}
  Scalars = {0, 31, 1024, 1057}
  LastDigits = 3
  MaxMultiple = 4
  MaxCalls = 5
  Tails = {248, 255}
  Lasts = {0, 127, 128}
INVARIANTS SameMultiple Canonical RebuildsSeed
PROPERTIES IsCurveGroup
CHECK_DEADLOCK FALSE
