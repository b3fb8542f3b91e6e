SPECIFICATION FairSpec
CONSTANTS
  MaxBits = 30
  N = 1021
  Target = 11
  Half = 7
  Small = 7
  Large = 23
  NarrowWidth = 18
  MaxShift = 1

PROPERTIES Terminates
CHECK_DEADLOCK FALSE
