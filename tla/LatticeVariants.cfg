SPECIFICATION VariantsFairSpec
CONSTANTS
  MaxBits = 30
  N = 1021
  Target = 11
  Half = 7
  Small = 7
  Large = 23
  Step = 3
  Sizes = {2, 5, 8, 11, 14, 17, 20, 23}
  NarrowWidth = 18
  MaxShift = 1
INVARIANTS NarrowingLossless SwitchLossless SameAnswer
PROPERTIES RunsReferenceLoop TerminatesOnCourse
CHECK_DEADLOCK FALSE
