SPECIFICATION Spec
CONSTANTS
  N = 1029001
  Junk = 5
  W = 3
  Lane = 2
  Scalars = {0, 1, 2, 3, 4, 5, 6, 7, 8, 9, 585, 262143, 859629, 859630, 1028993, 1028994, 1028995, 1028996, 1028997, 1028998, 1028999, 1029000, 1029001, 1300000}
  Logs = {0, 1, 2, 64, 500}
INVARIANT SumOfDigits
PROPERTY IsProduct
CHECK_DEADLOCK FALSE
