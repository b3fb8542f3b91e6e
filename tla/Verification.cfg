SPECIFICATION VerificationSpec
CONSTANTS
  N = 57853
  Junk = 5
  ByteBits = 5
  Len = 2
  RecodeLen = 3
  W = 4
  WG = 5
  Scalars1 = {0, 571, 28927, 70000}
  Scalars2 = {0, 12345, 73000}
  Logs = {0, 1, 777}
  Errors = {0, 1}
INVARIANTS NothingLost DigitsConverge Horner
PROPERTY Decides
CHECK_DEADLOCK FALSE
