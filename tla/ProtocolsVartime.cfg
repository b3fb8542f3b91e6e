SPECIFICATION Spec
CONSTANTS
  N = 5
  Users = {u1, u2}
  Hashes = {h1, h2}
  Signer = u1
  MaxCalls = 3
INVARIANTS VartimeAsDocumented
CHECK_DEADLOCK FALSE
