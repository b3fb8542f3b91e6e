CONSTANTS
    N = 57
    Top = 64
    R = 1024
    Chunk = 4
    NegInv = 503
    sR2 = 4
    D = 49
    Regs = {r1, r2}
    Inputs = {0, 56, 57, 63}
    r1 = r1
    r2 = r2
SPECIFICATION Spec
INVARIANT InRange
PROPERTY IsRing
