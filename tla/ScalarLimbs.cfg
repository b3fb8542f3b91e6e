CONSTANTS
    N = 457
    Top = 512
    R = 4096
    Chunk = 32
    NegInv = 1927
    sR2 = 289
    D = 370
    LimbBits = 4
    Limbs = 3
    TopBits = 1
    WordBits = 10
    Operands = {0, 1, 2, 15, 16, 17, 240, 255, 256, 257, 300, 399, 448, 455, 456, 457, 458,
                500, 511, 512, 513, 560, 579, 580}
SPECIFICATION LimbsSpec
CHECK_DEADLOCK FALSE
INVARIANT CarriesBounded
INVARIANT PassesExact
INVARIANT RowsCongruent
INVARIANT MatchesArithmetic
