SPECIFICATION FairSpec
CONSTANTS
  MaxBits = 30
  N = 509
  Target = 10
  Half = 6
  Small = 7
  Large = 20
INVARIANTS TypeOK GramExact NormsBounded SmallIsTruncation BasisOfLattice
PROPERTIES Shrinks Terminates KeepsPromise
CHECK_DEADLOCK FALSE
