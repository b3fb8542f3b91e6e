SPECIFICATION HashingSpec
CONSTANTS
  Ctxs = {c1, c2}
  c1 = c1
  c2 = c2
  Rate = 2
  Width = 5
  Bytes = {{}, {0, 1, 2, 3, 4}}
  MaxChunk = 4
  MaxIn = 4
  MaxOut = 5
  Blocks <- SomeBlocks
INVARIANT SameMessage
PROPERTIES IsStream Returns IsKeccak
CHECK_DEADLOCK FALSE
