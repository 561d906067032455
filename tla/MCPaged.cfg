SPECIFICATION FairSpec
CONSTANTS
  Byte = {0, 1}
  MaxLen = 4
  ChunkSize = 2
  BufLen = 2
INVARIANTS
  TypeOK
  TailZero
PROPERTIES
  PagedIsFlat
  EveryCallReturns
