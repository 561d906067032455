CONSTANTS
  MIN_FUNCTIONS = 2
  MIN_CODE_SECTION_BYTES = 6
  MIN_FUNCTION_BODY_BYTES = 2
  MIN_FUNCTIONS_PER_WORKER = 1
  MAX_WORKERS = 3
  Available = {1, 2, 3}
  Files <- MCFiles
  Options <- MCOptions
SPECIFICATION Spec
INVARIANTS
  TypeOK
  EachFunctionOnce
  BufferInStep
  WorkersWithinLimit
  UsedMemoryIsAllocated
PROPERTIES
  ParsesAsDeclared
  ParseEnds
