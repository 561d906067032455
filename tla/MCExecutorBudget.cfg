SPECIFICATION FairSpec
CONSTANTS
  Wasm = {"a1", "b", "c"}
  Host = {"h"}
  Modules = {"m1"}
  TableFuncs = {"a1", "h"}
  NLanes = 1
  MaxFrames = 1
  Chunk = 2
  CallExtra = 2
  MaxFuel = 5
  MaxNative = 2
  HostTail = TRUE
  ResumeAfterTrap = FALSE
  Owner <- MCOwner
  FuncAddrs <- MCFuncAddrs
  Code <- MCCode
  Params <- MCParams
  Locals <- MCLocals
  Results <- MCResults
  Cap <- MCSmallCap
INVARIANTS
  FuelOvershootBounded
PROPERTY BudgetedRunReturns
