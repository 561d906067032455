SPECIFICATION Spec
CONSTANTS
  Wasm = {"a1", "a2", "b", "c"}
  Host = {"h"}
  Modules = {"m1", "m2"}
  TableFuncs = {"a1", "a2", "h"}
  NLanes = 2
  MaxFrames = 2
  Chunk = 2
  CallExtra = 1
  MaxFuel = 3
  MaxNative = 4
  HostTail = FALSE
  ResumeAfterTrap = TRUE
  Owner <- MCOwner
  FuncAddrs <- MCFuncAddrs
  Code <- MCCode
  Params <- MCParams
  Locals <- MCLocals
  Results <- MCResults
  Cap <- MCCap
INVARIANT ResultsAssertion
