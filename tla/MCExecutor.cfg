SPECIFICATION Spec
CONSTANTS
  Wasm = {"a1", "a2", "b", "c"}
  Host = {"h"}
  Modules = {"m1", "m2"}
  TableFuncs = {"a1", "a2", "h"}
  NLanes = 2
  MaxFrames = 2
  Chunk = 1
  CallExtra = 1
  MaxFuel = 1
  MaxNative = 4
  HostTail = FALSE
  ResumeAfterTrap = FALSE
  Owner <- MCOwner
  FuncAddrs <- MCFuncAddrs
  Code <- MCCode
  Params <- MCParams
  Locals <- MCLocals
  Results <- MCResults
  Cap <- MCCap
INVARIANTS
  TypeOK
  ActiveIffRunning
  HostKeepsStacks
  CacheCoherent
  FrameDiscipline
  RootFrameHoldsResults
PROPERTY OuterFramesKept
