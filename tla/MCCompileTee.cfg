\* A value that comes out of either arm of an if, and is teed.
CHECK_DEADLOCK FALSE
SPECIFICATION Spec
CONSTANTS
  Functions <- MCFunctions
  LocalTypes <- MCLocalTypes
  Globals <- MCGlobals
  Memories <- MCMemories
  StepBound = 150
  MaxFusedLocal = 1
  ImportedMemories = 1
  Shapes <- MCTeeShape
  Inputs <- MCInputs
INVARIANT CompiledIsWasm
