\* Bodies of up to a dozen operators, three inputs each.
CHECK_DEADLOCK FALSE
SPECIFICATION Spec
CONSTANTS
  Functions <- MCFunctions
  LocalTypes <- MCLocalTypes
  Globals <- MCGlobals
  Memories <- MCMemories
  StepBound = 150
  MaxFusedLocal = 1
  ImportedMemories = 1
  Shapes <- MCShapes
  Inputs <- MCInputs
INVARIANTS
  TypeOK
  OperandsTracked
  ValidCodeAccepted
  LoweringPreserves
  RewritePreserves
  LocalMemoryNoticed
