SPECIFICATION Spec
CHECK_DEADLOCK FALSE
CONSTANTS
  f = f
  g = g
  Modules <- MCModules
  FuncTypes = {f, g}
  Null = Null
  Host = Host
  Nobody = Nobody
  StoreId = s1
  StoreIds = {s1, s2}
  Modulus = 16
  PageSize = 1
  MaxTableSize = 2
  MaxInstances = 2
  MaxFuncs = 3
  MaxTables = 1
  MaxHostObjects = 1
INVARIANTS
  TypeOK
  ReachableFunctionsHaveOwner
  SegmentsComplete
  ImportsKeepFitting
PROPERTIES
  StoreOnlyGrows
  InstantiationEnds
