CONSTANTS
  MaxSubc = 2
  MaxSym = 2
  MaxPorts = 2
  PortIndexVals <- MCPortIndexVals
  SymbolsLen = 2
  NofPrb = 2
  MaxRE = 1
  MaxPilots = 2
  NoSlice = NoSlice
  NoEst = NoEst
SPECIFICATION Spec
INVARIANTS
  TypeOK
  GridFillColumnMajor
  OutputFollowsPortIndices
PROPERTIES
  ProgressTowardReturn
