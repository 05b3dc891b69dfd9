SPECIFICATION FairSpec
CONSTANTS
  a = a
  b = b
  o1 = o1
  o2 = o2
  o3 = o3
  o4 = o4
  c1 = c1
  Arenas <- MCArenas
  MaxCells = 4
  Types <- MCTypes
  TypeInfo <- MCTypeInfo
  StateTypes <- MCStateTypes
  Characters = {c1}
  Objects = {o1, o2, o3}
  NoObject = NoObject
  Capacity = 1
  ErrorTraps = FALSE
  MaxItems = 2
  MaxNesting = 3
  MaxFresh = 2
  MaxTicks = 2
PROPERTY CopyEnds
\* The process stops at an abort or a fault, and after MaxTicks ticks.
CHECK_DEADLOCK FALSE
