SPECIFICATION Spec
CONSTANTS
  Worlds <- MCWorlds
  KeyFunc <- MCKeyFunc
  Norm <- MCNorm
INVARIANTS
  NoneForgotten
  InOrder
  Promoted
  ReportsEveryBadTag
  IsMCInfo
PROPERTIES
  Termination
