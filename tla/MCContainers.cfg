SPECIFICATION Spec
CONSTANTS
  Types <- MCTypes
  Info <- MCInfo
  Bytes <- MCBytes
  IntOf <- MCIntOf
  Fold <- MCFold
  NaI = NaI
  Scenarios <- MCScenarios
  Inputs <- MCInputs
INVARIANTS
  TypeOK
  PathBalanced
  Idempotent
  ArrayHoldsList
  FillsEveryElement
  
  FailedHookStops
PROPERTIES
  ReportsErrors
