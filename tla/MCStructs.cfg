SPECIFICATION Spec
CONSTANTS
  Types <- MCTypes
  Info <- MCInfo
  Bytes <- MCBytes
  IntOf <- MCIntOf
  Fold <- MCFold
  NaI = NaI
  Scenarios <- MCScenarios
  Inputs <- MCInputs
INVARIANTS
  ReportsEveryMisfit
  FillsEveryField
  AccountsForEverything
  UnusedIsAnError
  SameAnswer
  NothingLost
  SliceOfMapsMerges
  WeakScoped
  RoundTrip
  SameRoute
PROPERTIES
  Termination
