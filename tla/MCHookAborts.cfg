SPECIFICATION Spec
CONSTANTS
  Types <- MCTypes
  Info <- MCInfo
  Bytes <- MCBytes
  IntOf <- MCIntOf
  Fold <- MCFold
  NaI = NaI
  Scenarios <- HookSessions
  Inputs <- ClaimInputs
INVARIANT FailedHookAborts
