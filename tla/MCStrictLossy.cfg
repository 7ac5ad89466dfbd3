SPECIFICATION Spec
CONSTANTS
  ScalarTypes <- MCScalarTypes
  Inputs <- MCInputs
  Builds <- MCBuilds
  Wide = 6
  Mantissa <- MCMantissa
  MaxHalves <- MCMaxHalves
  MaxCalls = 1
INVARIANTS
  LosesNothing
CHECK_DEADLOCK FALSE
