SPECIFICATION Spec
CONSTANTS
  ScalarTypes <- MCScalarTypes
  Inputs <- MCInputs
  Builds <- MCBuilds
  Wide = 6
  Mantissa <- MCMantissa
  MaxHalves <- MCMaxHalves
  MaxCalls = 2
INVARIANTS
  IntegersByMode
  FloatsFaithful
  WeakExtendsStrict
  RoundTrip
CHECK_DEADLOCK FALSE
