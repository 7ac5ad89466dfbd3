SPECIFICATION KeysSpec
CONSTANTS
  Inputs <- MCInputs
  MaxRenders = 2
INVARIANTS
  Partition
  WordsAreWords
  LooseMatches
  JoinedKeepsWords
  CapitalsKeepWords
PROPERTIES
  Termination
CHECK_DEADLOCK FALSE
