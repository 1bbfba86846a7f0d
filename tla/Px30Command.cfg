SPECIFICATION FairSpec
CONSTANTS
  MaxPolls = 4
  MaxIdle = 1
INVARIANTS
  SuccessMeansFinished
  NoFalseError
  BadDataOnlyMasked
PROPERTIES CommandReturns ImplementsHostCommand
