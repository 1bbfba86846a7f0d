SPECIFICATION FairSpec
CONSTANTS
  Lens = {0, 1, 2, 6}
  BlockWords = 2
  BufWords = 4
  Depth = 3
  RxMark = 1
  TxMark = 1
  MaxPolls = 2
  MaxWait = 2
  Timeouts = {0, 1}
INVARIANTS
  MovedInOrder
  MissesOnlyTheTail
  SuccessWasAnswered
PROPERTIES
  ExecReturns
CHECK_DEADLOCK FALSE
