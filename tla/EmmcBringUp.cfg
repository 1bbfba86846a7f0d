SPECIFICATION FairSpec
CONSTANTS
  PcdKHz = 100000
  SrcKHz = 109090
  MaxOcr = 3
  MaxPrg = 2
INVARIANTS
  UpMeansSelected
  DisagreementHasCause
PROPERTIES
  QuietBusChange
  
CHECK_DEADLOCK FALSE
