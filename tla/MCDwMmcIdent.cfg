SPECIFICATION FairSpec
CONSTANTS
  Capabilities <- MCCapabilities
  MaxOcr = 3
  MaxCards = 2
INVARIANTS
  TypeOK
  IdentifiedMeansReady
  ClockWithinTiming
  HealthyCardIdentified
PROPERTIES
  QuietBusChange
  IdentificationEnds
CHECK_DEADLOCK FALSE
