SPECIFICATION FairSpec
CONSTANTS
  Req = {r1, r2, r3}
  r1 = r1
  r2 = r2
  r3 = r3
  End = End
  MaxCalls = 4
  MaxPlugs = 2
INVARIANTS
  ResourcesHeld
  LostOnlyBehindTheWalk
PROPERTIES
  PacketsServed
CHECK_DEADLOCK FALSE
