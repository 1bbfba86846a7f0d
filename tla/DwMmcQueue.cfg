SPECIFICATION FairSpec
CONSTANTS
  Req = {r1, r2}
  r1 = r1
  r2 = r2
  Ident = Ident
  None = None
  Timeouts = {1}
  Slots = {"sd", "emmc"}
  CallbackClients = FALSE
  StopMayFail = FALSE
  MaxPlugs = 2
INVARIANTS
  SharedOnlyIfAbandoned
PROPERTIES
  ImplementsAsyncIo
  EveryRequestCompletes
  MediaFollowsCard
CHECK_DEADLOCK FALSE
