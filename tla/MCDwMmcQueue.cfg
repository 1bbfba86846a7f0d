SPECIFICATION Spec
CONSTANTS
  r1 = r1
  r2 = r2
  r3 = r3
  Req <- MCReq
  Ident = Ident
  None = None
  Timeouts = {0, 1}
  Slots = {"sd", "emmc"}
  CallbackClients = TRUE
  StopMayFail = TRUE
  MaxPlugs = 1
SYMMETRY Symmetry
INVARIANTS
  QueueExact
  SuccessIsOwn
PROPERTIES
  AsyncIoSteps
CHECK_DEADLOCK FALSE
