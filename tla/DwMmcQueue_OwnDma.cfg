SPECIFICATION Spec
CONSTANTS
  Req = {r1, r2, r3}
  r1 = r1
  r2 = r2
  r3 = r3
  Ident = Ident
  None = None
  Timeouts = {1}
  Slots = {"emmc"}
  CallbackClients = FALSE
  StopMayFail = FALSE
  MaxPlugs = 0
PROPERTIES
  OwnDma
CHECK_DEADLOCK FALSE
