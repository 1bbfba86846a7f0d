SPECIFICATION Spec
CONSTANTS
  Lba = {l0, l2}
  l0 = l0
  l2 = l2
  Critical = {l0}
  Buf = {b1, b2}
  b1 = b1
  b2 = b2
  CallbackLba = {l0}
  CallbackBuf = {b2}
  Private = Private
  Cmd6Buf = Cmd6Buf
  Data = {Gpt, Raw}
  Gpt = Gpt
  Raw = Raw
  Signed = {Gpt}
  Stale = Stale
  None = None
  MaxRetries = 2
INVARIANTS
  ArmedAtIssue
  PhaseIsCurrent
  SuccessMovedTheBlock
  StaleCriticalOnlyAfterRetries
PROPERTIES
  CallerBufferSpared
