SPECIFICATION FairSpec
CONSTANTS
  Depth = 3
  Stroke = {play, voldn}
  Play = play
  VolDn = voldn
  Polls = 2
INVARIANTS
  NoLostWakeup
PROPERTIES
  ImplementsKeyQueue
  PressIsDebouncedChange
  StrokesAreRead
