SPECIFICATION Spec
CONSTANTS
  Depth = 3
  Stroke <- MCStroke
  Key = {up, esc}
  up = up
  esc = esc
  NoKey = NoKey
  Samples = 3
INVARIANTS
  InjectedWhenStable
PROPERTIES
  ImplementsKeyQueue
