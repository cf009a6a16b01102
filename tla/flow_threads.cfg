SPECIFICATION Spec
CONSTANTS
  f1 = f1  d1 = d1  d2 = d2  chunk = chunk  nofile = nofile  ev1 = ev1
  Debuggers <- TwoDebuggers
  Uses <- StepperAndEditor
  Files <- OneFile
  Chunks <- None
  NoFile = nofile
  Lines <- OneLine
  UserEvents <- OneEvent
  MaxDepth = 1
  MaxLayer = 1
  UIntMod = 8
INVARIANTS PausedPosition
