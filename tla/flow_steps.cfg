SPECIFICATION FairSpec
CONSTANTS
  f1 = f1  d1 = d1  d2 = d2  chunk = chunk  nofile = nofile  ev1 = ev1
  Debuggers <- OneDebugger
  Uses <- Stepper
  Files <- OneFile
  Chunks <- None
  NoFile = nofile
  Lines <- TwoLines
  UserEvents <- None
  MaxDepth = 2
  MaxLayer = 3
  UIntMod = 8
INVARIANTS LayersCoverStack NoLostPause
PROPERTIES StepStaysShallow StepReturns
