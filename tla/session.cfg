SPECIFICATION FairSessionSpec
CONSTANTS
  f1 = f1  d1 = d1  chunk = chunk  nofile = nofile  ev1 = ev1  ev2 = ev2
  Debuggers <- OneDebugger
  Client = d1
  PauseEvent = ev1
  ResumeEvent = ev2
  Uses <- AllUses
  Files <- OneFile
  Chunks <- OneChunk
  NoFile = nofile
  Lines <- OneLine
  UserEvents <- TwoEvents
  MaxDepth = 1
  MaxLayer = 2
  UIntMod = 8
INVARIANTS ReadsHold
PROPERTIES ImplementsFairContract PauseRequestServed
