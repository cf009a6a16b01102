SPECIFICATION Spec
CONSTANTS
  t1 = t1 t2 = t2
  main = main debugger = debugger NoThread = NoThread
  Threads <- TwoThreads
  Id <- TwoIds
  Clients <- BothClients
  Uses <- Disciplined
  SpuriousWakes = FALSE
  Pausers <- OnlyT1
  LatePausers <- OnlyT1
  Askers <- None
  Files <- OneFile
INVARIANTS OneRun ClosedIsQuiet
PROPERTIES StopMeansStopped
CHECK_DEADLOCK FALSE
