SPECIFICATION FairSpec
CONSTANTS
  t1 = t1 t2 = t2
  main = main debugger = debugger NoThread = NoThread
  Threads <- TwoThreads
  Id <- OneId
  Clients <- OneClient
  Uses <- Alone
  SpuriousWakes = TRUE
  Pausers <- OnlyT1
  LatePausers <- None
  Askers <- OnlyT2
  Files <- OneFile
PROPERTIES StopReturns RunReturns
CHECK_DEADLOCK FALSE
