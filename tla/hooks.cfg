SPECIFICATION Spec
CONSTANTS
  l1 = l1 l2 = l2 c1 = c1
  LuaThreads <- TwoLua
  Clients <- OneClient
  Objects <- TwoObjects
  Events <- TwoEvents
  Counts <- TwoCounts
  Users <- Shared
  Editable <- OthersEdited
  Destroyers <- OneClient
  Throws <- Anything
  MaxDepth = 1
INVARIANTS InstalledAsRegistered
PROPERTIES EveryCallbackCalled
CHECK_DEADLOCK FALSE
