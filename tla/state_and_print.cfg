SPECIFICATION WaitsSpec
CONSTANTS
  p = p d = d c1 = c1 c2 = c2
  Main = Main NoThread = NoThread
  Threads <- FourThreads
  Program = p
  Debugger = d
  Known <- OldThreads
  Leavers <- ProgramAndDebugger
  Passed <- MainOnly
  Printers <- ProgramAndClient
  Listeners <- DebuggerOnly
  Others <- OneClient
  AutoReset <- DebuggerOnly
  Late <- Nobody
  Allowed <- OnlyPeeks
  Size <- OneOrTwoBytes
  Capacity = 3
  PeekSize = 1
  MaxPrints = 2
INVARIANTS NoLockCycle StackIsMine MessagesWhole
PROPERTIES CallsReturn EveryPrintRead
CHECK_DEADLOCK FALSE
