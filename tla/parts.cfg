SPECIFICATION PartsSpec
CONSTANTS
  Functions <- AllFunctions
  MinStack = 20
  Many <- Counts
  Nil = Nil
  Error = Error
  v1 = v1
  v2 = v2
  ka = ka
  kb = kb
  t1 = t1
  t2 = t2
  t3 = t3
  t4 = t4
  t5 = t5
  lf = lf
  lg = lg
  x = x
  s1 = s1
  s2 = s2
  MaxCCalls = 8
  From = {3, 6, 7}
  MaxFrames = 3
  Askers = {a1, a2}
  Sites = {one, two}
  Null = Null
  Blocks = {m1, m2}
  Sizes = {1}
  MaxNested = 1
  Threads = {p1, p2}
  Addresses = {one, two}
  None = None
  MayOverlap = FALSE
  MaxStates = 3
  registry = registry
  w = w
  co = co
  cl = cl
  u1 = u1
  u2 = u2
  main = main
  NoKey = NoKey
INVARIANTS StackBalanced StackIndexesHit OwnedOnce TableIsMap WalkGivesEachOnce
INVARIANTS LeaksToldApart FindsPreferred NothingInUseIsFreed CountersTellTheStack StatesKeptApart PackKeepsValues ChunkKeepsFunction BreakpointsWhereCodeIs
PROPERTIES CopyTellsTheTable
CHECK_DEADLOCK FALSE
