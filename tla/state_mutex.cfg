SPECIFICATION MetadataSpec
CONSTANTS
  Threads = {t1, t2}
  Addresses = {a}
  None = None
  MayOverlap = TRUE
  MaxStates = 3
INVARIANT MutexUntilClosed
CHECK_DEADLOCK FALSE
