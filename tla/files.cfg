SPECIFICATION FilesSpec
CONSTANTS
  h1 = h1 h2 = h2 f1 = f1 t1 = t1
  Handlers <- TwoHandlers
  Files <- OneFile
  Temps <- OneTemp
  Modes <- AllModes
  Strings <- Words
  MaxLen <- Lengths
  Missing = Missing
INVARIANTS NothingLost
SYMMETRY Symmetry
CHECK_DEADLOCK FALSE
