SPECIFICATION ObjectsSpec
CONSTANTS
  v1 = v1 v2 = v2 t1 = t1 t2 = t2 o1 = o1 o2 = o2 io = io
  Nothing = Nothing
  MaxRaced = 3
  Variants <- TwoVariants
  Values <- TwoTables
  Objects <- TwoObjects
  Names <- OneName
  Things <- Addresses
  Keys <- Addresses
  KeyOf <- OwnKey
SYMMETRY Symmetry
INVARIANTS SerialCount VariantKeepsWhatItShows
CHECK_DEADLOCK FALSE
