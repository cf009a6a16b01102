SPECIFICATION Spec
CONSTANTS
  c1 = c1 c2 = c2 g = g lib = lib x = x
  Nobody = Nobody
  Clients <- TwoClients
  Uses <- Roles
  Globals <- TwoGlobals
  Internal <- OnlyLib
  Names <- OneName
  Values <- TwoValues
  MaxLevels = 2
  MaxLocals = 2
INVARIANTS GlobalsOfOneMoment 
PROPERTIES SetsWhatIsNamed
CHECK_DEADLOCK FALSE
