CONSTANTS
  Boots = {b1, b2}
  Dead = Dead
  Keys = {k1, k2}
  MaxSlots = 2
  MaxImages = 1
  MaxStarts = 4
  Overtaking = FALSE
SPECIFICATION FairSpec
INVARIANTS
  
  LeasedStays
  NothingLeftBehind
PROPERTY WaitsEnd
CHECK_DEADLOCK FALSE
