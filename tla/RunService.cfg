CONSTANTS
  Seats = {s1, s2}
  NoSeat = NoSeat
  Writing = TRUE
  MaxAttempts = 2
  MaxCrashes = 1
  Adversities = {TRUE, FALSE}
  ReleaseUnproved = FALSE
SYMMETRY SeatSymmetry
SPECIFICATION Spec
INVARIANTS
  OneGuestOnRecord
  
  PromptSeatsStartOnce
  ExecutesUnderLease
  ResultsAreValid
PROPERTIES
  PromptSeatsRecoverLatest
  FollowsLifecycle
CHECK_DEADLOCK FALSE
