CONSTANTS
  Seats = {s1, s2}
  NoSeat = NoSeat
  Runs = {r1}
  MaxAttempts = 2
  MaxIntents = 2
SYMMETRY RetentionSymmetry
SPECIFICATION Spec
INVARIANT IntentsResume
