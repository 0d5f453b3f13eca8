CONSTANTS
  Seats = {s1}
  Runs = {r1, r2}
  Builds = {1, 2, 3}
  NoRun = NoRun
  MaxLaunches = 2
  Together = FALSE
SYMMETRY RunSymmetry
SPECIFICATION QuarantineSpec
INVARIANTS
  ServesOnlyCurrent
  BytesKept
CHECK_DEADLOCK FALSE
