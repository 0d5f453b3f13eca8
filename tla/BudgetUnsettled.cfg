CONSTANTS
  Limit = 3
  Retries = 0
  Resumes = 1
  MaxTurn = 2
  MaxSpend = 2
  Clocks = {}
  MaxTail = 1
  MaxFaults = 1
  MaxCrashes = 0
  Unsettled = {1}
SPECIFICATION Spec
INVARIANTS
  EveryAttemptPays
CHECK_DEADLOCK FALSE
