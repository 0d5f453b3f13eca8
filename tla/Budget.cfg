CONSTANTS
  Limit = 3
  Retries = 2
  Resumes = 1
  MaxTurn = 2
  MaxSpend = 1
  MaxTail = 1
  Clocks = {9}
  MaxFaults = 1
  MaxCrashes = 1
  Unsettled = {1}
SPECIFICATION Spec
INVARIANTS
  SettledAttemptsPay
  ChargedForItsOwn
  StagesRise
CHECK_DEADLOCK FALSE
