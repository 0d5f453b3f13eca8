SPECIFICATION FairSpec
CONSTANTS
  Controls = {c1, c2}
  Operations = {launch, a}
  LaunchId = launch
  Texts = {x, y}
  Asks <- asks
  Task = task
  Other = other
  a = a
  x = x
  y = y
  None = none
  MaxObjects = 2
  MaxFaults = 1
  MaxCrashes = 1
INVARIANTS ReceiptsHold OneTextPerOperation AcceptedWasQueued AbortedRunStops
PROPERTY CallsAnswered
CHECK_DEADLOCK FALSE
