CONSTANTS
  Workspaces <- AllWorkspaces
  Structured = {TRUE, FALSE}
  Faults <- AllFaults
  StopsInSetup = TRUE
SPECIFICATION FairSpec
INVARIANTS
  VmHoldsSlot
  ResultIsValid
  RetryableUnlessLeaked
PROPERTIES
  CaptureAfterClose
  KeepsContract
  EndsUnlessPromptedLate
