CONSTANTS
  Handles = {h1, h2}
  MaxLease = 3
  MaxEvents = 4
  Faults <- AnyFault
  Shared = FALSE
SYMMETRY HandleSymmetry
SPECIFICATION Spec
INVARIANTS
  JournalReadable
  SnapshotWithinJournal
PROPERTY ImplementsLog
CHECK_DEADLOCK FALSE
