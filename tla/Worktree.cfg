CONSTANTS
  Contents = {plain, a, b}
  Plain = plain
  Damaged = damaged
  NoCommit = NoCommit
  MaxAttempts = 3
SYMMETRY WorktreeSymmetry
SPECIFICATION Spec
INVARIANTS
  HandoffsPinned
  EvidenceFirst
PROPERTIES
  WorkSurvives
