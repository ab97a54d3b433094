SPECIFICATION Spec
CONSTANTS
  NName = 10
  Files <- MCFiles
INVARIANTS
  RefusesConflicts
  SameLogic
  Asserts
