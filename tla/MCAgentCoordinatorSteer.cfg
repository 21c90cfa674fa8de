SPECIFICATION Spec
CONSTANTS
  NONE = NONE
  Delegations = {"d1", "d2", "d3"}
  Capacity = 1
  Memory = 3
  OtherTurns = 1
  Overlap = TRUE
CHECK_DEADLOCK FALSE
INVARIANTS
  OneTurnAtATime
