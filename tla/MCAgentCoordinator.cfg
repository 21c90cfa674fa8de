SPECIFICATION Spec
CONSTANTS
  NONE = NONE
  Delegations = {"d1", "d2", "d3", "d4"}
  Capacity = 2
  Memory = 4
  OtherTurns = 2
  Overlap = FALSE
CHECK_DEADLOCK FALSE
INVARIANTS
  OneTurnAtATime
PROPERTIES
  ImplementsDesk
  EveryRequestEnds
  IdleIsTold
