SPECIFICATION FairHostSpec
CONSTANTS
  NONE = NONE
  a = a
  b = b
  c1 = c1
  c2 = c2
  c3 = c3
  c4 = c4
  Owners = {a, b}
  Clients = {c1, c2, c3, c4}
  MaxStops = 2
  Prompt = TRUE
CHECK_DEADLOCK FALSE
INVARIANTS
  NoStranded
PROPERTIES
  EndedByOwner
  StrandedIsDisposed
  ImplementsSlot
