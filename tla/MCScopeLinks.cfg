SPECIFICATION Spec
CONSTANTS
  NONE = NONE
  a = a
  b = b
  c = c
  mounted = mounted
  rolled = rolled
  Processes = {"agent"}
  Scopes = {a, b, c}
  Known = {a, b, c}
  Kinds = {mounted, rolled}
  Orders = {0, 1}
  Ids = {1, 2, 3}
  MaxRevision = 3
  MaxChanges = 3
  MaxCrashes = 1
SYMMETRY Interchangeable
CHECK_DEADLOCK FALSE
INVARIANTS
  Acyclic
  AuditReplays
  TraversalIsReach
  FirstOccurrenceWins
  ReachIsClosed
