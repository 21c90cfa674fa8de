SPECIFICATION Spec
CONSTANTS
  NONE = NONE
  m1 = m1
  t1 = t1
  t2 = t2
  u1 = u1
  w1 = w1
  Users = {u1}
  Threads = {t1, t2}
  LegacyThreads = {t1}
  Workspaces = {w1}
  Contexts = {{}, {w1}}
  Models = {m1}
  Titles = {"title0"}
  Options = {"options0"}
  Snapshots = {"snapshot0"}
  MaxRevision = 2
CHECK_DEADLOCK FALSE
INVARIANTS
  ActiveThreadUsable
  ForkSharesHome
PROPERTIES
  BindingIdentityStable
  ChangeMovesRevision
  HomeAuthorizedWhenBound
