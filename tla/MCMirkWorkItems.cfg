SPECIFICATION FairFilesSpec
CONSTANTS
  NONE = NONE
  transition = transition
  assign = assign
  board = board
  upsert = upsert
  Mutations = {assign, board, upsert}
  Stories = {"story", "other"}
  Sidecars = {"reviews", "boardViews"}
  Touches <- MCTouches
  Replaces = {upsert}
  RewritesAll = {board}
  Restored = {"story"}
  Processes = {"web"}
  Clients = {"tab"}
  Failures = {{}, {"refused"}, {"torn"}, {"died"}}
CHECK_DEADLOCK FALSE
INVARIANTS
  NoLostUpdate
  RevisionCounts
PROPERTIES
  HeadIsAnswered
  ImplementsStore
