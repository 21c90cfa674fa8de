SPECIFICATION Spec
CONSTANTS
  NONE = NONE
  NodeIds = {"a", "b", "c"}
  Catalog <- MCCatalog
  Coerces <- MCCoerces
  Tabs = {"tab"}
  Batches <- MCBatches
  Commands <- MCCommands
  Sample <- MCSample
  HistoryLimit = 1
  AtOnce = 2
  MaxRequests = 3
  Hasty = FALSE
CHECK_DEADLOCK FALSE
INVARIANTS
  StoredGraphValid
  SortsUpstreamFirst
PROPERTIES
  ImplementsDesk
  AcceptedOverSeen
  EveryCallAnswered
