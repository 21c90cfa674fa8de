SPECIFICATION Spec
CONSTANTS
  NONE = NONE
  Processes = {"web", "agent", "job"}
  Artifacts = {"a"}
  Operations <- MCOperations
  Calls = 1
  MaxCrashes = 2
  Stalls = {"read", "refresh"}
CHECK_DEADLOCK FALSE
PROPERTIES
  NoLostArtifact
  WaitersGetOn
