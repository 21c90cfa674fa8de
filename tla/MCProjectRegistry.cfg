SPECIFICATION FairSpec
CONSTANTS
  NONE = NONE
  a = a
  b = b
  slug = slug
  suffixed = suffixed
  theB = theB
  other = other
  Processes = {"web", "agent"}
  Records = {a, b}
  Mortal = {"web"}
  Slow = FALSE
  Names = {theB, other}
  Labels = {a, b, slug, suffixed}
  Base <- MCBase
  Suffixed <- MCSuffixed
  Legacy = {a}
  MaxRevision = 2
CHECK_DEADLOCK FALSE
INVARIANTS
  MutualExclusion
PROPERTIES
  OneWinner
  OperationEnds
