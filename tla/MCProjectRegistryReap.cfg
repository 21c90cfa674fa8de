SPECIFICATION Spec
CONSTANTS
  NONE = NONE
  a = a
  b = b
  slug = slug
  suffixed = suffixed
  theB = theB
  other = other
  Processes = {"web", "web2", "agent"}
  Records = {a}
  Mortal = {"web"}
  Slow = FALSE
  Names = {theB, other}
  Labels = {a, b, slug, suffixed}
  Base <- MCBase
  Suffixed <- MCSuffixed
  Legacy = {}
  MaxRevision = 2
CHECK_DEADLOCK FALSE
PROPERTIES
  OneWinner
