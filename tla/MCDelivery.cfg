CONSTANTS
  KeyKinds = {"letter", "space", "backspace", "combo", "chord", "modifier"}
  Entries = {"toggle", "switch", "sync", "push"}
  TerminalClasses = {TRUE, FALSE}
  FlipAfter = TRUE
  BackspaceCap = 3
  ChunkKeys = 1
  MaxCtx = 2
  MaxResets = 1
  MaxInputs = 6
  LateMint = FALSE
  Barging = TRUE
  Overrun = FALSE
SPECIFICATION Spec
CHECK_DEADLOCK FALSE
INVARIANTS EraseOnlyTheWord Mirror ComboHasOwner
PROPERTIES FlipsWait KeysFollowTheCommit
