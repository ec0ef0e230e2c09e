CONSTANTS
  KeyKinds = {"letter", "backspace", "enter", "combo", "chord"}
  Entries = {"correct", "phrase", "toggle", "sync", "push"}
  TerminalClasses = {TRUE, FALSE}
  FlipAfter = TRUE
  BackspaceCap = 3
  ChunkKeys = 1
  MaxCtx = 2
  MaxResets = 1
  MaxInputs = 5
  LateMint = TRUE
  Barging = TRUE
  Overrun = TRUE
SPECIFICATION Spec
CHECK_DEADLOCK FALSE
INVARIANTS KeysInv ParkedKeysHaveDrainer
PROPERTIES ParkedKeysDrain ModeFollowsResult
