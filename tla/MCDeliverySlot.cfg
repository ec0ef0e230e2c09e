CONSTANTS
  KeyKinds = {"letter"}
  Entries = {"correct"}
  TerminalClasses = {TRUE}
  FlipAfter = TRUE
  BackspaceCap = 3
  ChunkKeys = 1
  MaxCtx = 1
  MaxResets = 0
  MaxInputs = 4
  LateMint = FALSE
  Barging = TRUE
  Overrun = FALSE
SPECIFICATION Spec
CHECK_DEADLOCK FALSE
PROPERTY FlipSupersedes
