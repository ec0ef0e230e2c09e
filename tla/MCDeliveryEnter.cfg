CONSTANTS
  KeyKinds = {"letter", "enter", "combo"}
  Entries = {}
  TerminalClasses = {TRUE}
  FlipAfter = TRUE
  BackspaceCap = 3
  ChunkKeys = 1
  MaxCtx = 1
  MaxResets = 0
  MaxInputs = 5
  LateMint = FALSE
  Barging = FALSE
  Overrun = FALSE
SPECIFICATION Spec
CHECK_DEADLOCK FALSE
INVARIANT EraseOnlyTheWord
