CONSTANTS
  Foreign = {"xkb"}
  Current = "en"
  Buffer = 2
  Attempts = 2
  MaxFlips = 2
  MaxMoves = 2
  MaxLosses = 1
  MaxFaults = 1
  MaxFocus = 2
SPECIFICATION FairSpec
PROPERTIES NoDeadSwitcher
CHECK_DEADLOCK FALSE
