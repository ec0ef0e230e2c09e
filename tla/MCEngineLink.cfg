CONSTANTS
  Foreign = {"xkb"}
  Current = "en"
  Buffer = 2
  Attempts = 2
  MaxFlips = 2
  MaxMoves = 2
  MaxLosses = 2
  MaxFaults = 1
  MaxFocus = 2
SPECIFICATION FairSpec
INVARIANTS Agreement LinkInv
PROPERTIES ServingSwitcherIsLive Recovers
CHECK_DEADLOCK FALSE
