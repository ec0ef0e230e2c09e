CONSTANTS
  Clients = {"pushing"}
  KeyKinds = {"letter", "backspace"}
  Entries = {"toggle", "correct"}
  Starts <- OneLetter
  AutoOn = FALSE
  FlipAfter = FALSE
  MaxKeys = 2
  MaxEntries = 3
  MaxLate = 0
SPECIFICATION Spec
CHECK_DEADLOCK FALSE
INVARIANT OneAtATime
