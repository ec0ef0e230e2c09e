CONSTANTS
  Clients = {"pushing"}
  KeyKinds = {"letter", "space"}
  Entries = {"correct"}
  Starts <- OneLetter
  AutoOn = FALSE
  FlipAfter = FALSE
  MaxKeys = 2
  MaxEntries = 1
  MaxLate = 1
SPECIFICATION Spec
CHECK_DEADLOCK FALSE
INVARIANT EraseOnlyTheRange
