CONSTANTS
  Clients = {"pushing"}
  KeyKinds = {"letter"}
  Entries = {"correct"}
  Starts <- OneLetter
  AutoOn = FALSE
  FlipAfter = TRUE
  MaxKeys = 2
  MaxEntries = 1
  MaxLate = 1
SPECIFICATION Spec
CHECK_DEADLOCK FALSE
INVARIANT DeletedIsReplaced

