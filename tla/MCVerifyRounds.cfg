CONSTANTS
  Clients = {"pushing", "answering", "silent", "deaf"}
  KeyKinds = {"letter", "space", "backspace", "combo"}
  Entries = {"correct", "phrase", "toggle", "focusout", "reset"}
  Starts <- OneLetter
  AutoOn = TRUE
  FlipAfter = TRUE
  MaxKeys = 2
  MaxEntries = 1
  MaxLate = 1
SPECIFICATION Spec
CHECK_DEADLOCK FALSE
INVARIANTS LossHasCause HarmHasCause RoundsInv
PROPERTY LateIsHarmless
