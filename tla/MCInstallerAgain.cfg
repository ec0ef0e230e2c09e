CONSTANTS
  Others = {"fr"}
  Unsupported = {"handwriting"}
  UserLists <- OwnerLists
  MaxCommands = 2
  MaxEdits = 0
SPECIFICATION Spec
CHECK_DEADLOCK FALSE
PROPERTY UninstallIsIdempotent
