CONSTANTS
  Others = {"fr"}
  Unsupported = {"handwriting"}
  UserLists <- OwnerLists
  MaxCommands = 3
  MaxEdits = 1
SPECIFICATION Spec
CHECK_DEADLOCK FALSE
INVARIANTS TakenIsBackedUp TakenIsTheOwners
PROPERTIES Uninstalls BorrowSpec
