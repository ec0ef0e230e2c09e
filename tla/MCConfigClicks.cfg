CONSTANTS
  Clicks = {"autocorrect", "pattern"}
  EditDocs <- OwnerDocs
  StartDoc <- Absent
  MaxOutside = 1
SPECIFICATION Spec
CHECK_DEADLOCK FALSE
PROPERTY OneScalarChanges
