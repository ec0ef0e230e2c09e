CONSTANTS
  Clicks = {"autocorrect", "pattern"}
  EditDocs <- OwnerDocs
  StartDoc <- Absent
  MaxOutside = 1
SPECIFICATION FairSpec
CHECK_DEADLOCK FALSE
INVARIANTS SeenIsAnswered MenuTellsApplied ConvergenceOwed
PROPERTY Settles
