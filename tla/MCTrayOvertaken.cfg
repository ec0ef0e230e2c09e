CONSTANTS
  Apps = {"unknown", "active"}
  MaxChanges = 1
  MaxShell = 1
  MaxFaults = 0
SPECIFICATION TraySpec
INVARIANTS MenuIsCurrent
