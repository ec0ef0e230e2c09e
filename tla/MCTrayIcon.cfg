CONSTANTS
  Apps = {"unknown", "active"}
  MaxChanges = 2
  MaxShell = 2
  MaxFaults = 1
SPECIFICATION TrayFairSpec
PROPERTIES IconFollows
