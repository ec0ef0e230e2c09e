CONSTANTS
  Apps = {"unknown", "active", "covered", "full"}
  MaxChanges = 2
  MaxShell = 3
  MaxFaults = 2
SPECIFICATION TrayFairSpec
INVARIANTS TrayInv MenuIsShown
PROPERTIES ItemReturns
