CONSTANTS
  Windows = {"t1", "t2", "b1"}
  AppOf <- WindowApps
  Visible = {"term"}
  Peer <- WindowPeers
  Cap = 1
  Bounds <- InputBounds
SPECIFICATION ClassSpec
INVARIANTS ClassInv
PROPERTY LossIsFinal
CHECK_DEADLOCK FALSE
