CONSTANTS
  FileLen = 1
  Patience = 4
  Room = 1
  Overlap = TRUE
  MaxDamage = 1
  MaxEarly <- NeverEarly
  MaxCancel = 0
SPECIFICATION Spec
INVARIANT DoneMeansArrived
CHECK_DEADLOCK FALSE
