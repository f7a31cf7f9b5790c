CONSTANTS
  FileLen = 3
  Patience = 2
  Room = 2
  Overlap = TRUE
  MaxDamage = 2
  MaxEarly <- OnceEarly
  MaxCancel = 1
SPECIFICATION FairSpec
INVARIANTS TypeOK FileArrives
PROPERTIES TransferSpec SessionEnds
CHECK_DEADLOCK FALSE
