CONSTANTS
  MaxConfigure = 5
  MaxTerminate = 2
  MaxFailure = 3
  IdModulus = 4
  Tries = 4
  Calls <- ChapCall
  MaxLoss = 1
  MaxEarly = 0
  MaxClose <- Never
SPECIFICATION Spec
INVARIANT ChapAccepted
CHECK_DEADLOCK FALSE
