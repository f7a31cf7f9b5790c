CONSTANTS
  MaxConfigure = 5
  MaxTerminate = 2
  MaxFailure = 3
  IdModulus = 4
  Tries = 4
  Calls <- AnyCall
  MaxLoss = 1
  MaxEarly = 1
  MaxClose <- CallerOnce
SPECIFICATION FairSpec
INVARIANTS TypeOK TimerRuns NothingLeftOver NetworkAgreed NotLetIn PapAccepted
PROPERTIES LinkOpens CloseEnds
CHECK_DEADLOCK FALSE
