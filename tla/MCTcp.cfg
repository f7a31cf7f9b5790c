CONSTANTS
  SeqSpace = 32
  Buffer = 2
  Mss = 2
  MaxRetransmits = 3
  MostHeld = 2
  InitialSegments = 2
  InitialSsthresh = 8
  Openings <- EitherWay
  MaxWrite <- ThreeOneWay
  Abortive = {"Server"}
  Isns = {30}
  Faults = {"loss", "repeat", "overtake", "early"}
  MaxFaults = 1
SPECIFICATION FairSpec
INVARIANTS TypeOK TimerRuns Agreed ClosingIsTheEnd FinIsTheEnd
PROPERTIES AllArrives TwoClosesEnd WindowNeverTakenBack StreamSpec
CHECK_DEADLOCK FALSE
