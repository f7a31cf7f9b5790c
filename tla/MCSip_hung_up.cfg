CONSTANTS
  MaxDials = 1
  MaxTries = 1
  Callers <- OnlyA
  Quitters = {}
  Transports <- Datagrams
  MaxFaults = 0
  MaxChallenges = 1
  TryingFirst = TRUE
SPECIFICATION Spec
INVARIANT StaysDown
CHECK_DEADLOCK FALSE
