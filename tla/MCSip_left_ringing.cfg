CONSTANTS
  MaxDials = 1
  MaxTries = 1
  Callers <- OnlyA
  Quitters <- Both
  Transports <- Datagrams
  MaxFaults = 1
  MaxChallenges = 0
  TryingFirst = FALSE
SPECIFICATION Spec
INVARIANT NothingRingsOn
CHECK_DEADLOCK FALSE
