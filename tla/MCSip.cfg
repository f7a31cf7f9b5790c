CONSTANTS
  MaxDials = 2
  MaxTries = 1
  Callers <- OnlyA
  Quitters <- OnlyB
  Transports <- Either
  MaxFaults = 1
  MaxChallenges = 1
  TryingFirst = FALSE
SPECIFICATION FairSpec
INVARIANTS TypeOK StateIsTrue OneBye CancelFindsInvite StaysDown CallsAreKept
PROPERTIES CallLife DialsAreAnsweredFor NotUpAlone
CHECK_DEADLOCK FALSE
