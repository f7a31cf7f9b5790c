CONSTANTS
  Modulus = 5
  K = 2
  N400 = 2
  Srej = TRUE
  MaxSend <- FiveAndNone
  MaxLoss = 2
  MaxEarly = 1
  EarlyIn <- OnceConnected
  MaxReleases <- Never
  MaxUndecodable = 0
  UndecodableResets = 1
SPECIFICATION Spec
INVARIANTS NothingForgotten
PROPERTY LinkSpec
CHECK_DEADLOCK FALSE
