CONSTANTS
  Modulus = 3
  K = 2
  N400 = 2
  Srej = FALSE
  MaxSend <- NoneAndFour
  MaxLoss = 0
  MaxEarly = 0
  EarlyIn <- OnceConnected
  MaxReleases <- Never
  MaxUndecodable = 1
  UndecodableResets = 3
SPECIFICATION Spec
PROPERTY OldFramesStayOut
CHECK_DEADLOCK FALSE
