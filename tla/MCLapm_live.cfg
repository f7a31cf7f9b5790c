CONSTANTS
  Modulus = 3
  K = 2
  N400 = 3
  Srej = FALSE
  MaxSend <- NoneAndThree
  MaxLoss = 2
  MaxEarly = 0
  EarlyIn <- OnceConnected
  MaxReleases <- OriginatorOnce
  MaxUndecodable = 2
  UndecodableResets = 1
SPECIFICATION FairSpec
PROPERTIES AllArrive ReleaseEnds
CHECK_DEADLOCK FALSE
