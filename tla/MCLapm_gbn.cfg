CONSTANTS
  Modulus = 3
  K = 2
  N400 = 2
  Srej = FALSE
  MaxSend <- ThreeAndOne
  MaxLoss = 2
  MaxEarly = 1
  EarlyIn <- OnceConnected
  MaxReleases <- AnswererOnce
  MaxUndecodable = 0
  UndecodableResets = 1
SPECIFICATION Spec
INVARIANTS TypeOK WindowInv NoSilentWait NothingForgotten
PROPERTY LinkSpec
CHECK_DEADLOCK FALSE
