SPECIFICATION Spec
CONSTANTS
  N = 3
  Rows <- SelfConnect
  MayFail = FALSE
  MayShutdown = FALSE
INVARIANTS
  NoInvalidPeer
