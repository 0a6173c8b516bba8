SPECIFICATION FairSpec
CONSTANTS
  N = 4
  Rows <- Line
  MayFail = TRUE
  MayShutdown = TRUE
INVARIANTS
  TypeOK
  NoInvalidPeer
  ChannelsMatch
  MainConnected
  NoConnectInMain
PROPERTIES
  FateShared
  SetupCompletes
