SPECIFICATION Spec
CONSTANTS
  HdrLen = 16
  AlignTo = 8
  FdLen = 4
  CredLen = 12
  Numbers = {0, 1, 2, 3}
  Files = {1, 2, 3}
  HandlerCap = 24
  UserCap = 56
  MaxBatch = 2
  MaxHeld = 1
  ShutNumbers = {1}
  MaxShared = 2
INVARIANTS
  TypeOK
  OwnersKeep
  NoLeak
  WalkedAsAdded
  HandlersAwake
  Adoptable
