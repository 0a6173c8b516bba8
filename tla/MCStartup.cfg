SPECIFICATION Spec
CONSTANTS
  NChildren = 2
  Numbers = {0, 1, 2, 3, 4, 5, 6, 7, 8, 9}
  Modules <- MCModules
  LogLevels <- MCLogLevels
  RustLogs <- MCRustLogs
INVARIANTS
  TypeOK
  OnlyPipe
  ParentAwake
  Confined
  NoneRefused
  ChildLogs
PROPERTY
  HangsUp
CHECK_DEADLOCK FALSE
