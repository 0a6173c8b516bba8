SPECIFICATION Spec
CONSTANTS
  NChildren = 1
  Numbers = {0, 1, 2, 3, 4, 5, 6, 7, 8, 9}
  Modules <- MCModules
  LogLevels <- MCLogLevels
  RustLogs <- MCRustLogs
INVARIANT LogLevelObeyed
CHECK_DEADLOCK FALSE
