SPECIFICATION Spec
CONSTANTS
  K = 2
  Unknown = {}
  NoDrops <- AnyVariant
INVARIANTS
  PrivdropPerProcess
