SPECIFICATION Spec
CONSTANTS
  K = 3
  other = other
  Unknown = {other}
  NoDrops <- NoVariant
INVARIANTS
  TypeOK
  Agreed
  AsAsked
  VerdictOfInput
