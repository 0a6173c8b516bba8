SPECIFICATION Spec
CONSTANTS
  s1 = s1
  s2 = s2
  r1 = r1
  Senders = {s1, s2}
  Receivers = {r1}
  ThreadOf <- OwnThread
  Ids = {10}
  Reserved = 10
  Bases = {2}
  Payloads = {0, 1}
  FdArgs = {TRUE, FALSE}
  FdFirst = TRUE
  HeaderLen = 2
  MaxLen = 6
  BufLen = 5
  SkbMax = 3
  SockCap = 4
  StopOnError = FALSE
  MayCancel = TRUE
  MaxMsgs = 5
INVARIANTS
  FdWithMessage
PROPERTIES
  ImplementsChannel
