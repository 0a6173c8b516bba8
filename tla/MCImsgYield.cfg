SPECIFICATION Spec
CONSTANTS
  s1 = s1
  r1 = r1
  r2 = r2
  Senders = {s1}
  Receivers = {r1, r2}
  ThreadOf <- OneThread
  Ids = {10}
  Reserved = 10
  Bases = {2}
  Payloads = {0, 1}
  FdArgs = {FALSE}
  FdFirst = FALSE
  HeaderLen = 2
  MaxLen = 6
  BufLen = 5
  SkbMax = 3
  SockCap = 4
  StopOnError = TRUE
  MayCancel = FALSE
  MaxMsgs = 3
INVARIANTS
  YieldsThread
