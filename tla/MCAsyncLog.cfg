SPECIFICATION FairSpec
CONSTANTS
  t1 = t1
  t2 = t2
  Threads = {t1, t2}
  MaxRecords = 3
INVARIANTS
  TypeOK
  Flushed
  CloseLast
  CloseTaken
PROPERTIES
  DropReturns
  WrittenSomeDay
