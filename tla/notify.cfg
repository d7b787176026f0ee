CONSTANTS
  ReadCount = 2
  MaxRecords = 4
  MaxFaults = 3
SPECIFICATION FairSpec
CHECK_DEADLOCK FALSE
INVARIANTS
  TypeOK
  NothingOvertakes
  AckedWasHandled
  OneInDoubt
PROPERTY
  TextArrives
