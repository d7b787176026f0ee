CONSTANTS
  Trades = {1}
  Targets = {"tp1", "tp2"}
  LegsOf <- WithLegs
  InitialSls = {"sl", "none"}
  InitialRests = {0, 1}
  Reconciler = Reconciler
  Monitor = Monitor
  NoTask = NoTask
  MaxQueue = 1
  MaxFaults = 1
  MaxDrops = 1
  MaxCrashes = 0
SPECIFICATION FairSpec
CHECK_DEADLOCK FALSE
INVARIANTS
  TypeOK
  CloseIsTrue
PROPERTIES
  StopStays
  MissingTradeCloses
  StopIsRepaired
