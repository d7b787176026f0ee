CONSTANTS
  Trades = {1, 2}
  Targets = {"tp1"}
  LegsOf <- WithoutLegs
  InitialSls = {"sl"}
  InitialRests = {0}
  Reconciler = Reconciler
  Monitor = Monitor
  NoTask = NoTask
  MaxQueue = 1
  MaxFaults = 1
  MaxDrops = 0
  MaxCrashes = 1
SPECIFICATION Spec
CHECK_DEADLOCK FALSE
INVARIANTS
  CloseIsTrue
