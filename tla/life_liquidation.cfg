CONSTANTS
  Trades = {1, 2}
  Targets = {"tp1"}
  LegsOf <- WithLegs
  InitialSls = {"sl"}
  InitialRests = {0}
  Reconciler = Reconciler
  Monitor = Monitor
  NoTask = NoTask
  MaxQueue = 1
  MaxFaults = 0
  MaxDrops = 0
  MaxCrashes = 0
SPECIFICATION Spec
CHECK_DEADLOCK FALSE
INVARIANTS
  LiquidationIsOwn
