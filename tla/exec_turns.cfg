CONSTANTS
  Workers = {w1}
  Users = {1, 2}
  Records = {"r1", "junk"}
  Events = {"e1"}
  Signals = {"s1"}
  Symbols = {"X"}
  EventOf <- TwoSignals
  SignalOf <- EachItsSignal
  SymbolOf <- SameSymbol
  InitialRows = {"accepted", "missing", "rejected"}
  MaxConcurrent = 2
  MaxTrades = 4
  MaxFaults = 1
  MaxCrashes = 1
  MaxChanges = 0
  MaxFired = 0
  NoWorker = NoWorker
  NoRecord = NoRecord
  NoEvent = NoEvent
  NoKey = NoKey
SPECIFICATION Spec
CHECK_DEADLOCK FALSE
INVARIANTS
  TypeOK
  EventExecutedOnce
  AckedIsSettled
