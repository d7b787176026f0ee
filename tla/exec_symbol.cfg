CONSTANTS
  Workers = {w1}
  Users = {1}
  Records = {"r1", "r2"}
  Events = {"e1", "e2"}
  Signals = {"s1", "s2"}
  Symbols = {"X"}
  EventOf <- TwoSignals
  SignalOf <- EachItsSignal
  SymbolOf <- SameSymbol
  InitialRows = {"accepted"}
  MaxConcurrent = 2
  MaxTrades = 3
  MaxFaults = 2
  MaxCrashes = 0
  MaxChanges = 0
  MaxFired = 1
  NoWorker = NoWorker
  NoRecord = NoRecord
  NoEvent = NoEvent
  NoKey = NoKey
SPECIFICATION Spec
CHECK_DEADLOCK FALSE
INVARIANTS
  OpenTradeIsCovered
  TargetsBehindStop
  NoTradeLeftPending
