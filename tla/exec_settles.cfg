CONSTANTS
  Workers = {w1, w2}
  Users = {1}
  Records = {"r1", "r2"}
  Events = {"e1", "e2"}
  Signals = {"s1"}
  Symbols = {"X"}
  EventOf <- RepeatedSignal
  SignalOf <- BothOneSignal
  SymbolOf <- SameSymbol
  InitialRows = {"accepted", "missing", "rejected"}
  MaxConcurrent = 2
  MaxTrades = 2
  MaxFaults = 0
  MaxCrashes = 1
  MaxChanges = 1
  MaxFired = 0
  NoWorker = NoWorker
  NoRecord = NoRecord
  NoEvent = NoEvent
  NoKey = NoKey
SPECIFICATION FairSpec
CHECK_DEADLOCK FALSE
INVARIANT OneActiveTradePerSignal
PROPERTY RecordSettles
