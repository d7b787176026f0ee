CONSTANTS
  Messages = {"m1"}
  MaxLost = 1
  Users = {1, 2}
  SignalOf <- LongSignal
  InitialAccounts = {1}
  RiskModels = {2, 3}
  InitialModels <- LegsThenWhole
  LeverageCap <- CapForFirst
  Margin = 800
  StartBalance = 1000
  Model2Weights <- Weights6020
  Model3Roi = 20
  Maintenance = 5
  MoveToEntry = TRUE
  Prices = {1080, 1250, 1300}
  MaxTrades = 4
  MaxResets = 1
  MaxFaults = 1
SPECIFICATION FairSpec
CHECK_DEADLOCK FALSE
INVARIANTS
  TypeOK
  BalanceIsStartPlusClosed
  OneOpenTradePerSignal
  LossIsCapped
  LeverageIsTheUsers
  EventHasItsRow
PROPERTY
  ImplementsDemoBook
  ResultStands
  RecordIsAcknowledged
