SPECIFICATION FairSpec
CONSTANTS
  Users = {u1}
  Plans = {"short", "long"}
  Duration <- ShortAndLong
  MaxPayments = 2
  MaxTime = 3
  MaxFaults = 1
INVARIANTS
  TypeOK
  PaymentsMatchSubscriptions
  TextsFollowRows
PROPERTIES
  DecisionIsFinal
  EndedExpires
CHECK_DEADLOCK FALSE
