SPECIFICATION Spec
CONSTANTS
  Sides = {"LONG", "SHORT"}
  Entries = {10000}
  Stops = {0, 9450, 10550}
  Prices = {0, 960, 9200, 9600, 10300, 10400, 10800, 104000}
  MaxTargets = 4
  Margins = {15000, 50000, 110000}
  RiskModels = {1, 2, 3}
  Model2Weights <- ThreeWeights
  Exits = {0, 250}
  Filters <- SomeFilters
INVARIANT
  OnlySmallLegsMerge
CHECK_DEADLOCK FALSE
