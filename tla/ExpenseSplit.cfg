CONSTANTS
  People = {1, 2, 3, 4}
  Totals = {1, 5, 100, 9999}
  Weights <- SomeWeights
  Payers = {0, 1, 2, 3, 4}
SPECIFICATION Spec
CHECK_DEADLOCK FALSE
INVARIANTS
  PaidNearTotal
  SharesNearTotal
