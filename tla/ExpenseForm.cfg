CONSTANTS
  ann = ann
  ben = ben
  cam = cam
  People = {ann, ben}
  Me = ann
  Totals = {3, 2000}
  ExactAmounts = {1, 2, 1999}
  Percents <- SomePercents
  Whole = 60000
  NoExpense = NoExpense
SPECIFICATION FormSpec
CHECK_DEADLOCK FALSE
INVARIANT
  ReopenedAsEntered
PROPERTY SharesAsAsked
