CONSTANTS
  ann = ann
  ben = ben
  cam = cam
  People = {ann, ben, cam}
  Me = ann
  Totals = {3, 70000}
  ExactAmounts = {1, 10000, 50000}
  Percents <- SomePercents
  Whole = 60000
  NoExpense = NoExpense
SPECIFICATION FormSpec
CHECK_DEADLOCK FALSE
\* One property at a time: comment out this one and uncomment another.
PROPERTY SplitAsChosen
\* PROPERTY PercentagesCharged
\* INVARIANT ReopenedAsEntered
