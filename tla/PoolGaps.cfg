CONSTANTS
  c1 = c1
  c2 = c2
  c3 = c3
  c4 = c4
  c5 = c5
  Calls = {c1, c2}
  Kind <- Creations
  MaxConns = 2
SPECIFICATION FairSpec
CHECK_DEADLOCK FALSE
\* One property at a time: comment out this one and uncomment another.
PROPERTY TransactionsEnd
\* INVARIANT FailureLeavesNothing
