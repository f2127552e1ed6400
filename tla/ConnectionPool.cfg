CONSTANTS
  c1 = c1
  c2 = c2
  c3 = c3
  c4 = c4
  c5 = c5
  Calls = {c1, c2, c3, c4, c5}
  Kind <- Mixed
  MaxConns = 3
SPECIFICATION FairSpec
CHECK_DEADLOCK FALSE
INVARIANTS
  SomebodyRuns
  ConnectionsReturned
  CreatedWithCreator
PROPERTY EveryCallAnswered
