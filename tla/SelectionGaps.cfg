CONSTANTS
  c1 = c1
  c2 = c2
  u1 = u1
  u2 = u2
  Users = {u1, u2}
  Calls = {c1, c2}
  Founders <- OwnOfTwo
  Tour = {"list", "activity", "accounts"}
  Filters = {"all", "recent"}
  MaxEvents = 3
  RecentFrom = 2
  PerPage = 1
  None = None
SPECIFICATION Spec
SYMMETRY Symmetry
CHECK_DEADLOCK FALSE
\* One property at a time: comment out this one and uncomment another.
INVARIANT SelectionOwn
\* INVARIANT FilteredPagesShown
\* PROPERTY CreatedOpened
\* PROPERTY JoinedOpened
\* PROPERTY SelectionSurvives
\* PROPERTY ListOwn
