CONSTANTS
  c1 = c1
  c2 = c2
  u1 = u1
  u2 = u2
  Users = {u1}
  Calls = {c1, c2}
  Founders <- OwnOrOther
  Tour = {"list", "activity", "accounts"}
  Filters = {"all", "recent"}
  MaxEvents = 3
  RecentFrom = 2
  PerPage = 2
  None = None
SPECIFICATION Spec
SYMMETRY Symmetry
CHECK_DEADLOCK FALSE
INVARIANTS
  ChoiceKept
  DeletedGone
  PagesShown
