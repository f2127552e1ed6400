CONSTANTS
  l1 = l1
  l2 = l2
  t1 = t1
  t2 = t2
  r1 = r1
  r2 = r2
  r3 = r3
  Tabs = {t1, t2}
  Requests = {r1, r2, r3}
  Tab <- TwoTabs
  Probes = {}
  Logins = {l1, l2}
  Faults = FALSE
  NoToken = NoToken
SPECIFICATION SessionFairSpec
CHECK_DEADLOCK FALSE
\* One property at a time: comment out this one and uncomment another.
PROPERTY SessionKept
\* PROPERTY LoginKept
\* PROPERTY EveryRequestSettles
