CONSTANTS
  l1 = l1
  l2 = l2
  t1 = t1
  t2 = t2
  r1 = r1
  r2 = r2
  r3 = r3
  Tabs = {t1}
  Requests = {r1, r2}
  Tab <- OneTab
  Probes = {r2}
  Logins = {l1, l2}
  Faults = TRUE
  NoToken = NoToken
SPECIFICATION SessionFairSpec
CHECK_DEADLOCK FALSE
INVARIANTS
  OneExchange
  QueueServed
PROPERTIES
  SessionKept
  OnlyExchangesHang
