CONSTANTS
  c1 = c1
  c2 = c2
  c3 = c3
  c4 = c4
  c5 = c5
  alice = alice
  bob = bob
  carol = carol
  pa = pa
  pb = pb
  pg = pg
  Calls = {c1, c2, c3, c4}
  Workloads <- Removals
  Users = {alice, bob}
  Creator = alice
  Founders = {pa, pb}
  Account <- TwoFounders
  Bills <- TicketBills
  None = None
SPECIFICATION FairSpec
CHECK_DEADLOCK FALSE
PROPERTY EveryCallAnswered
