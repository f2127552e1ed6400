CONSTANTS
  c1 = c1
  c2 = c2
  c3 = c3
  c4 = c4
  c5 = c5
  alice = alice
  bob = bob
  carol = carol
  pa = pa
  pb = pb
  pg = pg
  Calls = {c1, c2, c3, c4, c5}
  Workloads <- BillsAndMembers
  Users = {alice, bob, carol}
  Creator = alice
  Founders = {pa, pb}
  Account <- TwoFounders
  Bills <- WrongBills
  None = None
SPECIFICATION Spec
CHECK_DEADLOCK FALSE
INVARIANTS
  BillsAddUp
  StatsMatchTables
  DetailsNameMembers
  OneRowPerUser
  RemovalsStand
PROPERTY RemovalsAuthorised
