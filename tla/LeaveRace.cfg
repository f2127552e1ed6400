CONSTANTS
  c1 = c1
  c2 = c2
  c3 = c3
  c4 = c4
  c5 = c5
  alice = alice
  bob = bob
  carol = carol
  pa = pa
  pb = pb
  pg = pg
  Calls = {c1, c2}
  Workloads <- SpendAndLeave
  Users = {alice, bob}
  Creator = alice
  Founders = {pa, pb}
  Account <- TwoFounders
  Bills <- RaceBills
  None = None
SPECIFICATION Spec
CHECK_DEADLOCK FALSE
PROPERTY LeaverOwesNothing
