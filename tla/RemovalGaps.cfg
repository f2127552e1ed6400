CONSTANTS
  c1 = c1
  c2 = c2
  c3 = c3
  c4 = c4
  c5 = c5
  alice = alice
  bob = bob
  carol = carol
  pa = pa
  pb = pb
  pg = pg
  Calls = {c1, c2}
  Workloads <- SpendAndRemove
  Users = {alice, bob}
  Creator = alice
  Founders = {pa, pb, pg}
  Account <- ThreeFounders
  Bills <- OddBills
  None = None
SPECIFICATION Spec
CHECK_DEADLOCK FALSE
\* One property at a time: comment out this one and uncomment another.
PROPERTY KickedIsSettled
\* INVARIANT ListingReadable
