CONSTANTS
  c1 = c1
  c2 = c2
  c3 = c3
  c4 = c4
  c5 = c5
  c6 = c6
  alice = alice
  bob = bob
  gus = gus
  Calls = {c1, c2, c3, c4}
  Endpoint <- Direct
  Participants = {alice, bob}
  Guests = {}
  Amounts <- DirectAmounts
  Event = Event
  None = None
SPECIFICATION FairSpec
CHECK_DEADLOCK FALSE
INVARIANT ReferencesExist
\* Comment out the others and uncomment this one.
\* INVARIANT SettlementAmountsPositive
PROPERTIES
  LedgerAppendOnly
  EveryCallAnswered
