CONSTANTS
  c1 = c1
  c2 = c2
  c3 = c3
  c4 = c4
  c5 = c5
  c6 = c6
  alice = alice
  bob = bob
  gus = gus
  Calls = {c1, c2, c3, c4, c5, c6}
  Endpoint <- Race
  Participants = {alice, bob}
  Guests = {}
  Amounts = {5}
  Event = Event
  None = None
SPECIFICATION Spec
SYMMETRY RaceSymmetry
CHECK_DEADLOCK FALSE
INVARIANTS
  ConfirmedIffSettledOnce
  ReferencesExist
  AnswersTrue
  NoticesTrue
PROPERTIES
  DecisionFinal
  LedgerAppendOnly
  ImplementsContract
