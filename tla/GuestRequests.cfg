CONSTANTS
  c1 = c1
  c2 = c2
  c3 = c3
  c4 = c4
  c5 = c5
  c6 = c6
  alice = alice
  bob = bob
  gus = gus
  Calls = {c1, c2, c3, c4, c5}
  Endpoint <- GuestRace
  Participants = {alice, bob, gus}
  Guests = {gus}
  Amounts = {5}
  Event = Event
  None = None
SPECIFICATION Spec
SYMMETRY GuestSymmetry
CHECK_DEADLOCK FALSE
INVARIANTS
  TypeOK
  ConfirmedIffSettledOnce
  AnswersTrue
  NoticesTrue
  GuestRequestsStayPending
PROPERTIES
  DecisionFinal
  ImplementsContract
