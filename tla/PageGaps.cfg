CONSTANTS
  cleo = cleo
  dora = dora
  gus = gus
  p1 = p1
  p2 = p2
  q1 = q1
  q2 = q2
  Members = {cleo, dora, gus}
  Guests = {gus}
  Creator = cleo
  Pages = {p1, p2}
  Owner <- OnePageEach
  Bills <- LunchAndTicket
  Entered <- Meals
  Requests = {q1, q2}
  None = None
SPECIFICATION Spec
SYMMETRY RequestSymmetry
CHECK_DEADLOCK FALSE
\* One property at a time: comment out this one and uncomment another.
PROPERTY RemovedUninvolved
\* PROPERTY PaymentsDue
