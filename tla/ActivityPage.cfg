CONSTANTS
  cleo = cleo
  dora = dora
  gus = gus
  p1 = p1
  p2 = p2
  q1 = q1
  q2 = q2
  Members = {cleo, dora}
  Guests = {}
  Creator = dora
  Pages = {p1}
  Owner <- OnlyDora
  Bills <- Meals
  Entered <- Nothing
  Requests = {q1, q2}
  None = None
SPECIFICATION Spec
SYMMETRY RequestSymmetry
CHECK_DEADLOCK FALSE
INVARIANTS
  OwnRequestsShown
  OwnChangesCounted
