CONSTANTS
  c1 = c1
  c2 = c2
  c3 = c3
  c4 = c4
  c5 = c5
  c6 = c6
  Calls = {c1, c2, c3, c4, c5}
  Endpoint <- SignUp
  ResendLimit = 1
  None = None
SPECIFICATION Spec
CHECK_DEADLOCK FALSE
SYMMETRY SignUpSymmetry
INVARIANTS
  AccountVerified
  OneConfirmation
