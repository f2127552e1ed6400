CONSTANTS
  Participants = {p1, p2, p3, p4}
  Balances <- Uneven
  Cent = 2
SPECIFICATION PlanFairSpec
CHECK_DEADLOCK FALSE
INVARIANTS
  NobodyOverpays
  PlanIsShort
  PlanSettles
PROPERTY Terminates
