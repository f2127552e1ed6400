CONSTANTS
  c1 = c1
  c2 = c2
  c3 = c3
  i1 = i1
  i2 = i2
  n1 = n1
  n2 = n2
  e1 = e1
  e2 = e2
  f1 = f1
  f2 = f2
  Calls = {c1, c2}
  Infos = {i1, i2}
  Names = {n1, n2}
  Events = {e1, e2}
  Files = {f1}
  Corrupt = {}
  MaxBanks = 2
  NoBank = NoBank
  None = None
SPECIFICATION Spec
SYMMETRY Symmetry
CHECK_DEADLOCK FALSE
INVARIANTS
  OneDefault
  DefaultEverywhere
  NameEverywhere
