SPECIFICATION Spec
CONSTANTS
  j1 = j1
  j2 = j2
  Jtis = {j1, j2}
  Revokers = {r1, r2}
  Refreshers = {}
  Expiries <- OneExpiry
  None = None
  MaxTime = 3
  MaxBoots = 1
INVARIANT AckedDurable
