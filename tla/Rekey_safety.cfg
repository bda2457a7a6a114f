SPECIFICATION Spec
CONSTANTS
  Clis = {c1, c2}
  Maints = {c1, c2}
  Agents = {a1}
  Deks = {k1, k2}
  None = None
  MaxNonce = 4
  MaxWrites = 1
SYMMETRY Perms
INVARIANTS DataSurvives Recoverable ServingConsistent
