SPECIFICATION LiveSpec
CONSTANTS
  Clis = {c1}
  Maints = {}
  Agents = {a1}
  Deks = {k1, k2}
  None = None
  MaxNonce = 3
  MaxWrites = 1
PROPERTY RekeyRecovers
