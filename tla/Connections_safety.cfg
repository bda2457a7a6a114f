SPECIFICATION RegistrySpec
CONSTANTS
  a = a
  b = b
  Host = Host
  Courier = Courier
  None = None
  Names = {a, b}
  Uids = {u}
  Workloads = {w}
  u = u
  w = w
  Requests <- Drops
  Guards = {g1, g2}
  Max = 3
  MaxPerListener = 2
  MaxOf <- Ceilings
  LastId = 4
  LastStream = 1
SYMMETRY Symmetric
INVARIANTS CountsAgree GateHolds
