SPECIFICATION Spec
CONSTANTS
  h = h
  c = c
  p = p
  q = q
  r = r
  Host = Host
  Courier = Courier
  None = None
  Alien = Alien
  Reload = Reload
  Peer = Peer
  Names = {h, c}
  Paths = {p, q, r}
  Uids = {Peer}
  Workloads = {}
  Requests = {}
  Guards = {Reload}
  Max = 2
  MaxPerListener = 2
  MaxOf <- Ceilings
  LastId = 1
  LastStream = 1
  Startup <- Both
  Candidates <- Sets
  LastInode = 4
  MaxReloads = 2
  MaxForeign = 1
INVARIANTS ServedAsConfigured PathsAccounted
PROPERTIES TransitionsSafe
CHECK_DEADLOCK FALSE
