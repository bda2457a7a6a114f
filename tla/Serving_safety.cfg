CONSTANTS
  Unknown = Unknown
  NoValue = NoValue
  None = None
  MaxDepth = 3
  MaxLeaves = 4
  MaxReported = 8
  Scenes = {"stream", "ready", "audit", "who", "load", "deny"}
  Generations <- MCGenerations
  First = "same"
  KeyOrder <- MCKeyOrder
  Kinds = {"watch", "x509", "x509b", "jwtb", "sds", "jwt", "fetch"}
  Peer <- MCPeer
  Wanted = {}
  Capacity = 1
  QueueCapacity = 2
  Cases <- MCCases
  Files <- MCFiles
  Probes <- MCProbes
  MaxReloads = 2
  MaxEvents = 3
  MaxFaults = 1
  MaxTicks = 4
  j1 = j1
  j2 = j2
  Jtis = {j1, j2}
  Revokers = {r1, r2}
  Refreshers = {f1}
  Expiries <- TwoExpiries
  MaxTime = 3
  MaxBoots = 1
SPECIFICATION MCSpec
INVARIANTS AckedKept SubscriberCurrent ReopenKept PolicySound
PROPERTIES LiveEntriesKept StreamAuthorized
CHECK_DEADLOCK FALSE
