SPECIFICATION Spec
CONSTANTS
  Jkts = {j1, j2}
  Sources = {s1, s2}
  Gens = {g1, g2}
  GlobalCapacity = 2
  PerJktCapacity = 1
  Ttl = 1
  GlobalRate <- MCGlobalRate
  JktRate <- MCJktRate
  SourceRate <- MCSourceRate
  TrackedPartitions = 1
  CleanupLimit = 1
  ClockMayStepBack = TRUE
  MaxTime = 2
  MaxIssues = 3
  MaxInstances = 1
SYMMETRY Perms
INVARIANTS TableConsistent TakenByHolderOnce RateExact
PROPERTIES ImplementsStore
