SPECIFICATION FairSpec
CONSTANTS
  Hup = Hup
  Cfg = Cfg
  None = None
  cat1 = cat1
  cat2 = cat2
  pol = pol
  name = name
  key1 = key1
  key2 = key2
  strict = strict
  lax = lax
  Docs = {cat1, cat2, pol}
  Original <- Startup
  Loadable <- Pairs
  Rpcs = {r1}
  Cancellable = {r1}
  Contents <- Wide
  MaxEdits = 2
  MaxTriggers = 2
INVARIANTS GenerationSound
PROPERTIES SwapsForward SignalHonoured
