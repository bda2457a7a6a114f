SPECIFICATION InvSpec
CONSTANTS
  None = None
  Jkts = {"p"}
  Gens = {1, 2}
  Ttl = 3
  MaxTime = 2
  MaxIssues = 2
  AgeLimit = 9
  SkewLimit = 2
  GrantLimit = 9
  MaxAge = 0
  StaleIfError = 1
  Cooldown = 1
  Buckets = 1
  Reqs = {r1, r2}
  Tokens <- Tokens0
  Messages <- Messages0
  Catalogs <- Catalogs0
  Published <- Published0
  Audiences = {"broker"}
  Software = {}
  Experimental = {"forgejo"}
  RequireChallenge = FALSE
  RequestKey = "req"
  Bounds <- Bounds0
  MaxFaults = 1
  FileStates <- FileStates0
SYMMETRY Sym
INVARIANTS AuditHonest EffectsLegitimate TrustHeld
PROPERTIES OneRulePerToken
CHECK_DEADLOCK FALSE
