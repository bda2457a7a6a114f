SPECIFICATION MCSpec
CONSTANTS
  Backends = {"db", "kv"}
  Contributors = {1, 2}
  Secrets <- MCSecrets
  Boots = {"p1", "p2"}
  Brokers = {"s1", "s2"}
  None = None
  MaxSeq = 2
  MaxDeposits = 3
  MaxCommands = 3
  MaxRestores = 1
  Batches = {"b1", "b2"}
  Files = {1, 2}
  Clients = {"c1", "c2", "c3"}
  Commands <- MCCommands
  KeyNames = {"k", "o"}
  NoSnap = NoSnap
  MaxPublished = 1
  MaxSigs = 3
  MaxConnections = 2
  MaxSigns = 1
  Conns = {"c1", "c2"}
  MaxAge = 8
  Lifetimes = {1, 2, 7}
  NoTime = NoTime
  Horizon = 9
  MaxTasks = 2
  Streams = {1, 2}
  Suites = {"aes", "chacha", "kem512", "kem768"}
  Holders = {"me", "other"}
  MaxBytes = 3
  ChunkSizes = {1, 2, 9}
  MaxChunk = 2
  NoKey = NoKey
  MaxAltered = 2
INVARIANTS SlotsUsable CacheKept OneIdentity SessionSound StreamWhole
PROPERTIES HistoryKept
CHECK_DEADLOCK FALSE
