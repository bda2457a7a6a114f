CONSTANTS
  Requests = {"r1", "r2", "r3"}
  HeadsOf <- MCHeadsOf
  Config <- MCConfig
  Policy <- MCPolicy
  Sockets <- MCSockets
  Bridges = {"b1", "b2"}
  Notes <- MCNotes
  BridgeConfigs <- MCBridgeConfigs
  Shows <- MCShows
  MaxTicks = 1
  MaxRestarts = 1
  MaxSwaps = 2
  MaxRevision = 5
  None = None
  Bad = Bad
  SealedBytes = 300
  Edge32 = 70000
  RelayCalls = {"c1", "c2", "c3", "c4", "c5", "c6"}
  OptionsOf <- MCOptionsOf
  Caller <- MCCaller
  OtherCaller <- MCOtherCaller
  BrokerKey <- MCBrokerKey
  BrokerBox <- MCBrokerBox
  ResponseBox <- MCResponseBox
  Skew = 1
  RequestTtl = 1
  ResponseTtl = 1
  MaxTtl = 2
  DefaultTtl = 1
  MaxClock = 3
  MaxAltered = 1
SPECIFICATION Spec
INVARIANTS SubmissionSafe OneForwarder AnswerBound CodecExact
CHECK_DEADLOCK FALSE
