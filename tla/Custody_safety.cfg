CONSTANTS
  Keys <- MCKeys
  Entry <- MCEntry
  Grace = 1
  Retain = 1
  Clients = {c1, c2}
  Orders <- MCOrders
  Scenes <- MCScenes
  MintRequests <- MCMintRequests
  SignRequests <- MCSignRequests
  MaxRotations = 2
  MaxStarts = 3
  MaxFaults = 1
  MaxClock = 3
SYMMETRY MCClients
SPECIFICATION CustodySpec
INVARIANTS RotationSound CreatedOnce GrantsHonoured ChainsVerify
CHECK_DEADLOCK FALSE
