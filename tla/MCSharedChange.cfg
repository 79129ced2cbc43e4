SPECIFICATION Spec
CONSTANTS
  PubKeys = {"k1", "k2"}
  Compressed = {"k1", "k2"}
  Hashes = {"operator", "relayer", "alice", "bob"}
  Pools <- MCPools
  ActionIDs = {"a"}
  Bytes <- MCBytes
  Wanted <- MCWanted
  Times <- MCTimes
  Purses = {}
  Messages <- MCMessages
  Genesis <- MCGenesis
  Candidates <- MCCandidates
  MaxUTxOs = 5
  SecondOwner = "alice"
INVARIANT
  OwnersChargedAtMostMaxCost
CHECK_DEADLOCK FALSE
