SPECIFICATION WaitSpec
CONSTANTS
  PubKeys = {"k1", "k3"}
  Compressed = {"k1", "k3"}
  Hashes = {"operator", "oracles", "relayer", "rival", "alice", "bob"}
  Pools <- MCPools
  ActionIDs = {"a"}
  Bytes <- MCBytes
  Wanted <- Paid
  Times <- MCTimes
  Purses = {}
  Messages <- MCMessages
  Genesis <- MCGenesis
  Candidates <- NoCandidates
  CoinsPerByte = 4310
  Relayers = {"relayer", "rival"}
  Owners = {}
  Operator = "operator"
  OraclesWallet = "oracles"
  OraclesToAdd = {}
  PoolNames = {}
  RequestKinds = {}
  Fees = {200000}
  Limit = 10
  DemoUsers = {}
  Deposits = {}
  MaxBuilt = 3
PROPERTY
  CommandsEnd
CHECK_DEADLOCK FALSE
