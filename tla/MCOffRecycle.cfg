SPECIFICATION OffSpec
CONSTANTS
  PubKeys = {"k1"}
  Compressed = {"k1"}
  Hashes = {"operator", "oracles", "relayer", "rival", "alice", "bob"}
  Pools <- MCPools
  ActionIDs = {"a"}
  Bytes <- MCBytes
  Wanted <- Paid
  Times <- RequestTimes
  Purses = {}
  Messages <- RequestMessages
  Genesis <- RequestGenesis
  Candidates <- NoCandidates
  CoinsPerByte = 4310
  Relayers = {"relayer", "rival"}
  Owners = {"alice"}
  Operator = "operator"
  OraclesWallet = "oracles"
  OraclesToAdd = {}
  PoolNames = {}
  RequestKinds <- MCKinds
  Fees = {200000}
  Limit = 10
  DemoUsers = {}
  Deposits = {}
  MaxBuilt = 4
INVARIANT
  ExpiredCanBeRecycled
CHECK_DEADLOCK FALSE
