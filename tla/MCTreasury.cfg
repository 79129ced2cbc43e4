SPECIFICATION TreasurySpec
CONSTANTS
  PubKeys = {"k1"}
  Compressed = {"k1"}
  Hashes = {"operator", "oracles", "relayer", "requests", "library"}
  Pools <- MCPools
  ActionIDs = {"a"}
  Bytes <- MCBytes
  Wanted <- Paid
  Times <- MCTimes
  Purses <- MCPurses
  Messages <- MCMessages
  Genesis <- MCGenesis
  Candidates <- NoCandidates
  CoinsPerByte = 4310
  Relayers = {"relayer"}
  Owners = {"requests"}
  Operator = "operator"
  OraclesWallet = "oracles"
  OraclesToAdd = {}
  PoolNames = {}
  RequestKinds <- MCKinds
  Fees = {200000}
  Limit = 10
  DemoUsers = {}
  Deposits = {}
  MaxBuilt = 3
  RequestTreasury = "requests"
  Library = "library"
  Fee = 200000
  Collateral = 1200000
  Ada = {4000000}
  ScriptBytes = 300
INVARIANT
  EachScriptOnce
PROPERTIES
  RequestsComeHome
  GatheredInTheEnd
CHECK_DEADLOCK FALSE
