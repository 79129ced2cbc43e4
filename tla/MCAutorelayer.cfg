SPECIFICATION AutoSpec
CONSTANTS
  PubKeys = {"k1", "k2"}
  Compressed = {"k1", "k2"}
  Hashes = {"operator", "oracles", "relayer", "rival", "alice", "bob"}
  Pools <- MCPools
  ActionIDs <- MCActionIDs
  Bytes <- MCBytes
  Wanted <- Paid
  Times <- MCTimes
  Purses <- MCPurses
  Messages <- MCMessages
  Genesis <- MCGenesis
  Candidates <- NoCandidates
  CoinsPerByte = 4310
  Relayers = {"rival"}
  Owners = {}
  Operator = "operator"
  OraclesWallet = "oracles"
  OraclesToAdd = {}
  PoolNames = {}
  RequestKinds = {}
  Fees = {200000}
  Limit = 10
  DemoUsers = {}
  Deposits = {}
  MaxBuilt = 3
  Me = "relayer"
  ConfigAddrs <- MCConfigAddrs
  KeysWithURLs = {"k1", "k2"}
  ConfigReward = 50000
  Blacklist = {}
  Modes = {FALSE, TRUE}
  MaxRuns = 2
INVARIANTS
  HandledMeansAnswered
  HandledIsPaid
  WorthAsking
  SubmittedKeepCollateral
PROPERTY
  EveryRunEnds
CHECK_DEADLOCK FALSE
