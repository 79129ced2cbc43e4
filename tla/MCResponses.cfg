SPECIFICATION Spec
CONSTANTS
  PubKeys = {"k1", "k2"}
  Compressed = {"k1", "k2"}
  Hashes = {"operator", "relayer"}
  Pools <- MCPools
  ActionIDs = {"a"}
  Bytes <- MCBytes
  Wanted = "none"
  Times <- MCTimes
  Purses = {}
  Messages <- MCMessages
  Genesis <- MCGenesis
  Candidates <- MCCandidates
  MaxTime = 2
  MaxUTxOs = 3
INVARIANTS
  TypeOK
  ResponseTokensAtHome
  SinglePoolTokensAtHome
  SingleOracleAuthentic
PROPERTIES
  SingleOraclesStay
  ResponsesNeverRegress
  NewResponsesAreVouchedFor
  ImplementsResponseSlot
CHECK_DEADLOCK FALSE
