SPECIFICATION Spec
CONSTANTS
  PubKeys = {"k1"}
  Compressed = {"k1"}
  Hashes = {"owner", "relayer", "operator"}
  Pools <- MCPools
  ActionIDs = {"a"}
  Bytes <- MCBytes
  Prices = {4310}
  RequestBytes = {400, 900}
  Sizes = {24, 256}
  Fees = {200000}
  Oracle <- MCOracle
  Wanted = "none"
INVARIANT
  BudgetSuffices
CHECK_DEADLOCK FALSE
