SPECIFICATION Spec
CONSTANTS
  PubKeys = {"k1"}
  Compressed = {"k1"}
  Hashes = {"owner", "relayer", "operator"}
  Pools <- MCPools
  ActionIDs = {"a"}
  Bytes <- MCBytes
  Prices = {4310, 3000}
  RequestBytes = {400, 900}
  Sizes = {23, 255}
  Fees = {1000000}
  Oracle <- MCOracle
  Wanted = "none"
INVARIANTS
  BudgetSuffices
  AcceptedWithinBudget
CHECK_DEADLOCK FALSE
