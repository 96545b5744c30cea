SPECIFICATION AccessSpec
CONSTANTS
  Grants <- MCGrants
  Tenants = {"b", "d"}
  BranchNames = {"x", "y"}
  BranchOwner <- MCBranchOwner
  ACCESS_TOKEN_TTL = 1
  TIMEOUT = 1
  Unsaid = Unsaid
INVARIANT PickedBusinessOnly
CHECK_DEADLOCK FALSE
