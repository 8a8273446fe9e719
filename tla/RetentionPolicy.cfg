\* Four captures in any order of arrival, ids and days.
CONSTANTS
  Ids <- FourIds
  Sizes <- OneOrTwo
  LastDay = 2
  Policies <- MCPolicies
  Unlimited = Unlimited
SPECIFICATION PolicySpec
INVARIANTS
  PolicyInv
  ReasonIsCounterfactual
PROPERTY
  RunsSettle
CHECK_DEADLOCK FALSE
