CONSTANTS
  Cases <- AllCases
  Policies <- MCPolicies
  Weight <- MCWeight
  Intercept <- MCIntercept
  MaxTime = 2
SPECIFICATION RSpec
INVARIANTS EffectIsWarranted ReportIsTrue ReferenceAgrees
CHECK_DEADLOCK FALSE
