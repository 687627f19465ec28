SPECIFICATION Spec
CONSTANTS
  Path <- MCPath
  Request <- MCRequest
  MaxNow = 4000
INVARIANTS BudgetSuffices
CHECK_DEADLOCK FALSE
