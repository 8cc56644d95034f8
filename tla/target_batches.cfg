SPECIFICATION Spec
CONSTANTS
  PortCounts = {1, 2, 3, 4, 5}
  BatchSizes = {2, 3}
INVARIANTS
  BatchesTile
  ResultExact
  BudgetExact
  AllClassified
