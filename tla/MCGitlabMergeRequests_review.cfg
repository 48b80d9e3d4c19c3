SPECIFICATION Spec
CONSTANTS
  Callers = {a, b}
  Labels <- MCLabels
  Users <- MCUsers
  Texts <- MCTexts
  Filters <- MCFilters
  Creations <- MCCreations
  Updates <- MCUpdates
  Diffs <- MCDiffs
  Budgets <- MCBudgets
  MaxPerPage = 3
  MaxPushes = 1
  MaxCalls = 3
SYMMETRY MCSymmetry
CHECK_DEADLOCK FALSE
INVARIANTS MergedAsReviewed EachResultTrue DiffsBounded
PROPERTIES UpdateExact
