SPECIFICATION SearchSpec
CONSTANTS
  Issues <- MCIssues
  Projects <- MCProjects
  Filters <- MCFilters
  PageSizes <- MCPageSizes
CHECK_DEADLOCK FALSE
INVARIANT WalkExact
