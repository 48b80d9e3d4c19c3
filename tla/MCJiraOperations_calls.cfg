SPECIFICATION FairSpec
CONSTANTS
  Issues <- MCIssues
  Projects <- MCProjects
  Versions <- MCVersions
  Files <- MCFiles
  Foreign <- MCForeign
  Filters <- MCFilters
  MaxItems = 2
INVARIANTS EachResultTrue BatchComplete DevelopmentInScope
PROPERTY CallReturns
