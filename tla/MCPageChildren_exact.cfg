CONSTANTS
  MaxChildren = 7
  WindowSizes <- SomeLimits
  ServerCap = 6
  RecountLimit = 2
  MaxRecounts = 3
  MaxCreated = 2
SPECIFICATION ChildrenSpec
INVARIANT WindowsJoin
CHECK_DEADLOCK FALSE
