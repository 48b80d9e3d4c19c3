CONSTANTS
  Users = {"u1", "u2", "u3", "u4", "u5"}
  Named = {"u3", "u4", "u5"}
  InitialMembers <- FourUsers
  SpacePages = {"p1", "p2", "p3", "p4", "p5"}
  InitialTree <- FourPages
  Place <- Places
  SpaceOf <- Contents
  Filter = {"ENG"}
  Files = {"a/x", "b/x", "a/y"}
  NameOf <- FileNames
  Batches <- SomeBatches
  Texts <- SomeTexts
  ContextLines = {0, 1}
  UserPage = 2
  TreePage = 2
  Limits = {1, 3, 4, 5}
  MaxChanges = 2
SPECIFICATION FairSpec
INVARIANTS WalksExact WritesTold UploadsTold DiffComplete
PROPERTY CallEnds
CHECK_DEADLOCK FALSE
