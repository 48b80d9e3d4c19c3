CONSTANTS
  c1 = c1
  c2 = c2
  s1 = s1
  s2 = s2
  p1 = p1
  p2 = p2
  Calls = {c1, c2}
  Spaces = {s1, s2}
  Parents = {p1, p2}
  Tasks <- AllTasks
  NoTask = NoTask
  NoArg = NoArg
  SpaceOf <- MCSpaceOf
  Original = Original
  Blank = Blank
  Gaps = {"nothing", "space", "title", "version"}
  BesideBumpsVersion = TRUE
SPECIFICATION FairSpec
INVARIANTS OutcomeTellsTruth EmojiFollowsWrite
PROPERTIES MovesKeepText UpdatesKeepPlace EveryCallReturns AtomicSpec
CHECK_DEADLOCK FALSE
