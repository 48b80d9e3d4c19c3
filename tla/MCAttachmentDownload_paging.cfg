CONSTANTS
  a1 = a1
  a2 = a2
  a3 = a3
  a4 = a4
  a5 = a5
  a6 = a6
  Attachments = {a1, a2, a3, a4, a5, a6}
  TitleOf <- MCTitleOf
  Initially <- MatchLate
  DownloadLimits <- SomeLimits
  NoLimit = NoLimit
  NoStart = NoStart
  ListLimit = 2
  MaxPages = 3
  Servers <- AllServers
  MaxListChanges = 2
SPECIFICATION FairDownloadSpec
INVARIANTS NothingTwice NoMoreMeansAll ResumePoint
PROPERTY DownloadEnds
CHECK_DEADLOCK FALSE
