CONSTANTS
  a1 = a1
  a2 = a2
  a3 = a3
  a4 = a4
  a5 = a5
  a6 = a6
  Attachments = {a1, a2, a3, a4, a5, a6}
  TitleOf <- MCTitleOf
  Initially <- MatchLate
  DownloadLimits <- SomeLimits
  NoLimit = NoLimit
  NoStart = NoStart
  ListLimit = 2
  MaxPages = 4
  Servers <- PlainServers
  MaxListChanges = 0
SPECIFICATION DownloadSpec
INVARIANT MatchingDownloaded
CHECK_DEADLOCK FALSE
