CONSTANTS
  Environments <- MCEnvironments
  Senders <- MCSenders
  Base <- MCBase
  Urls <- MCUrls
  MaxRedirects = 3
  MaxBytes = 2
  MaxBody = 4
  Timeout = 2
SPECIFICATION Spec
INVARIANTS StaysHome SizeExact OwnFirst
PROPERTIES RequestEnds
CHECK_DEADLOCK FALSE
