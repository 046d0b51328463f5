\* Sends: Limit rows of other actions block every later send.
CONSTANTS
  a1 = a1
  Accounts = {a1}
  Ids = {1, 2, 3}
  MaxAt = 3
  Limit = 2
  MaxCluster = 1
  SendFeeds = {a1}
  ThreadReadFails = FALSE
  BootstrapFails = TRUE
  MaxResets = 0
  MaxFaults = 0
  MaxLate = 0
SPECIFICATION FairSpec
PROPERTIES CatchesUp
