\* Replies that share a millisecond; a reset, two faults and a late report.
CONSTANTS
  a1 = a1
  Accounts = {a1}
  Ids = {1, 2, 3, 4}
  MaxAt = 3
  Limit = 3
  MaxCluster = 2
  SendFeeds = {}
  ThreadReadFails = FALSE
  BootstrapFails = TRUE
  MaxResets = 1
  MaxFaults = 2
  MaxLate = 1
SPECIFICATION FairSpec
INVARIANTS ThreadAlreadyDelivered
PROPERTIES CatchesUp
