\* A send feed and a reply feed whose answers cross; resets and deletions.
CONSTANTS
  a1 = a1
  a2 = a2
  Accounts = {a1, a2}
  Ids = {1, 2}
  MaxAt = 2
  Limit = 1
  MaxCluster = 2
  SendFeeds = {a1}
  ThreadReadFails = TRUE
  BootstrapFails = TRUE
  MaxResets = 1
  MaxFaults = 0
  MaxLate = 0
SPECIFICATION Spec
INVARIANTS Inductive NoSkip MirrorNotBehindCycle
PROPERTIES RegisterBeforeFeed
