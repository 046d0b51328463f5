\* Replies of two accounts whose answers cross; one fault or crash.
CONSTANTS
  a1 = a1
  a2 = a2
  Accounts = {a1, a2}
  Ids = {1, 2, 3}
  MaxAt = 3
  Limit = 2
  MaxCluster = 1
  SendFeeds = {}
  ThreadReadFails = FALSE
  BootstrapFails = TRUE
  MaxResets = 0
  MaxFaults = 1
  MaxLate = 0
SPECIFICATION FairSpec
INVARIANTS MirrorNotBehindCycle
PROPERTIES CatchesUp GaplessSpec
