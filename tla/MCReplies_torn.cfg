\* A reply linked between the two queries of its campaign is skipped for ever.
CONSTANTS
  m1 = m1
  m2 = m2
  p1 = p1
  Campaigns = {1}
  People = {p1}
  Messages = {m1, m2}
  Tardy = {}
  MaxNow = 3
  MaxResults = 1
  MaxCluster = 1
  Limit = 2
  Schemas = {{"links", "steps", "history", "chat"}}
  Probed = {}
  MaxMisreads = 0
  MaxRestarts = 0
SPECIFICATION Spec
INVARIANTS NoneSkipped
