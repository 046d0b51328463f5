\* Two campaigns, one person, three messages that LH links when it mirrors them: one
\* cut by a query may lie beside one the merge keeps.  LH is upgraded, and the agent
\* restarted, with one of them.
CONSTANTS
  m1 = m1
  m2 = m2
  m3 = m3
  p1 = p1
  Campaigns = {1, 2}
  People = {p1}
  Messages = {m1, m2, m3}
  Tardy = {}
  MaxNow = 3
  MaxResults = 2
  MaxCluster = 1
  Limit = 1
  Schemas = {{"links", "steps", "history"}, {"links", "steps", "history", "chat"}}
  Probed = {}
  MaxMisreads = 0
  MaxRestarts = 1
SYMMETRY MessageSymmetry
CONSTRAINT OneIfDisturbed
SPECIFICATION Spec
INVARIANTS RepliesInv StaysPut OneCampaign NothingElseSkipped
