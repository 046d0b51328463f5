\* One campaign, a message LH may link late, a database with or without the chat
\* store: LH is upgraded, probes fail, and the agent is restarted.  Probed leaves the
\* linked replies without their thread's tables, with the chat or nothing, or the
\* manual ones only; the profile that allows no query comes with the schema {}.
CONSTANTS
  m1 = m1
  m2 = m2
  p1 = p1
  Campaigns = {1}
  People = {p1}
  Messages = {m1, m2}
  Tardy = {m2}
  MaxNow = 3
  MaxResults = 1
  MaxCluster = 1
  Limit = 2
  Schemas = {{}, {"links", "steps", "history"}, {"links", "steps", "history", "chat"}}
  Probed = {{"links", "steps"}, {"links", "steps", "chat"}, {"links", "history", "chat"}}
  MaxMisreads = 1
  MaxRestarts = 1
SPECIFICATION ThreadsSpec
INVARIANTS NothingElseSkipped ThreadHoldsReply
PROPERTY AllArrive
