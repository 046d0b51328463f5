\* Four attempts; the platform and the network do as they like.
CONSTANTS
  MaxRetries = 3
  RequestTimeout = 120
  BaseBackoff = 4
  MaxBackoff = 120
  Slack = 84
  Deadlines <- MCDeadlines
  Begins <- MCBegins
  Durations <- MCDurations
SPECIFICATION FairSpec
INVARIANTS CallInv TakesOneAnswer GivesUpLast RetriesFit
PROPERTY Retried
CHECK_DEADLOCK FALSE
