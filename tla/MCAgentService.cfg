\* Two accounts on one processor; the service is started, stopped, and crashes, also
\* while the identity file is written, and once that file cannot be read.
CONSTANTS
  a1 = a1
  a2 = a2
  Accounts = {a1, a2}
  Offered = {0, 9}
  NumCPU = 1
  MinInterval = 2
  MaxInterval = 4
  DefaultInterval = 3
  MaxUnread = 1
SPECIFICATION FairServiceSpec
INVARIANTS ServiceInv StoppedIsClean QuietOnlyWhenAsked OneIdentity OffFilesBetweenCycles Bounded PeriodInForce
PROPERTIES StopIsAnswered CycleEnds
