\* One account: a configuration error ends the service.
CONSTANTS
  a1 = a1
  Accounts = {a1}
  Offered = {4}
  NumCPU = 1
  MinInterval = 2
  MaxInterval = 4
  DefaultInterval = 3
  MaxUnread = 0
SPECIFICATION FairServiceSpec
PROPERTIES ErrorExitRecovers
