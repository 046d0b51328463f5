\* Two accounts whose answers cross; two edits, a deletion, a fault, a late report.
CONSTANTS
  a1 = a1
  a2 = a2
  Accounts = {a1, a2}
  MaxEdits = 2
  BootstrapFails = TRUE
  MaxDeletes = 1
  MaxFaults = 1
  MaxLate = 1
SPECIFICATION FairSpec
INVARIANTS AllFresh MessagesOfVersion
PROPERTIES Converges Settles
