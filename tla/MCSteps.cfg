\* Two messages and two checks, three results, an edit and a fault at any point.
CONSTANTS
  invite = invite
  message = message
  check = check
  recheck = recheck
  p1 = p1
  Actions = {invite, message, check, recheck}
  Messaging = {invite, message}
  WaitMs <- Waits
  Designs <- SomeDesigns
  People = {p1}
  Limit = 2
  MaxResults = 3
  MaxEdits = 1
  MaxFaults = 1
SPECIFICATION FairSpec
INVARIANTS LastingInv LastingSendsKept Aligned WaitsKept AnswersCounted
PROPERTIES ComesToAgree
