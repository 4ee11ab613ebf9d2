CONSTANTS
  Client = {c1, c2}
  Session = {s1}
  None = None
  MaxRequests <- Requests
  Busy = {}
  LossSilent = TRUE
SPECIFICATION FairSpec
PROPERTY EveryLossHandled
CHECK_DEADLOCK FALSE
