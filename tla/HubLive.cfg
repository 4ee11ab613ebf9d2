CONSTANTS
  Client = {c1, c2}
  Session = {s1}
  None = None
  MaxRequests <- Requests
  Busy = {c1}
  LossSilent = FALSE
SPECIFICATION FairSpec
PROPERTY EveryLossHandled
PROPERTY MembersToldOfClose
PROPERTY JoinAnnounced
PROPERTY RequestsAnswered
CHECK_DEADLOCK FALSE
